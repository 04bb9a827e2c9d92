\* Seven characters hold an echoed line, a line of output, both with their
\* line ends, and the prompt cut anywhere.
CONSTANT MaxLength = 7
SPECIFICATION Spec
INVARIANTS TypeOK MatchesAsPromptArrives NothingLost ChunksInvisible
CHECK_DEADLOCK FALSE
