CONSTANT MaxUnread = 1
SPECIFICATION FairSpec
INVARIANTS TypeOK
PROPERTIES LoggedInOnReturn PasswordAnswersPrompt EofEndsCall
CHECK_DEADLOCK TRUE
