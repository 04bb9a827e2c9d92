\* Nine places hold two headers and two fields of two words each, cut and
\* shifted against the headers in every way.
CONSTANT Width = 9
SPECIFICATION Spec
INVARIANTS TypeOK RowIsLine FiledBelowHeader MostTidyLinesParse
CHECK_DEADLOCK FALSE
