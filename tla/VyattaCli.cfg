CONSTANT MaxBacklog = 1
SPECIFICATION Spec
INVARIANTS TypeOK AtMostOneReplyBehind EnterModeLands
PROPERTIES CommandInRequestedMode ChangesSurvive
CHECK_DEADLOCK TRUE
