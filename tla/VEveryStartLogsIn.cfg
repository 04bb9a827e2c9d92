CONSTANT MaxUnread = 2
SPECIFICATION Spec
PROPERTY EveryStartLogsIn
CHECK_DEADLOCK TRUE
