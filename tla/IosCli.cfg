\* Two interfaces, so that a command can be run on the wrong one.
CONSTANTS
  MaxBacklog = 1
  Interfaces = {"interface a", "interface b"}
SPECIFICATION Spec
INVARIANTS TypeOK ConversationInStep EnterModeLands
PROPERTIES CommandInRequestedMode ImplementsService
CHECK_DEADLOCK TRUE
