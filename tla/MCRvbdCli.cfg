\* Every method in every mode; one answer of an earlier call may be late.
CONSTANTS
  MaxBacklog = 1
  UserModes = {"normal", "enable", "config", "shell", "subif"}
SPECIFICATION Spec
INVARIANTS TypeOK ConversationInStep EnterModeLands
           RestartsBounded
PROPERTIES CommandInRequestedMode NoSilentRelogin TimeoutEndsCall ImplementsService
CHECK_DEADLOCK TRUE
