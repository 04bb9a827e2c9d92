CONSTANTS
  MaxBacklog = 1
  UserModes = {"enable"}
SPECIFICATION Spec
PROPERTIES ResentCommandInRequestedMode
