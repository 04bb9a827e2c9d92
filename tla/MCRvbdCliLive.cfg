\* Only the deepest mode, nothing late between calls: enough for every
\* handler to nest in every other.
CONSTANTS
  MaxBacklog = 0
  UserModes = {"config"}
SPECIFICATION FairSpec
PROPERTIES CallsReturn
CHECK_DEADLOCK TRUE
