\* Ten lines hold the mailboxes and the addresses of two regions, and a
\* section visited twice.
CONSTANTS
  Regions = {"r1", "r2"}
  Mailboxes = {"m1", "m2"}
  Ips = {"i1", "i2"}
  MaxLines = 10
SPECIFICATION SaasSpec
INVARIANTS SaasTypeOK FiledAsPrinted RefusedForRegion
CHECK_DEADLOCK FALSE
