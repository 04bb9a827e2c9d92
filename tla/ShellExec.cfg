CONSTANT MaxRetryCount = 2
SPECIFICATION FairSpec
INVARIANTS TypeOK CommandAtMostOnce RefusedLoginIsDropped SuccessIsReal
PROPERTY CallsReturn
CHECK_DEADLOCK TRUE
