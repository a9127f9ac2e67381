SPECIFICATION FairSpec
CONSTANTS
    s1 = s1
    s2 = s2
    s3 = s3
    Other = Other
    None = None
    Setups = {s1, s2, s3}
    Android = {s1, s2}
    Faulty = {s2}
    Rejections = TRUE
INVARIANTS LockCoversUse NothingIsLeft
PROPERTIES LocksAreGivenUp ImplementsMutex DisposedOnce
CHECK_DEADLOCK FALSE
