CONSTANTS
    Threads = {t1, t2, t3}
    Tokens = {fd1, fd2}
    StrayTokens = {}
    Devices = {d1}
    MaxDevices = 1
    LateQueuers = FALSE
    None = None
SPECIFICATION FairSpec
INVARIANTS TypeOK HeldClaimKeepsDevice NoTransferOnClosedHandle UnwindIsExact DetachedThenDeclinedIsHandedBack
PROPERTIES ImplementsClaims RegistryLockIsFreed
