CONSTANTS
    Threads = {t1}
    Kinds = {"read", "out"}
    MaxRetries = 3
    WaitPolls = 2
    MaxEvents = 2
    None = None
SPECIFICATION FairSpec
PROPERTY IoLockIsFreed
