CONSTANTS
    Threads = {t1, t2, t3}
    Tokens = {fd1}
    StrayTokens = {}
    Devices = {d1}
    MaxDevices = 1
    LateQueuers = TRUE
    None = None
SPECIFICATION Spec
INVARIANT NoTransferOnClosedHandle
