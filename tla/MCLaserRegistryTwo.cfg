CONSTANTS
    Threads = {t1, t2}
    Tokens = {fd1, fd2}
    StrayTokens = {fd9}
    Devices = {d1, d2}
    MaxDevices = 2
    LateQueuers = FALSE
    None = None
SPECIFICATION Spec
INVARIANTS OneEntryPerToken ClaimIsOnOwnDevice
SYMMETRY Symmetry
