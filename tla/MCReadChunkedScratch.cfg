CONSTANTS
    Readers = {t1}
    Requests <- CdRequests
    Limits = {8300}
    Forms = {"form2"}
    BadSectors <- MCBadSectors
    MaxTransfer = 16500
    MinTransfer = 2400
    MaxFaults = 0
    MaxSwaps = 0
    None = None
SPECIFICATION Spec
INVARIANT ScratchLeavesSizeAlone
