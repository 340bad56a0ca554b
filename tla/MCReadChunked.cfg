CONSTANTS
    Readers = {t1, t2}
    Requests <- MCRequests
    Limits = {3000, 5000, 8300, 16500}
    Forms = {"form1", "form2"}
    BadSectors <- MCBadSectors
    MaxTransfer = 16500
    MinTransfer = 4800
    MaxFaults = 1
    MaxSwaps = 1
    None = None
SPECIFICATION Spec
INVARIANTS TypeOK ReturnedBlocksAreRead MixedReadWasTold WalkStaysOnOneDisc HealthyBridgeKeepsItsSize
PROPERTIES CapOnlyShrinks EveryTurnProgresses
SYMMETRY Symmetry
