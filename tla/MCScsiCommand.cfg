CONSTANTS
    Threads = {t1, t2}
    Kinds = {"read", "key"}
    MaxRetries = 3
    WaitPolls = 1
    MaxEvents = 3
    None = None
SPECIFICATION Spec
INVARIANTS TypeOK NotRepeated DeliveriesAreBounded RefusalIsExplained SwapIsReported AnsweringDeviceIsNotGone
SYMMETRY Symmetry
