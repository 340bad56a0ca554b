CONSTANTS
    Threads = {t1}
    Kinds = {"read", "key"}
    MaxRetries = 3
    WaitPolls = 2
    MaxEvents = 4
    None = None
SPECIFICATION Spec
INVARIANT SwapIsAlwaysReported
