CONSTANTS
    Threads = {t1, t2}
    Registrar = registrar
    Drives <- MCDrives
    Discs <- MCDiscs
    SpinUpMax = 3
    BecomingMax = 4
    NoMediumMax = 2
    TimeOut = 1
    MaxUnitAttentions = 1
    MaxEvents = 1
    MaxLunProbed = 1
    InquiryAttempts = 2
    None = None
SPECIFICATION FairSpec
INVARIANTS TypeOK DriveIsFound ParkedDiscIsAsked WaitIsBounded KindIsOfTheDisc
PROPERTY IdentifyEnds
CHECK_DEADLOCK FALSE
