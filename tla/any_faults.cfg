SPECIFICATION Spec
CONSTANTS
    FileLen = 4
    SeqSpace = 12
    BufSize = 9
    RecvWin = 3
    Proxied = FALSE
    Faults <- AnyFault
    MaxFaults = 3
    ReceiverFirst = FALSE
    FreshHeap = FALSE
INVARIANTS
    WindowIsHonest
    ScanStaysInList
    AckIsAccepted
    ReleasedIsAccepted
CHECK_DEADLOCK FALSE
