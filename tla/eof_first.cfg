SPECIFICATION Spec
CONSTANTS
    FileLen = 2
    SeqSpace = 256
    BufSize = 50
    RecvWin = 4
    Proxied = TRUE
    Faults <- LostData
    MaxFaults = 1
    ReceiverFirst = TRUE
    FreshHeap = TRUE
INVARIANTS
    CloseMeansComplete
