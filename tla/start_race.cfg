SPECIFICATION Spec
CONSTANTS
    FileLen = 2
    SeqSpace = 256
    BufSize = 50
    RecvWin = 4
    Proxied = FALSE
    Faults <- NoFault
    MaxFaults = 0
    ReceiverFirst = FALSE
    FreshHeap = TRUE
INVARIANTS
    SuccessMeansComplete
