SPECIFICATION FairSpec
CONSTANTS
    FileLen = 2
    SeqSpace = 32
    BufSize = 16
    RecvWin = 4
    Proxied = TRUE
    Faults <- NoFault
    MaxFaults = 0
    ReceiverFirst = TRUE
    FreshHeap = TRUE
PROPERTIES
    SenderReturns
