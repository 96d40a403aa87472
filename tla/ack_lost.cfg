SPECIFICATION Spec
CONSTANTS
    FileLen = 2
    SeqSpace = 256
    BufSize = 50
    RecvWin = 4
    Proxied = TRUE
    Faults <- LostAck
    MaxFaults = 1
    ReceiverFirst = TRUE
    FreshHeap = TRUE
INVARIANTS
    OutputIsPrefix
