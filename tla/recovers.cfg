SPECIFICATION FairSpec
CONSTANTS
    FileLen = 9
    SeqSpace = 32
    BufSize = 16
    RecvWin = 4
    Proxied = TRUE
    Faults <- Mishaps
    MaxFaults = 1
    ReceiverFirst = TRUE
    FreshHeap = TRUE
INVARIANTS
    NoUndefinedBehaviour
    OutputIsPrefix
    NoOverrun
PROPERTIES
    Delivers
