SPECIFICATION Spec
CONSTANTS
    FileLen = 60
    SeqSpace = 256
    BufSize = 50
    RecvWin = 4
    Proxied = TRUE
    Faults <- LostData
    MaxFaults = 1
    ReceiverFirst = TRUE
    FreshHeap = TRUE
INVARIANTS
    NoUndefinedBehaviour
