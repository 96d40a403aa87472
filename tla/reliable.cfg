SPECIFICATION FairSpec
CONSTANTS
    FileLen = 40
    SeqSpace = 16
    BufSize = 8
    RecvWin = 4
    Proxied = FALSE
    Faults <- Stopped
    MaxFaults = 1
    ReceiverFirst = TRUE
    FreshHeap = TRUE
INVARIANTS
    TypeOK
    NoUndefinedBehaviour
    ListIsContiguous
    NoOverrun
PROPERTIES
    ImplementsFileTransfer
    Terminates
    SenderNoticesDeath
    ReceiverNoticesDeath
CHECK_DEADLOCK FALSE
