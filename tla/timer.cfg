SPECIFICATION TimedSpec
CONSTANTS
    FileLen = 3
    SeqSpace = 8
    BufSize = 5
    RecvWin = 2
    Proxied = FALSE
    Faults <- LostOrCut
    MaxFaults = 1
    ReceiverFirst = TRUE
    FreshHeap = TRUE
    Wrap = 8
    Delay = 2
    Ticks <- OneOrThree
    MaxNow = 14
PROPERTIES
    NoTimerIsMissed
    EarlyRepeatsAreExplained
