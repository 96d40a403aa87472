SPECIFICATION Spec
CONSTANTS
    PerSec = 3
    Retry = 2
    MaxLate = 1
    delay = 4
    jitter = 2
    loss_rate = 10
    link_direction <- Forward
    MaxPkts = 3
    MaxClock = 3
    MaxBlocks = 1
INVARIANTS
    LinkTypeOK
    OnlyJitterReorders
    WrittenOnce
    NothingVanishes
    OneConnection
    LessThanASecondEarly
    LessThanASecondLate
