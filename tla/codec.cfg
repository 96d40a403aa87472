SPECIFICATION Spec
CONSTANTS
    FileLen = 258
    SeqSpace = 256
    BufSize = 50
    RecvWin = 4
    MaxBuffer = 28
    PktSize = 24
    MaxPayload = 512
    Ids <- SomeIds
    LastLen = 2
    Stamps <- TwoStamps
    FreshLengths <- SomeLengths
    MaxDatagrams = 3
INVARIANTS
    DecodesWhatWasSent
    StaysInBuffer
    ReceiverFreesItsOwn
    SenderFreesItsOwn
