SPECIFICATION Spec
CONSTANTS
    SeqMod = 3
    MaxPending = 2
    MessageMax = 1
    BlockLens = {1}
    ReceiveWindow = 0
    StartSeqs = {1, 2, 3}
    NotifyBlocks = {3, 4}
    TxCap = 2
    MaxSeq = 6
    WireCap = 3
    MaxLoss = 1
    MaxResp = 1
    MaxReset = 0
INVARIANTS
    DispatchedOnceInOrder
    AckedWasDispatched
    AnswersTruthful
    NoNeedlessFastRetransmit
PROPERTY ImplementsStream
CHECK_DEADLOCK FALSE
