SPECIFICATION FairSpec
CONSTANTS
    SeqMod = 3
    MaxPending = 2
    MessageMax = 1
    BlockLens = {1}
    ReceiveWindow = 0
    StartSeqs = {1, 3}
    NotifyBlocks = {2}
    TxCap = 2
    MaxSeq = 4
    WireCap = 3
    MaxLoss = 2
    MaxResp = 1
    MaxReset = 0
PROPERTY EventuallyAnswered
CHECK_DEADLOCK FALSE
