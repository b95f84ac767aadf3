SPECIFICATION Spec
CONSTANTS
    SeqMod = 4
    MaxPending = 3
    MessageMax = 2
    BlockLens = {1, 2}
    ReceiveWindow = 4
    StartSeqs = {1}
    NotifyBlocks = {3}
    TxCap = 1
    MaxSeq = 5
    WireCap = 3
    MaxLoss = 1
    MaxResp = 1
    MaxReset = 1
INVARIANTS
    HostConsistent
    WindowRespected
 
CHECK_DEADLOCK FALSE
