\* One direction; two pools, one of them with two buffers; either side restarts
\* when no buffer is in use.
CONSTANTS
    m1 = m1
    m2 = m2
    NumPools = 2
    FirstBufs = 2
    NumBufs <- MCNumBufs
    BufSize <- MCBufSize
    PoolOffset <- MCPoolOffset
    ShmAddr <- MCShmAddr
    ShmSize = 36
    Sizes = {2, 4}
    Msg = {m1, m2}
    Senders = {0}
    Restarters = {0, 1}
    AllReturned = TRUE
SPECIFICATION RestartSpec
INVARIANTS Conservation NeverRefused
PROPERTIES ImplementsLedger
