\* A pool queue of the one buffer descriptor b0; two restarts, of either side,
\* while the peer is quiet.
CONSTANTS
    b0 = b0
    b1 = b1
    Elem = {b0}
    ElemNum = 1
    QueueType = "IPC_SHM_POOL_QUEUE"
    Pushers = {0}
    Bd <- MCBd
    Restarters = {0, 1}
    MaxRestarts = 2
    Overlap = {}
SPECIFICATION FairLifeSpec
INVARIANTS Agreement
PROPERTIES BothComeUp
