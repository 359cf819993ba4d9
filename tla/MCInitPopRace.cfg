\* One restart of the pushing side while its peer pops.
CONSTANTS
    b0 = b0
    b1 = b1
    Elem = {b0, b1}
    ElemNum = 1
    QueueType = "IPC_SHM_CHANNEL_QUEUE"
    Pushers = {0}
    Bd <- MCBd
    Restarters = {0}
    MaxRestarts = 1
    Overlap = {"pop"}
SPECIFICATION LifeSpec
INVARIANTS Agreement
