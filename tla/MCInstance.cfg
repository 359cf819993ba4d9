\* One managed channel with one pool of one buffer; three restarts.
CONSTANTS
    NumChannels = 1
    NumPools = 1
    ElemNum = 1
    Restarters = {0, 1}
    MaxRestarts = 3

SPECIFICATION FairSpec

INVARIANTS
    ReadyIsUsable
    Agreement
    NeverFull

PROPERTIES
    BothComeUp
