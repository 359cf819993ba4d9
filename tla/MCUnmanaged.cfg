\* Both directions; restarts of either side, also under a transmission.
CONSTANTS
    CountMod = 3
    MaxRestarts = 2
    Restarters = {0, 1}
    Overlap = {"tx"}
SPECIFICATION FairSpec
INVARIANTS CountsUnseen
PROPERTIES BothComeUp
