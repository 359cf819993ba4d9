\* One instance: a managed and an unmanaged channel.
CONSTANTS
    NumInstances = 1
    LastChans = 2
    NumChans <- MCNumChans
    Unmanaged <- LastUnmanaged
    QueueCap = 2
    Line <- OwnLine
    Budget = 2
SPECIFICATION FairSpec
INVARIANTS BudgetOverrun
PROPERTIES NoStarvation
