\* Two instances, each with a line of its own.
CONSTANTS
    NumInstances = 2
    LastChans = 1
    NumChans <- MCNumChans
    Unmanaged <- NoneUnmanaged
    QueueCap = 1
    Line <- OwnLine
    Budget = 1
SPECIFICATION Spec
INVARIANTS WakeupPending LineComesBack
