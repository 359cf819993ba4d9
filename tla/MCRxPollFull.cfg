\* A polled instance with an unmanaged channel and the budget of the code.
CONSTANTS
    NumInstances = 1
    LastChans = 1
    NumChans <- MCNumChans
    Unmanaged <- LastUnmanaged
    QueueCap = 1
    Line <- NoLine
    Budget = 128
SPECIFICATION PollSpec
INVARIANTS PollCounts
