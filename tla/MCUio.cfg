\* Two instances, one of them with traffic and an interrupt or polled; a budget of one message makes the thread go round.
CONSTANTS
    NumInstances = 2
    QueueCap = 2
    Budget = 1
    PolledSets = {{}, {0}, {1}}
    Senders = {0}
    Faults = {"load", "mmap", "register", "open", "channels", "unload"}

SPECIFICATION FairSpec

INVARIANTS
    HeldMatch
    WakeupPending
    LineComesBack

PROPERTIES
    CallsReturn
    Served
