\* One direction in use; enough values to tell every slot from the others.
CONSTANTS
    e1 = e1
    e2 = e2
    e3 = e3
    Elem = {e1, e2, e3}
    ElemNum = 2
    QueueType = "IPC_SHM_CHANNEL_QUEUE"
    Pushers = {0}
SPECIFICATION FairSpec
INVARIANTS TypeOK SlotExclusion PublishedIsWhole CachedIndexes
PROPERTIES ImplementsFifo CallsReturn
