SPECIFICATION Spec
CONSTANTS
    Writers = {w1, w2}
    w1 = w1
    w2 = w2
    WaitMsgs = 2
    WaitBufs = 2
    MaxInterrupts = 2
    MaxTxErrors = 1
    Instances = {0, 1, 2}
    Polled = {2}
    UserMsgs = 3
    UserBufs = 2
    MaxSignals = 2
    XenMsgs = 3
    MaxPings = 2
    XenBufs = 1
INVARIANTS
    CompletionBalance
    EchoMatches
    CleanPrompt
    RepliesAfterAll
PROPERTIES
    WaitReturns
    GracefulExit
    PingReturns
CHECK_DEADLOCK FALSE
