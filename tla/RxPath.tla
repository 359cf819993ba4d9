------------------------------- MODULE RxPath -------------------------------
(***************************************************************************)
(* How messages reach the receive callbacks of one side: the remote pushes *)
(* and raises the inter-core interrupt (the end of ipc_shm_tx and          *)
(* ipc_shm_unmanaged_tx), the interrupt handler and the tasklet of         *)
(* src/os_kernel/ipc-os.c take turns, and ipc_shm_rx of src/ipc-shm.c goes *)
(* through the channels within its budget.  An instance without a receive  *)
(* interrupt is polled by ipc_shm_poll_channels instead.                   *)
(*                                                                         *)
(* A managed channel is the number of messages in its queue; an unmanaged  *)
(* one holds 1 when its Tx counter has changed since the last callback.    *)
(* The interrupt controller latches a notification until it is cleared,    *)
(* and interrupts while the line is enabled.  Handler, tasklet, pollers    *)
(* and remote may run on different cores: their steps interleave freely.   *)
(***************************************************************************)
EXTENDS Integers, FiniteSets

CONSTANTS
    NumInstances,   \* IPC_SHM_MAX_INSTANCES
    NumChans,       \* num_channels, by instance
    Unmanaged,      \* the channels <<i, c>> that are unmanaged
    QueueCap,       \* how many messages a managed channel can hold
    Line,           \* the interrupt line of an instance, or IPC_IRQ_NONE
    Budget          \* IPC_SOFTIRQ_BUDGET

IPC_IRQ_NONE == -1

Instance == 0..(NumInstances - 1)

Chan(i) == 0..(NumChans[i] - 1)

Channel == UNION {{i} \X Chan(i) : i \in Instance}

Lines == {Line[i] : i \in Instance} \ {IPC_IRQ_NONE}

ASSUME RxAssumption ==
    /\ NumInstances \in Nat \ {0}
    /\ NumChans \in [Instance -> Nat \ {0}]
    /\ Line \in [Instance -> Nat \cup {IPC_IRQ_NONE}]
    /\ Budget \in Nat \ {0}
    /\ QueueCap \in Nat \ {0}
    /\ Unmanaged \subseteq Channel

VARIABLES
    state,      \* state[i]: how far ipc_shm_init_instance has come
    pending,    \* pending[ch]: messages waiting in channel ch
    remote,     \* remote[ch]: where the remote is in a Tx on channel ch
    notified,   \* notified[l]: the notification latched for line l
    enabled,    \* enabled[l]: line l is routed to this side
    hardirq,    \* hardirq[l]: position of the interrupt handler of line l
    scheduled,  \* the tasklet is scheduled
    softirq,    \* position of the tasklet: its instance, or Idle
    rx,         \* rx[i]: the ipc_shm_rx call in progress for instance i
    polling,    \* polling[i]: ipc_shm_poll_channels is running
    pollRet     \* pollRet[i]: what it answered last

hw == <<notified, enabled>>
poll == <<polling, pollRet>>
vars == <<state, pending, remote, hw, hardirq, scheduled, softirq, rx, poll>>

Idle == -1

\* ipc_shm_rx is not running; work is what it returned, msgs the number of
\* callbacks it made.
RxOff == [on |-> FALSE, chan_id |-> 0, chan_budget |-> 0, chan_work |-> 0,
          work |-> 0, more_work |-> FALSE, msgs |-> 0]

\* No instance is initialised, and all interrupts are disabled.
Init ==
    /\ state = [i \in Instance |-> "DISABLED"]
    /\ pending = [ch \in Channel |-> 0]
    /\ remote = [ch \in Channel |-> "idle"]
    /\ notified = [l \in Lines |-> FALSE]
    /\ enabled = [l \in Lines |-> FALSE]
    /\ hardirq = [l \in Lines |-> Idle]
    /\ scheduled = FALSE
    /\ softirq = Idle
    /\ rx = [i \in Instance |-> RxOff]
    /\ polling = [i \in Instance |-> FALSE]
    /\ pollRet = [i \in Instance |-> 0]

EnableLine(i) ==
    enabled' = IF Line[i] = IPC_IRQ_NONE THEN enabled
               ELSE [enabled EXCEPT ![Line[i]] = TRUE]

\* The handler and the tasklet leave an instance out: priv.id[i].state is
\* IPC_SHM_INSTANCE_DISABLED, or there is no interrupt.
Skipped(i) == state[i] = "DISABLED" \/ Line[i] = IPC_IRQ_NONE

-----------------------------------------------------------------------------
(* ipc_shm_init_instance: ipc_hw_init and ipc_os_init; the channels, which     *)
(* are empty; then interrupts on; then READY.  One thread initialises the     *)
(* instances, in any order.                                                   *)

InitOs(i) ==
    /\ state[i] = "DISABLED"
    /\ \A j \in Instance : state[j] \in {"DISABLED", "READY"}
    /\ state' = [state EXCEPT ![i] = "CLEAR"]
    /\ UNCHANGED <<pending, remote, hw, hardirq, scheduled, softirq, rx, poll>>

InitEnable(i) ==
    /\ state[i] = "CLEAR"
    /\ state' = [state EXCEPT ![i] = "enabled"]
    /\ EnableLine(i)
    /\ UNCHANGED <<pending, remote, notified, hardirq, scheduled, softirq, rx,
                   poll>>

InitReady(i) ==
    /\ state[i] = "enabled"
    /\ state' = [state EXCEPT ![i] = "READY"]
    /\ UNCHANGED <<pending, remote, hw, hardirq, scheduled, softirq, rx, poll>>

-----------------------------------------------------------------------------
(* ipc_shm_tx and ipc_shm_unmanaged_tx on the remote *)

\* Mutant: a message may be sent before the receiver is ready.
TxAnytime(ch) ==
    /\ remote[ch] = "idle"
    /\ remote' = [remote EXCEPT ![ch] = "checked"]
    /\ UNCHANGED <<state, pending, hw, hardirq, scheduled, softirq, rx, poll>>

\* ipc_shm_is_remote_ready succeeds.
TxCheck(ch) ==
    /\ remote[ch] = "idle" /\ state[ch[1]] = "READY"
    /\ remote' = [remote EXCEPT ![ch] = "checked"]
    /\ UNCHANGED <<state, pending, hw, hardirq, scheduled, softirq, rx, poll>>

TxPush(ch) ==
    /\ remote[ch] = "checked"
    /\ ch \notin Unmanaged => pending[ch] < QueueCap
    /\ pending' = [pending EXCEPT ![ch] = IF ch \in Unmanaged THEN 1 ELSE @ + 1]
    /\ remote' = [remote EXCEPT ![ch] = "pushed"]
    /\ UNCHANGED <<state, hw, hardirq, scheduled, softirq, rx, poll>>

\* ipc_hw_irq_notify
TxNotify(ch) ==
    /\ remote[ch] = "pushed"
    /\ remote' = [remote EXCEPT ![ch] = "idle"]
    /\ notified' = IF Line[ch[1]] = IPC_IRQ_NONE THEN notified
                   ELSE [notified EXCEPT ![Line[ch[1]]] = TRUE]
    /\ UNCHANGED <<state, pending, enabled, hardirq, scheduled, softirq, rx, poll>>

-----------------------------------------------------------------------------
(* A remote that crashes and restarts *)

\* Wherever its Tx calls are; what it pushed stays in its memory.
RemoteCrash(i) ==
    /\ \E ch \in Channel : ch[1] = i /\ remote[ch] \in {"checked", "pushed"}
    /\ remote' = [ch \in Channel |-> IF ch[1] = i THEN "down" ELSE remote[ch]]
    /\ UNCHANGED <<state, pending, hw, hardirq, scheduled, softirq, rx, poll>>

\* Its ipc_queue_init takes this side's read index for its write index, and its
\* unmanaged channels the counter seen here: what was not received is dropped.
\* Not while ipc_shm_rx is at work, which the handshake does not protect.
RemoteRestart(i) ==
    /\ ~rx[i].on
    /\ \E ch \in Channel : ch[1] = i /\ remote[ch] = "down"
    /\ remote' = [ch \in Channel |-> IF ch[1] = i THEN "idle" ELSE remote[ch]]
    /\ pending' = [ch \in Channel |-> IF ch[1] = i THEN 0 ELSE pending[ch]]
    /\ UNCHANGED <<state, hw, hardirq, scheduled, softirq, rx, poll>>

-----------------------------------------------------------------------------
(* ipc_shm_hardirq *)

HardirqEnter(l) ==
    /\ hardirq[l] = Idle /\ notified[l] /\ enabled[l]
    /\ hardirq' = [hardirq EXCEPT ![l] = 0]
    /\ UNCHANGED <<state, pending, remote, hw, scheduled, softirq, rx, poll>>

\* Each instance that is not left out is disabled and then cleared: position
\* 2i is before the one, 2i+1 before the other.
HardirqDisable(l) ==
    LET i == hardirq[l] \div 2
    IN  /\ hardirq[l] \in 0..(2 * NumInstances - 1) /\ hardirq[l] % 2 = 0
        /\ hardirq' = [hardirq EXCEPT ![l] = @ + (IF Skipped(i) THEN 2 ELSE 1)]
        /\ enabled' = IF Skipped(i) THEN enabled
                      ELSE [enabled EXCEPT ![Line[i]] = FALSE]
        /\ UNCHANGED <<state, pending, remote, notified, scheduled, softirq, rx,
                       poll>>

HardirqClear(l) ==
    LET i == hardirq[l] \div 2
    IN  /\ hardirq[l] \in 0..(2 * NumInstances - 1) /\ hardirq[l] % 2 = 1
        /\ hardirq' = [hardirq EXCEPT ![l] = @ + 1]
        /\ notified' = [notified EXCEPT ![Line[i]] = FALSE]
        /\ UNCHANGED <<state, pending, remote, enabled, scheduled, softirq, rx,
                       poll>>

HardirqExit(l) ==
    /\ hardirq[l] = 2 * NumInstances
    /\ hardirq' = [hardirq EXCEPT ![l] = Idle]
    /\ scheduled' = TRUE
    /\ UNCHANGED <<state, pending, remote, hw, softirq, rx, poll>>

-----------------------------------------------------------------------------
(* ipc_shm_rx *)

\* Mutant: what is left of the budget is not shared among the channels.
ChanBudgetWhole(i, work) == Budget - work

\* max(1, (budget - work) / num_chans)
ChanBudget(i, work) ==
    LET share == (Budget - work) \div NumChans[i]
    IN  IF share = 0 THEN 1 ELSE share

\* A call for an instance that is not in use returns 0 at once.
RxBegin(i) ==
    rx' = [rx EXCEPT ![i] =
             [RxOff EXCEPT !.on = (state[i] = "READY"),
                             !.chan_budget = ChanBudget(i, 0)]]

\* One message of a managed channel is popped and given to its callback.
RxManaged(i) ==
    LET ch == <<i, rx[i].chan_id>>
    IN  /\ rx[i].on /\ ch \notin Unmanaged
        /\ rx[i].chan_work < rx[i].chan_budget /\ pending[ch] > 0
        /\ pending' = [pending EXCEPT ![ch] = @ - 1]
        /\ rx' = [rx EXCEPT ![i].chan_work = @ + 1, ![i].msgs = @ + 1]
        /\ UNCHANGED <<state, remote, hw, hardirq, scheduled, softirq, poll>>

\* The callback of an unmanaged channel uses up the budget of the channel.
RxUnmanaged(i) ==
    LET ch == <<i, rx[i].chan_id>>
    IN  /\ rx[i].on /\ ch \in Unmanaged
        /\ rx[i].chan_work = 0 /\ pending[ch] > 0
        /\ pending' = [pending EXCEPT ![ch] = 0]
        /\ rx' = [rx EXCEPT ![i].chan_work = rx[i].chan_budget, ![i].msgs = @ + 1]
        /\ UNCHANGED <<state, remote, hw, hardirq, scheduled, softirq, poll>>

\* The channel has nothing more or has used its budget: on to the next one,
\* after the last one to the next round or back to the caller.
RxNextChan(i) ==
    LET r == rx[i]
        work == r.work + r.chan_work
        more == r.more_work \/ r.chan_work = r.chan_budget
        last == r.chan_id + 1 = NumChans[i]
        again == last /\ work < Budget /\ more
    IN  /\ r.on
        /\ r.chan_work = r.chan_budget \/ pending[<<i, r.chan_id>>] = 0
        /\ rx' = [rx EXCEPT ![i] =
              [r EXCEPT !.on = ~last \/ again,
                        !.chan_id = IF last THEN 0 ELSE r.chan_id + 1,
                        !.chan_budget = IF again THEN ChanBudget(i, work)
                                        ELSE r.chan_budget,
                        !.chan_work = 0,
                        !.work = work,
                        !.more_work = more /\ ~last]]
        /\ UNCHANGED <<state, pending, remote, hw, hardirq, scheduled, softirq,
                       poll>>

-----------------------------------------------------------------------------
(* ipc_shm_softirq: position 3i is before ipc_shm_rx for instance i, 3i+1     *)
(* before the test of its result, 3i+2 before the last ipc_hw_irq_enable.     *)

SoftirqEnter ==
    /\ scheduled /\ softirq = Idle
    /\ scheduled' = FALSE
    /\ softirq' = 0
    /\ UNCHANGED <<state, pending, remote, hw, hardirq, rx, poll>>

SoftirqRx ==
    LET i == softirq \div 3
    IN  /\ softirq \in 0..(3 * NumInstances - 1) /\ softirq % 3 = 0
        /\ IF Skipped(i)
           THEN softirq' = softirq + 3 /\ UNCHANGED rx
           ELSE softirq' = softirq + 1 /\ RxBegin(i)
        /\ UNCHANGED <<state, pending, remote, hw, hardirq, scheduled, poll>>

\* If the full budget was used, the tasklet is scheduled again.
SoftirqTest ==
    LET i == softirq \div 3
    IN  /\ softirq \in 0..(3 * NumInstances - 1) /\ softirq % 3 = 1 /\ ~rx[i].on
        /\ softirq' = softirq + 1
        /\ IF rx[i].work >= Budget
           THEN scheduled' = TRUE /\ UNCHANGED enabled
           ELSE EnableLine(i) /\ UNCHANGED scheduled
        /\ UNCHANGED <<state, pending, remote, notified, hardirq, rx, poll>>

\* Mutant: the notification is cleared after the work instead of before it.
SoftirqEnableClears ==
    LET i == softirq \div 3
    IN  /\ softirq \in 0..(3 * NumInstances - 1) /\ softirq % 3 = 2
        /\ softirq' = softirq + 1
        /\ EnableLine(i)
        /\ notified' = [notified EXCEPT ![Line[i]] = FALSE]
        /\ UNCHANGED <<state, pending, remote, hardirq, scheduled, rx, poll>>

SoftirqEnable ==
    LET i == softirq \div 3
    IN  /\ softirq \in 0..(3 * NumInstances - 1) /\ softirq % 3 = 2
        /\ softirq' = softirq + 1
        /\ EnableLine(i)
        /\ UNCHANGED <<state, pending, remote, notified, hardirq, scheduled, rx,
                       poll>>

\* Mutant: being scheduled again while running is forgotten.
SoftirqExitDrops ==
    /\ softirq = 3 * NumInstances
    /\ softirq' = Idle
    /\ scheduled' = FALSE
    /\ UNCHANGED <<state, pending, remote, hw, hardirq, rx, poll>>

SoftirqExit ==
    /\ softirq = 3 * NumInstances
    /\ softirq' = Idle
    /\ UNCHANGED <<state, pending, remote, hw, hardirq, scheduled, rx, poll>>

-----------------------------------------------------------------------------
(* ipc_shm_poll_channels *)

\* The value a uint32_t has once it is returned as int8_t.
Int8(n) == ((n + 128) % 256) - 128

PollCall(i) ==
    /\ Line[i] = IPC_IRQ_NONE /\ state[i] = "READY" /\ ~polling[i]
    /\ RxBegin(i)
    /\ polling' = [polling EXCEPT ![i] = TRUE]
    /\ UNCHANGED <<state, pending, remote, hw, hardirq, scheduled, softirq, pollRet>>

PollReturn(i) ==
    /\ polling[i] /\ ~rx[i].on
    /\ polling' = [polling EXCEPT ![i] = FALSE]
    /\ pollRet' = [pollRet EXCEPT ![i] = Int8(rx[i].work)]
    /\ UNCHANGED <<state, pending, remote, hw, hardirq, scheduled, softirq, rx>>

-----------------------------------------------------------------------------
Hardirq(l) == HardirqEnter(l) \/ HardirqDisable(l) \/ HardirqClear(l) \/ HardirqExit(l)

Rx(i) == RxManaged(i) \/ RxUnmanaged(i) \/ RxNextChan(i)

Softirq ==
    \/ SoftirqEnter \/ SoftirqRx \/ SoftirqTest \/ SoftirqEnable \/ SoftirqExit

Next ==
    \/ \E i \in Instance :
          InitOs(i) \/ InitEnable(i) \/ InitReady(i) \/ Rx(i)
    \/ \E ch \in Channel : TxCheck(ch) \/ TxPush(ch) \/ TxNotify(ch)
    \/ \E l \in Lines : Hardirq(l)
    \/ Softirq

\* With instances that are polled.
PollNext == Next \/ \E i \in Instance : PollCall(i) \/ PollReturn(i)

Spec == Init /\ [][Next]_vars

PollSpec == Init /\ [][PollNext]_vars

\* With a remote that crashes.
CrashNext == Next \/ \E i \in Instance : RemoteCrash(i) \/ RemoteRestart(i)

\* Interrupts, the tasklet and a call of ipc_shm_rx go on, and a remote that has
\* pushed notifies unless it crashes; nobody has to send, to poll or to restart.
FairSpec ==
    /\ Init /\ [][CrashNext]_vars
    /\ \A i \in Instance : WF_vars(Rx(i))
    /\ \A ch \in Channel : WF_vars(TxNotify(ch))
    /\ \A l \in Lines : WF_vars(Hardirq(l))
    /\ WF_vars(Softirq)

-----------------------------------------------------------------------------
(* Properties *)

\* Queues stay within their capacity, and the handler and the tasklet within
\* their loops.
TypeOK ==
    /\ state \in [Instance -> {"DISABLED", "CLEAR", "enabled", "READY"}]
    /\ pending \in [Channel -> 0..QueueCap]
    /\ remote \in [Channel -> {"idle", "checked", "pushed", "down"}]
    /\ notified \in [Lines -> BOOLEAN]
    /\ enabled \in [Lines -> BOOLEAN]
    /\ hardirq \in [Lines -> Idle..(2 * NumInstances)]
    /\ scheduled \in BOOLEAN
    /\ softirq \in Idle..(3 * NumInstances)
    /\ rx \in [Instance -> [on : BOOLEAN, chan_id : Nat, chan_budget : Nat, chan_work : Nat,
                           work : Nat, more_work : BOOLEAN, msgs : Nat]]
    /\ polling \in [Instance -> BOOLEAN]

\* A round may use up more than what was left of the budget, as each channel is
\* given at least one message: by less than the number of channels.
BudgetOverrun ==
    \A i \in Instance : rx[i].work + rx[i].chan_work < Budget + NumChans[i]

\* The call of ipc_shm_rx in progress for channel ch still gets to it, or ends
\* with the tasklet scheduled again.
RxStillSees(ch) ==
    LET r == rx[ch[1]]
    IN  /\ softirq = 3 * ch[1] + 1
        /\ \/ r.on /\ ch[2] >= r.chan_id
           \/ r.on /\ (r.more_work \/ r.chan_work = r.chan_budget)
           \/ r.work >= Budget

\* No wakeup is lost: a message in a channel with an interrupt is always
\* followed by its notification, the handler, the tasklet, or a turn of the
\* tasklet that has not passed the channel yet.
WakeupPending ==
    \A ch \in Channel :
        pending[ch] > 0 /\ Line[ch[1]] # IPC_IRQ_NONE =>
            \/ remote[ch] = "pushed"
            \/ notified[Line[ch[1]]]
            \/ \E l \in Lines : hardirq[l] # Idle
            \/ scheduled
            \/ softirq # Idle /\ softirq <= 3 * ch[1]
            \/ RxStillSees(ch)

\* A line that is disabled is going to be enabled again: by the handler's
\* tasklet, or by what is left of the tasklet's turn.
LineComesBack ==
    \A i \in Instance :
        Line[i] # IPC_IRQ_NONE /\ state[i] \in {"enabled", "READY"}
        /\ ~enabled[Line[i]] =>
            \/ \E l \in Lines : hardirq[l] # Idle
            \/ scheduled
            \/ \E j \in Instance :
                  Line[j] = Line[i] /\ softirq # Idle /\ softirq <= 3 * j + 2

\* "all channels are treated equally and no channel is starving": whatever
\* traffic the others have and whatever crashes the remote has had before, a
\* channel with messages is served again and again.  Excepted is a remote that
\* is down, for good or again and again: it may have pushed and not notified.
NoStarvation ==
    \A ch \in Channel :
        Line[ch[1]] # IPC_IRQ_NONE =>
            \/ []<>(pending[ch] = 0 \/ remote[ch] = "down")
            \/ []<><<pending'[ch] < pending[ch]>>_pending

\* "Number of messages processed" (ipc_shm_poll_channels): a poll answers with
\* the number of callbacks it made.
PollCounts ==
    \A i \in Instance :
        Line[i] = IPC_IRQ_NONE /\ ~polling[i] => pollRet[i] = rx[i].msgs
=============================================================================
