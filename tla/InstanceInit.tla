---------------------------- MODULE InstanceInit ----------------------------
(***************************************************************************)
(* Initialisation and release of an instance of src/ipc-shm.c by both      *)
(* sides: ipc_shm_init_instance, which initialises the queues of all       *)
(* channels one after the other and gives everything up when one of them   *)
(* answers -EAGAIN, and ipc_shm_free_instance.  IpcQueueInit has one queue *)
(* and the calls on it; here are several queues, and no calls.             *)
(*                                                                         *)
(* The queues are numbered in the order of their initialisation: each      *)
(* channel has its own queue and then those of its pools.  Words in shared *)
(* memory are indexed by the side that writes them; an action reads at     *)
(* most one word of the other side and writes at most one of its own.      *)
(***************************************************************************)
EXTENDS Naturals

CONSTANTS
    NumChannels,    \* cfg->num_channels, all of them managed
    NumPools,       \* cfg->num_pools of each channel
    ElemNum,        \* elements of each queue
    Restarters,     \* the sides that may crash or be freed, and start again
    MaxRestarts     \* how often, all sides together

ASSUME InstanceAssumption ==
    /\ NumChannels \in Nat \ {0}
    /\ NumPools \in Nat \ {0}
    /\ ElemNum \in Nat \ {0}
    /\ Restarters \subseteq {0, 1}
    /\ MaxRestarts \in Nat

Side == {0, 1}

Peer(s) == 1 - s

QueuesPerChannel == NumPools + 1

LastQueue == NumChannels * QueuesPerChannel - 1

Queue == 0..LastQueue

\* The first queue of a channel is its channel queue, the others are its pools'.
IsPool(q) == q % QueuesPerChannel # 0

elem_num == ElemNum + 1

VARIABLES
    state,                  \* struct ipc_shm_global, by side
    sentinel, write, read,  \* struct ipc_ring, by side and queue
    push_ring,              \* push_ring[s]: the queues whose push_ring is not NULL
    pc,                     \* where side s is
    queue,                  \* the queue side s is at
    bufs,                   \* the buffers it has pushed there (buf_id)
    restarts,               \* crashes and releases so far
    overlapped              \* history: after one of them, both were busy at once

rings == <<sentinel, write, read>>
vars == <<state, rings, push_ring, pc, queue, bufs, restarts, overlapped>>

\* The memory is cleared at a cold start.
Init ==
    /\ state = [s \in Side |-> "CLEAR"]
    /\ sentinel = [s \in Side |-> [q \in Queue |-> "NONE"]]
    /\ write = [s \in Side |-> [q \in Queue |-> 0]]
    /\ read = [s \in Side |-> [q \in Queue |-> 0]]
    /\ push_ring = [s \in Side |-> {}]
    /\ pc = [s \in Side |-> "down"]
    /\ queue = [s \in Side |-> 0]
    /\ bufs = [s \in Side |-> 0]
    /\ restarts = 0
    /\ overlapped = FALSE

Goto(s, from, to) ==
    /\ pc[s] = from
    /\ pc' = [pc EXCEPT ![s] = to]

-----------------------------------------------------------------------------
(* ipc_shm_init_instance *)

\* Mutant: the word of the life before is left as it is.
InitClearNot(s) ==
    /\ Goto(s, "down", "check")
    /\ queue' = [queue EXCEPT ![s] = 0]
    /\ bufs' = [bufs EXCEPT ![s] = 0]
    /\ UNCHANGED <<state, rings, push_ring, restarts>>

\* global->state = IPC_SHM_STATE_CLEAR comes before anything else in memory.
InitClear(s) ==
    /\ Goto(s, "down", "check")
    /\ state' = [state EXCEPT ![s] = "CLEAR"]
    /\ queue' = [queue EXCEPT ![s] = 0]
    /\ bufs' = [bufs EXCEPT ![s] = 0]
    /\ UNCHANGED <<rings, push_ring, restarts>>

\* Mutant: the queue is marked in progress before the peer's mark is looked at.
QueueCheckMarked(s) ==
    LET q == queue[s]
    IN  /\ push_ring' = [push_ring EXCEPT ![s] = @ \cup {q}]
        /\ sentinel' = [sentinel EXCEPT ![s][q] = "IN_PROGRESS"]
        /\ \/ /\ sentinel[Peer(s)][q] = "IN_PROGRESS"
              /\ Goto(s, "check", "free")
              /\ queue' = [queue EXCEPT ![s] = 0]
           \/ /\ sentinel[Peer(s)][q] # "IN_PROGRESS"
              /\ Goto(s, "check", "mark")
              /\ UNCHANGED queue
        /\ UNCHANGED <<state, write, read, bufs, restarts>>

\* ipc_queue_init maps the rings; -EAGAIN when the peer is initialising the
\* queue makes ipc_shm_init_instance free all channels, and the caller call it
\* again.
QueueCheck(s) ==
    LET q == queue[s]
    IN  /\ push_ring' = [push_ring EXCEPT ![s] = @ \cup {q}]
        /\ \/ /\ sentinel[Peer(s)][q] = "IN_PROGRESS"
              /\ Goto(s, "check", "free")
              /\ queue' = [queue EXCEPT ![s] = 0]
           \/ /\ sentinel[Peer(s)][q] # "IN_PROGRESS"
              /\ Goto(s, "check", "mark")
              /\ UNCHANGED queue
        /\ UNCHANGED <<state, rings, bufs, restarts>>

QueueMark(s) ==
    /\ Goto(s, "mark", "probe")
    /\ sentinel' = [sentinel EXCEPT ![s][queue[s]] = "IN_PROGRESS"]
    /\ UNCHANGED <<state, write, read, push_ring, queue, bufs, restarts>>

QueueProbe(s) ==
    /\ Goto(s, "probe", IF sentinel[Peer(s)][queue[s]] = "DONE"
                        THEN "syncWrite" ELSE "zeroWrite")
    /\ UNCHANGED <<state, rings, push_ring, queue, bufs, restarts>>

Synced(q) == IF IsPool(q) THEN "fill" ELSE "done"

QueueZeroWrite(s) ==
    /\ Goto(s, "zeroWrite", "zeroRead")
    /\ write' = [write EXCEPT ![s][queue[s]] = 0]
    /\ UNCHANGED <<state, sentinel, read, push_ring, queue, bufs, restarts>>

QueueZeroRead(s) ==
    /\ Goto(s, "zeroRead", Synced(queue[s]))
    /\ read' = [read EXCEPT ![s][queue[s]] = 0]
    /\ UNCHANGED <<state, sentinel, write, push_ring, queue, bufs, restarts>>

\* Mutant: the write index of the life before is kept.
QueueSyncWriteKept(s) ==
    /\ Goto(s, "syncWrite", "syncRead")
    /\ UNCHANGED <<state, rings, push_ring, queue, bufs, restarts>>

QueueSyncWrite(s) ==
    /\ Goto(s, "syncWrite", "syncRead")
    /\ write' = [write EXCEPT ![s][queue[s]] = read[Peer(s)][queue[s]]]
    /\ UNCHANGED <<state, sentinel, read, push_ring, queue, bufs, restarts>>

\* Mutant: a pool queue is treated like a channel queue.
QueueSyncReadEmpty(s) ==
    LET q == queue[s]
    IN  /\ Goto(s, "syncRead", Synced(q))
        /\ read' = [read EXCEPT ![s][q] = write[Peer(s)][q]]
        /\ UNCHANGED <<state, sentinel, write, push_ring, queue, bufs, restarts>>

\* A pool queue is taken to be full, a channel queue to be empty.
QueueSyncRead(s) ==
    LET q == queue[s]
        w == write[Peer(s)][q]
    IN  /\ Goto(s, "syncRead", Synced(q))
        /\ read' = [read EXCEPT ![s][q] =
                      (IF IsPool(q) THEN w + 1 ELSE w) % elem_num]
        /\ UNCHANGED <<state, sentinel, write, push_ring, queue, bufs, restarts>>

Full(s, q) == (write[s][q] + 1) % elem_num = read[Peer(s)][q]

\* One of the num_bufs pushes of ipc_buf_pool_init; an error gives up like
\* -EAGAIN.
QueueFill(s) ==
    LET q == queue[s]
    IN  /\ IF Full(s, q)
           THEN /\ Goto(s, "fill", "free")
                /\ queue' = [queue EXCEPT ![s] = 0]
                /\ UNCHANGED <<write, bufs>>
           ELSE /\ Goto(s, "fill", IF bufs[s] + 1 = ElemNum THEN "done" ELSE "fill")
                /\ write' = [write EXCEPT ![s][q] = (@ + 1) % elem_num]
                /\ bufs' = [bufs EXCEPT ![s] = (@ + 1) % ElemNum]
                /\ UNCHANGED queue
        /\ UNCHANGED <<state, sentinel, read, push_ring, restarts>>

QueueDone(s) ==
    LET q == queue[s]
    IN  /\ \/ q = LastQueue /\ Goto(s, "done", "ready") /\ UNCHANGED queue
           \/ /\ q < LastQueue /\ Goto(s, "done", "check")
              /\ queue' = [queue EXCEPT ![s] = q + 1]
        /\ sentinel' = [sentinel EXCEPT ![s][q] = "DONE"]
        /\ UNCHANGED <<state, write, read, push_ring, bufs, restarts>>

InitReady(s) ==
    /\ Goto(s, "ready", "up")
    /\ state' = [state EXCEPT ![s] = "READY"]
    /\ UNCHANGED <<rings, push_ring, queue, bufs, restarts>>

-----------------------------------------------------------------------------
(* ipc_shm_free_instance, and a reset of the core *)

FreeBegin(s) ==
    /\ s \in Restarters /\ restarts < MaxRestarts
    /\ Goto(s, "up", "free")
    /\ state' = [state EXCEPT ![s] = "CLEAR"]
    /\ queue' = [queue EXCEPT ![s] = 0]
    /\ restarts' = restarts + 1
    /\ UNCHANGED <<rings, push_ring, bufs>>

\* ipc_queue_free is called for queue q: the rings of the pools are only looked
\* at if the ring of the channel is initialised or being initialised.
Freed(s, q) ==
    /\ q \in push_ring[s]
    /\ sentinel[s][q] \in {"DONE", "IN_PROGRESS"}

FreeNext(s) ==
    /\ pc' = [pc EXCEPT ![s] = IF queue[s] = LastQueue THEN "down" ELSE "free"]
    /\ queue' = [queue EXCEPT ![s] = IF @ = LastQueue THEN 0 ELSE @ + 1]

\* The whole of a channel is left out when its own ring is.
FreeSkip(s) ==
    /\ pc[s] = "free" /\ ~Freed(s, queue[s])
    /\ LET q == queue[s]
           next == IF IsPool(q) THEN q + 1 ELSE q + QueuesPerChannel
       IN  /\ pc' = [pc EXCEPT ![s] = IF next > LastQueue THEN "down" ELSE "free"]
           /\ queue' = [queue EXCEPT ![s] = IF next > LastQueue THEN 0 ELSE next]
    /\ UNCHANGED <<state, rings, push_ring, bufs, restarts>>

FreeSentinel(s) ==
    /\ Freed(s, queue[s])
    /\ Goto(s, "free", "freeWrite")
    /\ sentinel' = [sentinel EXCEPT ![s][queue[s]] = "NONE"]
    /\ UNCHANGED <<state, write, read, push_ring, queue, bufs, restarts>>

FreeWrite(s) ==
    /\ Goto(s, "freeWrite", "freeRead")
    /\ write' = [write EXCEPT ![s][queue[s]] = 0]
    /\ UNCHANGED <<state, sentinel, read, push_ring, queue, bufs, restarts>>

FreeRead(s) ==
    /\ pc[s] = "freeRead"
    /\ read' = [read EXCEPT ![s][queue[s]] = 0]
    /\ push_ring' = [push_ring EXCEPT ![s] = @ \ {queue[s]}]
    /\ FreeNext(s)
    /\ UNCHANGED <<state, sentinel, write, bufs, restarts>>

\* The core of side s is reset; the shared memory keeps what it holds.
Crash(s) ==
    /\ s \in Restarters /\ restarts < MaxRestarts /\ pc[s] # "down"
    /\ restarts' = restarts + 1
    /\ pc' = [pc EXCEPT ![s] = "down"]
    /\ queue' = [queue EXCEPT ![s] = 0]
    /\ push_ring' = [push_ring EXCEPT ![s] = {}]
    /\ UNCHANGED <<state, rings, bufs>>

-----------------------------------------------------------------------------
\* Between two initialisations: an element pushed by side s and popped by its
\* peer.  A queue of a channel is then empty again and one of a pool full.
Exchange(s, q) ==
    /\ \A t \in Side : pc[t] = "up"
    /\ write' = [write EXCEPT ![s][q] = (@ + 1) % elem_num]
    /\ read' = [read EXCEPT ![Peer(s)][q] = (@ + 1) % elem_num]
    /\ UNCHANGED <<state, sentinel, push_ring, pc, queue, bufs, restarts>>

-----------------------------------------------------------------------------
\* The places inside ipc_shm_init_instance and ipc_shm_free_instance.
Inside ==
    {"check", "mark", "probe", "zeroWrite", "zeroRead", "syncWrite", "syncRead",
     "fill", "done", "ready", "free", "freeWrite", "freeRead"}

Busy(s) == pc[s] \in Inside

InitStep(s) ==
    \/ InitClear(s) \/ QueueCheck(s) \/ QueueMark(s) \/ QueueProbe(s)
    \/ QueueZeroWrite(s) \/ QueueZeroRead(s) \/ QueueSyncWrite(s) \/ QueueSyncRead(s)
    \/ QueueFill(s) \/ QueueDone(s) \/ InitReady(s)
    \/ FreeSkip(s) \/ FreeSentinel(s) \/ FreeWrite(s) \/ FreeRead(s)

Recorded ==
    overlapped' = (overlapped \/ (restarts' > 0 /\ \A s \in Side : Busy(s)'))

Next ==
    /\ \E s \in Side :
          \/ InitStep(s) \/ FreeBegin(s) \/ Crash(s)
          \/ \E q \in Queue : Exchange(s, q)
    /\ Recorded

Spec == Init /\ [][Next]_vars

\* Both sides go on, and call ipc_shm_init_instance again on -EAGAIN.
FairSpec == Spec /\ \A s \in Side : WF_vars(InitStep(s) /\ Recorded)

-----------------------------------------------------------------------------
(* Properties *)

TypeOK ==
    /\ state \in [Side -> {"CLEAR", "READY"}]
    /\ sentinel \in [Side -> [Queue -> {"NONE", "IN_PROGRESS", "DONE"}]]
    /\ write \in [Side -> [Queue -> 0..ElemNum]]
    /\ read \in [Side -> [Queue -> 0..ElemNum]]
    /\ push_ring \in [Side -> SUBSET Queue]
    /\ pc \in [Side -> {"down", "up"} \cup Inside]
    /\ queue \in [Side -> Queue]
    /\ bufs \in [Side -> 0..ElemNum]
    /\ restarts \in 0..MaxRestarts
    /\ overlapped \in BOOLEAN

\* A side whose state word reads READY, which is all that ipc_shm_is_remote_ready
\* looks at, has initialised every queue, also between its crash and the next
\* ipc_shm_init_instance and while -EAGAIN makes that start again.
ReadyIsUsable ==
    \A s \in Side : state[s] = "READY" => \A q \in Queue : sentinel[s][q] = "DONE"

\* Once both sides are up, every queue of a channel is empty and every queue of a
\* pool full for both, whichever of them came first at which queue, gave up and
\* tried again, or took the indexes of the other over after a restart, provided
\* that they were not both busy at the same time after one.
Agreement ==
    (\A s \in Side : pc[s] = "up") /\ ~overlapped =>
        \A s \in Side, q \in Queue :
            read[Peer(s)][q] =
                (IF IsPool(q) THEN write[s][q] + 1 ELSE write[s][q]) % elem_num

\* Side s crashed in ipc_queue_free, between the sentinel which that clears
\* first and the read index which it clears last.
LeftBehind(s, q) == pc[s] = "down" /\ sentinel[s][q] = "NONE" /\ read[s][q] # 0

\* Under the same proviso ipc_buf_pool_init finds room for each of its buffers:
\* the indexes that it starts from never make the ring look full, unless a peer
\* that is down has left its read index behind.
NeverFull ==
    \A s \in Side :
        pc[s] = "fill" /\ ~overlapped /\ ~LeftBehind(Peer(s), queue[s]) =>
            ~Full(s, queue[s])

\* A side is down with a queue that its life before was initialising or freeing.
Torn ==
    \E s \in Side, q \in Queue :
        \/ pc[s] = "down" /\ sentinel[s][q] = "IN_PROGRESS"
        \/ LeftBehind(s, q)

\* Two sides that call ipc_shm_init_instance again on -EAGAIN do not give up for
\* each other forever: both come up, unless one crashed while it was
\* initialising or freeing a queue.  What that leaves behind makes the other
\* free its queues and start again, and the two may then go on doing so in turns.
BothComeUp == [](~Torn) => <>[](\A s \in Side : pc[s] = "up")
=============================================================================
