---------------------------- MODULE IpcQueueInit ----------------------------
(***************************************************************************)
(* Initialisation, release and restart of one queue of src/ipc-queue.c, on *)
(* top of the push and pop of IpcQueue.  Each side runs ipc_queue_init,    *)
(* which negotiates with the ring of its peer through the sentinel words;  *)
(* the caller marks the queue initialised, after filling it when it is the *)
(* queue of a pool.  A side may be freed, and may crash at any step: then  *)
(* its program state is gone and its ring stays in memory as it was.       *)
(*                                                                         *)
(* sent[s] is a history variable: the elements that the peer of s still    *)
(* has to receive, since the indexes were last synchronised.               *)
(***************************************************************************)
EXTENDS IpcQueue

CONSTANTS
    Bd(_),          \* Bd(i): the descriptor of buffer i, for i in 0..ElemNum-1
    Restarters,     \* the sides that may crash or be freed, and start again
    MaxRestarts,    \* how often, all sides together
    Overlap         \* what the peer may be doing while a side restarts

ASSUME RestartAssumption ==
    /\ Restarters \subseteq Side
    /\ MaxRestarts \in Nat
    /\ Overlap \subseteq {"push", "pop", "init"}

\* The descriptors that fill a pool queue are elements like those pushed later.
ASSUME BdAssumption == \A i \in 0..(ElemNum - 1) : Bd(i) \in Elem

VARIABLES
    initPc,     \* where side s is in its life
    filled,     \* buf_id of the loop that fills a pool queue
    checked,    \* the caller of ipc_queue_push has checked the integrity
    restarts,   \* crashes and releases so far
    sent        \* history

life == <<initPc, filled, checked>>
allVars == <<vars, life, restarts, sent>>

\* The rings after a cold start: the memory is cleared.
ColdInit ==
    /\ sentinel = [s \in Side |-> "NONE"]
    /\ write = [s \in Side |-> 0]
    /\ read = [s \in Side |-> 0]
    /\ data = [s \in Side |-> [i \in Index |-> Torn]]
    /\ pushPc = [s \in Side |-> "idle"]
    /\ pushWrite = [s \in Side |-> 0]
    /\ pushElem = [s \in Side |-> Torn]
    /\ pushRet = [s \in Side |-> "none"]
    /\ popPc = [s \in Side |-> "idle"]
    /\ popWrite = [s \in Side |-> 0]
    /\ popRead = [s \in Side |-> 0]
    /\ popBuf = [s \in Side |-> Torn]
    /\ popRet = [s \in Side |-> "none"]
    /\ initPc = [s \in Side |-> "down"]
    /\ filled = [s \in Side |-> 0]
    /\ checked = [s \in Side |-> FALSE]
    /\ restarts = 0
    /\ sent = [s \in Side |-> <<>>]

\* The places of initPc, in the order of ipc_queue_init and ipc_queue_free.
Place == {"down", "mark", "probe", "zeroWrite", "zeroRead", "syncWrite", "syncRead",
          "fill", "up", "free", "freeWrite", "freeRead"}

\* Side s is between the beginning and the end of its initialisation.
Initialising(s) == initPc[s] \notin {"down", "up", "free", "freeWrite", "freeRead"}

\* No call that Overlap excludes is under way on the peer of s.
PeerQuiet(s) ==
    /\ "pop" \in Overlap \/ popPc[Peer(s)] = "idle"
    /\ \/ "push" \in Overlap \/ initPc[Peer(s)] # "up"
       \/ pushPc[Peer(s)] = "idle" /\ ~checked[Peer(s)]

Goto(s, from, to) ==
    /\ initPc[s] = from
    /\ initPc' = [initPc EXCEPT ![s] = to]

-----------------------------------------------------------------------------
(* ipc_queue_init and ipc_queue_sync_index *)

\* -EAGAIN when the peer is in the middle of its own initialisation: the caller
\* undoes what it has done so far, and tries again.
InitCheck(s) ==
    /\ restarts > 0 /\ "init" \notin Overlap => ~Initialising(Peer(s))
    /\ \/ sentinel[Peer(s)] = "IN_PROGRESS" /\ Goto(s, "down", "free")
       \/ sentinel[Peer(s)] # "IN_PROGRESS" /\ Goto(s, "down", "mark")
    /\ UNCHANGED <<vars, filled, checked, restarts, sent>>

InitMark(s) ==
    /\ Goto(s, "mark", "probe")
    /\ restarts > 0 => PeerQuiet(s)
    /\ sentinel' = [sentinel EXCEPT ![s] = "IN_PROGRESS"]
    /\ UNCHANGED <<write, read, data, push, pop, filled, checked, restarts, sent>>

\* Is there a peer whose indexes have to be taken over?
InitProbe(s) ==
    /\ \/ sentinel[Peer(s)] = "DONE" /\ Goto(s, "probe", "syncWrite")
       \/ sentinel[Peer(s)] # "DONE" /\ Goto(s, "probe", "zeroWrite")
    /\ UNCHANGED <<vars, filled, checked, restarts, sent>>

InitZeroWrite(s) ==
    /\ Goto(s, "zeroWrite", "zeroRead")
    /\ write' = [write EXCEPT ![s] = 0]
    /\ sent' = [sent EXCEPT ![s] = <<>>]
    /\ UNCHANGED <<sentinel, read, data, push, pop, filled, checked, restarts>>

InitZeroRead(s) ==
    /\ Goto(s, "zeroRead", "fill")
    /\ read' = [read EXCEPT ![s] = 0]
    /\ filled' = [filled EXCEPT ![s] = 0]
    /\ UNCHANGED <<sentinel, write, data, push, pop, checked, restarts, sent>>

InitSyncWrite(s) ==
    /\ Goto(s, "syncWrite", "syncRead")
    /\ write' = [write EXCEPT ![s] = read[Peer(s)]]
    /\ sent' = [sent EXCEPT ![s] = <<>>]
    /\ UNCHANGED <<sentinel, read, data, push, pop, filled, checked, restarts>>

\* What the peer has for s when s takes its read index to be r.
Available(s, r) ==
    IF QueueType = "IPC_SHM_CHANNEL_QUEUE" THEN <<>>
    ELSE [i \in 1..ElemNum |-> data[Peer(s)][(r + i - 1) % elem_num]]

\* Mutant: a pool queue is treated as a channel queue.
SyncedReadChannel(w) == w % elem_num

\* A channel queue starts again with nothing to read; a pool queue with all
\* the buffers its peer has ever given back, as if all of them were free.
SyncedRead(w) ==
    IF QueueType = "IPC_SHM_CHANNEL_QUEUE"
    THEN w % elem_num ELSE (w + 1) % elem_num

InitSyncRead(s) ==
    /\ Goto(s, "syncRead", "fill")
    /\ LET r == SyncedRead(write[Peer(s)])
       IN  /\ read' = [read EXCEPT ![s] = r]
           /\ sent' = [sent EXCEPT ![Peer(s)] = Available(s, r)]
    /\ filled' = [filled EXCEPT ![s] = 0]
    /\ UNCHANGED <<sentinel, write, data, push, pop, checked, restarts>>

Fills(s) == QueueType = "IPC_SHM_POOL_QUEUE" /\ filled[s] < ElemNum

\* ipc_buf_pool_init pushes one descriptor for each buffer of its peer.
InitFill(s) ==
    /\ initPc[s] = "fill" /\ Fills(s)
    /\ PushLoad(s, Bd(filled[s]))
    /\ UNCHANGED <<life, restarts, sent>>

\* A push that fails makes the initialisation fail; the application may call
\* it again.
InitFillRefused(s) ==
    /\ Fills(s)
    /\ PushRefused(s)
    /\ Goto(s, "fill", "free")
    /\ UNCHANGED <<filled, checked, restarts, sent>>

\* The caller marks the queue as initialised.
InitDone(s) ==
    /\ Goto(s, "fill", "up")
    /\ ~Fills(s) /\ pushPc[s] = "idle"
    /\ sentinel' = [sentinel EXCEPT ![s] = "DONE"]
    /\ UNCHANGED <<write, read, data, push, pop, filled, checked, restarts, sent>>

-----------------------------------------------------------------------------
(* ipc_queue_free, called when initialisation failed or the queue is freed *)

FreeBegin(s) ==
    /\ s \in Restarters /\ restarts < MaxRestarts
    /\ Goto(s, "up", "free")
    /\ pushPc[s] = "idle" /\ popPc[s] = "idle" /\ PeerQuiet(s)
    /\ checked' = [checked EXCEPT ![s] = FALSE]
    /\ restarts' = restarts + 1
    /\ UNCHANGED <<vars, filled, sent>>

\* Mutant: only a queue that was completely initialised is cleared.
FreeSentinelDoneOnly(s) ==
    /\ Goto(s, "free", IF sentinel[s] = "DONE" THEN "freeWrite" ELSE "down")
    /\ sentinel' = [sentinel EXCEPT ![s] = IF @ = "DONE" THEN "NONE" ELSE @]
    /\ UNCHANGED <<write, read, data, push, pop, filled, checked, restarts, sent>>

FreeSentinel(s) ==
    /\ \/ /\ sentinel[s] \in {"DONE", "IN_PROGRESS"}
          /\ Goto(s, "free", "freeWrite")
       \/ /\ sentinel[s] \notin {"DONE", "IN_PROGRESS"}
          /\ Goto(s, "free", "down")
    /\ sentinel' = [sentinel EXCEPT ![s] = "NONE"]
    /\ UNCHANGED <<write, read, data, push, pop, filled, checked, restarts, sent>>

FreeWrite(s) ==
    /\ Goto(s, "freeWrite", "freeRead")
    /\ write' = [write EXCEPT ![s] = 0]
    /\ UNCHANGED <<sentinel, read, data, push, pop, filled, checked, restarts, sent>>

FreeRead(s) ==
    /\ Goto(s, "freeRead", "down")
    /\ read' = [read EXCEPT ![s] = 0]
    /\ UNCHANGED <<sentinel, write, data, push, pop, filled, checked, restarts, sent>>

\* The core of side s is reset; the shared memory keeps what it holds.
Crash(s) ==
    /\ s \in Restarters /\ restarts < MaxRestarts
    /\ initPc[s] # "down"
    /\ restarts' = restarts + 1
    /\ initPc' = [initPc EXCEPT ![s] = "down"]
    /\ checked' = [checked EXCEPT ![s] = FALSE]
    /\ pushPc' = [pushPc EXCEPT ![s] = "idle"]
    /\ popPc' = [popPc EXCEPT ![s] = "idle"]
    /\ UNCHANGED <<ring, pushWrite, pushElem, pushRet, popWrite, popRead, popBuf,
                   popRet, filled, sent>>

-----------------------------------------------------------------------------
(* push and pop of a side that is up *)

\* The callers of ipc_queue_push first check the integrity of the channel.
PushChecked(s) ==
    /\ initPc[s] = "up" /\ s \in Pushers /\ pushPc[s] = "idle" /\ ~checked[s]
    /\ initPc[Peer(s)] \notin {"down", "up"} => "push" \in Overlap
    /\ ipc_queue_check_integrity(s)
    /\ checked' = [checked EXCEPT ![s] = TRUE]
    /\ UNCHANGED <<vars, initPc, filled, restarts, sent>>

PushCall(s) ==
    /\ checked[s]
    /\ checked' = [checked EXCEPT ![s] = FALSE]
    /\ PushRefused(s) \/ \E e \in Elem : PushLoad(s, e)
    /\ UNCHANGED <<initPc, filled, restarts, sent>>

PushRun(s) ==
    /\ \/ (PushCopyStart(s) \/ PushCopyEnd(s)) /\ UNCHANGED <<filled, sent>>
       \/ /\ PushStore(s)
          /\ sent' = [sent EXCEPT ![s] = Append(@, pushElem[s])]
          /\ filled' = [filled EXCEPT ![s] =
                          IF initPc[s] = "fill" THEN @ + 1 ELSE @]
    /\ UNCHANGED <<initPc, checked, restarts>>

PopCall(s) ==
    /\ initPc[s] = "up"
    /\ initPc[Peer(s)] \notin {"down", "up"} => "pop" \in Overlap
    /\ PopLoad(s)
    /\ UNCHANGED <<life, restarts, sent>>

PopRun(s) ==
    /\ \/ (PopCheck(s) \/ PopCopyStart(s) \/ PopCopyEnd(s)) /\ UNCHANGED sent
       \/ /\ PopStore(s)
          /\ sent' = [sent EXCEPT ![Peer(s)] = IF @ = <<>> THEN @ ELSE Tail(@)]
    /\ UNCHANGED <<life, restarts>>

InitStep(s) ==
    \/ InitCheck(s) \/ InitMark(s) \/ InitProbe(s) \/ InitZeroWrite(s) \/ InitZeroRead(s)
    \/ InitSyncWrite(s) \/ InitSyncRead(s) \/ InitFill(s) \/ InitFillRefused(s)
    \/ InitDone(s) \/ FreeSentinel(s) \/ FreeWrite(s) \/ FreeRead(s)

LifeNext ==
    \E s \in Side :
        \/ InitStep(s)
        \/ FreeBegin(s) \/ Crash(s)
        \/ PushChecked(s) \/ PushCall(s) \/ PushRun(s)
        \/ PopCall(s) \/ PopRun(s)

LifeSpec == ColdInit /\ [][LifeNext]_allVars

\* A side that has started goes on starting, trying again on -EAGAIN, and
\* calls under way go on; restarting is up to the environment.
FairLifeSpec ==
    LifeSpec /\ \A s \in Side : /\ WF_allVars(InitStep(s))
                                /\ WF_allVars(PushCall(s))
                                /\ WF_allVars(PushRun(s))
                                /\ WF_allVars(PopRun(s))

-----------------------------------------------------------------------------
(* Properties *)

\* The sentinel, the indexes and the life of a side keep to their values; no
\* handshake or restart brings an index out of range.
InitTypeOK ==
    /\ sentinel \in [Side -> {"NONE", "IN_PROGRESS", "DONE"}]
    /\ write \in [Side -> Index]
    /\ read \in [Side -> Index]
    /\ data \in [Side -> [Index -> Elem \cup {Torn}]]
    /\ initPc \in [Side -> Place]
    /\ filled \in [Side -> 0..ElemNum]
    /\ checked \in [Side -> BOOLEAN]
    /\ restarts \in 0..MaxRestarts
    /\ sent \in [Side -> Seq(Elem \cup {Torn})]

Up(s) == initPc[s] = "up"

\* Once both sides have initialised the queue, whatever the order of their
\* steps, retries and restarts, their indexes agree on what is in it: exactly
\* what one has pushed and the other has not popped since the last handshake.
Agreement ==
    (\A s \in Side : Up(s)) => \A s \in Side : Contents(s) = sent[s]

\* Side s crashed in ipc_queue_free, between the sentinel which that clears
\* first and the read index which it clears last.
LeftBehind(s) == initPc[s] = "down" /\ sentinel[s] = "NONE" /\ read[s] # 0

\* The handshake ends: neither both sides giving way to each other with -EAGAIN
\* nor a crash in the middle of it keeps the queue from being initialised; only
\* a read index left behind does, with which a pool queue looks full to the peer
\* as long as that side does not get past the peer's retries.
BothComeUp == [](\A s \in Side : ~LeftBehind(s)) => <>[](\A s \in Side : Up(s))
=============================================================================
