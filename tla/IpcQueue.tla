------------------------------ MODULE IpcQueue ------------------------------
(***************************************************************************)
(* The dual-ring lock-free queue of src/ipc-queue.c, after both sides have *)
(* initialised it.  Side s pushes into the ring it maps in its own memory  *)
(* (its push_ring) and pops from the ring of its peer (its pop_ring).  The *)
(* read indexes are swapped: how far s has read its peer's ring is kept in *)
(* s's own ring, so that s writes only to its own memory.                  *)
(*                                                                         *)
(* The fields of struct ipc_ring are the variables sentinel, write, read   *)
(* and data, indexed by the side whose memory holds the ring.  Each side   *)
(* has one pushing and one popping thread.  An action reads or writes at   *)
(* most one word of memory that the other side can change or see; memcpy   *)
(* is two steps, so that a copy can be observed half done.  The rings are  *)
(* mapped uncached (device memory), so accesses happen in program order.   *)
(***************************************************************************)
EXTENDS Naturals, Sequences

CONSTANTS
    Elem,       \* the values a queue element may have
    ElemNum,    \* queue_data.elem_num, the number of elements asked for
    QueueType,  \* queue_data.queue_type
    Pushers     \* the sides whose application pushes

\* The largest elem_num a channel asks for (IPC_SHM_MAX_BUFS_PER_CHANNEL), so
\* that elem_num + 1 still fits the uint16_t it is stored in.
MaxElemNum == 65534

\* A value no memcpy completed: uninitialised or half-copied memory.
Torn == "torn"

Side == {0, 1}

Peer(s) == 1 - s

ASSUME ElemNumAssumption == ElemNum \in Nat \ {0}

ASSUME ElemNumBound == ElemNum <= MaxElemNum

ASSUME ElemAssumption == {Torn, "none", "ENOBUFS", "EINVAL"} \cap Elem = {}

ASSUME QueueTypeAssumption ==
    QueueType \in {"IPC_SHM_CHANNEL_QUEUE", "IPC_SHM_POOL_QUEUE"}

ASSUME PushersAssumption == Pushers \subseteq Side

\* queue->elem_num: one more slot than asked for, never filled, tells a full
\* ring from an empty one.
elem_num == ElemNum + 1

Index == 0..ElemNum

VARIABLES
    sentinel, write, read, data,      \* struct ipc_ring, by owning side
    pushPc, pushWrite, pushElem,      \* the ipc_queue_push call of a side
    popPc, popWrite, popRead, popBuf, \* the ipc_queue_pop call of a side
    pushRet, popRet                   \* result of the last call of a side

ring == <<sentinel, write, read, data>>
push == <<pushPc, pushWrite, pushElem, pushRet>>
pop == <<popPc, popWrite, popRead, popBuf, popRet>>
vars == <<ring, push, pop>>

-----------------------------------------------------------------------------
(* Both sides have run ipc_queue_init.  A channel queue starts empty; in a *)
(* pool queue each side has already pushed one descriptor per buffer.      *)

InitialWrite == IF QueueType = "IPC_SHM_POOL_QUEUE" THEN ElemNum ELSE 0

Init ==
    /\ sentinel = [s \in Side |-> "DONE"]
    /\ write = [s \in Side |-> InitialWrite]
    /\ read = [s \in Side |-> 0]
    /\ data \in [Side -> [Index -> Elem \cup {Torn}]]
    /\ \A s \in Side, i \in Index :
          IF i < InitialWrite THEN data[s][i] \in Elem ELSE data[s][i] = Torn
    /\ pushPc = [s \in Side |-> "idle"]
    /\ pushWrite = [s \in Side |-> 0]
    /\ pushElem = [s \in Side |-> Torn]
    /\ pushRet = [s \in Side |-> "none"]
    /\ popPc = [s \in Side |-> "idle"]
    /\ popWrite = [s \in Side |-> 0]
    /\ popRead = [s \in Side |-> 0]
    /\ popBuf = [s \in Side |-> Torn]
    /\ popRet = [s \in Side |-> "none"]

-----------------------------------------------------------------------------
(* ipc_queue_push *)

\* The cached indexes, read[Peer(s)] and write[s], are checked: out of range is
\* -EINVAL, a write index just behind the read index (a full ring) -ENOMEM.
PushInRange(s) == read[Peer(s)] < elem_num /\ write[s] < elem_num

\* Mutant: the full test forgets the wrap around.
PushNoRoomNoWrap(s) == write[s] + 1 = read[Peer(s)]

PushNoRoom(s) == (write[s] + 1) % elem_num = read[Peer(s)]

PushLoad(s, e) ==
    /\ pushPc[s] = "idle"
    /\ PushInRange(s) /\ ~PushNoRoom(s)
    /\ pushPc' = [pushPc EXCEPT ![s] = "loaded"]
    /\ pushWrite' = [pushWrite EXCEPT ![s] = write[s]]
    /\ pushElem' = [pushElem EXCEPT ![s] = e]
    /\ UNCHANGED <<ring, pushRet, pop>>

PushRefused(s) ==
    /\ pushPc[s] = "idle"
    /\ ~PushInRange(s) \/ PushNoRoom(s)
    /\ pushRet' = [pushRet EXCEPT ![s] =
                     IF PushInRange(s) THEN "ENOMEM" ELSE "EINVAL"]
    /\ UNCHANGED <<ring, pushPc, pushWrite, pushElem, pop>>

\* Mutant: the write index is advanced before the element is copied.
PushPublishFirst(s) ==
    /\ pushPc[s] = "loaded"
    /\ data' = [data EXCEPT ![s][pushWrite[s]] = Torn]
    /\ write' = [write EXCEPT ![s] = (pushWrite[s] + 1) % elem_num]
    /\ pushPc' = [pushPc EXCEPT ![s] = "copying"]
    /\ UNCHANGED <<sentinel, read, pushWrite, pushElem, pushRet, pop>>

\* memcpy(dst, buf, elem_size) has begun.
PushCopyStart(s) ==
    /\ pushPc[s] = "loaded"
    /\ data' = [data EXCEPT ![s][pushWrite[s]] = Torn]
    /\ pushPc' = [pushPc EXCEPT ![s] = "copying"]
    /\ UNCHANGED <<sentinel, write, read, pushWrite, pushElem, pushRet, pop>>

PushCopyEnd(s) ==
    /\ pushPc[s] = "copying"
    /\ data' = [data EXCEPT ![s][pushWrite[s]] = pushElem[s]]
    /\ pushPc' = [pushPc EXCEPT ![s] = "copied"]
    /\ UNCHANGED <<sentinel, write, read, pushWrite, pushElem, pushRet, pop>>

\* Mutant: the write index does not wrap around.
PushStoreNoWrap(s) ==
    /\ pushPc[s] = "copied"
    /\ write' = [write EXCEPT ![s] = pushWrite[s] + 1]
    /\ pushPc' = [pushPc EXCEPT ![s] = "idle"]
    /\ pushRet' = [pushRet EXCEPT ![s] = "ok"]
    /\ UNCHANGED <<sentinel, read, data, pushWrite, pushElem, pop>>

\* The new write index publishes the element, and the call returns 0.
PushStore(s) ==
    /\ pushPc[s] = "copied"
    /\ write' = [write EXCEPT ![s] = (pushWrite[s] + 1) % elem_num]
    /\ pushPc' = [pushPc EXCEPT ![s] = "idle"]
    /\ pushRet' = [pushRet EXCEPT ![s] = "ok"]
    /\ UNCHANGED <<sentinel, read, data, pushWrite, pushElem, pop>>

-----------------------------------------------------------------------------
(* ipc_queue_pop *)

\* Mutant: the read indexes of the two rings are not swapped.
PopLoadUnswapped(s) ==
    /\ popPc[s] = "idle"
    /\ popWrite' = [popWrite EXCEPT ![s] = write[Peer(s)]]
    /\ popRead' = [popRead EXCEPT ![s] = read[Peer(s)]]
    /\ popPc' = [popPc EXCEPT ![s] = "loaded"]
    /\ UNCHANGED <<ring, push, popBuf, popRet>>

\* The peer's write index and the own read index are cached.
PopLoad(s) ==
    /\ popPc[s] = "idle"
    /\ popWrite' = [popWrite EXCEPT ![s] = write[Peer(s)]]
    /\ popRead' = [popRead EXCEPT ![s] = read[s]]
    /\ popPc' = [popPc EXCEPT ![s] = "loaded"]
    /\ UNCHANGED <<ring, push, popBuf, popRet>>

\* ipc_queue_check_integrity: both rings are initialised.
ipc_queue_check_integrity(s) ==
    sentinel[Peer(s)] = "DONE" /\ sentinel[s] = "DONE"

PopReturn(s, ret) ==
    /\ popPc' = [popPc EXCEPT ![s] = "idle"]
    /\ popRet' = [popRet EXCEPT ![s] = ret]

\* Mutant: an empty queue is waited for instead of reported.
PopCheckWaits(s) ==
    /\ popPc[s] = "loaded"
    /\ popRead[s] # popWrite[s]
    /\ popPc' = [popPc EXCEPT ![s] = "checked"]
    /\ UNCHANGED <<ring, push, popWrite, popRead, popBuf, popRet>>

\* Only now, after the loads, come the integrity, range and empty checks.
PopCheck(s) ==
    /\ popPc[s] = "loaded"
    /\ LET valid == /\ ipc_queue_check_integrity(s)
                    /\ popRead[s] < elem_num
                    /\ popWrite[s] < elem_num
           empty == popRead[s] = popWrite[s]
       IN  \/ ~valid /\ PopReturn(s, "EINVAL")
           \/ valid /\ empty /\ PopReturn(s, "ENOBUFS")
           \/ /\ valid /\ ~empty
              /\ popPc' = [popPc EXCEPT ![s] = "checked"]
              /\ UNCHANGED popRet
    /\ UNCHANGED <<ring, push, popWrite, popRead, popBuf>>

\* memcpy(buf, src, elem_size) reads the slot from here ...
PopCopyStart(s) ==
    /\ popPc[s] = "checked"
    /\ popBuf' = [popBuf EXCEPT ![s] = data[Peer(s)][popRead[s]]]
    /\ popPc' = [popPc EXCEPT ![s] = "copying"]
    /\ UNCHANGED <<ring, push, popWrite, popRead, popRet>>

\* ... to here: a slot that changed meanwhile leaves a mixture in buf.
PopCopyEnd(s) ==
    /\ popPc[s] = "copying"
    /\ popBuf' = [popBuf EXCEPT ![s] =
                    IF data[Peer(s)][popRead[s]] = @ THEN @ ELSE Torn]
    /\ popPc' = [popPc EXCEPT ![s] = "copied"]
    /\ UNCHANGED <<ring, push, popWrite, popRead, popRet>>

\* Mutant: one pop consumes everything it saw.
PopStoreAll(s) ==
    /\ popPc[s] = "copied"
    /\ read' = [read EXCEPT ![s] = popWrite[s]]
    /\ PopReturn(s, popBuf[s])
    /\ UNCHANGED <<sentinel, write, data, push, popWrite, popRead, popBuf>>

\* The new read index gives the slot back, and the call returns 0 and buf.
PopStore(s) ==
    /\ popPc[s] = "copied"
    /\ read' = [read EXCEPT ![s] = (popRead[s] + 1) % elem_num]
    /\ PopReturn(s, popBuf[s])
    /\ UNCHANGED <<sentinel, write, data, push, popWrite, popRead, popBuf>>

-----------------------------------------------------------------------------
PushStep(s) == PushCopyStart(s) \/ PushCopyEnd(s) \/ PushStore(s)

PopStep(s) == PopCheck(s) \/ PopCopyStart(s) \/ PopCopyEnd(s) \/ PopStore(s)

Next ==
    \E s \in Side :
        \/ s \in Pushers /\ (PushRefused(s) \/ \E e \in Elem : PushLoad(s, e))
        \/ PushStep(s)
        \/ PopLoad(s)
        \/ PopStep(s)

Spec == Init /\ [][Next]_vars

\* Once called, push and pop run to their end; nobody has to call them.
FairSpec == Spec /\ \A s \in Side : WF_vars(PushStep(s)) /\ WF_vars(PopStep(s))

-----------------------------------------------------------------------------
(* Properties *)

\* Every variable keeps the values its C type and the code give it.
TypeOK ==
    /\ sentinel \in [Side -> {"DONE"}]
    /\ write \in [Side -> Index]
    /\ read \in [Side -> Index]
    /\ data \in [Side -> [Index -> Elem \cup {Torn}]]
    /\ pushPc \in [Side -> {"idle", "loaded", "copying", "copied"}]
    /\ pushWrite \in [Side -> Index]
    /\ pushElem \in [Side -> Elem \cup {Torn}]
    /\ pushRet \in [Side -> {"none", "ok", "ENOMEM", "EINVAL"}]
    /\ popPc \in [Side -> {"idle", "loaded", "checked", "copying", "copied"}]
    /\ popWrite \in [Side -> Index]
    /\ popRead \in [Side -> Index]
    /\ popBuf \in [Side -> Elem \cup {Torn}]
    /\ popRet \in [Side -> Elem \cup {Torn, "none", "ENOBUFS", "EINVAL"}]

\* The slots between the read and the write index of the ring of side s.
Occupied(s) ==
    LET r == read[Peer(s)]
        w == write[s]
    IN  {i \in Index : IF r <= w THEN r <= i /\ i < w ELSE r <= i \/ i < w}

\* While ipc_queue_push copies an element into a slot, ipc_queue_pop on the
\* other side never copies out of that slot: neither the cached indexes nor
\* the sentinel slot let the two memcpy calls meet, without any lock.
SlotExclusion ==
    \A s \in Side :
        pushPc[s] \in {"loaded", "copying", "copied"}
        /\ popPc[Peer(s)] \in {"checked", "copying", "copied"}
            => pushWrite[s] # popRead[Peer(s)]

\* Whatever lies between the indexes has been copied in completely, and what
\* a pop has copied out so far is the element its read index points at: the
\* element is published after its memcpy and given back after its memcpy.
PublishedIsWhole ==
    \A s \in Side :
        /\ \A i \in Occupied(s) : data[s][i] \in Elem
        /\ popPc[s] \in {"copying", "copied"} =>
              popBuf[s] = data[Peer(s)][read[s]] /\ read[s] \in Occupied(Peer(s))

\* What a call cached stays good enough to act on although the other side goes
\* on: there is still room for the element being pushed, and still an element
\* for the pop that saw one.  With it the invariants above are inductive.
CachedIndexes ==
    \A s \in Side :
        /\ pushPc[s] # "idle" =>
              /\ pushWrite[s] = write[s]
              /\ (write[s] + 1) % elem_num # read[Peer(s)]
              /\ pushElem[s] \in Elem
        /\ pushPc[s] = "copied" => data[s][write[s]] = pushElem[s]
        /\ popPc[s] # "idle" =>
              /\ popRead[s] = read[s]
              /\ popWrite[s] # popRead[s] => read[s] # write[Peer(s)]
        /\ popPc[s] \in {"checked", "copying", "copied"} =>
              popWrite[s] # popRead[s]

\* A call that has begun returns, whatever the other side does: push and pop
\* are wait-free, they give up instead of waiting for room or for an element.
CallsReturn ==
    \A s \in Side :
        /\ pushPc[s] # "idle" ~> pushPc[s] = "idle"
        /\ popPc[s] # "idle" ~> popPc[s] = "idle"

-----------------------------------------------------------------------------
(* Refinement: the two rings implement a FIFO in each direction. *)

Used(s) == (write[s] + elem_num - read[Peer(s)]) % elem_num

Contents(s) ==
    [i \in 1..Used(s) |-> data[s][(read[Peer(s)] + i - 1) % elem_num]]

PopSeen(s) ==
    IF popPc[s] = "idle" THEN "nothing"
    ELSE IF popRead[s] = popWrite[s] THEN "empty" ELSE "element"

Fifo == INSTANCE IpcFifo WITH
            Capacity <- ElemNum,
            fifo <- [s \in Side |-> Contents(s)],
            popSeen <- [s \in Side |-> PopSeen(s)]

\* "Dual-Ring Shared-Memory Lock-Free FIFO Queue" (src/ipc-queue.h): every
\* element is popped once, whole and in the order of the pushes; -ENOMEM is
\* answered only when the queue is full, -ENOBUFS only when it was empty, and
\* -EINVAL never.
ImplementsFifo == Fifo!Spec
=============================================================================
