--------------------------- MODULE InstanceProofs ---------------------------
(***************************************************************************)
(* Theorems about InstanceInit, for every number of channels, pools,       *)
(* elements and restarts: ReadyIsUsable, Agreement and NeverFull.          *)
(*                                                                         *)
(* Agreement and NeverFull have two arguments.  Until the first restart    *)
(* both sides may be anywhere (ColdMarks, ColdWords): all words start from *)
(* 0, and a side that gives up is behind its peer at every queue that it   *)
(* releases.  After it, as long as the two are not busy at once, the peer  *)
(* of a busy side stands still (WarmInv): what the busy side takes over    *)
(* from a peer that is up makes every queue agree.                         *)
(***************************************************************************)
EXTENDS InstanceInit, TLAPS

\* Leaves are for Zenon unless they name another prover.
USE ZenonT(120)

Marked ==
    {"probe", "zeroWrite", "zeroRead", "syncWrite", "syncRead", "fill", "done"}

Initialising == {"check", "mark"} \cup Marked

InFree == {"freeWrite", "freeRead"}

Freeing == {"free"} \cup InFree

BothUp == \A s \in Side : pc[s] = "up"

\* What side s pushed to queue q and its peer did not pop: nothing, or all.
Agree(s, q) ==
    read[Peer(s)][q] = (IF IsPool(q) THEN write[s][q] + 1 ELSE write[s][q]) % elem_num

\* Of one side alone, whatever the other does.
LocalInv(s) ==
    /\ pc[s] \in Initialising \cup Freeing \cup {"ready"} => state[s] = "CLEAR"
    /\ pc[s] \in Initialising =>
          \A q \in Queue : q < queue[s] => sentinel[s][q] = "DONE"
    /\ pc[s] \in {"ready", "up"} \/ state[s] = "READY" =>
          \A q \in Queue : sentinel[s][q] = "DONE"
    /\ pc[s] \in Marked => sentinel[s][queue[s]] = "IN_PROGRESS"
    /\ pc[s] \in InFree => sentinel[s][queue[s]] = "NONE"
    /\ pc[s] = "fill" => IsPool(queue[s])
    /\ pc[s] \in Initialising => bufs[s] < ElemNum /\ (pc[s] # "fill" => bufs[s] = 0)

\* Before the first restart: which queues side s has marked, and that it is
\* behind its peer when it gives up.
ColdMarks(s) ==
    /\ \A q \in Queue :
          /\ sentinel[s][q] = "IN_PROGRESS" => pc[s] \in Marked /\ queue[s] = q
          /\ sentinel[s][q] # "NONE" => q \in push_ring[s]
          /\ pc[s] = "down" => sentinel[s][q] = "NONE"
          /\ pc[s] \in Initialising /\ q > queue[s] => sentinel[s][q] = "NONE"
          /\ pc[s] \in Freeing /\ q < queue[s] => sentinel[s][q] = "NONE"
    /\ pc[s] \in {"check", "mark"} => sentinel[s][queue[s]] = "NONE"
    /\ pc[s] \in {"mark"} \cup Marked => queue[s] \in push_ring[s]
    /\ pc[s] \in Freeing =>
          \A q, r \in Queue :
              queue[s] <= q /\ q < r /\ sentinel[s][r] = "DONE" =>
                  sentinel[s][q] = "DONE" \/ (pc[s] \in InFree /\ queue[s] = q)

ColdPair(s) ==
    /\ pc[s] \in Freeing =>
          /\ pc[Peer(s)] \notin Freeing
          /\ \A q \in Queue :
                sentinel[s][q] = "DONE" \/ (pc[s] \in InFree /\ queue[s] = q) =>
                    sentinel[Peer(s)][q] = "DONE"
    /\ pc[s] \in {"syncWrite", "syncRead"} => sentinel[Peer(s)][queue[s]] = "DONE"

\* Before the first restart, and before any traffic.
ColdWords(s) ==
    ~BothUp =>
        /\ \A q \in Queue :
              /\ read[s][q] = 0
              /\ ~IsPool(q) => write[s][q] = 0
              /\ IsPool(q) /\ sentinel[s][q] = "DONE" => write[s][q] = ElemNum
        /\ pc[s] \in {"zeroRead", "syncRead"} => write[s][queue[s]] = 0
        /\ pc[s] = "fill" => write[s][queue[s]] = bufs[s]
        /\ pc[s] = "done" /\ IsPool(queue[s]) => write[s][queue[s]] = ElemNum

\* After it: the peer of a busy side is not busy.
WarmInv(s) ==
    LET p == Peer(s)
        q == queue[s]
    IN  /\ ~(Busy(s) /\ Busy(p))
        /\ pc[s] \in {"mark", "probe"} /\ sentinel[p][q] = "IN_PROGRESS" =>
              read[p][q] = 0
        /\ pc[s] \in {"zeroWrite", "zeroRead"} =>
              pc[p] # "up" /\ (~LeftBehind(p, q) => read[p][q] = 0)
        /\ pc[s] = "zeroRead" => write[s][q] = 0
        /\ pc[s] = "syncRead" => write[s][q] = read[p][q]
        /\ pc[s] = "fill" /\ ~LeftBehind(p, q) =>
              write[s][q] = (read[p][q] + bufs[s]) % elem_num
        /\ pc[s] = "fill" /\ pc[p] = "up" => Agree(p, q)
        /\ pc[s] = "done" /\ pc[p] = "up" => Agree(s, q) /\ Agree(p, q)
        /\ pc[s] \in Initialising /\ pc[p] = "up" =>
              \A r \in Queue : r < q => Agree(s, r) /\ Agree(p, r)
        /\ pc[s] = "ready" /\ pc[p] = "up" =>
              \A r \in Queue : Agree(s, r) /\ Agree(p, r)

ColdInv ==
    restarts = 0 =>
        /\ ~overlapped
        /\ \A s \in Side : ColdMarks(s) /\ ColdPair(s) /\ ColdWords(s)

IInv ==
    /\ TypeOK
    /\ \A s \in Side : LocalInv(s)
    /\ ColdInv
    /\ restarts > 0 /\ ~overlapped => \A s \in Side : WarmInv(s)
    /\ BothUp /\ ~overlapped => \A s \in Side, q \in Queue : Agree(s, q)

-----------------------------------------------------------------------------
(* Sides, queues and indexes *)

LEMMA Sides ==
    \A s \in Side : /\ Peer(s) \in Side /\ Peer(s) # s /\ Peer(Peer(s)) = s
                    /\ \A t \in Side : t = s \/ t = Peer(s)
BY SMTT(60) DEF Side, Peer

LEMMA Queues ==
    /\ QueuesPerChannel \in Nat \ {0} /\ LastQueue \in Nat
    /\ 0 \in Queue /\ Queue \subseteq Nat
    /\ \A q \in Queue : q <= LastQueue /\ (q < LastQueue => q + 1 \in Queue)
<1>1. QueuesPerChannel \in Nat \ {0} /\ NumChannels \in Nat \ {0}
    BY InstanceAssumption, SMTT(60) DEF InstanceAssumption, QueuesPerChannel
<1>2. \A m, n \in Nat \ {0} : m * n \in Nat /\ m * n >= 1
    BY SMTT(60)
<1>3. NumChannels * QueuesPerChannel \in Nat /\ NumChannels * QueuesPerChannel >= 1
    BY <1>1, <1>2
<1>4. LastQueue \in Nat
    BY <1>3, SMTT(60) DEF LastQueue
<1> QED BY <1>1, <1>4, SMTT(60) DEF Queue

LEMMA QueueOrder ==
    /\ \A q \in Queue : q <= q /\ (q < LastQueue \/ q = LastQueue) /\ ~(q < 0)
    /\ \A q, r \in Queue :
          /\ q < r \/ q = r \/ q > r
          /\ q < r => q <= r /\ q # r /\ r > q /\ ~(r < q)
          /\ q > r => r < q /\ r <= q /\ q # r /\ ~(q < r)
          /\ q < r + 1 => q < r \/ q = r
          /\ r + 1 <= q => r <= q /\ r # q
          /\ q > r + 1 \/ q = r + 1 => q > r
    /\ \A q, r, t \in Queue : q < r /\ r < t => q < t
BY Queues, SMTT(60)

LEMMA Elements == ElemNum \in Nat \ {0} /\ elem_num = ElemNum + 1
BY InstanceAssumption DEF InstanceAssumption, elem_num

LEMMA ModSum ==
    \A i, j \in 0..ElemNum :
        (i + j) % elem_num = IF i + j <= ElemNum THEN i + j ELSE i + j - elem_num
<1> SUFFICES ASSUME NEW i \in 0..ElemNum, NEW j \in 0..ElemNum
             PROVE  (i + j) % elem_num =
                       IF i + j <= ElemNum THEN i + j ELSE i + j - elem_num
    OBVIOUS
<1>1. elem_num \in Nat \ {0} /\ ElemNum = elem_num - 1
    BY Elements, SMTT(60)
<1>2. \A n \in Nat \ {0} : \A x \in 0..(n - 1) : x % n = x
    BY SMTT(60)
<1>3. \A n \in Nat \ {0} : \A x \in n..(n + n - 1) : x % n = x - n
    BY SMTT(60)
<1>4. CASE i + j <= ElemNum
  <2>1. i + j \in 0..(elem_num - 1)
      BY <1>1, <1>4, SMTT(60)
  <2> QED BY <1>1, <1>2, <1>4, <2>1
<1>5. CASE ~(i + j <= ElemNum)
  <2>1. i + j \in elem_num..(elem_num + elem_num - 1)
      BY <1>1, <1>5, SMTT(60)
  <2> QED BY <1>1, <1>3, <1>5, <2>1, SMTT(60)
<1> QED BY <1>4, <1>5

LEMMA ModNext ==
    \A i \in 0..ElemNum :
        /\ (i + 1) % elem_num = IF i = ElemNum THEN 0 ELSE i + 1
        /\ i % elem_num = i
<1> SUFFICES ASSUME NEW i \in 0..ElemNum
             PROVE  /\ (i + 1) % elem_num = IF i = ElemNum THEN 0 ELSE i + 1
                    /\ i % elem_num = i
    OBVIOUS
<1>1. 1 \in 0..ElemNum /\ 0 \in 0..ElemNum
    BY Elements, SMTT(60)
<1>2. (i + 1) % elem_num = IF i + 1 <= ElemNum THEN i + 1 ELSE i + 1 - elem_num
    BY <1>1, ModSum
<1>3. (i + 0) % elem_num = IF i + 0 <= ElemNum THEN i + 0 ELSE i + 0 - elem_num
    BY <1>1, ModSum
<1> QED BY <1>2, <1>3, Elements, SMTT(60)

-----------------------------------------------------------------------------
(* What every step leaves alone *)

\* A step of side s other than Exchange.
OwnStep(s) == InitStep(s) \/ FreeBegin(s) \/ Crash(s)

USE DEF Goto

\* It changes the state of side s only.
LEMMA Frame ==
    ASSUME NEW s \in Side, TypeOK, OwnStep(s)
    PROVE  LET p == Peer(s)
           IN  /\ state'[p] = state[p] /\ sentinel'[p] = sentinel[p]
               /\ write'[p] = write[p] /\ read'[p] = read[p]
               /\ push_ring'[p] = push_ring[p] /\ pc'[p] = pc[p]
               /\ queue'[p] = queue[p] /\ bufs'[p] = bufs[p]
<1> DEFINE p == Peer(s)
<1>1. p \in Side /\ p # s
    BY Sides
<1>2. CASE InitStep(s)
    BY <1>1, <1>2 DEF InitStep, InitClear, QueueCheck, QueueMark, QueueProbe,
       QueueZeroWrite,
        QueueZeroRead, QueueSyncWrite, QueueSyncRead, QueueFill, QueueDone, InitReady,
        FreeSkip, FreeSentinel, FreeWrite, FreeRead, FreeNext, rings, TypeOK
<1>3. CASE FreeBegin(s) \/ Crash(s)
    BY <1>1, <1>3 DEF FreeBegin, Crash, rings, TypeOK
<1> QED BY <1>2, <1>3 DEF OwnStep

-----------------------------------------------------------------------------
(* Types *)

LEMMA TypeInit == Init => TypeOK
<1> SUFFICES ASSUME Init PROVE TypeOK
    OBVIOUS
<1>1. 0 \in 0..ElemNum /\ 0 \in 0..MaxRestarts /\ 0 \in Queue
    BY Queues, Elements, InstanceAssumption, SMTT(60) DEF InstanceAssumption
<1>2. /\ state \in [Side -> {"CLEAR", "READY"}]
      /\ push_ring \in [Side -> SUBSET Queue]
      /\ pc \in [Side -> {"down", "up"} \cup Inside]
    BY DEF Init
<1>3. sentinel \in [Side -> [Queue -> {"NONE", "IN_PROGRESS", "DONE"}]]
    BY DEF Init
<1>4. write \in [Side -> [Queue -> 0..ElemNum]] /\ read \in [Side -> [Queue -> 0..ElemNum]]
    BY <1>1 DEF Init
<1>5. queue \in [Side -> Queue] /\ bufs \in [Side -> 0..ElemNum]
    BY <1>1 DEF Init
<1> QED BY <1>1, <1>2, <1>3, <1>4, <1>5 DEF Init, TypeOK

LEMMA NextIndex == \A i \in 0..ElemNum : (i + 1) % elem_num \in 0..ElemNum
BY ModNext, Elements, SMTT(60)

LEMMA SyncedIndex ==
    \A i \in 0..ElemNum : i % elem_num \in 0..ElemNum /\ (i + 1) % elem_num \in 0..ElemNum
BY ModNext, NextIndex

LEMMA NextBuf == \A i \in 0..ElemNum : (i + 1) % ElemNum \in 0..ElemNum
<1>1. \A n \in Nat \ {0} : \A x \in Nat : x % n \in 0..n
    BY SMTT(60)
<1> QED BY <1>1, Elements, SMTT(60)

LEMMA TypeStep ==
    ASSUME NEW s \in Side, TypeOK, OwnStep(s) PROVE
    /\ state' \in [Side -> {"CLEAR", "READY"}]
    /\ sentinel' \in [Side -> [Queue -> {"NONE", "IN_PROGRESS", "DONE"}]]
    /\ write' \in [Side -> [Queue -> 0..ElemNum]]
    /\ read' \in [Side -> [Queue -> 0..ElemNum]]
    /\ push_ring' \in [Side -> SUBSET Queue]
    /\ pc' \in [Side -> {"down", "up"} \cup Inside]
    /\ queue' \in [Side -> Queue]
    /\ bufs' \in [Side -> 0..ElemNum]
    /\ restarts' \in 0..MaxRestarts
<1>1. state' \in [Side -> {"CLEAR", "READY"}]
    BY DEF TypeOK, OwnStep, rings, InitStep, InitClear, QueueCheck, QueueMark,
         QueueProbe, QueueZeroWrite, QueueZeroRead, QueueSyncWrite, QueueSyncRead,
         QueueFill, QueueDone, InitReady, FreeSkip, FreeSentinel, FreeWrite, FreeRead,
         FreeNext, FreeBegin, Crash
<1>e. PICK q \in Queue : q = queue[s]
    BY DEF TypeOK
<1>q. q \in Queue /\ Peer(s) \in Side
    BY Sides
<1>2. sentinel' \in [Side -> [Queue -> {"NONE", "IN_PROGRESS", "DONE"}]]
  <2>1. \/ sentinel' = sentinel
        \/ \E v \in {"NONE", "IN_PROGRESS", "DONE"} :
              sentinel' = [sentinel EXCEPT ![s][q] = v]
      BY <1>e DEF OwnStep, rings, InitStep, InitClear, QueueCheck, QueueMark,
         QueueProbe, QueueZeroWrite, QueueZeroRead, QueueSyncWrite, QueueSyncRead,
         QueueFill, QueueDone, InitReady, FreeSkip, FreeSentinel, FreeWrite, FreeRead,
         FreeNext, FreeBegin, Crash
  <2>2. sentinel \in [Side -> [Queue -> {"NONE", "IN_PROGRESS", "DONE"}]]
      BY DEF TypeOK
  <2> QED BY <1>q, <2>1, <2>2, SMTT(60)
<1>3. write' \in [Side -> [Queue -> 0..ElemNum]]
  <2>1. \/ write' = write
        \/ write' = [write EXCEPT ![s][q] = 0]
        \/ write' = [write EXCEPT ![s][q] = read[Peer(s)][q]]
        \/ write' = [write EXCEPT ![s][q] = (@ + 1) % elem_num]
      BY <1>e DEF OwnStep, rings, InitStep, InitClear, QueueCheck, QueueMark,
         QueueProbe, QueueZeroWrite, QueueZeroRead, QueueSyncWrite, QueueSyncRead,
         QueueFill, QueueDone, InitReady, FreeSkip, FreeSentinel, FreeWrite, FreeRead,
         FreeNext, FreeBegin, Crash
  <2>2. write[s][q] \in 0..ElemNum /\ read[Peer(s)][q] \in 0..ElemNum /\ 0 \in 0..ElemNum
      BY <1>q, Elements, SMTT(60) DEF TypeOK
  <2>3. (write[s][q] + 1) % elem_num \in 0..ElemNum
      BY <2>2, NextIndex
  <2>4. write \in [Side -> [Queue -> 0..ElemNum]]
      BY DEF TypeOK
  <2> QED BY <1>q, <2>1, <2>2, <2>3, <2>4, SMTT(60)
<1>4. read' \in [Side -> [Queue -> 0..ElemNum]]
  <2> DEFINE w == write[Peer(s)][q]
  <2>1. \/ read' = read
        \/ read' = [read EXCEPT ![s][q] = 0]
        \/ read' = [read EXCEPT ![s][q] = (w + 1) % elem_num]
        \/ read' = [read EXCEPT ![s][q] = w % elem_num]
      BY <1>e DEF OwnStep, rings, InitStep, InitClear, QueueCheck, QueueMark,
         QueueProbe, QueueZeroWrite, QueueZeroRead, QueueSyncWrite, QueueSyncRead,
         QueueFill, QueueDone, InitReady, FreeSkip, FreeSentinel, FreeWrite, FreeRead,
         FreeNext, FreeBegin, Crash
  <2>2. w \in 0..ElemNum /\ 0 \in 0..ElemNum
      BY <1>q, Elements, SMTT(60) DEF TypeOK
  <2>3. (w + 1) % elem_num \in 0..ElemNum /\ w % elem_num \in 0..ElemNum
      BY <2>2, SyncedIndex
  <2>4. read \in [Side -> [Queue -> 0..ElemNum]]
      BY DEF TypeOK
  <2> HIDE DEF w
  <2> QED BY <1>q, <2>1, <2>2, <2>3, <2>4, SMTT(60)
<1>5. push_ring' \in [Side -> SUBSET Queue]
  <2>1. \/ push_ring' = push_ring
        \/ push_ring' = [push_ring EXCEPT ![s] = @ \cup {q}]
        \/ push_ring' = [push_ring EXCEPT ![s] = @ \ {q}]
        \/ push_ring' = [push_ring EXCEPT ![s] = {}]
      BY <1>e DEF OwnStep, rings, InitStep, InitClear, QueueCheck, QueueMark,
         QueueProbe, QueueZeroWrite, QueueZeroRead, QueueSyncWrite, QueueSyncRead,
         QueueFill, QueueDone, InitReady, FreeSkip, FreeSentinel, FreeWrite, FreeRead,
         FreeNext, FreeBegin, Crash
  <2>2. push_ring \in [Side -> SUBSET Queue]
      BY DEF TypeOK
  <2>3. push_ring[s] \cup {q} \in SUBSET Queue /\ push_ring[s] \ {q} \in SUBSET Queue
      BY <1>q, <2>2
  <2> QED BY <2>1, <2>2, <2>3
<1>6. pc' \in [Side -> {"down", "up"} \cup Inside]
    BY DEF TypeOK, Inside, Synced, OwnStep, rings, InitStep, InitClear,
       QueueCheck,
       QueueMark,
         QueueProbe, QueueZeroWrite, QueueZeroRead, QueueSyncWrite, QueueSyncRead,
         QueueFill, QueueDone, InitReady, FreeSkip, FreeSentinel, FreeWrite, FreeRead,
         FreeNext, FreeBegin, Crash
<1>7. queue' \in [Side -> Queue]
  <2>1. \/ queue' = queue
        \/ queue' = [queue EXCEPT ![s] = 0]
        \/ q < LastQueue /\ queue' = [queue EXCEPT ![s] = q + 1]
        \/ q # LastQueue /\ queue' = [queue EXCEPT ![s] = q + 1]
        \/ ~(q + 1 > LastQueue) /\ queue' = [queue EXCEPT ![s] = q + 1]
        \/ /\ ~(q + QueuesPerChannel > LastQueue)
           /\ queue' = [queue EXCEPT ![s] = q + QueuesPerChannel]
      BY <1>e DEF OwnStep, rings, InitStep, InitClear,
         QueueCheck, QueueMark,
         QueueProbe, QueueZeroWrite, QueueZeroRead, QueueSyncWrite, QueueSyncRead,
         QueueFill, QueueDone, InitReady, FreeSkip, FreeSentinel, FreeWrite, FreeRead,
         FreeNext, FreeBegin, Crash
  <2>2. /\ 0 \in Queue
        /\ ~(q + QueuesPerChannel > LastQueue) => q + QueuesPerChannel \in Queue
        /\ q # LastQueue => q + 1 \in Queue
      BY <1>q, Queues, SMTT(60) DEF Queue
  <2>3. q < LastQueue \/ ~(q + 1 > LastQueue) => q # LastQueue
      BY <1>q, Queues, SMTT(60)
  <2> QED BY <2>1, <2>2, <2>3 DEF TypeOK
<1>8. bufs' \in [Side -> 0..ElemNum]
  <2>1. \/ bufs' = bufs
        \/ bufs' = [bufs EXCEPT ![s] = 0]
        \/ bufs' = [bufs EXCEPT ![s] = (@ + 1) % ElemNum]
      BY DEF OwnStep, rings, InitStep, InitClear, QueueCheck, QueueMark,
         QueueProbe, QueueZeroWrite, QueueZeroRead, QueueSyncWrite, QueueSyncRead,
         QueueFill, QueueDone, InitReady, FreeSkip, FreeSentinel, FreeWrite, FreeRead,
         FreeNext, FreeBegin, Crash
  <2>2. 0 \in 0..ElemNum /\ (bufs[s] + 1) % ElemNum \in 0..ElemNum
      BY NextBuf, Elements, SMTT(60) DEF TypeOK
  <2> QED BY <2>1, <2>2 DEF TypeOK
<1>9. restarts' \in 0..MaxRestarts
  <2>1. restarts' = restarts \/ (restarts < MaxRestarts /\ restarts' = restarts + 1)
      BY DEF OwnStep, rings, InitStep, InitClear, QueueCheck, QueueMark,
         QueueProbe, QueueZeroWrite, QueueZeroRead, QueueSyncWrite, QueueSyncRead,
         QueueFill, QueueDone, InitReady, FreeSkip, FreeSentinel, FreeWrite, FreeRead,
         FreeNext, FreeBegin, Crash
  <2>2. restarts \in 0..MaxRestarts /\ MaxRestarts \in Nat
      BY InstanceAssumption DEF TypeOK, InstanceAssumption
  <2> QED BY <2>1, <2>2, SMTT(60)
<1> QED BY <1>1, <1>2, <1>3, <1>4, <1>5, <1>6, <1>7, <1>8, <1>9

LEMMA TypeExchange ==
    ASSUME NEW s \in Side, NEW q \in Queue, TypeOK, Exchange(s, q)
    PROVE  /\ write' \in [Side -> [Queue -> 0..ElemNum]]
           /\ read' \in [Side -> [Queue -> 0..ElemNum]]
BY Sides, NextIndex, SMTT(60) DEF Exchange, TypeOK

LEMMA TypeNext == TypeOK /\ [Next]_vars => TypeOK'
<1> SUFFICES ASSUME TypeOK, [Next]_vars PROVE TypeOK'
    OBVIOUS
<1>1. ASSUME NEW s \in Side, OwnStep(s), Recorded PROVE TypeOK'
  <2>1. overlapped' \in BOOLEAN
      BY <1>1 DEF Recorded, TypeOK
  <2> QED BY <1>1, <2>1, TypeStep DEF TypeOK
<1>2. ASSUME NEW s \in Side, NEW q \in Queue, Exchange(s, q), Recorded PROVE TypeOK'
  <2>1. overlapped' \in BOOLEAN
      BY <1>2 DEF Recorded, TypeOK
  <2>2. /\ state' = state /\ sentinel' = sentinel /\ push_ring' = push_ring /\ pc' = pc
        /\ queue' = queue /\ bufs' = bufs /\ restarts' = restarts
      BY <1>2 DEF Exchange
  <2>3. write' \in [Side -> [Queue -> 0..ElemNum]] /\ read' \in [Side -> [Queue -> 0..ElemNum]]
      BY <1>2, TypeExchange
  <2> QED BY <2>1, <2>2, <2>3 DEF TypeOK
<1>3. CASE UNCHANGED vars
    BY <1>3 DEF vars, rings, TypeOK
<1> QED BY <1>1, <1>2, <1>3 DEF Next, OwnStep

\* TypeOK: no initialisation, release or crash brings an index, a mark or a
\* queue number out of range.
THEOREM TypeCorrect == Spec => []TypeOK
<1>1. Init => TypeOK
    BY TypeInit
<1>2. TypeOK /\ [Next]_vars => TypeOK'
    BY TypeNext
<1> QED BY <1>1, <1>2, PTL DEF Spec

-----------------------------------------------------------------------------
(* A side alone *)

LEMMA BufCount ==
    \A b \in Nat : b < ElemNum =>
        (b + 1) % ElemNum = IF b + 1 = ElemNum THEN 0 ELSE b + 1
<1>1. \A n \in Nat \ {0} : n % n = 0
    BY SMTT(60)
<1>2. \A n \in Nat \ {0} : \A x \in 0..(n - 1) : x % n = x
    BY SMTT(60)
<1>3. ASSUME NEW b \in Nat, b < ElemNum
      PROVE  (b + 1) % ElemNum = IF b + 1 = ElemNum THEN 0 ELSE b + 1
  <2>1. CASE b + 1 = ElemNum
      BY <1>1, <2>1, Elements
  <2>2. CASE b + 1 # ElemNum
    <3>1. b + 1 \in 0..(ElemNum - 1)
        BY <1>3, <2>2, Elements, SMTT(60)
    <3> QED BY <1>2, <2>2, <3>1, Elements
  <2> QED BY <2>1, <2>2
<1> QED BY <1>3

LEMMA LocalOwn ==
    ASSUME NEW s \in Side, TypeOK, LocalInv(s), OwnStep(s)
    PROVE  LocalInv(s)'
<1> USE Queues, Elements, Sides
    DEF TypeOK, Inside, rings, LocalInv, Initialising, Marked, Freeing, InFree
<1>1. CASE InitClear(s)
    BY <1>1, SMTT(60) DEF InitClear
<1>2. CASE QueueCheck(s)
    BY <1>2, SMTT(60) DEF QueueCheck
<1>3. CASE QueueMark(s) \/ QueueProbe(s)
    BY <1>3, SMTT(60) DEF QueueMark, QueueProbe
<1>4. CASE QueueZeroWrite(s) \/ QueueZeroRead(s)
    BY <1>4, SMTT(60) DEF QueueZeroWrite, QueueZeroRead, Synced
<1>5. CASE QueueSyncWrite(s)
    BY <1>5, SMTT(60) DEF QueueSyncWrite
<1>6. CASE QueueSyncRead(s)
    BY <1>6, SMTT(60) DEF QueueSyncRead, Synced
<1>7. CASE QueueFill(s)
  <2>1. /\ pc[s] = "fill" /\ state' = state /\ sentinel' = sentinel
        /\ \/ pc'[s] = "free"
           \/ /\ pc'[s] = "done" /\ bufs[s] + 1 = ElemNum /\ queue' = queue
              /\ bufs'[s] = (bufs[s] + 1) % ElemNum
           \/ /\ pc'[s] = "fill" /\ bufs[s] + 1 # ElemNum /\ queue' = queue
              /\ bufs'[s] = (bufs[s] + 1) % ElemNum
      BY <1>7, SMTT(60) DEF QueueFill
  <2>2. bufs[s] \in Nat /\ bufs[s] < ElemNum
      BY <2>1, SMTT(60)
  <2>3. /\ bufs[s] + 1 = ElemNum => (bufs[s] + 1) % ElemNum = 0
        /\ bufs[s] + 1 # ElemNum => (bufs[s] + 1) % ElemNum = bufs[s] + 1
      BY <2>2, BufCount
  <2> QED BY <2>1, <2>2, <2>3, SMTT(60)
<1>8. CASE QueueDone(s)
  <2>1. /\ pc[s] = "done" /\ state' = state /\ bufs' = bufs
        /\ sentinel'[s] = [sentinel[s] EXCEPT ![queue[s]] = "DONE"]
        /\ \/ pc'[s] = "ready" /\ queue[s] = LastQueue /\ queue' = queue
           \/ pc'[s] = "check" /\ queue'[s] = queue[s] + 1
      BY <1>8, SMTT(60) DEF QueueDone
  <2>2. ASSUME NEW q \in Queue, q < queue[s] \/ q = queue[s]
        PROVE  sentinel'[s][q] = "DONE"
      BY <2>1, <2>2, SMTT(60)
  <2>3. ASSUME NEW q \in Queue, q < queue[s] + 1
        PROVE  q < queue[s] \/ q = queue[s]
    <3>1. q \in Nat /\ queue[s] \in Nat
        OBVIOUS
    <3> QED BY <2>3, <3>1, QueueOrder
  <2>4. \A q \in Queue : q < LastQueue \/ q = LastQueue
      BY SMTT(60)
  <2>5. state'[s] = "CLEAR" /\ bufs'[s] < ElemNum /\ bufs'[s] = 0
      BY <2>1
  <2>6. CASE pc'[s] = "ready"
      BY <2>1, <2>2, <2>4, <2>5, <2>6, SMTT(60)
  <2>7. CASE pc'[s] = "check"
      BY <2>1, <2>2, <2>3, <2>5, <2>7, SMTT(60)
  <2> QED BY <2>1, <2>6, <2>7
<1>81. CASE InitReady(s)
    BY <1>81, SMTT(60) DEF InitReady
<1>9. CASE FreeSkip(s)
    BY <1>9, SMTT(60) DEF FreeSkip
<1>10. CASE FreeSentinel(s) \/ FreeWrite(s)
    BY <1>10, SMTT(60) DEF FreeSentinel, FreeWrite
<1>11. CASE FreeRead(s)
    BY <1>11, SMTT(60) DEF FreeRead, FreeNext
<1>12. CASE FreeBegin(s) \/ Crash(s)
    BY <1>12, SMTT(60) DEF FreeBegin, Crash
<1> QED
    BY <1>1, <1>2, <1>3, <1>4, <1>5, <1>6, <1>7, <1>8, <1>81, <1>9, <1>10, <1>11, <1>12,
       ZenonT(60)
       DEF OwnStep, InitStep

LEMMA LocalPeer ==
    ASSUME NEW s \in Side, TypeOK, LocalInv(Peer(s)), OwnStep(s)
    PROVE  LocalInv(Peer(s))'
BY Frame DEF LocalInv

LEMMA LocalInit == Init => \A s \in Side : LocalInv(s)
BY DEF Init, LocalInv, Initialising, Marked, Freeing, InFree

LEMMA LocalNext ==
    TypeOK /\ (\A s \in Side : LocalInv(s)) /\ [Next]_vars => (\A s \in Side : LocalInv(s))'
<1> SUFFICES ASSUME TypeOK, \A s \in Side : LocalInv(s), [Next]_vars, NEW t \in Side
             PROVE  LocalInv(t)'
    OBVIOUS
<1>1. ASSUME NEW s \in Side, OwnStep(s) PROVE LocalInv(t)'
    BY <1>1, LocalOwn, LocalPeer, Sides
<1>2. ASSUME NEW s \in Side, NEW q \in Queue, Exchange(s, q) PROVE LocalInv(t)'
    BY <1>2 DEF Exchange, LocalInv
<1>3. CASE UNCHANGED vars
    BY <1>3 DEF vars, rings, LocalInv
<1> QED BY <1>1, <1>2, <1>3 DEF Next, OwnStep

\* ReadyIsUsable: a state word that reads READY, which is all that
\* ipc_shm_is_remote_ready looks at, means that its side has every queue
\* initialised, whatever crashes, releases and retries came before.
THEOREM ReadyIsUsableHolds == Spec => []ReadyIsUsable
<1>1. Init => TypeOK /\ \A s \in Side : LocalInv(s)
    BY TypeInit, LocalInit
<1>2. TypeOK /\ (\A s \in Side : LocalInv(s)) /\ [Next]_vars =>
          TypeOK' /\ (\A s \in Side : LocalInv(s))'
    BY TypeNext, LocalNext
<1>3. TypeOK /\ (\A s \in Side : LocalInv(s)) => ReadyIsUsable
    BY DEF LocalInv, ReadyIsUsable
<1> QED BY <1>1, <1>2, <1>3, PTL DEF Spec

-----------------------------------------------------------------------------
(* Before the first restart *)

ColdSides == \A s \in Side : LocalInv(s) /\ ColdMarks(s) /\ ColdPair(s) /\ ColdWords(s)

\* Both sides count from 0: a pool queue has room.
LEMMA ColdNotFull ==
    ASSUME NEW s \in Side, TypeOK, ColdSides, pc[s] = "fill"
    PROVE  ~Full(s, queue[s])
<1>1. ~BothUp /\ Peer(s) \in Side /\ queue[s] \in Queue
    BY Sides DEF BothUp, TypeOK
<1>2. write[s][queue[s]] = bufs[s] /\ read[Peer(s)][queue[s]] = 0
    BY <1>1 DEF ColdSides, ColdWords
<1>3. bufs[s] < ElemNum /\ bufs[s] \in 0..ElemNum
    BY DEF ColdSides, LocalInv, Initialising, Marked, TypeOK
<1>4. (bufs[s] + 1) % elem_num = bufs[s] + 1
    BY <1>3, ModNext, Elements, SMTT(60)
<1> QED BY <1>2, <1>3, <1>4, Elements, SMTT(60) DEF Full

LEMMA ColdMarksOwn ==
    ASSUME NEW s \in Side, TypeOK, ColdSides, InitStep(s)
    PROVE  ColdMarks(s)'
<1> USE DEF rings, ColdMarks, Initialising, Marked, Freeing, InFree
<1>0. LocalInv(s) /\ ColdMarks(s)
    BY DEF ColdSides
<1>q. queue[s] \in Queue /\ sentinel[s] \in [Queue -> {"NONE", "IN_PROGRESS", "DONE"}]
    BY DEF TypeOK
<1>1. CASE InitClear(s)
    BY <1>q, Queues, <1>0, <1>1 DEF InitClear, TypeOK
<1>2. CASE QueueCheck(s)
  <2>1. /\ pc[s] = "check" /\ sentinel' = sentinel
        /\ push_ring'[s] = push_ring[s] \cup {queue[s]}
        /\ \/ pc'[s] = "free" /\ queue'[s] = 0
           \/ pc'[s] = "mark" /\ queue' = queue
      BY <1>q, Queues, <1>2 DEF QueueCheck, TypeOK
  <2>2. CASE pc'[s] = "mark"
      BY <1>0, <2>1, <2>2
  <2>3. CASE pc'[s] = "free"
    <3>1. \A q, r \in Queue : sentinel[s][r] = "DONE" /\ q < r => sentinel[s][q] = "DONE"
      <4>1. \A r \in Queue : sentinel[s][r] = "DONE" => r < queue[s]
        <5>1. \A r \in Queue : r < queue[s] \/ r = queue[s] \/ r > queue[s]
            BY <1>q, QueueOrder
        <5> QED BY <1>0, <2>1, <5>1
      <4>2. \A q, r \in Queue : q < r /\ r < queue[s] => q < queue[s]
          BY <1>q, QueueOrder
      <4> QED BY <1>0, <2>1, <4>1, <4>2 DEF LocalInv
    <3>2. \A q \in Queue : ~(q < queue'[s])
        BY <2>1, <2>3, QueueOrder, SMTT(60)
    <3> QED BY <1>0, <2>1, <2>3, <3>1, <3>2
  <2> QED BY <2>1, <2>2, <2>3
<1>3. CASE QueueMark(s)
    BY <1>q, Queues, <1>0, <1>3, SMTT(60) DEF QueueMark, TypeOK
<1>31. CASE QueueProbe(s)
    BY <1>q, Queues, <1>0, <1>31 DEF QueueProbe, TypeOK
<1>4. CASE QueueZeroWrite(s) \/ QueueZeroRead(s)
    BY <1>q, Queues, <1>0, <1>4, SMTT(60) DEF QueueZeroWrite, QueueZeroRead, Synced, TypeOK
<1>5. CASE QueueSyncWrite(s)
    BY <1>q, Queues, <1>0, <1>5 DEF QueueSyncWrite, TypeOK
<1>6. CASE QueueSyncRead(s)
    BY <1>q, Queues, <1>0, <1>6 DEF QueueSyncRead, Synced, TypeOK
<1>7. CASE QueueFill(s)
  <2>1. /\ pc[s] = "fill" /\ pc'[s] \in {"fill", "done"} /\ queue' = queue
        /\ sentinel' = sentinel /\ push_ring' = push_ring
      BY <1>q, Queues, <1>7, ColdNotFull DEF QueueFill, TypeOK
  <2> QED BY <1>0, <2>1
<1>8. CASE QueueDone(s)
  <2>1. /\ pc[s] = "done" /\ push_ring' = push_ring
        /\ sentinel'[s] = [sentinel[s] EXCEPT ![queue[s]] = "DONE"]
        /\ \/ pc'[s] = "ready" /\ queue' = queue
           \/ pc'[s] = "check" /\ queue'[s] = queue[s] + 1 /\ queue[s] + 1 \in Queue
      BY <1>q, Queues, <1>8 DEF QueueDone, TypeOK
  <2>2. \A q \in Queue : q > queue[s] + 1 \/ q = queue[s] + 1 => q > queue[s]
      BY <1>q, QueueOrder
  <2>3. \A q \in Queue : q > queue[s] => q # queue[s]
      BY <1>q, QueueOrder
  <2>4. /\ sentinel'[s][queue[s]] = "DONE"
        /\ \A q \in Queue : q # queue[s] => sentinel'[s][q] = sentinel[s][q]
      BY <1>q, <2>1
  <2>5. \A q \in Queue : q # queue[s] => sentinel'[s][q] # "IN_PROGRESS"
      BY <1>0, <2>1, <2>4
  <2>6. \A q \in Queue : q > queue[s] => sentinel'[s][q] = "NONE"
      BY <1>0, <2>1, <2>3, <2>4
  <2>7. \A q \in Queue : sentinel'[s][q] # "NONE" => q \in push_ring'[s]
      BY <1>0, <2>1, <2>4
  <2>8. CASE pc'[s] = "ready"
      BY <2>1, <2>4, <2>5, <2>7, <2>8
  <2>9. CASE pc'[s] = "check"
      BY <2>1, <2>2, <2>4, <2>5, <2>6, <2>7, <2>9
  <2> QED BY <2>1, <2>8, <2>9
<1>81. CASE InitReady(s)
    BY <1>q, Queues, <1>0, <1>81 DEF InitReady, LocalInv, TypeOK
<1>9. CASE FreeSkip(s)
  <2>1. /\ pc[s] = "free" /\ pc'[s] \in {"down", "free"} /\ ~Freed(s, queue[s])
        /\ sentinel' = sentinel /\ push_ring' = push_ring
      BY <1>q, Queues, <1>9 DEF FreeSkip, TypeOK
  <2>2. sentinel[s][queue[s]] = "NONE"
      BY <1>q, <1>0, <2>1 DEF Freed
  <2>3. \A q \in Queue : q < queue[s] \/ q = queue[s] \/ q > queue[s]
      BY <1>q, QueueOrder
  <2>4. ASSUME NEW q \in Queue PROVE sentinel[s][q] = "NONE"
    <3>1. CASE q > queue[s]
      <4>1. sentinel[s][q] # "DONE"
        <5>1. queue[s] <= queue[s] /\ queue[s] < q /\ queue[s] \in Queue
            BY <1>q, <3>1, QueueOrder
        <5> QED BY <1>0, <2>1, <2>2, <5>1
      <4>2. sentinel[s][q] # "IN_PROGRESS"
          BY <1>0, <2>1
      <4> QED BY <1>q, <4>1, <4>2
    <3> QED BY <1>0, <2>1, <2>2, <2>3, <3>1
  <2> QED BY <1>0, <2>1, <2>4
<1>10. CASE FreeSentinel(s)
    BY <1>q, Queues, <1>0, <1>10 DEF FreeSentinel, TypeOK
<1>101. CASE FreeWrite(s)
    BY <1>q, Queues, <1>0, <1>101 DEF FreeWrite, TypeOK
<1>11. CASE FreeRead(s)
  <2>1. /\ pc[s] = "freeRead" /\ sentinel' = sentinel
        /\ push_ring'[s] = push_ring[s] \ {queue[s]}
        /\ \/ pc'[s] = "down" /\ queue[s] = LastQueue
           \/ pc'[s] = "free" /\ queue'[s] = queue[s] + 1
      BY <1>q, Queues, <1>11 DEF FreeRead, FreeNext, TypeOK
  <2>2. sentinel[s][queue[s]] = "NONE"
      BY <1>0, <2>1 DEF LocalInv
  <2>3. \A q \in Queue : q < queue[s] + 1 => q < queue[s] \/ q = queue[s]
      BY <1>q, QueueOrder
  <2>4. \A q \in Queue : queue[s] + 1 <= q => queue[s] <= q /\ queue[s] # q
      BY <1>q, QueueOrder
  <2>5. CASE pc'[s] = "down"
    <3>1. \A q \in Queue : q < queue[s] \/ q = queue[s]
        BY <2>1, <2>5, QueueOrder
    <3> QED BY <1>0, <2>1, <2>2, <2>5, <3>1
  <2>6. CASE pc'[s] = "free"
      BY <1>0, <2>1, <2>2, <2>3, <2>4, <2>6
  <2> QED BY <2>1, <2>5, <2>6
<1> QED
    BY <1>1, <1>2, <1>3, <1>31, <1>4, <1>5, <1>6, <1>7, <1>8, <1>81, <1>9, <1>10,
       <1>101, <1>11 DEF InitStep

LEMMA ColdMarksPeer ==
    ASSUME NEW s \in Side, TypeOK, ColdSides, InitStep(s)
    PROVE  ColdMarks(Peer(s))'
BY Frame, Sides, SMTT(60) DEF ColdSides, ColdMarks, OwnStep

LEMMA ColdPairOwn ==
    ASSUME NEW s \in Side, TypeOK, ColdSides, InitStep(s)
    PROVE  ColdPair(s)'
<1>e. PICK p \in Side : p = Peer(s)
    BY Sides
<1> USE <1>e
<1> USE DEF rings, Initialising, Marked, Freeing, InFree
<1>q. queue[s] \in Queue /\ sentinel[s] \in [Queue -> {"NONE", "IN_PROGRESS", "DONE"}]
    BY DEF TypeOK
<1>p. /\ p \in Side /\ p # s
      /\ pc'[p] = pc[p] /\ sentinel'[p] = sentinel[p] /\ queue'[p] = queue[p]
    BY Sides, Frame DEF OwnStep
<1>0. /\ LocalInv(s) /\ ColdMarks(s) /\ ColdPair(s)
      /\ LocalInv(p) /\ ColdMarks(p)
    BY <1>q, Queues, <1>p DEF ColdSides, TypeOK
<1> SUFFICES ColdPair(s)'
    OBVIOUS
<1>1. CASE InitClear(s)
    BY <1>q, Queues, <1>p, <1>0, <1>1 DEF InitClear, ColdPair, TypeOK
<1>2. CASE QueueCheck(s)
  <2>1. /\ pc[s] = "check" /\ sentinel' = sentinel
        /\ \/ pc'[s] = "free" /\ sentinel[p][queue[s]] = "IN_PROGRESS"
           \/ pc'[s] = "mark"
      BY <1>q, Queues, <1>2 DEF QueueCheck, TypeOK
  <2>2. CASE pc'[s] = "mark"
      BY <2>2 DEF ColdPair
  <2>3. CASE pc'[s] = "free"
    <3>1. pc[p] \in Marked /\ queue[p] = queue[s]
        BY <1>q, <1>0, <2>1, <2>3 DEF ColdMarks
    <3>2. \A q \in Queue : sentinel[s][q] = "DONE" => q < queue[s]
      <4>1. \A q \in Queue : q < queue[s] \/ q = queue[s] \/ q > queue[s]
          BY <1>q, QueueOrder
      <4> QED BY <1>0, <2>1, <4>1 DEF ColdMarks
    <3>3. \A q \in Queue : q < queue[s] => sentinel[p][q] = "DONE"
        BY <1>0, <3>1 DEF LocalInv
    <3>4. pc'[p] \notin Freeing /\ pc'[s] \notin InFree /\ pc'[s] \notin {"syncWrite", "syncRead"}
        BY <1>p, <2>3, <3>1
    <3> QED BY <1>p, <2>1, <3>2, <3>3, <3>4 DEF ColdPair
  <2> QED BY <2>1, <2>2, <2>3
<1>3. CASE QueueMark(s)
    BY <1>q, Queues, <1>p, <1>0, <1>3 DEF QueueMark, ColdPair, TypeOK
<1>31. CASE QueueProbe(s)
    BY <1>q, Queues, <1>p, <1>0, <1>31 DEF QueueProbe, ColdPair, TypeOK
<1>4. CASE QueueZeroWrite(s) \/ QueueZeroRead(s)
    BY <1>q, Queues, <1>p, <1>0, <1>4 DEF QueueZeroWrite, QueueZeroRead, Synced,
       ColdPair, TypeOK
<1>5. CASE QueueSyncWrite(s)
    BY <1>q, Queues, <1>p, <1>0, <1>5 DEF QueueSyncWrite, ColdPair, TypeOK
<1>6. CASE QueueSyncRead(s)
    BY <1>q, Queues, <1>p, <1>0, <1>6 DEF QueueSyncRead, Synced, ColdPair, TypeOK
<1>7. CASE QueueFill(s)
    BY <1>q, Queues, <1>p, <1>0, <1>7, ColdNotFull DEF QueueFill, ColdPair, TypeOK
<1>8. CASE QueueDone(s) \/ InitReady(s)
    BY <1>q, Queues, <1>p, <1>0, <1>8 DEF QueueDone, InitReady, ColdPair, TypeOK
<1>9. CASE FreeSkip(s)
    BY <1>q, Queues, <1>p, <1>0, <1>9 DEF FreeSkip, ColdPair, TypeOK
<1>10. CASE FreeSentinel(s)
    BY <1>q, Queues, <1>p, <1>0, <1>10 DEF FreeSentinel, Freed, ColdMarks, ColdPair,
       TypeOK
<1>101. CASE FreeWrite(s)
    BY <1>q, Queues, <1>p, <1>0, <1>101 DEF FreeWrite, ColdPair, TypeOK
<1>11. CASE FreeRead(s)
    BY <1>q, Queues, <1>p, <1>0, <1>11 DEF FreeRead, FreeNext, ColdPair, TypeOK
<1> QED
    BY <1>1, <1>2, <1>3, <1>31, <1>4, <1>5, <1>6, <1>7, <1>8, <1>9, <1>10,
       <1>101, <1>11 DEF InitStep

LEMMA ColdPairPeer ==
    ASSUME NEW s \in Side, TypeOK, ColdSides, InitStep(s)
    PROVE  ColdPair(Peer(s))'
<1>e. PICK p \in Side : p = Peer(s)
    BY Sides
<1> USE <1>e
<1> USE DEF rings, Initialising, Marked, Freeing, InFree
<1>p. /\ p \in Side /\ p # s /\ Peer(p) = s
      /\ pc'[p] = pc[p] /\ sentinel'[p] = sentinel[p] /\ queue'[p] = queue[p]
    BY Sides, Frame DEF OwnStep
<1>q. /\ queue[s] \in Queue /\ queue[p] \in Queue
      /\ sentinel[s] \in [Queue -> {"NONE", "IN_PROGRESS", "DONE"}]
    BY <1>p DEF TypeOK
<1>0. LocalInv(p) /\ ColdMarks(s) /\ ColdMarks(p) /\ ColdPair(s) /\ ColdPair(p)
    BY <1>p DEF ColdSides
\* The queues of s that p relies on stay as they are, and s does not give up
\* while p does.
<1>1. ASSUME \A q \in Queue : sentinel[s][q] = "DONE" => sentinel'[s][q] = "DONE",
             pc[p] \in Freeing => pc'[s] \notin Freeing
      PROVE  ColdPair(p)'
    BY <1>p, <1>q, <1>0, <1>1 DEF ColdPair
<1>2. CASE QueueCheck(s)
  <2>1. /\ sentinel' = sentinel
        /\ sentinel[p][queue[s]] = "IN_PROGRESS" \/ pc'[s] = "mark"
      BY <1>2 DEF QueueCheck, TypeOK
  <2>2. sentinel[p][queue[s]] = "IN_PROGRESS" => pc[p] \notin Freeing
      BY <1>q, <1>0 DEF ColdMarks
  <2> QED BY <1>1, <2>1, <2>2
<1>3. CASE QueueMark(s)
  <2>1. /\ sentinel'[s] = [sentinel[s] EXCEPT ![queue[s]] = "IN_PROGRESS"]
        /\ pc[s] = "mark" /\ pc'[s] = "probe"
      BY <1>3 DEF QueueMark, TypeOK
  <2>2. sentinel[s][queue[s]] = "NONE"
      BY <1>0, <2>1 DEF ColdMarks
  <2> QED BY <1>q, <1>1, <2>1, <2>2
<1>4. CASE \/ InitClear(s) \/ QueueProbe(s) \/ QueueZeroWrite(s) \/ QueueZeroRead(s)
           \/ QueueSyncWrite(s) \/ QueueSyncRead(s) \/ InitReady(s)
  <2>1. sentinel' = sentinel /\ pc'[s] \notin Freeing
      BY <1>4 DEF InitClear, QueueProbe, QueueZeroWrite, QueueZeroRead, QueueSyncWrite,
                  QueueSyncRead, InitReady, Synced, TypeOK
  <2> QED BY <1>1, <2>1
<1>5. CASE QueueFill(s)
  <2>1. sentinel' = sentinel /\ pc'[s] \notin Freeing
      BY <1>5, ColdNotFull DEF QueueFill, TypeOK
  <2> QED BY <1>1, <2>1
<1>6. CASE QueueDone(s)
  <2>1. /\ sentinel'[s] = [sentinel[s] EXCEPT ![queue[s]] = "DONE"]
        /\ pc'[s] \notin Freeing
      BY <1>6 DEF QueueDone, TypeOK
  <2> QED BY <1>q, <1>1, <2>1
<1>7. CASE FreeSkip(s) \/ FreeWrite(s) \/ FreeRead(s)
  <2>1. sentinel' = sentinel /\ pc[s] \in Freeing
      BY <1>7 DEF FreeSkip, FreeWrite, FreeRead
  <2>2. pc[p] \notin Freeing
      BY <1>0, <2>1 DEF ColdPair
  <2> QED BY <1>1, <2>1, <2>2
<1>8. CASE FreeSentinel(s)
  <2>1. /\ sentinel'[s] = [sentinel[s] EXCEPT ![queue[s]] = "NONE"]
        /\ pc[s] = "free"
      BY <1>8 DEF FreeSentinel, TypeOK
  <2>2. pc[p] \notin Freeing
      BY <1>0, <2>1 DEF ColdPair
  <2>3. ASSUME pc[p] \in {"syncWrite", "syncRead"} PROVE sentinel'[s][queue[p]] = "DONE"
    <3>1. sentinel[s][queue[p]] = "DONE"
        BY <1>0, <1>p, <2>3 DEF ColdPair
    <3>2. sentinel[p][queue[p]] = "IN_PROGRESS"
        BY <1>0, <2>3 DEF LocalInv
    <3>3. queue[p] # queue[s]
      <4>1. CASE sentinel[s][queue[s]] = "DONE"
          BY <1>0, <1>q, <2>1, <3>1, <3>2, <4>1 DEF ColdPair
      <4> QED BY <3>1, <4>1
    <3> QED BY <1>q, <2>1, <3>1, <3>3
  <2> QED BY <1>p, <2>2, <2>3 DEF ColdPair
<1> QED
    BY <1>2, <1>3, <1>4, <1>5, <1>6, <1>7, <1>8 DEF InitStep

LEMMA ColdWordsOwn ==
    ASSUME NEW s \in Side, TypeOK, ColdSides, InitStep(s)
    PROVE  ColdWords(s)'
<1>e. PICK p \in Side : p = Peer(s)
    BY Sides
<1> USE <1>e
<1> USE DEF rings, Initialising, Marked, Freeing, InFree
<1>p. p \in Side /\ p # s
    BY Sides
<1>q. /\ queue[s] \in Queue
      /\ sentinel[s] \in [Queue -> {"NONE", "IN_PROGRESS", "DONE"}]
      /\ write[s] \in [Queue -> 0..ElemNum] /\ read[s] \in [Queue -> 0..ElemNum]
    BY <1>p DEF TypeOK
<1>b. ~BothUp
  <2>1. pc[s] # "up"
      BY DEF InitStep, InitClear, QueueCheck, QueueMark, QueueProbe, QueueZeroWrite,
             QueueZeroRead, QueueSyncWrite, QueueSyncRead, QueueFill, QueueDone, InitReady,
             FreeSkip, FreeSentinel, FreeWrite, FreeRead
  <2> QED BY <2>1 DEF BothUp
<1>0. LocalInv(s) /\ ColdMarks(s) /\ ColdPair(s) /\ ColdWords(s) /\ ColdWords(p)
    BY <1>p DEF ColdSides
<1> USE <1>b
<1>1. CASE InitClear(s) \/ QueueCheck(s)
  <2>1. /\ sentinel' = sentinel /\ write' = write /\ read' = read
        /\ pc'[s] \in {"check", "mark", "free"}
      BY <1>1 DEF InitClear, QueueCheck, TypeOK
  <2> QED BY <1>0, <2>1 DEF ColdWords
<1>2. CASE QueueMark(s)
  <2>1. /\ sentinel'[s] = [sentinel[s] EXCEPT ![queue[s]] = "IN_PROGRESS"]
        /\ write' = write /\ read' = read /\ pc'[s] = "probe"
      BY <1>2 DEF QueueMark, TypeOK
  <2> QED BY <1>q, <1>0, <2>1 DEF ColdWords
<1>3. CASE QueueProbe(s)
  <2>1. /\ sentinel' = sentinel /\ write' = write /\ read' = read
        /\ pc'[s] \in {"syncWrite", "zeroWrite"}
      BY <1>3 DEF QueueProbe, TypeOK
  <2> QED BY <1>0, <2>1 DEF ColdWords
<1>4. CASE QueueZeroWrite(s) \/ QueueSyncWrite(s)
  <2>1. /\ sentinel' = sentinel /\ read' = read /\ pc'[s] \in {"zeroRead", "syncRead"}
        /\ queue' = queue /\ pc[s] \in {"zeroWrite", "syncWrite"}
        /\ \/ write'[s] = [write[s] EXCEPT ![queue[s]] = 0]
           \/ write'[s] = [write[s] EXCEPT ![queue[s]] = read[p][queue[s]]]
      BY <1>4 DEF QueueZeroWrite, QueueSyncWrite, TypeOK
  <2>2. read[p][queue[s]] = 0
      BY <1>q, <1>0 DEF ColdWords
  <2>3. sentinel[s][queue[s]] = "IN_PROGRESS"
      BY <1>0, <2>1 DEF LocalInv
  <2> QED BY <1>q, <1>0, <2>1, <2>2, <2>3 DEF ColdWords
<1>5. CASE QueueZeroRead(s)
  <2>1. /\ sentinel' = sentinel /\ write' = write /\ bufs' = bufs
        /\ queue' = queue /\ pc[s] = "zeroRead"
        /\ pc'[s] = IF IsPool(queue[s]) THEN "fill" ELSE "done"
        /\ read'[s] = [read[s] EXCEPT ![queue[s]] = 0]
      BY <1>5 DEF QueueZeroRead, Synced, TypeOK
  <2>2. bufs[s] = 0 /\ write[s][queue[s]] = 0
      BY <1>0, <2>1 DEF LocalInv, ColdWords
  <2> QED BY <1>q, <1>0, <2>1, <2>2 DEF ColdWords
<1>6. CASE QueueSyncRead(s)
  <2> DEFINE w == write[p][queue[s]]
  <2>1. /\ sentinel' = sentinel /\ write' = write /\ bufs' = bufs
        /\ queue' = queue /\ pc[s] = "syncRead"
        /\ pc'[s] = IF IsPool(queue[s]) THEN "fill" ELSE "done"
        /\ read'[s] = [read[s] EXCEPT ![queue[s]] =
                          (IF IsPool(queue[s]) THEN w + 1 ELSE w) % elem_num]
      BY <1>6 DEF QueueSyncRead, Synced, TypeOK
  <2>2. bufs[s] = 0 /\ write[s][queue[s]] = 0
      BY <1>0, <2>1 DEF LocalInv, ColdWords
  <2>3. sentinel[p][queue[s]] = "DONE"
      BY <1>0, <2>1 DEF ColdPair
  <2>4. w = IF IsPool(queue[s]) THEN ElemNum ELSE 0
      BY <1>q, <1>0, <2>3 DEF ColdWords
  <2>5. (IF IsPool(queue[s]) THEN w + 1 ELSE w) % elem_num = 0
    <3>1. ElemNum \in 0..ElemNum /\ 0 \in 0..ElemNum
        BY Elements, SMTT(60)
    <3> QED BY <2>4, <3>1, ModNext
  <2> HIDE DEF w
  <2> QED BY <1>q, <1>0, <2>1, <2>2, <2>5 DEF ColdWords
<1>7. CASE QueueFill(s)
  <2>1. /\ sentinel' = sentinel /\ read' = read /\ queue' = queue /\ pc[s] = "fill"
        /\ write'[s] = [write[s] EXCEPT ![queue[s]] = (write[s][queue[s]] + 1) % elem_num]
        /\ pc'[s] = IF bufs[s] + 1 = ElemNum THEN "done" ELSE "fill"
        /\ bufs'[s] = (bufs[s] + 1) % ElemNum
      BY <1>7, ColdNotFull DEF QueueFill, TypeOK
  <2>2. /\ write[s][queue[s]] = bufs[s] /\ IsPool(queue[s]) /\ bufs[s] < ElemNum
        /\ sentinel[s][queue[s]] = "IN_PROGRESS" /\ bufs[s] \in 0..ElemNum
      BY <1>0, <2>1 DEF LocalInv, ColdWords, TypeOK
  <2>3. /\ (write[s][queue[s]] + 1) % elem_num = bufs[s] + 1
        /\ (bufs[s] + 1) % ElemNum = IF bufs[s] + 1 = ElemNum THEN 0 ELSE bufs[s] + 1
    <3>1. bufs[s] \in Nat /\ bufs[s] # ElemNum
        BY <2>2, Elements, SMTT(60)
    <3> QED BY <2>2, <3>1, ModNext, BufCount
  <2>4. /\ write'[s][queue[s]] = bufs[s] + 1
        /\ \A q \in Queue : q # queue[s] => write'[s][q] = write[s][q]
      BY <1>q, <2>1, <2>3
  <2>5. /\ pc'[s] = "fill" => write'[s][queue[s]] = bufs'[s]
        /\ pc'[s] = "done" => write'[s][queue[s]] = ElemNum
        /\ pc'[s] \in {"fill", "done"}
      BY <2>1, <2>3, <2>4
  <2> QED BY <1>q, <1>0, <2>1, <2>2, <2>4, <2>5 DEF ColdWords
<1>8. CASE QueueDone(s)
  <2>1. /\ sentinel'[s] = [sentinel[s] EXCEPT ![queue[s]] = "DONE"]
        /\ write' = write /\ read' = read /\ pc[s] = "done"
        /\ pc'[s] \in {"ready", "check"}
      BY <1>8 DEF QueueDone, TypeOK
  <2> QED BY <1>q, <1>0, <2>1 DEF ColdWords
<1>9. CASE InitReady(s) \/ FreeSkip(s)
  <2>1. /\ sentinel' = sentinel /\ write' = write /\ read' = read
        /\ pc'[s] \in {"up", "down", "free"}
      BY <1>9 DEF InitReady, FreeSkip, TypeOK
  <2> QED BY <1>0, <2>1 DEF ColdWords
<1>10. CASE FreeSentinel(s)
  <2>1. /\ sentinel'[s] = [sentinel[s] EXCEPT ![queue[s]] = "NONE"]
        /\ write' = write /\ read' = read /\ pc'[s] = "freeWrite"
      BY <1>10 DEF FreeSentinel, TypeOK
  <2> QED BY <1>q, <1>0, <2>1 DEF ColdWords
<1>11. CASE FreeWrite(s) \/ FreeRead(s)
  <2>1. /\ sentinel' = sentinel /\ pc[s] \in InFree
        /\ pc'[s] \in {"freeRead", "down", "free"}
        /\ write'[s] = write[s] \/ write'[s] = [write[s] EXCEPT ![queue[s]] = 0]
        /\ read'[s] = read[s] \/ read'[s] = [read[s] EXCEPT ![queue[s]] = 0]
      BY <1>11 DEF FreeWrite, FreeRead, FreeNext, TypeOK
  <2>2. sentinel[s][queue[s]] = "NONE"
      BY <1>0, <2>1 DEF LocalInv
  <2>3. \A q \in Queue : /\ read'[s][q] = read[s][q] \/ read'[s][q] = 0
                         /\ write'[s][q] = write[s][q] \/ write'[s][q] = 0
                         /\ q # queue[s] => write'[s][q] = write[s][q]
      BY <1>q, <2>1
  <2> QED BY <1>q, <1>0, <2>1, <2>2, <2>3 DEF ColdWords
<1> QED
    BY <1>1, <1>2, <1>3, <1>4, <1>5, <1>6, <1>7, <1>8, <1>9, <1>10, <1>11 DEF InitStep

LEMMA ColdWordsPeer ==
    ASSUME NEW s \in Side, TypeOK, ColdSides, InitStep(s)
    PROVE  ColdWords(Peer(s))'
<1>1. pc[s] # "up"
    BY DEF InitStep, InitClear, QueueCheck, QueueMark, QueueProbe, QueueZeroWrite,
           QueueZeroRead, QueueSyncWrite, QueueSyncRead, QueueFill, QueueDone, InitReady,
           FreeSkip, FreeSentinel, FreeWrite, FreeRead
<1>2. ~BothUp
    BY <1>1 DEF BothUp
<1>p. PICK p \in Side : p = Peer(s)
    BY Sides
<1>3. ColdWords(p) /\ OwnStep(s)
    BY DEF ColdSides, OwnStep
<1>4. /\ sentinel'[p] = sentinel[p] /\ write'[p] = write[p] /\ read'[p] = read[p]
      /\ pc'[p] = pc[p] /\ queue'[p] = queue[p] /\ bufs'[p] = bufs[p]
    BY <1>p, <1>3, Frame
<1>5. ColdWords(p)'
    BY <1>2, <1>3, <1>4 DEF ColdWords
<1> QED BY <1>p, <1>5

\* Before the first restart every step keeps ColdInv.
LEMMA ColdNext ==
    ASSUME TypeOK, \A s \in Side : LocalInv(s), ColdInv, Next
    PROVE  ColdInv'
<1> SUFFICES ASSUME restarts' = 0 PROVE ColdInv'
    BY DEF ColdInv
<1>1. restarts = 0
  <2>1. restarts \in Nat
      BY InstanceAssumption, SMTT(60) DEF TypeOK, InstanceAssumption
  <2>2. restarts' = restarts \/ restarts' = restarts + 1
      BY DEF Next, InitStep, InitClear, QueueCheck, QueueMark, QueueProbe, QueueZeroWrite,
             QueueZeroRead, QueueSyncWrite, QueueSyncRead, QueueFill, QueueDone, InitReady,
             FreeSkip, FreeSentinel, FreeWrite, FreeRead, FreeBegin, Crash, Exchange
  <2> QED BY <2>1, <2>2, SMTT(60)
<1>2. ~overlapped'
  <2>1. ~(restarts' > 0)
      BY SMTT(60)
  <2>2. ~overlapped
      BY <1>1 DEF ColdInv
  <2> QED BY <2>1, <2>2 DEF Next, Recorded
<1>3. ColdSides
    BY <1>1 DEF ColdInv, ColdSides
<1>4. PICK s \in Side : \/ InitStep(s) \/ FreeBegin(s) \/ Crash(s)
                        \/ \E q \in Queue : Exchange(s, q)
    BY DEF Next
<1>5. CASE InitStep(s)
  <2>1. \A t \in Side : t = s \/ t = Peer(s)
      BY Sides
  <2>2. ColdMarks(s)' /\ ColdPair(s)' /\ ColdWords(s)'
      BY <1>3, <1>5, ColdMarksOwn, ColdPairOwn, ColdWordsOwn
  <2>3. ColdMarks(Peer(s))' /\ ColdPair(Peer(s))' /\ ColdWords(Peer(s))'
      BY <1>3, <1>5, ColdMarksPeer, ColdPairPeer, ColdWordsPeer
  <2>4. \A t \in Side : (ColdMarks(t) /\ ColdPair(t) /\ ColdWords(t))'
      BY <2>1, <2>2, <2>3
  <2> QED BY <1>2, <2>4 DEF ColdInv
<1>6. CASE FreeBegin(s) \/ Crash(s)
    BY <1>1, <1>6, SMTT(60) DEF FreeBegin, Crash
<1>7. ASSUME NEW q \in Queue, Exchange(s, q) PROVE ColdInv'
  <2>1. /\ BothUp' /\ pc' = pc /\ sentinel' = sentinel /\ queue' = queue
        /\ push_ring' = push_ring
      BY <1>7 DEF Exchange, BothUp
  <2>2. \A t \in Side : ColdMarks(t)' /\ ColdPair(t)'
    <3>1. \A t \in Side : ColdMarks(t) /\ ColdPair(t)
        BY <1>3 DEF ColdSides
    <3>2. \A t \in Side : ColdMarks(t)'
        BY <2>1, <3>1, SMTT(60) DEF ColdMarks
    <3>3. \A t \in Side : ColdPair(t)'
        BY <2>1, <3>1, SMTT(60) DEF ColdPair
    <3> QED BY <3>2, <3>3
  <2>3. \A t \in Side : ColdWords(t)'
      BY <2>1 DEF ColdWords
  <2> QED BY <1>2, <2>2, <2>3 DEF ColdInv
<1> QED BY <1>4, <1>5, <1>6, <1>7

-----------------------------------------------------------------------------
(* After the first restart *)

\* Pushes from the peer's read index on, one after the other.
LEMMA ModFill ==
    \A r, b \in 0..ElemNum :
        /\ (r + b) % elem_num \in 0..ElemNum
        /\ b < ElemNum => /\ (((r + b) % elem_num) + 1) % elem_num = (r + (b + 1)) % elem_num
                          /\ (((r + b) % elem_num) + 1) % elem_num # r
        /\ (((r + ElemNum) % elem_num) + 1) % elem_num = r
<1> SUFFICES ASSUME NEW r \in 0..ElemNum, NEW b \in 0..ElemNum
             PROVE  /\ (r + b) % elem_num \in 0..ElemNum
                    /\ b < ElemNum =>
                          /\ (((r + b) % elem_num) + 1) % elem_num = (r + (b + 1)) % elem_num
                          /\ (((r + b) % elem_num) + 1) % elem_num # r
                    /\ (((r + ElemNum) % elem_num) + 1) % elem_num = r
    OBVIOUS
<1> DEFINE Sum(x) == IF r + x <= ElemNum THEN r + x ELSE r + x - elem_num
<1>1. \A x \in 0..ElemNum : (r + x) % elem_num = Sum(x) /\ Sum(x) \in 0..ElemNum
    BY ModSum, Elements, SMTT(60)
<1>2. \A i \in 0..ElemNum : (i + 1) % elem_num = IF i = ElemNum THEN 0 ELSE i + 1
    BY ModNext
<1>3. (Sum(b) + 1) % elem_num = IF Sum(b) = ElemNum THEN 0 ELSE Sum(b) + 1
    BY <1>1, <1>2
<1>4. ElemNum \in 0..ElemNum
    BY Elements, SMTT(60)
<1>5. (Sum(ElemNum) + 1) % elem_num = IF Sum(ElemNum) = ElemNum THEN 0 ELSE Sum(ElemNum) + 1
    BY <1>1, <1>2, <1>4
<1>6. (IF Sum(ElemNum) = ElemNum THEN 0 ELSE Sum(ElemNum) + 1) = r
    BY Elements, SMTT(60)
<1>7. ASSUME b < ElemNum
      PROVE  /\ b + 1 \in 0..ElemNum
             /\ (IF Sum(b) = ElemNum THEN 0 ELSE Sum(b) + 1) = Sum(b + 1)
             /\ Sum(b + 1) # r
    BY <1>7, Elements, SMTT(60)
<1> HIDE DEF Sum
<1> QED BY <1>1, <1>3, <1>4, <1>5, <1>6, <1>7

\* A step after which the two sides are not busy at once.
Apart == ~(\A t \in Side : Busy(t))

\* The clauses of WarmInv are about the initialisation.
LEMMA WarmIdle ==
    ASSUME NEW s \in Side, Apart', pc'[s] \notin Initialising \cup {"ready"}
    PROVE  WarmInv(s)'
<1>1. ~(Busy(s)' /\ Busy(Peer(s))')
    BY Sides DEF Apart
<1> QED BY <1>1 DEF WarmInv, Initialising, Marked

LEMMA WarmPeer ==
    ASSUME NEW s \in Side, TypeOK, LocalInv(s), WarmInv(Peer(s)), OwnStep(s), Apart'
    PROVE  WarmInv(Peer(s))'
<1>e. PICK p \in Side : p = Peer(s)
    BY Sides
<1> USE <1>e
<1>p. /\ p \in Side /\ p # s /\ Peer(p) = s
      /\ pc'[p] = pc[p] /\ queue'[p] = queue[p] /\ bufs'[p] = bufs[p]
      /\ write'[p] = write[p]
    BY Sides, Frame
<1>q. pc[p] \in {"down", "up"} \cup Inside /\ queue[p] \in Queue
    BY <1>p DEF TypeOK
<1>1. CASE pc[p] \notin Initialising \cup {"ready"}
    BY <1>p, <1>1, WarmIdle
<1>2. CASE pc[p] \in Initialising \cup {"ready"}
  <2>1. Busy(p) /\ Busy(p)'
      BY <1>p, <1>2 DEF Busy, Inside, Initialising, Marked
  <2>2. ~Busy(s) /\ ~Busy(s)'
      BY <1>p, <2>1, Sides DEF Apart, WarmInv
  <2>3. pc[s] = "up" /\ pc'[s] = "down" /\ rings' = rings
    <3>1. ~InitStep(s)
        BY <2>2 DEF Busy, Inside, TypeOK, InitStep, InitClear, QueueCheck, QueueMark,
           QueueProbe,
            QueueZeroWrite, QueueZeroRead, QueueSyncWrite, QueueSyncRead, QueueFill, QueueDone,
            InitReady, FreeSkip, FreeSentinel, FreeWrite, FreeRead
    <3>2. ~FreeBegin(s)
        BY <2>2 DEF Busy, Inside, TypeOK, FreeBegin
    <3>3. Crash(s)
        BY <3>1, <3>2 DEF OwnStep
    <3> QED BY <2>2, <3>3 DEF Crash, Busy, TypeOK, rings
  <2>4. /\ pc[p] \notin {"zeroWrite", "zeroRead"}
        /\ pc[p] = "syncRead" => write[p][queue[p]] = read[s][queue[p]]
        /\ pc[p] = "fill" => write[p][queue[p]] = (read[s][queue[p]] + bufs[p]) % elem_num
      BY <1>p, <2>3 DEF WarmInv, LeftBehind
  <2>5. sentinel[s][queue[p]] = "DONE"
      BY <1>q, <2>3 DEF LocalInv
  <2>6. WarmInv(p)'
      BY <1>p, <2>2, <2>3, <2>4, <2>5 DEF WarmInv, rings
  <2> QED BY <2>6
<1> QED BY <1>1, <1>2

\* What the queues below the present one of side s owe to it.
LEMMA WarmBelow ==
    ASSUME NEW s \in Side, NEW r \in Queue, TypeOK, OwnStep(s), r # queue[s],
           Agree(s, r), Agree(Peer(s), r)
    PROVE  Agree(s, r)' /\ Agree(Peer(s), r)'
<1>e. PICK p \in Side : p = Peer(s)
    BY Sides
<1> USE <1>e
<1>p. /\ p \in Side /\ p # s /\ Peer(p) = s
      /\ write'[p] = write[p] /\ read'[p] = read[p]
    BY Sides, Frame
<1>q. /\ queue[s] \in Queue
      /\ write[s] \in [Queue -> 0..ElemNum] /\ read[s] \in [Queue -> 0..ElemNum]
    BY DEF TypeOK
<1>0. PICK q \in Queue : q = queue[s]
    BY DEF TypeOK
<1>1. \/ write' = write
      \/ write' = [write EXCEPT ![s][q] = 0]
      \/ write' = [write EXCEPT ![s][q] = read[Peer(s)][q]]
      \/ write' = [write EXCEPT ![s][q] = (@ + 1) % elem_num]
    BY <1>0 DEF OwnStep, rings, InitStep, InitClear, QueueCheck, QueueMark,
           QueueProbe, QueueZeroWrite, QueueZeroRead, QueueSyncWrite, QueueSyncRead,
           QueueFill, QueueDone, InitReady, FreeSkip, FreeSentinel, FreeWrite, FreeRead,
           FreeNext, FreeBegin, Crash
<1>2. \/ read' = read
      \/ read' = [read EXCEPT ![s][q] = 0]
      \/ read' = [read EXCEPT ![s][q] = (write[Peer(s)][q] + 1) % elem_num]
      \/ read' = [read EXCEPT ![s][q] = write[Peer(s)][q] % elem_num]
    BY <1>0 DEF OwnStep, rings, InitStep, InitClear, QueueCheck, QueueMark,
           QueueProbe, QueueZeroWrite, QueueZeroRead, QueueSyncWrite, QueueSyncRead,
           QueueFill, QueueDone, InitReady, FreeSkip, FreeSentinel, FreeWrite, FreeRead,
           FreeNext, FreeBegin, Crash
<1>3. write'[s][r] = write[s][r] /\ read'[s][r] = read[s][r]
    BY <1>0, <1>q, <1>1, <1>2, SMTT(60) DEF TypeOK
<1>4. Agree(s, r)' /\ Agree(p, r)'
    BY <1>p, <1>3 DEF Agree
<1> QED BY <1>4

LEMMA WarmOwn ==
    ASSUME NEW s \in Side, TypeOK, LocalInv(s), LocalInv(Peer(s)), WarmInv(s),
           InitStep(s), Apart'
    PROVE  WarmInv(s)'
<1>e. PICK p \in Side : p = Peer(s)
    BY Sides
<1> USE <1>e
<1>0. PICK q \in Queue : q = queue[s]
    BY DEF TypeOK
<1> USE DEF rings
<1>p. /\ p \in Side /\ p # s /\ Peer(p) = s
      /\ pc'[p] = pc[p] /\ sentinel'[p] = sentinel[p]
      /\ write'[p] = write[p] /\ read'[p] = read[p]
    BY Sides, Frame DEF OwnStep
<1>q. /\ write[s] \in [Queue -> 0..ElemNum] /\ read[s] \in [Queue -> 0..ElemNum]
      /\ write[p][q] \in 0..ElemNum /\ read[p][q] \in 0..ElemNum
      /\ sentinel[p][q] \in {"NONE", "IN_PROGRESS", "DONE"}
      /\ pc[p] \in {"down", "up"} \cup Inside
    BY <1>p DEF TypeOK
<1>b. ~(Busy(s)' /\ Busy(p)') /\ ~(Busy(s) /\ Busy(p))
    BY Sides DEF Apart, WarmInv
<1>l. \A r \in Queue : LeftBehind(p, r)' <=> LeftBehind(p, r)
    BY <1>p DEF LeftBehind
<1>r. ASSUME pc[s] \in Initialising, pc'[p] = "up"
      PROVE  \A r \in Queue : r < q => Agree(s, r)' /\ Agree(p, r)'
  <2>1. \A r \in Queue : r < q => Agree(s, r) /\ Agree(p, r) /\ r # q
      BY <1>p, <1>q, <1>r, QueueOrder, <1>0 DEF WarmInv
  <2> QED BY <1>0, <2>1, WarmBelow DEF OwnStep
\* The clauses at a place of the initialisation, without those it makes vacuous.
<1>1. ASSUME pc'[s] \in {"check", "mark", "probe", "syncWrite", "syncRead"},
             queue' = queue, pc[s] \in Initialising,
             pc'[s] \in {"mark", "probe"} /\ sentinel[p][q] = "IN_PROGRESS" =>
                 read[p][q] = 0,
             pc'[s] = "syncRead" => write'[s][q] = read[p][q]
      PROVE  WarmInv(s)'
    BY <1>0, <1>1, <1>p, <1>b, <1>r DEF WarmInv
<1>2. ASSUME pc'[s] \in {"zeroWrite", "zeroRead"}, queue' = queue, pc[p] # "up",
             ~LeftBehind(p, q) => read[p][q] = 0,
             pc'[s] = "zeroRead" => write'[s][q] = 0
      PROVE  WarmInv(s)'
    BY <1>0, <1>2, <1>p, <1>q, <1>b, <1>l DEF WarmInv
<1>3. ASSUME pc'[s] = "fill", queue' = queue, pc[s] \in Initialising,
             ~LeftBehind(p, q) => write'[s][q] = (read[p][q] + bufs'[s]) % elem_num,
             pc[p] = "up" => Agree(p, q)'
      PROVE  WarmInv(s)'
    BY <1>0, <1>3, <1>p, <1>q, <1>b, <1>l, <1>r DEF WarmInv
<1>4. ASSUME pc'[s] = "done", queue' = queue, pc[s] \in Initialising,
             pc[p] = "up" => Agree(s, q)' /\ Agree(p, q)'
      PROVE  WarmInv(s)'
    BY <1>0, <1>4, <1>p, <1>b, <1>r DEF WarmInv
<1>5. CASE InitClear(s)
  <2>1. pc'[s] = "check" /\ queue'[s] = 0
      BY <1>5 DEF InitClear, TypeOK
  <2>2. \A r \in Queue : ~(r < queue'[s])
      BY <2>1, QueueOrder
  <2> QED BY <1>b, <2>1, <2>2 DEF WarmInv
<1>6. CASE QueueCheck(s)
  <2>1. \/ pc'[s] = "free"
        \/ /\ pc'[s] = "mark" /\ queue' = queue /\ pc[s] \in Initialising
           /\ sentinel[p][q] # "IN_PROGRESS"
      BY <1>0, <1>6 DEF QueueCheck, TypeOK, Initialising
  <2>2. CASE pc'[s] = "free"
      BY <2>2, WarmIdle DEF Initialising, Marked
  <2> QED BY <1>1, <2>1, <2>2
<1>7. CASE QueueMark(s)
  <2>1. pc[s] = "mark" /\ pc'[s] = "probe" /\ queue' = queue /\ pc[s] \in Initialising
      BY <1>7 DEF QueueMark, TypeOK, Initialising
  <2>2. sentinel[p][q] = "IN_PROGRESS" => read[p][q] = 0
      BY <1>0, <2>1 DEF WarmInv
  <2> QED BY <1>1, <2>1, <2>2
<1>8. CASE QueueProbe(s)
  <2>1. /\ pc[s] = "probe" /\ queue' = queue /\ pc[s] \in Initialising /\ Busy(s)
        /\ pc'[s] = IF sentinel[p][q] = "DONE" THEN "syncWrite" ELSE "zeroWrite"
      BY <1>0, <1>8 DEF QueueProbe, TypeOK, Initialising, Marked, Busy, Inside
  <2>2. CASE sentinel[p][q] = "DONE"
      BY <1>1, <2>1, <2>2
  <2>3. CASE sentinel[p][q] # "DONE"
    <3>1. pc[p] # "up"
        BY <1>q, <2>3 DEF LocalInv
    <3>2. pc[p] = "down"
        BY <1>b, <1>q, <2>1, <3>1 DEF Busy
    <3>3. sentinel[p][q] = "IN_PROGRESS" => read[p][q] = 0
        BY <1>0, <2>1 DEF WarmInv
    <3>4. ~LeftBehind(p, q) => read[p][q] = 0
        BY <1>q, <2>3, <3>2, <3>3 DEF LeftBehind
    <3> QED BY <1>2, <2>1, <2>3, <3>1, <3>4
  <2> QED BY <2>2, <2>3
<1>9. CASE QueueZeroWrite(s)
  <2>1. /\ pc[s] = "zeroWrite" /\ pc'[s] = "zeroRead" /\ queue' = queue
        /\ write'[s] = [write[s] EXCEPT ![q] = 0]
      BY <1>0, <1>9 DEF QueueZeroWrite, TypeOK
  <2>2. pc[p] # "up" /\ (~LeftBehind(p, q) => read[p][q] = 0)
      BY <1>0, <2>1 DEF WarmInv
  <2> QED BY <1>2, <1>q, <2>1, <2>2
<1>10. CASE QueueZeroRead(s)
  <2>1. /\ pc[s] = "zeroRead" /\ pc'[s] \in {"fill", "done"} /\ queue' = queue
        /\ write' = write /\ bufs' = bufs /\ pc[s] \in Initialising
      BY <1>10 DEF QueueZeroRead, Synced, TypeOK, Initialising, Marked
  <2>2. /\ pc[p] # "up" /\ (~LeftBehind(p, q) => read[p][q] = 0)
        /\ write[s][q] = 0
      BY <1>0, <2>1 DEF WarmInv
  <2>3. bufs[s] = 0
      BY <2>1 DEF LocalInv
  <2>4. (0 + 0) % elem_num = 0
      BY Elements, ModNext, SMTT(60)
  <2> QED BY <1>3, <1>4, <2>1, <2>2, <2>3, <2>4
<1>11. CASE QueueSyncWrite(s)
  <2>1. /\ pc'[s] = "syncRead" /\ queue' = queue /\ pc[s] \in Initialising
        /\ write'[s] = [write[s] EXCEPT ![q] = read[p][q]]
      BY <1>0, <1>11 DEF QueueSyncWrite, TypeOK, Initialising, Marked
  <2> QED BY <1>1, <1>q, <2>1
<1>12. CASE QueueSyncRead(s)
  <2>1. /\ pc[s] = "syncRead" /\ queue' = queue /\ write' = write /\ bufs' = bufs
        /\ pc[s] \in Initialising
        /\ pc'[s] = IF IsPool(q) THEN "fill" ELSE "done"
        /\ read'[s] = [read[s] EXCEPT ![q] =
                         (IF IsPool(q) THEN write[p][q] + 1 ELSE write[p][q]) % elem_num]
      BY <1>0, <1>12 DEF QueueSyncRead, Synced, TypeOK, Initialising, Marked
  <2>2. Agree(p, q)'
      BY <1>p, <1>q, <2>1 DEF Agree
  <2>3. write[s][q] = read[p][q] /\ bufs[s] = 0
      BY <1>0, <2>1 DEF WarmInv, LocalInv
  <2>4. read[p][q] % elem_num = read[p][q] /\ read[p][q] + 0 = read[p][q]
      BY <1>q, ModNext, SMTT(60)
  <2>5. ~IsPool(q) => Agree(s, q)'
      BY <1>p, <2>1, <2>3, <2>4 DEF Agree
  <2> QED BY <1>3, <1>4, <2>1, <2>2, <2>3, <2>4, <2>5
<1>13. CASE QueueFill(s)
  <2>1. CASE Full(s, q)
    <3>1. pc'[s] = "free"
        BY <1>0, <1>13, <2>1 DEF QueueFill, TypeOK
    <3> QED BY <3>1, WarmIdle DEF Initialising, Marked
  <2>2. CASE ~Full(s, q)
    <3>1. /\ pc[s] = "fill" /\ queue' = queue /\ read' = read /\ pc[s] \in Initialising
          /\ pc'[s] = IF bufs[s] + 1 = ElemNum THEN "done" ELSE "fill"
          /\ write'[s] = [write[s] EXCEPT ![q] = (write[s][q] + 1) % elem_num]
          /\ bufs'[s] = (bufs[s] + 1) % ElemNum
        BY <1>0, <1>13, <2>2 DEF QueueFill, TypeOK, Initialising, Marked
    <3>2. /\ ~LeftBehind(p, q) => write[s][q] = (read[p][q] + bufs[s]) % elem_num
          /\ pc[p] = "up" => Agree(p, q) /\ ~LeftBehind(p, q)
        BY <1>0, <3>1 DEF WarmInv, LeftBehind
    <3>3. bufs[s] \in 0..ElemNum /\ bufs[s] < ElemNum /\ bufs[s] \in Nat /\ IsPool(q)
        BY <1>0, <3>1, Elements, SMTT(60) DEF LocalInv, TypeOK
    <3>4. ~LeftBehind(p, q) =>
              write'[s][q] = (read[p][q] + (bufs[s] + 1)) % elem_num
      <4>1. write'[s][q] = (write[s][q] + 1) % elem_num
          BY <1>q, <3>1
      <4>2. (((read[p][q] + bufs[s]) % elem_num) + 1) % elem_num =
                (read[p][q] + (bufs[s] + 1)) % elem_num
          BY <1>q, <3>3, ModFill
      <4> QED BY <3>2, <4>1, <4>2
    <3>5. (bufs[s] + 1) % ElemNum = IF bufs[s] + 1 = ElemNum THEN 0 ELSE bufs[s] + 1
        BY <3>3, BufCount
    <3>6. pc[p] = "up" => Agree(p, q)'
        BY <1>p, <3>1, <3>2 DEF Agree
    <3>7. CASE bufs[s] + 1 = ElemNum
      <4>1. pc[p] = "up" => write'[s][q] = (read[p][q] + ElemNum) % elem_num
          BY <3>2, <3>4, <3>7
      <4>2. (((read[p][q] + ElemNum) % elem_num) + 1) % elem_num = read[p][q]
          BY <1>q, Elements, ModFill
      <4>3. pc[p] = "up" => Agree(s, q)'
          BY <1>p, <3>3, <4>1, <4>2 DEF Agree
      <4> QED BY <1>4, <3>1, <3>6, <3>7, <4>3
    <3>8. CASE bufs[s] + 1 # ElemNum
        BY <1>3, <3>1, <3>4, <3>5, <3>6, <3>8
    <3> QED BY <3>7, <3>8
  <2> QED BY <2>1, <2>2
<1>14. CASE QueueDone(s)
  <2>1. /\ pc[s] = "done" /\ pc[s] \in Initialising /\ write' = write /\ read' = read
        /\ \/ q = LastQueue /\ pc'[s] = "ready"
           \/ q < LastQueue /\ pc'[s] = "check" /\ queue'[s] = q + 1
      BY <1>0, <1>14 DEF QueueDone, TypeOK, Initialising, Marked
  <2>2. pc[p] = "up" => Agree(s, q)' /\ Agree(p, q)'
      BY <1>0, <1>p, <2>1 DEF WarmInv, Agree
  <2>3. pc[p] = "up" => \A r \in Queue : r < q \/ r = q => Agree(s, r)' /\ Agree(p, r)'
      BY <1>p, <1>r, <2>1, <2>2
  <2>4. \A r \in Queue : /\ q = LastQueue => r < q \/ r = q
                         /\ r < q + 1 => r < q \/ r = q
      BY <1>q, QueueOrder, SMTT(60)
  <2> QED BY <1>p, <1>b, <2>1, <2>3, <2>4 DEF WarmInv
<1>15. CASE InitReady(s) \/ FreeSkip(s) \/ FreeSentinel(s) \/ FreeWrite(s) \/ FreeRead(s)
  <2>1. pc'[s] \in {"up", "down", "free", "freeWrite", "freeRead"}
      BY <1>15 DEF InitReady, FreeSkip, FreeSentinel, FreeWrite, FreeRead, FreeNext, TypeOK
  <2> QED BY <2>1, WarmIdle DEF Initialising, Marked
<1> QED
    BY <1>5, <1>6, <1>7, <1>8, <1>9, <1>10, <1>11, <1>12, <1>13, <1>14, <1>15 DEF InitStep

\* The first restart, at any moment of the other side's initialisation.
LEMMA ColdToWarm ==
    ASSUME NEW s \in Side, TypeOK, ColdSides, FreeBegin(s) \/ Crash(s), Apart'
    PROVE  WarmInv(s)' /\ WarmInv(Peer(s))'
<1>e. PICK p \in Side : p = Peer(s)
    BY Sides
<1> USE <1>e
<1>p. /\ p \in Side /\ p # s /\ Peer(p) = s
      /\ pc'[p] = pc[p] /\ queue'[p] = queue[p] /\ bufs'[p] = bufs[p]
      /\ write'[p] = write[p]
    BY Sides, Frame DEF OwnStep
<1>1. pc'[s] \in {"free", "down"} /\ rings' = rings
    BY DEF FreeBegin, Crash, TypeOK, rings
<1>2. WarmInv(s)'
    BY <1>1, WarmIdle DEF Initialising, Marked
<1>3. CASE pc[p] \notin Initialising \cup {"ready"}
    BY <1>p, <1>2, <1>3, WarmIdle
<1>4. CASE pc[p] \in Initialising \cup {"ready"}
  <2>1. ~BothUp /\ queue[p] \in Queue /\ bufs[p] \in 0..ElemNum /\ LocalInv(p)
      BY <1>p, <1>4 DEF BothUp, Initialising, Marked, TypeOK, ColdSides
  <2>2. ColdWords(p) /\ ColdWords(s)
      BY <1>p DEF ColdSides
  <2>3. /\ read[s][queue[p]] = 0
        /\ pc[p] \in {"zeroRead", "syncRead"} => write[p][queue[p]] = 0
        /\ pc[p] = "fill" => write[p][queue[p]] = bufs[p]
      BY <2>1, <2>2 DEF ColdWords
  <2>4. (0 + bufs[p]) % elem_num = bufs[p]
      BY <2>1, ModNext, SMTT(60)
  <2>5. ~(Busy(p)' /\ Busy(s)')
      BY <1>p, Sides DEF Apart
  <2>6. Busy(p)'
      BY <1>p, <1>4 DEF Busy, Inside, Initialising, Marked
  <2>7. pc'[s] = "down"
      BY <1>1, <2>5, <2>6 DEF Busy, Inside
  <2>8. WarmInv(p)'
      BY <1>p, <1>1, <2>3, <2>4, <2>5, <2>7 DEF WarmInv, rings
  <2> QED BY <1>2, <2>8
<1> QED BY <1>2, <1>3, <1>4

LEMMA WarmNext ==
    ASSUME IInv, Next, restarts' > 0, ~overlapped'
    PROVE  \A t \in Side : WarmInv(t)'
<1>1. Apart' /\ ~overlapped
    BY DEF Next, Recorded, Apart
<1>2. TypeOK /\ (\A t \in Side : LocalInv(t)) /\ restarts \in Nat
    BY InstanceAssumption, SMTT(60) DEF IInv, TypeOK, InstanceAssumption
<1>3. PICK s \in Side : OwnStep(s) \/ \E q \in Queue : Exchange(s, q)
    BY DEF Next, OwnStep
<1>4. LocalInv(s) /\ LocalInv(Peer(s)) /\ Peer(s) \in Side
    BY <1>2, Sides
<1>5. ASSUME WarmInv(s)', WarmInv(Peer(s))' PROVE \A t \in Side : WarmInv(t)'
    BY <1>5, Sides
<1>6. CASE restarts = 0
  <2>1. ColdSides
      BY <1>6, <1>2 DEF IInv, ColdInv, ColdSides
  <2>2. FreeBegin(s) \/ Crash(s)
    <3>1. restarts' # restarts
        BY <1>6, SMTT(60)
    <3> QED
        BY <1>3, <3>1
           DEF OwnStep, InitStep, InitClear, QueueCheck, QueueMark, QueueProbe,
               QueueZeroWrite, QueueZeroRead, QueueSyncWrite, QueueSyncRead, QueueFill,
               QueueDone, InitReady, FreeSkip, FreeSentinel, FreeWrite, FreeRead, Exchange
  <2> QED BY <1>1, <1>2, <1>5, <2>1, <2>2, ColdToWarm
<1>7. CASE restarts # 0
  <2>1. restarts > 0
      BY <1>2, <1>7, SMTT(60)
  <2>2. WarmInv(s) /\ WarmInv(Peer(s))
      BY <1>1, <1>4, <2>1 DEF IInv
  <2>3. CASE InitStep(s)
      BY <1>1, <1>2, <1>4, <1>5, <2>2, <2>3, WarmOwn, WarmPeer DEF OwnStep
  <2>4. CASE FreeBegin(s) \/ Crash(s)
    <3>1. pc'[s] \in {"free", "down"}
        BY <1>2, <2>4 DEF FreeBegin, Crash, TypeOK
    <3>2. WarmInv(s)'
        BY <1>1, <3>1, WarmIdle DEF Initialising, Marked
    <3> QED BY <1>1, <1>2, <1>4, <1>5, <2>2, <2>4, <3>2, WarmPeer DEF OwnStep
  <2>5. ASSUME NEW q \in Queue, Exchange(s, q) PROVE \A t \in Side : WarmInv(t)'
    <3>1. pc'[s] = "up" /\ pc'[Peer(s)] = "up"
        BY <1>4, <2>5 DEF Exchange
    <3> QED BY <1>1, <1>4, <1>5, <3>1, WarmIdle DEF Initialising, Marked
  <2> QED BY <1>3, <2>3, <2>4, <2>5 DEF OwnStep
<1> QED BY <1>6, <1>7

-----------------------------------------------------------------------------
(* Both sides are up *)

LEMMA AgreeExchange ==
    ASSUME NEW s \in Side, NEW q \in Queue, TypeOK, Exchange(s, q),
           \A t \in Side, r \in Queue : Agree(t, r)
    PROVE  \A t \in Side, r \in Queue : Agree(t, r)'
<1>e. PICK p \in Side : p = Peer(s)
    BY Sides
<1> USE <1>e
<1>p. p \in Side /\ p # s /\ Peer(p) = s /\ \A t \in Side : t = s \/ t = p
    BY Sides
<1>1. /\ write'[s] = [write[s] EXCEPT ![q] = (write[s][q] + 1) % elem_num]
      /\ write'[p] = write[p]
      /\ read'[p] = [read[p] EXCEPT ![q] = (read[p][q] + 1) % elem_num]
      /\ read'[s] = read[s]
    BY <1>p DEF Exchange, TypeOK
<1>2. /\ write[s] \in [Queue -> 0..ElemNum] /\ read[p] \in [Queue -> 0..ElemNum]
      /\ write[s][q] \in 0..ElemNum
    BY <1>p DEF TypeOK
<1>3. \A r \in Queue : Agree(p, r)'
    BY <1>p, <1>1, SMTT(60) DEF Agree
<1>4. ASSUME NEW r \in Queue, r # q PROVE Agree(s, r)'
  <2>1. write'[s][r] = write[s][r] /\ read'[p][r] = read[p][r]
      BY <1>1, <1>2, <1>4
  <2> QED BY <1>p, <2>1 DEF Agree
<1>5. Agree(s, q)'
  <2> DEFINE w == write[s][q]
  <2>1. read[p][q] = (IF IsPool(q) THEN w + 1 ELSE w) % elem_num
      BY DEF Agree
  <2>2. w % elem_num = w /\ ((w + 1) % elem_num) % elem_num = (w + 1) % elem_num
    <3>1. (w + 1) % elem_num \in 0..ElemNum
        BY <1>2, NextIndex
    <3> QED BY <1>2, <3>1, ModNext
  <2>3. /\ write'[s][q] = (w + 1) % elem_num
        /\ read'[p][q] = (read[p][q] + 1) % elem_num
      BY <1>1, <1>2
  <2> HIDE DEF w
  <2>4. read'[p][q] =
            (IF IsPool(q) THEN write'[s][q] + 1 ELSE write'[s][q]) % elem_num
      BY <2>1, <2>2, <2>3
  <2> QED BY <2>4 DEF Agree
<1> QED BY <1>p, <1>3, <1>4, <1>5

LEMMA AgreeNext ==
    ASSUME IInv, Next, BothUp', ~overlapped'
    PROVE  \A t \in Side, r \in Queue : Agree(t, r)'
<1>1. ~overlapped
    BY DEF Next, Recorded
<1>2. TypeOK /\ (\A t \in Side : LocalInv(t)) /\ restarts \in Nat
    BY InstanceAssumption, SMTT(60) DEF IInv, TypeOK, InstanceAssumption
<1>3. PICK s \in Side : OwnStep(s) \/ \E q \in Queue : Exchange(s, q)
    BY DEF Next, OwnStep
<1>4. ASSUME NEW q \in Queue, Exchange(s, q) PROVE \A t \in Side, r \in Queue : Agree(t, r)'
  <2>1. BothUp
      BY <1>4 DEF Exchange, BothUp
  <2> QED BY <1>1, <1>2, <1>4, <2>1, AgreeExchange DEF IInv
<1>5. CASE OwnStep(s)
  <2>e. PICK p \in Side : p = Peer(s)
      BY Sides
  <2> USE <2>e
  <2>p. p \in Side /\ p # s /\ Peer(p) = s /\ \A t \in Side : t = s \/ t = p
      BY Sides
  <2>1. pc[s] = "ready" /\ rings' = rings
    <3>1. pc'[s] = "up"
        BY DEF BothUp
    <3> QED BY <1>2, <1>5, <3>1
         DEF OwnStep, rings, TypeOK, InitStep, InitClear, QueueCheck, QueueMark, QueueProbe,
             QueueZeroWrite, QueueZeroRead, QueueSyncWrite, QueueSyncRead, Synced, QueueFill,
             QueueDone, InitReady, FreeSkip, FreeSentinel, FreeWrite, FreeRead, FreeNext,
             FreeBegin, Crash
  <2>2. pc[p] = "up"
      BY <1>2, <1>5, <2>p, Frame DEF BothUp
  <2>3. \A r \in Queue : Agree(s, r) /\ Agree(p, r)
    <3>1. CASE restarts # 0
      <4>1. restarts > 0
          BY <1>2, <3>1, SMTT(60)
      <4> QED BY <1>1, <2>1, <2>2, <4>1 DEF IInv, WarmInv
    <3>2. CASE restarts = 0
      <4>1. \A t \in Side : ColdWords(t)
          BY <3>2 DEF IInv, ColdInv
      <4>2. ~BothUp
          BY <2>1 DEF BothUp
      <4>3. \A r \in Queue : sentinel[s][r] = "DONE" /\ sentinel[p][r] = "DONE"
          BY <1>2, <2>p, <2>1, <2>2, SMTT(60) DEF LocalInv
      <4>4. \A t \in Side, r \in Queue :
                read[t][r] = 0 /\ write[t][r] = IF IsPool(r) THEN ElemNum ELSE 0
          BY <2>p, <4>1, <4>2, <4>3, SMTT(60) DEF ColdWords
      <4>5. (ElemNum + 1) % elem_num = 0 /\ 0 % elem_num = 0
        <5>1. ElemNum \in 0..ElemNum /\ 0 \in 0..ElemNum
            BY Elements, SMTT(60)
        <5> QED BY <5>1, ModNext
      <4> QED BY <2>p, <4>4, <4>5 DEF Agree
    <3> QED BY <3>1, <3>2
  <2>4. \A r \in Queue : Agree(s, r)' /\ Agree(p, r)'
      BY <2>1, <2>3 DEF Agree, rings
  <2> QED BY <2>p, <2>4
<1> QED BY <1>3, <1>4, <1>5

-----------------------------------------------------------------------------
(* The inductive invariant *)

LEMMA InvInit == Init => IInv
<1> SUFFICES ASSUME Init PROVE IInv
    OBVIOUS
<1>1. /\ restarts = 0 /\ ~overlapped /\ ~(restarts > 0)
      /\ \A s \in Side : pc[s] = "down" /\ push_ring[s] = {}
      /\ \A s \in Side, q \in Queue :
            sentinel[s][q] = "NONE" /\ write[s][q] = 0 /\ read[s][q] = 0
    BY SMTT(60) DEF Init
<1>2. \A s \in Side : ColdMarks(s) /\ ColdPair(s)
    BY <1>1 DEF ColdMarks, ColdPair, Initialising, Marked, Freeing, InFree
<1>3. \A s \in Side : ColdWords(s)
    BY <1>1 DEF ColdWords
<1>4. ~BothUp
    BY <1>1 DEF BothUp, Side
<1> QED BY <1>1, <1>2, <1>3, <1>4, TypeInit, LocalInit DEF IInv, ColdInv

LEMMA InvNext == IInv /\ [Next]_vars => IInv'
<1> SUFFICES ASSUME IInv, [Next]_vars PROVE IInv'
    OBVIOUS
<1>1. CASE Next
  <2>1. TypeOK' /\ (\A s \in Side : LocalInv(s))'
      BY <1>1, TypeNext, LocalNext DEF IInv
  <2>2. ColdInv'
      BY <1>1, ColdNext DEF IInv
  <2>3. (restarts > 0 /\ ~overlapped => \A s \in Side : WarmInv(s))'
      BY <1>1, WarmNext
  <2>4. (BothUp /\ ~overlapped => \A s \in Side, q \in Queue : Agree(s, q))'
      BY <1>1, AgreeNext
  <2> QED BY <2>1, <2>2, <2>3, <2>4 DEF IInv
<1>2. CASE UNCHANGED vars
  <2>1. /\ state' = state /\ sentinel' = sentinel /\ write' = write /\ read' = read
        /\ push_ring' = push_ring /\ pc' = pc /\ queue' = queue /\ bufs' = bufs
        /\ restarts' = restarts /\ overlapped' = overlapped
      BY <1>2, SMTT(60) DEF vars, rings
  <2>2. TypeOK' /\ \A s \in Side : LocalInv(s)'
      BY <2>1 DEF IInv, TypeOK, LocalInv
  <2>3. ColdInv'
    <3>1. \A t \in Side : ColdMarks(t)' <=> ColdMarks(t)
        BY <2>1, SMTT(60) DEF ColdMarks
    <3>2. \A t \in Side : ColdPair(t)' <=> ColdPair(t)
        BY <2>1, SMTT(60) DEF ColdPair
    <3>3. \A t \in Side : ColdWords(t)' <=> ColdWords(t)
        BY <2>1, SMTT(60) DEF ColdWords, BothUp
    <3> QED BY <2>1, <3>1, <3>2, <3>3 DEF IInv, ColdInv
  <2>4. (restarts > 0 /\ ~overlapped => \A s \in Side : WarmInv(s))'
    <3>1. \A t \in Side, q \in Queue :
              /\ Agree(t, q)' <=> Agree(t, q)
              /\ LeftBehind(t, q)' <=> LeftBehind(t, q)
              /\ Busy(t)' <=> Busy(t)
        BY <2>1 DEF Agree, Busy, LeftBehind
    <3>2. \A t \in Side : Peer(t) \in Side /\ queue[t] \in Queue
        BY Sides DEF IInv, TypeOK
    <3>3. \A t \in Side : WarmInv(t)' <=> WarmInv(t)
        BY <2>1, <3>1, <3>2, SMTT(60) DEF WarmInv
    <3> QED BY <2>1, <3>3 DEF IInv
  <2>5. (BothUp /\ ~overlapped => \A s \in Side, q \in Queue : Agree(s, q))'
      BY <2>1 DEF IInv, BothUp, Agree
  <2> QED BY <2>2, <2>3, <2>4, <2>5 DEF IInv
<1> QED BY <1>1, <1>2

\* Full is what ipc_queue_push looks at before it writes.
LEMMA RoomLeft == IInv => NeverFull
<1> SUFFICES ASSUME IInv, NEW s \in Side, pc[s] = "fill", ~overlapped,
                    ~LeftBehind(Peer(s), queue[s])
             PROVE  ~Full(s, queue[s])
    BY DEF NeverFull
<1> DEFINE p == Peer(s)
           q == queue[s]
<1>0. restarts = 0 \/ restarts > 0
    BY InstanceAssumption, SMTT(60) DEF IInv, TypeOK, InstanceAssumption
<1>1. TypeOK /\ LocalInv(s)
    BY DEF IInv
<1>2. CASE restarts = 0
  <2>1. ColdSides
      BY <1>2 DEF IInv, ColdInv, ColdSides
  <2> QED BY <1>1, <2>1, ColdNotFull
<1>3. CASE restarts > 0
  <2>1. write[s][q] = (read[p][q] + bufs[s]) % elem_num
      BY <1>3 DEF IInv, WarmInv
  <2>2. bufs[s] \in 0..ElemNum /\ bufs[s] < ElemNum /\ read[p][q] \in 0..ElemNum
      BY <1>1, Sides, SMTT(60) DEF LocalInv, Initialising, Marked, TypeOK
  <2>3. (((read[p][q] + bufs[s]) % elem_num) + 1) % elem_num # read[p][q]
      BY <2>2, ModFill
  <2> QED BY <2>1, <2>3 DEF Full
<1> QED BY <1>0, <1>2, <1>3

\* Agreement, for every number of channels, pools, elements and restarts: whoever
\* of the two sides came first at which queue of ipc_shm_init_instance, gave up
\* with -EAGAIN or was restarted, once both are up every queue of a channel is
\* empty and every queue of a pool full for both, unless they were busy at once
\* after a restart.
THEOREM AgreementHolds == Spec => []Agreement
<1>1. IInv => Agreement
    BY DEF IInv, BothUp, Agree, Agreement
<1> QED BY <1>1, InvInit, InvNext, PTL DEF Spec

\* NeverFull, for the same: ipc_buf_pool_init finds room for each of its buffers,
\* unless its peer is down and left its read index behind.
THEOREM NeverFullHolds == Spec => []NeverFull
BY RoomLeft, InvInit, InvNext, PTL DEF Spec
=============================================================================
