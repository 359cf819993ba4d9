--------------------------- MODULE IpcQueueProofs ---------------------------
(***************************************************************************)
(* Theorems about IpcQueue and IpcQueueInit, for every set of elements and *)
(* every queue size.                                                       *)
(*                                                                         *)
(* For IpcQueue the inductive invariant is TypeOK, CachedIndexes and       *)
(* PublishedIsWhole; SlotExclusion follows from it, and that the rings     *)
(* implement IpcFifo.  For IpcQueueInit it is LifeInv, which says for each *)
(* place of the two sides in their lives which directions of the queue     *)
(* the indexes already, or still, agree on; Agreement follows from it.     *)
(***************************************************************************)
EXTENDS IpcQueueInit, SequenceTheorems, TLAPS

\* Leaves are for Zenon unless they name another prover.
USE ZenonT(120)

LEMMA ModBelow == ASSUME NEW n \in Nat \ {0}, NEW x \in 0..(n - 1)
                  PROVE  x % n = x
BY Z3

LEMMA ModWrap == ASSUME NEW n \in Nat \ {0}, NEW x \in n..(n + n - 1)
                 PROVE  x % n = x - n
BY Z3

\* The distance from a read to a write index, and the slot i places on.
LEMMA ModDistance ==
    ASSUME NEW n \in Nat \ {0}, NEW r \in 0..(n - 1), NEW w \in 0..(n - 1)
    PROVE  (w + n - r) % n = IF r <= w THEN w - r ELSE w + n - r
<1>1. CASE r <= w
  <2>1. w + n - r \in n..(n + n - 1)
      BY <1>1, SMTT(60)
  <2>2. (w + n - r) % n = w + n - r - n
      BY <2>1, ModWrap, SMTT(60)
  <2> QED BY <1>1, <2>2, SMTT(60)
<1>2. CASE ~(r <= w)
  <2>1. w + n - r \in 0..(n - 1)
      BY <1>2, SMTT(60)
  <2> QED BY <1>2, <2>1, ModBelow
<1> QED BY <1>1, <1>2

LEMMA ModSlot ==
    ASSUME NEW n \in Nat \ {0}, NEW r \in 0..(n - 1), NEW i \in 1..n
    PROVE  (r + i - 1) % n = IF r + i - 1 < n THEN r + i - 1 ELSE r + i - 1 - n
<1>1. CASE r + i - 1 < n
  <2>1. r + i - 1 \in 0..(n - 1)
      BY <1>1, SMTT(60)
  <2> QED BY <1>1, <2>1, ModBelow
<1>2. CASE ~(r + i - 1 < n)
  <2>1. r + i - 1 \in n..(n + n - 1)
      BY <1>2, SMTT(60)
  <2> QED BY <1>2, <2>1, ModWrap, SMTT(60)
<1> QED BY <1>1, <1>2

\* The wrap-around increment of both indexes, without a modulus.
LEMMA NextIndex ==
    \A i \in Index : (i + 1) % elem_num = IF i = ElemNum THEN 0 ELSE i + 1
<1> SUFFICES ASSUME NEW i \in Index
             PROVE  (i + 1) % elem_num = IF i = ElemNum THEN 0 ELSE i + 1
    OBVIOUS
<1>1. /\ ElemNum \in Nat /\ elem_num \in Nat \ {0} /\ elem_num = ElemNum + 1
      /\ i \in 0..ElemNum
    BY ElemNumAssumption, SMTT(60) DEF ElemNumAssumption, elem_num, Index
<1>2. CASE i = ElemNum
  <2>1. i + 1 = elem_num /\ elem_num \in elem_num..(elem_num + elem_num - 1)
      BY <1>1, <1>2, SMTT(60)
  <2>2. elem_num % elem_num = elem_num - elem_num
      BY <1>1, <2>1, ModWrap
  <2> QED BY <1>1, <1>2, <2>1, <2>2, SMTT(60)
<1>3. CASE i # ElemNum
  <2>1. i + 1 \in 0..(elem_num - 1)
      BY <1>1, <1>3, SMTT(60)
  <2>2. (i + 1) % elem_num = i + 1
      BY <1>1, <2>1, ModBelow
  <2> QED BY <1>1, <1>3, <2>2
<1> QED BY <1>2, <1>3

LEMMA IndexRange == /\ \A i \in Index : i \in Nat /\ i < elem_num /\ i <= ElemNum
                    /\ \A i \in Index : (i + 1) % elem_num \in Index
                    /\ 0 \in Index /\ ElemNum \in Index /\ ElemNum \in Nat \ {0}
<1>1. /\ \A i \in Index : i \in Nat /\ i < elem_num /\ i <= ElemNum
      /\ 0 \in Index /\ ElemNum \in Index /\ ElemNum \in Nat \ {0}
    BY ElemNumAssumption, SMTT(60) DEF ElemNumAssumption, elem_num, Index
<1>2. \A i \in Index : (IF i = ElemNum THEN 0 ELSE i + 1) \in Index
    BY ElemNumAssumption, SMTT(60) DEF ElemNumAssumption, Index
<1> QED BY <1>1, <1>2, NextIndex

LEMMA PeerSide ==
    \A s \in Side : Peer(s) \in Side /\ Peer(s) # s /\ Peer(Peer(s)) = s
BY SMTT(60) DEF Side, Peer

LEMMA SideSplit == \A s, t \in Side : t = s \/ t = Peer(s)
BY SMTT(60) DEF Side, Peer

-----------------------------------------------------------------------------
LEMMA TypeInit == Init => TypeOK
<1> SUFFICES ASSUME Init PROVE TypeOK
    OBVIOUS
<1>1. InitialWrite \in Index
    BY IndexRange DEF InitialWrite
<1> QED BY <1>1, IndexRange DEF Init, TypeOK

LEMMA TypeStep == TypeOK /\ [Next]_vars => TypeOK'
<1> SUFFICES ASSUME TypeOK, [Next]_vars PROVE TypeOK'
    OBVIOUS
<1> USE DEF TypeOK, ring, push, pop
<1>1. CASE UNCHANGED vars
    BY <1>1 DEF vars
<1>2. ASSUME NEW s \in Side, NEW e \in Elem, PushLoad(s, e) PROVE TypeOK'
    BY <1>2, PeerSide DEF PushLoad
<1>2a. ASSUME NEW s \in Side, PushRefused(s) PROVE TypeOK'
    BY <1>2a DEF PushRefused
<1>3. ASSUME NEW s \in Side, PushCopyStart(s) PROVE TypeOK'
    BY <1>3 DEF PushCopyStart
<1>4. ASSUME NEW s \in Side, PushCopyEnd(s) PROVE TypeOK'
    BY <1>4 DEF PushCopyEnd
<1>5. ASSUME NEW s \in Side, PushStore(s) PROVE TypeOK'
  <2>1. (pushWrite[s] + 1) % elem_num \in Index
      BY IndexRange
  <2> QED BY <1>5, <2>1 DEF PushStore
<1>6. ASSUME NEW s \in Side, PopLoad(s) PROVE TypeOK'
    BY <1>6, PeerSide DEF PopLoad
<1>7. ASSUME NEW s \in Side, PopCheck(s) PROVE TypeOK'
    BY <1>7 DEF PopCheck, PopReturn
<1>8. ASSUME NEW s \in Side, PopCopyStart(s) PROVE TypeOK'
    BY <1>8, PeerSide, SMTT(60) DEF PopCopyStart
<1>9. ASSUME NEW s \in Side, PopCopyEnd(s) PROVE TypeOK'
    BY <1>9 DEF PopCopyEnd
<1>10. ASSUME NEW s \in Side, PopStore(s) PROVE TypeOK'
  <2>1. (popRead[s] + 1) % elem_num \in Index
      BY IndexRange
  <2> QED BY <1>10, <2>1 DEF PopStore, PopReturn
<1> QED BY <1>1, <1>2, <1>2a, <1>3, <1>4, <1>5, <1>6, <1>7, <1>8, <1>9, <1>10
        DEF Next, PushStep, PopStep

\* ipc_queue_push and ipc_queue_pop keep every index below elem_num and every
\* variable within its type, so the range checks never fail.
THEOREM TypeCorrect == Spec => []TypeOK
BY TypeInit, TypeStep, PTL DEF Spec

-----------------------------------------------------------------------------
IndInv == TypeOK /\ CachedIndexes /\ PublishedIsWhole

\* What the lemmas about slots and contents need of the rings.
Rings ==
    /\ write \in [Side -> Index]
    /\ read \in [Side -> Index]
    /\ data \in [Side -> [Index -> Elem \cup {Torn}]]

LEMMA TypeRings == TypeOK => Rings
BY DEF TypeOK, Rings

LEMMA IndInvRings == IndInv => Rings
BY TypeRings DEF IndInv

\* The slots in use, told by the two indexes of one direction.
LEMMA OccupiedFacts ==
    ASSUME Rings, NEW s \in Side
    PROVE  /\ Occupied(s) \subseteq Index
           /\ read[Peer(s)] # write[s] => read[Peer(s)] \in Occupied(s)
           /\ write[s] \notin Occupied(s)
<1>1. read[Peer(s)] \in Index /\ write[s] \in Index
    BY PeerSide DEF Rings
<1> QED BY <1>1, SMTT(60) DEF Occupied, Index

\* Storing the next write index adds exactly the slot it leaves behind.
LEMMA OccupiedPush ==
    ASSUME TypeOK, NEW s \in Side,
           (write[s] + 1) % elem_num # read[Peer(s)],
           write'[s] = (write[s] + 1) % elem_num, read'[Peer(s)] = read[Peer(s)]
    PROVE  Occupied(s)' \subseteq Occupied(s) \cup {write[s]}
<1>1. read[Peer(s)] \in Index /\ write[s] \in Index
    BY PeerSide DEF TypeOK
<1>2. write'[s] = IF write[s] = ElemNum THEN 0 ELSE write[s] + 1
    BY <1>1, NextIndex
<1>3. ElemNum \in Nat
    BY IndexRange
<1> QED BY <1>1, <1>2, <1>3, SMTT(60) DEF Occupied, Index

\* Storing the next read index only removes slots.
LEMMA OccupiedPop ==
    ASSUME TypeOK, NEW s \in Side,
           read[Peer(s)] # write[s],
           read'[Peer(s)] = (read[Peer(s)] + 1) % elem_num, write'[s] = write[s]
    PROVE  Occupied(s)' \subseteq Occupied(s)
<1>1. read[Peer(s)] \in Index /\ write[s] \in Index
    BY PeerSide DEF TypeOK
<1>2. read'[Peer(s)] = IF read[Peer(s)] = ElemNum THEN 0 ELSE read[Peer(s)] + 1
    BY <1>1, NextIndex
<1>3. ElemNum \in Nat
    BY IndexRange
<1> QED BY <1>1, <1>2, <1>3, SMTT(60) DEF Occupied, Index

LEMMA IndInvInit == Init => IndInv
<1> SUFFICES ASSUME Init PROVE IndInv
    OBVIOUS
<1>1. TypeOK
    BY TypeInit
<1>2. CachedIndexes
    BY DEF Init, CachedIndexes
<1>3. PublishedIsWhole
  <2>1. ASSUME NEW s \in Side, NEW i \in Occupied(s) PROVE data[s][i] \in Elem
    <3>1. i \in Index /\ read[Peer(s)] = 0 /\ write[s] = InitialWrite
        BY PeerSide DEF Init, Occupied
    <3>2. InitialWrite \in Index
        BY IndexRange DEF InitialWrite
    <3>3. i < InitialWrite
        BY <3>1, <3>2, SMTT(60) DEF Occupied, Index
    <3> QED BY <3>1, <3>3 DEF Init
  <2> QED BY <2>1 DEF Init, PublishedIsWhole
<1> QED BY <1>1, <1>2, <1>3 DEF IndInv

LEMMA IndInvStep == IndInv /\ [Next]_vars => IndInv'
<1> SUFFICES ASSUME IndInv, [Next]_vars PROVE CachedIndexes' /\ PublishedIsWhole'
    BY TypeStep DEF IndInv
<1>0. TypeOK /\ CachedIndexes /\ PublishedIsWhole
    BY DEF IndInv
<1>a. TypeOK' /\ Rings
    BY TypeStep, TypeRings DEF IndInv
<1>b. /\ pushPc \in [Side -> {"idle", "loaded", "copying", "copied"}]
      /\ pushWrite \in [Side -> Index]
      /\ pushElem \in [Side -> Elem \cup {Torn}]
    BY <1>0 DEF TypeOK
<1>c. /\ popPc \in [Side -> {"idle", "loaded", "checked", "copying", "copied"}]
      /\ popWrite \in [Side -> Index] /\ popRead \in [Side -> Index]
      /\ popBuf \in [Side -> Elem \cup {Torn}]
    BY <1>0 DEF TypeOK
<1>d. /\ write \in [Side -> Index] /\ read \in [Side -> Index]
      /\ data \in [Side -> [Index -> Elem \cup {Torn}]]
    BY <1>0 DEF TypeOK
<1> USE DEF ring, push, pop
<1>1. CASE UNCHANGED vars
    BY <1>0, <1>1 DEF vars, CachedIndexes, PublishedIsWhole, Occupied
<1>2. ASSUME NEW s \in Side, NEW e \in Elem, PushLoad(s, e)
      PROVE  CachedIndexes' /\ PublishedIsWhole'
  <2>1. PublishedIsWhole'
      BY <1>0, <1>2 DEF PushLoad, PublishedIsWhole, Occupied
  <2>2. CachedIndexes'
      BY <1>0, <1>b, <1>2, SMTT(60) DEF PushLoad, PushInRange, PushNoRoom, CachedIndexes
  <2> QED BY <2>1, <2>2
<1>3. ASSUME NEW s \in Side, PushRefused(s)
      PROVE  CachedIndexes' /\ PublishedIsWhole'
    BY <1>0, <1>3 DEF PushRefused, CachedIndexes, PublishedIsWhole, Occupied
<1>4. ASSUME NEW s \in Side, PushCopyStart(s) \/ PushCopyEnd(s)
      PROVE  CachedIndexes' /\ PublishedIsWhole'
  <2>1. /\ pushWrite[s] = write[s] /\ write[s] \notin Occupied(s)
        /\ UNCHANGED <<sentinel, write, read, pushWrite, pushElem, pop>>
        /\ \A t \in Side, i \in Index : 
              ~(t = s /\ i = write[s]) => data'[t][i] = data[t][i]
      BY <1>0, <1>a, <1>d, <1>4, OccupiedFacts, SMTT(60)
         DEF CachedIndexes, PushCopyStart, PushCopyEnd
  <2>2. \A t \in Side : Occupied(t)' = Occupied(t)
      BY <2>1 DEF Occupied
  <2>3. \A t \in Side : \A i \in Occupied(t) : data'[t][i] = data[t][i]
      BY <1>a, <2>1, OccupiedFacts
  <2>4. PublishedIsWhole'
      BY <1>0, <2>1, <2>2, <2>3, PeerSide, SMTT(60) DEF PublishedIsWhole
  <2>5. CachedIndexes'
      BY <1>0, <1>b, <1>d, <1>4, <2>1, SMTT(60)
         DEF CachedIndexes, PushCopyStart, PushCopyEnd
  <2> QED BY <2>4, <2>5
<1>5. ASSUME NEW s \in Side, PushStore(s)
      PROVE  CachedIndexes' /\ PublishedIsWhole'
  <2>1. /\ write'[s] = (write[s] + 1) % elem_num /\ write'[s] # read[Peer(s)]
        /\ data[s][write[s]] \in Elem /\ UNCHANGED <<read, data, pop>>
        /\ write'[Peer(s)] = write[Peer(s)]
      BY <1>0, <1>d, <1>5, PeerSide, SMTT(60) DEF CachedIndexes, PushStore
  <2>2. Occupied(s)' \subseteq Occupied(s) \cup {write[s]}
      BY <1>0, <2>1, OccupiedPush, PeerSide DEF CachedIndexes
  <2>3. Occupied(Peer(s))' = Occupied(Peer(s))
      BY <2>1, PeerSide DEF Occupied
  <2>4. PublishedIsWhole'
    <3>1. \A t \in Side : \A i \in Occupied(t)' : data'[t][i] \in Elem
        BY <1>0, <2>1, <2>2, <2>3, SideSplit, SMTT(60) DEF PublishedIsWhole
    <3>2. ASSUME NEW t \in Side, popPc'[t] \in {"copying", "copied"}
          PROVE  /\ popBuf'[t] = data'[Peer(t)][read'[t]]
                 /\ read'[t] \in Occupied(Peer(t))'
      <4>1. popBuf[t] = data[Peer(t)][read[t]] /\ read[t] \in Occupied(Peer(t))
          BY <1>0, <2>1, <3>2 DEF PublishedIsWhole
      <4>2. read'[t] # write'[Peer(t)]
        <5>1. CASE t = s
          <6>1. write[Peer(s)] \notin Occupied(Peer(s))
              BY <1>a, OccupiedFacts, PeerSide
          <6> QED BY <2>1, <4>1, <5>1, <6>1
        <5>2. CASE t = Peer(s)
            BY <2>1, <5>2, PeerSide
        <5> QED BY <5>1, <5>2, SideSplit
      <4>3. read'[t] \in Occupied(Peer(t))'
        <5>1. /\ read'[t] \in Index /\ write'[Peer(t)] \in Index
              /\ Peer(Peer(t)) = t
            BY <1>a, PeerSide DEF TypeOK
        <5> QED BY <4>2, <5>1, SMTT(60) DEF Occupied, Index
      <4> QED BY <2>1, <4>1, <4>3
    <3> QED BY <3>1, <3>2 DEF PublishedIsWhole
  <2>5. CachedIndexes'
    <3>1. ASSUME NEW t \in Side, popPc'[t] # "idle", popWrite'[t] # popRead'[t]
          PROVE  read'[t] # write'[Peer(t)]
        BY <1>0, <2>1, <3>1, SideSplit, PeerSide, SMTT(60) DEF CachedIndexes
    <3>2. ASSUME NEW t \in Side, pushPc'[t] # "idle"
          PROVE  t # s /\ pushPc[t] # "idle" /\ write'[t] = write[t]
                 /\ pushPc'[t] = pushPc[t] /\ pushWrite'[t] = pushWrite[t]
                 /\ pushElem'[t] = pushElem[t]
        BY <1>b, <1>d, <1>5, <3>2, SMTT(60) DEF PushStore
    <3> QED BY <1>0, <2>1, <3>1, <3>2, SMTT(60) DEF CachedIndexes
  <2> QED BY <2>4, <2>5
<1>6. ASSUME NEW s \in Side, PopLoad(s)
      PROVE  CachedIndexes' /\ PublishedIsWhole'
  <2>1. PublishedIsWhole'
      BY <1>0, <1>c, <1>6 DEF PopLoad, PublishedIsWhole, Occupied
  <2>2. CachedIndexes'
      BY <1>0, <1>c, <1>6, SMTT(60) DEF PopLoad, CachedIndexes
  <2> QED BY <2>1, <2>2
<1>7. ASSUME NEW s \in Side, PopCheck(s)
      PROVE  CachedIndexes' /\ PublishedIsWhole'
  <2>1. /\ UNCHANGED <<ring, push, popWrite, popRead, popBuf>>
        /\ popPc[s] = "loaded" /\ popPc'[s] \in {"idle", "checked"}
        /\ popPc'[s] = "checked" => popRead[s] # popWrite[s]
        /\ \A t \in Side : t # s => popPc'[t] = popPc[t]
      BY <1>c, <1>7 DEF PopCheck, PopReturn
  <2>2. \A t \in Side : popPc'[t] \in {"copying", "copied"} => popPc'[t] = popPc[t]
      BY <2>1
  <2>3. PublishedIsWhole'
      BY <1>0, <2>1, <2>2 DEF PublishedIsWhole, Occupied
  <2>4. CachedIndexes'
      BY <1>0, <2>1, SMTT(60) DEF CachedIndexes
  <2> QED BY <2>3, <2>4
<1>8. ASSUME NEW s \in Side, PopCopyStart(s) \/ PopCopyEnd(s)
      PROVE  CachedIndexes' /\ PublishedIsWhole'
  <2>1. /\ UNCHANGED <<ring, push, popWrite, popRead>>
        /\ \A t \in Side : Occupied(t)' = Occupied(t)
      BY <1>8 DEF PopCopyStart, PopCopyEnd, Occupied
  <2>2. popRead[s] = read[s] /\ read[s] # write[Peer(s)]
      BY <1>0, <1>8 DEF CachedIndexes, PopCopyStart, PopCopyEnd
  <2>3. read[s] \in Occupied(Peer(s))
      BY <1>a, <2>2, OccupiedFacts, PeerSide
  <2>4. popBuf'[s] = data[Peer(s)][read[s]]
      BY <1>0, <1>c, <1>8, <2>2, SMTT(60) DEF PopCopyStart, PopCopyEnd, PublishedIsWhole
  <2>5. PublishedIsWhole'
    <3>1. ASSUME NEW t \in Side, t # s
          PROVE  popPc'[t] = popPc[t] /\ popBuf'[t] = popBuf[t]
        BY <1>c, <1>8, <3>1 DEF PopCopyStart, PopCopyEnd
    <3>2. /\ \A t \in Side : \A i \in Occupied(t)' : data'[t][i] \in Elem
          /\ data' = data /\ read' = read
        BY <1>0, <2>1 DEF PublishedIsWhole
    <3>3. ASSUME NEW t \in Side, popPc'[t] \in {"copying", "copied"}
          PROVE  /\ popBuf'[t] = data'[Peer(t)][read'[t]]
                 /\ read'[t] \in Occupied(Peer(t))'
      <4>1. CASE t = s
          BY <2>1, <2>3, <2>4, <3>2, <4>1, PeerSide
      <4>2. CASE t # s
          BY <1>0, <2>1, <3>1, <3>2, <3>3, <4>2, PeerSide DEF PublishedIsWhole
      <4> QED BY <4>1, <4>2
    <3> QED BY <3>2, <3>3 DEF PublishedIsWhole
  <2>6. CachedIndexes'
      BY <1>0, <1>c, <1>8, <2>1, SMTT(60) DEF PopCopyStart, PopCopyEnd, CachedIndexes
  <2> QED BY <2>5, <2>6
<1>9. ASSUME NEW s \in Side, PopStore(s)
      PROVE  CachedIndexes' /\ PublishedIsWhole'
  <2> DEFINE p == Peer(s)
  <2>1. /\ read'[s] = (read[s] + 1) % elem_num /\ read[s] # write[p]
        /\ UNCHANGED <<sentinel, write, data, push, popWrite, popRead, popBuf>>
        /\ read'[p] = read[p] /\ popPc'[s] = "idle" /\ popPc'[p] = popPc[p]
      BY <1>0, <1>c, <1>d, <1>9, PeerSide, SMTT(60)
         DEF CachedIndexes, PopStore, PopReturn
  <2>2. Occupied(p)' \subseteq Occupied(p)
      BY <1>0, <2>1, OccupiedPop, PeerSide
  <2>3. Occupied(s)' = Occupied(s)
      BY <2>1 DEF Occupied
  <2>4. PublishedIsWhole'
      BY <1>0, <2>1, <2>2, <2>3, SideSplit, PeerSide, SMTT(60) DEF PublishedIsWhole
  <2>5. CachedIndexes'
    <3>1. ASSUME NEW t \in Side, pushPc'[t] # "idle"
          PROVE  (write'[t] + 1) % elem_num # read'[Peer(t)]
      <4>1. CASE t = s
          BY <1>0, <2>1, <3>1, <4>1 DEF CachedIndexes
      <4>2. CASE t = p
        <5>1. write[p] \in Index /\ read[s] \in Index
            BY <1>d, PeerSide
        <5>2. (write[p] + 1) % elem_num # (read[s] + 1) % elem_num
            BY <2>1, <5>1, NextIndex, IndexRange, SMTT(60) DEF Index
        <5> QED BY <2>1, <4>2, <5>2, PeerSide
      <4> QED BY <4>1, <4>2, SideSplit
    <3> QED BY <1>0, <2>1, <3>1, SideSplit, PeerSide, SMTT(60) DEF CachedIndexes
  <2> QED BY <2>4, <2>5
<1> QED BY <1>1, <1>2, <1>3, <1>4, <1>5, <1>6, <1>7, <1>8, <1>9
        DEF Next, PushStep, PopStep

\* Elements are published whole, stay whole until they are given back, and the
\* two memcpy calls of ipc_queue_push and ipc_queue_pop never meet in a slot.
THEOREM Safety == Spec => [](CachedIndexes /\ PublishedIsWhole /\ SlotExclusion)
<1>1. IndInv => CachedIndexes /\ PublishedIsWhole /\ SlotExclusion
    BY PeerSide, SMTT(60) DEF IndInv, CachedIndexes, SlotExclusion
<1> QED BY IndInvInit, IndInvStep, <1>1, PTL DEF Spec

\* Elements between a write and a read index are whole: an index is stored after
\* the element, and before the slot is written again (PublishedIsWhole).
THEOREM PublishedIsWholeHolds == Spec => []PublishedIsWhole
BY Safety, PTL

\* What a push or a pop has read of the peer's index stays good enough to act on
\* although the peer goes on (CachedIndexes).
THEOREM CachedIndexesHolds == Spec => []CachedIndexes
BY Safety, PTL

-----------------------------------------------------------------------------
(* Refinement *)

\* Used and the slots of Contents, without a modulus.
LEMMA UsedFacts ==
    ASSUME Rings, NEW s \in Side
    PROVE  LET r == read[Peer(s)] w == write[s]
           IN  /\ r \in Index /\ w \in Index
               /\ Used(s) = IF r <= w THEN w - r ELSE w + elem_num - r
               /\ Used(s) \in 0..ElemNum
<1> DEFINE r == read[Peer(s)] w == write[s]
<1>1. r \in Index /\ w \in Index
    BY PeerSide DEF Rings
<1>2. /\ ElemNum \in Nat /\ elem_num \in Nat \ {0} /\ elem_num = ElemNum + 1
      /\ r \in 0..ElemNum /\ w \in 0..ElemNum
    BY <1>1, ElemNumAssumption, SMTT(60) DEF ElemNumAssumption, elem_num, Index
<1>3. r \in 0..(elem_num - 1) /\ w \in 0..(elem_num - 1)
    BY <1>2, SMTT(60)
<1>4. Used(s) = IF r <= w THEN w - r ELSE w + elem_num - r
    BY <1>2, <1>3, ModDistance DEF Used
<1> QED BY <1>1, <1>2, <1>4, SMTT(60)

Slot(s, i) == (read[Peer(s)] + i - 1) % elem_num

LEMMA SlotFacts ==
    ASSUME Rings, NEW s \in Side, NEW i \in 1..elem_num
    PROVE  LET x == read[Peer(s)] + i - 1
           IN  /\ Slot(s, i) = IF x <= ElemNum THEN x ELSE x - elem_num
               /\ Slot(s, i) \in Index
               /\ i <= Used(s) => Slot(s, i) \in Occupied(s)
               /\ i = Used(s) + 1 => Slot(s, i) = write[s]
<1> DEFINE r == read[Peer(s)] w == write[s] x == r + i - 1
<1>1. r \in Index /\ w \in Index
    BY PeerSide DEF Rings
<1>2. /\ ElemNum \in Nat /\ elem_num \in Nat \ {0} /\ elem_num = ElemNum + 1
      /\ r \in 0..ElemNum /\ w \in 0..ElemNum /\ Index = 0..ElemNum
    BY <1>1, ElemNumAssumption, SMTT(60) DEF ElemNumAssumption, elem_num, Index
<1>3. Slot(s, i) = IF x <= ElemNum THEN x ELSE x - elem_num
  <2>1. r \in 0..(elem_num - 1)
      BY <1>2, SMTT(60)
  <2>2. Slot(s, i) = IF r + i - 1 < elem_num THEN r + i - 1 ELSE r + i - 1 - elem_num
      BY <1>2, <2>1, ModSlot DEF Slot
  <2> QED BY <1>2, <2>2, SMTT(60)
<1>4. Slot(s, i) \in Index
    BY <1>2, <1>3, SMTT(60)
<1>5. Used(s) = IF r <= w THEN w - r ELSE w + elem_num - r
    BY UsedFacts
<1>6. i <= Used(s) => Slot(s, i) \in Occupied(s)
    BY <1>2, <1>3, <1>4, <1>5, SMTT(60) DEF Occupied
<1>7. i = Used(s) + 1 => Slot(s, i) = write[s]
    BY <1>2, <1>3, <1>5, SMTT(60)
<1> QED BY <1>3, <1>4, <1>6, <1>7

LEMMA ContentsFacts ==
    ASSUME Rings, NEW s \in Side
    PROVE  /\ Contents(s) \in Seq(Elem \cup {Torn})
           /\ Len(Contents(s)) = Used(s)
           /\ Used(s) \in 0..ElemNum
           /\ \A i \in 1..Used(s) : Contents(s)[i] = data[s][Slot(s, i)]
           /\ \A i \in 1..Used(s) : Slot(s, i) \in Occupied(s)
<1>1. Used(s) \in 0..ElemNum /\ ElemNum \in Nat /\ elem_num = ElemNum + 1
    BY UsedFacts, ElemNumAssumption DEF ElemNumAssumption, elem_num
<1>2. \A i \in 1..Used(s) : Slot(s, i) \in Occupied(s) /\ Slot(s, i) \in Index
    BY <1>1, SlotFacts, SMTT(60)
<1>3. \A i \in 1..Used(s) : data[s][Slot(s, i)] \in Elem \cup {Torn}
    BY <1>2 DEF Rings
<1>4. Contents(s) = [i \in 1..Used(s) |-> data[s][Slot(s, i)]]
    BY DEF Contents, Slot
<1> QED BY <1>1, <1>2, <1>3, <1>4, SMTT(60)

\* The elements in the queue are whole.
LEMMA ContentsWhole ==
    ASSUME IndInv, NEW s \in Side
    PROVE  Contents(s) \in Seq(Elem)
<1>1. /\ Contents(s) \in Seq(Elem \cup {Torn}) /\ Len(Contents(s)) = Used(s)
      /\ Used(s) \in Nat
      /\ \A i \in 1..Used(s) : Contents(s)[i] = data[s][Slot(s, i)]
      /\ \A i \in 1..Used(s) : Slot(s, i) \in Occupied(s)
    BY IndInvRings, ContentsFacts, IndexRange, SMTT(60)
<1>2. \A i \in 1..Used(s) : Contents(s)[i] \in Elem
    BY <1>1 DEF IndInv, PublishedIsWhole
<1> QED BY <1>1, <1>2, SMTT(60)

\* A step that leaves the indexes and the occupied slots of a direction alone
\* leaves its contents alone.
LEMMA ContentsSame ==
    ASSUME Rings, NEW s \in Side,
           write'[s] = write[s], read'[Peer(s)] = read[Peer(s)],
           \A i \in Occupied(s) : data'[s][i] = data[s][i]
    PROVE  Contents(s)' = Contents(s)
<1>1. Used(s)' = Used(s) /\ \A i \in 1..Used(s) : Slot(s, i)' = Slot(s, i)
    BY DEF Used, Slot
<1>2. \A i \in 1..Used(s) : data'[s][Slot(s, i)] = data[s][Slot(s, i)]
    BY ContentsFacts
<1> QED BY <1>1, <1>2 DEF Contents, Slot

\* Advancing the write index of a ring that is not full appends the element in
\* the slot it pointed at.
LEMMA ContentsAppend ==
    ASSUME Rings, NEW s \in Side,
           (write[s] + 1) % elem_num # read[Peer(s)],
           write'[s] = (write[s] + 1) % elem_num,
           read'[Peer(s)] = read[Peer(s)], data'[s] = data[s]
    PROVE  /\ Contents(s)' = Append(Contents(s), data[s][write[s]])
           /\ Used(s) < ElemNum
<1> DEFINE r == read[Peer(s)] w == write[s] e == data[s][write[s]]
<1>1. /\ ElemNum \in Nat /\ elem_num = ElemNum + 1
      /\ r \in Index /\ w \in Index /\ r \in 0..ElemNum /\ w \in 0..ElemNum
      /\ e \in Elem \cup {Torn}
    BY PeerSide, ElemNumAssumption DEF Rings, ElemNumAssumption, elem_num, Index
<1>2. (w + 1) % elem_num = IF w = ElemNum THEN 0 ELSE w + 1
    BY <1>1, NextIndex
<1>3. Used(s) = IF r <= w THEN w - r ELSE w + elem_num - r
    BY UsedFacts
<1>4. Used(s)' = IF r <= write'[s] THEN write'[s] - r ELSE write'[s] + elem_num - r
  <2>1. /\ write'[s] \in 0..(elem_num - 1) /\ r \in 0..(elem_num - 1)
        /\ elem_num \in Nat \ {0}
      BY <1>1, <1>2, SMTT(60)
  <2> QED BY <2>1, ModDistance DEF Used
<1>5. Used(s)' = Used(s) + 1 /\ Used(s) < ElemNum /\ Used(s) \in Nat
  <2>1. write'[s] = (IF w = ElemNum THEN 0 ELSE w + 1) /\ write'[s] # r
      BY <1>2
  <2>2. /\ ElemNum \in Nat /\ r \in 0..ElemNum /\ w \in 0..ElemNum
        /\ Used(s) = IF r <= w THEN w - r ELSE w + (ElemNum + 1) - r
        /\ Used(s)' = IF r <= write'[s] THEN write'[s] - r
                      ELSE write'[s] + (ElemNum + 1) - r
      BY <1>1, <1>3, <1>4
  <2> HIDE DEF r, w
  <2> QED BY <2>1, <2>2, SMTT(60)
<1>6. Contents(s)' = [i \in 1..(Used(s) + 1) |-> data[s][Slot(s, i)]]
    BY <1>5 DEF Contents, Slot
<1>7. data[s][Slot(s, Used(s) + 1)] = e
  <2>1. Used(s) + 1 \in 1..elem_num
      BY <1>1, <1>5, SMTT(60)
  <2> QED BY <2>1, SlotFacts
<1>8. /\ Contents(s) \in Seq(Elem \cup {Torn}) /\ Len(Contents(s)) = Used(s)
      /\ \A i \in 1..Used(s) : Contents(s)[i] = data[s][Slot(s, i)]
    BY ContentsFacts
<1>9. Append(Contents(s), e) = [i \in 1..(Used(s) + 1) |-> data[s][Slot(s, i)]]
  <2> DEFINE c == Append(Contents(s), e)
  <2>1. /\ c \in Seq(Elem \cup {Torn}) /\ Len(c) = Used(s) + 1 /\ c[Used(s) + 1] = e
        /\ \A i \in 1..Used(s) : c[i] = Contents(s)[i]
      BY <1>1, <1>5, <1>8, AppendProperties, SMTT(60)
  <2> HIDE DEF c
  <2>2. \A i \in 1..(Used(s) + 1) : i \in 1..Used(s) \/ i = Used(s) + 1
      BY <1>5, SMTT(60)
  <2>3. \A i \in 1..(Used(s) + 1) : c[i] = data[s][Slot(s, i)]
      BY <1>7, <1>8, <2>1, <2>2
  <2>4. c \in [1..(Used(s) + 1) -> Elem \cup {Torn}]
      BY <2>1, LenProperties
  <2> QED BY <2>3, <2>4 DEF c
<1> QED BY <1>5, <1>6, <1>9

\* Advancing the read index of a ring that is not empty removes its head.
LEMMA ContentsTail ==
    ASSUME Rings, NEW p \in Side, read[Peer(p)] # write[p],
           read'[Peer(p)] = (read[Peer(p)] + 1) % elem_num,
           write'[p] = write[p], data'[p] = data[p]
    PROVE  /\ Contents(p) # <<>>
           /\ Contents(p)' = Tail(Contents(p))
           /\ data[p][read[Peer(p)]] = Head(Contents(p))
<1> DEFINE s == Peer(p) r == read[s] w == write[p]
<1>1. /\ ElemNum \in Nat /\ elem_num = ElemNum + 1
      /\ r \in 0..ElemNum /\ w \in 0..ElemNum
      /\ read'[s] = IF r = ElemNum THEN 0 ELSE r + 1
      /\ r # w
  <2>1. r \in Index /\ w \in Index
      BY PeerSide DEF Rings
  <2> QED BY <2>1, NextIndex, ElemNumAssumption
          DEF ElemNumAssumption, elem_num, Index
<1>2. Used(p) = IF r <= w THEN w - r ELSE w + elem_num - r
    BY UsedFacts
<1>3. Used(p)' = Used(p) - 1 /\ Used(p) \in 1..ElemNum
  <2>1. /\ read'[s] \in 0..(elem_num - 1) /\ w \in 0..(elem_num - 1)
        /\ elem_num \in Nat \ {0} 
      BY <1>1, SMTT(60)
  <2>2. Used(p)' = (w + elem_num - read'[s]) % elem_num
      BY DEF Used
  <2>3. Used(p)' = IF read'[s] <= w THEN w - read'[s] ELSE w + elem_num - read'[s]
      BY <2>1, <2>2, ModDistance
  <2> QED BY <1>1, <1>2, <2>3, SMTT(60)
<1>4. \A i \in 1..(Used(p) - 1) : Slot(p, i)' = Slot(p, i + 1)
  <2> SUFFICES ASSUME NEW i \in 1..(Used(p) - 1) PROVE Slot(p, i)' = Slot(p, i + 1)
      OBVIOUS
  <2>1. /\ read'[s] \in 0..(elem_num - 1) /\ r \in 0..(elem_num - 1)
        /\ elem_num \in Nat \ {0} /\ i \in 1..elem_num /\ i + 1 \in 1..elem_num
      BY <1>1, <1>3, SMTT(60)
  <2>2. /\ Slot(p, i)' = (read'[s] + i - 1) % elem_num
        /\ Slot(p, i + 1) = (r + (i + 1) - 1) % elem_num
      BY DEF Slot
  <2>3. Slot(p, i)' = IF read'[s] + i - 1 < elem_num THEN read'[s] + i - 1
                      ELSE read'[s] + i - 1 - elem_num
      BY <2>1, <2>2, ModSlot
  <2>4. Slot(p, i + 1) = IF r + (i + 1) - 1 < elem_num THEN r + (i + 1) - 1
                         ELSE r + (i + 1) - 1 - elem_num
      BY <2>1, <2>2, ModSlot
  <2>5. CASE r = ElemNum
    <3>1. Slot(p, i)' = i - 1 /\ Slot(p, i + 1) = i - 1
        BY <1>1, <2>1, <2>3, <2>4, <2>5, SMTT(60)
    <3> QED BY <3>1
  <2>6. CASE r # ElemNum
    <3>1. read'[s] + i - 1 = r + (i + 1) - 1
        BY <1>1, <2>1, <2>6, SMTT(60)
    <3>2. (read'[s] + i - 1) % elem_num = (r + (i + 1) - 1) % elem_num
        BY <3>1
    <3> QED BY <2>2, <3>2
  <2> QED BY <2>5, <2>6
<1>5. /\ Contents(p) \in Seq(Elem \cup {Torn}) /\ Len(Contents(p)) = Used(p)
      /\ \A i \in 1..Used(p) : Contents(p)[i] = data[p][Slot(p, i)]
    BY ContentsFacts
<1>6. Contents(p) # <<>> /\ Head(Contents(p)) = data[p][r]
  <2>1. Slot(p, 1) = r
      BY <1>1, SlotFacts, SMTT(60)
  <2> QED BY <1>3, <1>5, <2>1, SMTT(60)
<1>7. Contents(p)' = [i \in 1..(Used(p) - 1) |-> data[p][Slot(p, i + 1)]]
    BY <1>3, <1>4 DEF Contents, Slot
<1>8. Tail(Contents(p)) = [i \in 1..(Used(p) - 1) |-> data[p][Slot(p, i + 1)]]
  <2>1. /\ Tail(Contents(p)) \in Seq(Elem \cup {Torn}) /\ Len(Tail(Contents(p))) = Used(p) - 1
        /\ \A i \in 1..(Used(p) - 1) : Tail(Contents(p))[i] = Contents(p)[i + 1]
      BY <1>5, <1>6, HeadTailProperties, SMTT(60)
  <2>2. \A i \in 1..(Used(p) - 1) : Tail(Contents(p))[i] = data[p][Slot(p, i + 1)]
      BY <1>3, <1>5, <2>1, SMTT(60)
  <2>3. Tail(Contents(p)) \in [1..(Used(p) - 1) -> Elem \cup {Torn}]
      BY <2>1, LenProperties
  <2> QED BY <2>2, <2>3
<1> QED BY <1>6, <1>7, <1>8

\* Publishing an element appends it.
LEMMA ContentsPush ==
    ASSUME IndInv, NEW s \in Side, PushStore(s)
    PROVE  Contents(s)' = Append(Contents(s), pushElem[s]) /\ Used(s) < ElemNum
<1>1. CachedIndexes /\ write \in [Side -> Index] /\ Rings
    BY IndInvRings DEF IndInv, TypeOK
<1>2. /\ write'[s] = (write[s] + 1) % elem_num
      /\ (write[s] + 1) % elem_num # read[Peer(s)]
      /\ read' = read /\ data' = data /\ data[s][write[s]] = pushElem[s]
    BY <1>1 DEF CachedIndexes, PushStore, ring, push, pop
<1> QED BY <1>1, <1>2, ContentsAppend

\* Giving the oldest slot back removes the head, which is what pop returns.
LEMMA ContentsPop ==
    ASSUME IndInv, NEW s \in Side, PopStore(s)
    PROVE  /\ Contents(Peer(s)) # <<>>
           /\ Contents(Peer(s))' = Tail(Contents(Peer(s)))
           /\ popBuf[s] = Head(Contents(Peer(s)))
<1>1. PICK p \in Side : p = Peer(s) /\ Peer(p) = s
    BY PeerSide
<1>2. /\ read'[s] = (read[s] + 1) % elem_num /\ read[s] # write[p]
      /\ write' = write /\ data' = data /\ popBuf[s] = data[p][read[s]]
    BY <1>1 DEF IndInv, TypeOK, CachedIndexes, PublishedIsWhole, PopStore
<1> QED BY <1>1, <1>2, IndInvRings, ContentsTail

\* The two rings implement a bounded FIFO in each direction: every element is
\* popped exactly once, whole and in order, -ENOMEM and -ENOBUFS are answered
\* only when they are true, and -EINVAL never.
THEOREM Refinement == Spec => ImplementsFifo
<1>1. Init => Fifo!Init
  <2> SUFFICES ASSUME Init PROVE Fifo!Init
      OBVIOUS
  <2>1. IndInv
      BY IndInvInit
  <2>2. \A s \in Side : Contents(s) \in Seq(Elem) /\ Len(Contents(s)) <= ElemNum
    <3>1. Rings
        BY <2>1, IndInvRings
    <3> QED BY <2>1, <3>1, ContentsFacts, ContentsWhole, IndexRange, SMTT(60)
  <2> QED BY <2>2 DEF Init, Fifo!Init, Fifo!Side, Side, PopSeen
<1>2. ASSUME IndInv, IndInv', [Next]_vars PROVE [Fifo!Next]_(Fifo!vars)
  <2> USE DEF ring, push, pop
  <2>0. TypeOK /\ CachedIndexes /\ Rings
      BY <1>2, IndInvRings DEF IndInv
  <2>1. CASE UNCHANGED vars
    <3>1. \A s \in Side : Contents(s)' = Contents(s) /\ PopSeen(s)' = PopSeen(s)
        BY <2>1 DEF vars, Contents, Used, PopSeen
    <3> QED BY <2>1, <3>1 DEF vars, Fifo!vars
  <2>2. ASSUME NEW s \in Side, NEW e \in Elem, PushLoad(s, e)
        PROVE  UNCHANGED Fifo!vars
    <3>1. \A t \in Side : Contents(t)' = Contents(t) /\ PopSeen(t)' = PopSeen(t)
        BY <2>2 DEF PushLoad, Contents, Used, PopSeen
    <3> QED BY <2>2, <3>1 DEF PushLoad, Fifo!vars
  <2>3. ASSUME NEW s \in Side, PushRefused(s)
        PROVE  Fifo!PushFull(s)
    <3>1. \A t \in Side : Contents(t)' = Contents(t) /\ PopSeen(t)' = PopSeen(t)
        BY <2>3 DEF PushRefused, Contents, Used, PopSeen
    <3>2. PushInRange(s)
        BY <2>0, PeerSide, IndexRange DEF TypeOK, PushInRange
    <3>3. Len(Contents(s)) = ElemNum
      <4>1. read[Peer(s)] \in Index /\ write[s] \in Index
          BY <2>0, PeerSide DEF TypeOK
      <4>2. read[Peer(s)] = IF write[s] = ElemNum THEN 0 ELSE write[s] + 1
          BY <2>3, <3>2, <4>1, NextIndex DEF PushRefused, PushNoRoom
      <4>3. Used(s) = IF read[Peer(s)] <= write[s] THEN write[s] - read[Peer(s)]
                      ELSE write[s] + elem_num - read[Peer(s)]
          BY <2>0, UsedFacts
      <4>4. Used(s) = ElemNum
          BY <4>1, <4>2, <4>3, IndexRange, SMTT(60) DEF elem_num, Index
      <4> QED BY <2>0, <4>4, ContentsFacts
    <3> QED BY <2>3, <3>1, <3>2, <3>3 DEF PushRefused, Fifo!PushFull
  <2>4. ASSUME NEW s \in Side, PushCopyStart(s) \/ PushCopyEnd(s)
        PROVE  UNCHANGED Fifo!vars
    <3>1. /\ pushWrite[s] = write[s] /\ write[s] \notin Occupied(s)
          /\ UNCHANGED <<write, read, pushRet, pop>>
          /\ \A t \in Side, i \in Index :
                ~(t = s /\ i = write[s]) => data'[t][i] = data[t][i]
        BY <2>0, <2>4, OccupiedFacts, SMTT(60) DEF TypeOK, CachedIndexes, PushCopyStart,
           PushCopyEnd
    <3>2. \A t \in Side : \A i \in Occupied(t) : data'[t][i] = data[t][i]
        BY <2>0, <3>1, OccupiedFacts
    <3>3. \A t \in Side : Contents(t)' = Contents(t)
        BY <2>0, <3>1, <3>2, ContentsSame
    <3>4. \A t \in Side : PopSeen(t)' = PopSeen(t)
        BY <3>1 DEF PopSeen
    <3> QED BY <3>1, <3>3, <3>4 DEF Fifo!vars
  <2>5. ASSUME NEW s \in Side, PushStore(s)
        PROVE  pushElem[s] \in Elem /\ Fifo!PushOk(s, pushElem[s])
    <3>1. Contents(s)' = Append(Contents(s), pushElem[s]) /\ Len(Contents(s)) < ElemNum
        BY <1>2, <2>0, <2>5, ContentsPush, ContentsFacts
    <3>2. ASSUME NEW t \in Side, t # s PROVE Contents(t)' = Contents(t)
        BY <2>0, <2>5, <3>2, ContentsSame DEF TypeOK, PushStore
    <3>3. pushElem[s] \in Elem
        BY <2>0, <2>5 DEF CachedIndexes, PushStore
    <3>4. \A t \in Side : PopSeen(t)' = PopSeen(t)
        BY <2>5 DEF PushStore, PopSeen
    <3>5. [t \in Side |-> Contents(t)]' =
              [[t \in Side |-> Contents(t)] EXCEPT ![s] = Append(@, pushElem[s])]
        BY <3>1, <3>2
    <3> QED BY <2>5, <3>1, <3>3, <3>4, <3>5 DEF PushStore, Fifo!PushOk
  <2>6. ASSUME NEW s \in Side, PopLoad(s)
        PROVE  Fifo!PopStart(s)
    <3>1. \A t \in Side : Contents(t)' = Contents(t)
        BY <2>6 DEF PopLoad, Contents, Used
    <3>2. (Contents(Peer(s)) = <<>>) <=> (read[s] = write[Peer(s)])
      <4>1. /\ Used(Peer(s)) = IF read[s] <= write[Peer(s)] THEN write[Peer(s)] - read[s]
                               ELSE write[Peer(s)] + elem_num - read[s]
            /\ read[s] \in Index /\ write[Peer(s)] \in Index
          BY <2>0, UsedFacts, PeerSide
      <4>2. Used(Peer(s)) = 0 <=> read[s] = write[Peer(s)]
          BY <4>1, IndexRange, SMTT(60) DEF elem_num, Index
      <4>3. /\ Contents(Peer(s)) \in Seq(Elem \cup {Torn})
            /\ Len(Contents(Peer(s))) = Used(Peer(s))
          BY <2>0, ContentsFacts, PeerSide
      <4> QED BY <4>2, <4>3, SMTT(60)
    <3>3. PopSeen(s) = "nothing"
        BY <2>6 DEF PopLoad, PopSeen
    <3>4. PopSeen(s)' = IF Contents(Peer(s)) = <<>> THEN "empty" ELSE "element"
        BY <2>0, <2>6, <3>2 DEF TypeOK, PopLoad, PopSeen
    <3>5. ASSUME NEW t \in Side, t # s PROVE PopSeen(t)' = PopSeen(t)
        BY <2>0, <2>6, <3>5 DEF TypeOK, PopLoad, PopSeen
    <3> QED BY <2>6, <3>1, <3>3, <3>4, <3>5, PeerSide
            DEF PopLoad, Fifo!PopStart, Fifo!Peer, Peer
  <2>7. ASSUME NEW s \in Side, PopCheck(s)
        PROVE  Fifo!PopEmpty(s) \/ UNCHANGED Fifo!vars
    <3>1. \A t \in Side : Contents(t)' = Contents(t)
        BY <2>7 DEF PopCheck, Contents, Used
    <3>2. ASSUME NEW t \in Side, t # s PROVE PopSeen(t)' = PopSeen(t)
        BY <2>0, <2>7, <3>2 DEF TypeOK, PopCheck, PopReturn, PopSeen
    <3>3. /\ ipc_queue_check_integrity(s)
          /\ popRead[s] < elem_num /\ popWrite[s] < elem_num
        BY <2>0, PeerSide, IndexRange DEF TypeOK, ipc_queue_check_integrity
    <3>4. CASE popRead[s] = popWrite[s]
      <4>1. PopSeen(s) = "empty" /\ PopSeen(s)' = "nothing"
          BY <2>0, <2>7, <3>3, <3>4 DEF TypeOK, PopCheck, PopReturn, PopSeen
      <4> QED BY <2>7, <3>1, <3>2, <3>3, <3>4, <4>1
              DEF PopCheck, PopReturn, Fifo!PopEmpty
    <3>5. CASE popRead[s] # popWrite[s]
      <4>1. PopSeen(s)' = PopSeen(s)
          BY <2>0, <2>7, <3>3, <3>5 DEF TypeOK, PopCheck, PopReturn, PopSeen
      <4> QED BY <2>7, <3>1, <3>2, <3>3, <3>5, <4>1 DEF PopCheck, Fifo!vars
    <3> QED BY <3>4, <3>5
  <2>8. ASSUME NEW s \in Side, PopCopyStart(s) \/ PopCopyEnd(s)
        PROVE  UNCHANGED Fifo!vars
    <3>1. \A t \in Side : Contents(t)' = Contents(t)
        BY <2>8 DEF PopCopyStart, PopCopyEnd, Contents, Used
    <3>2. \A t \in Side : PopSeen(t)' = PopSeen(t)
        BY <2>0, <2>8 DEF TypeOK, PopCopyStart, PopCopyEnd, PopSeen
    <3> QED BY <2>8, <3>1, <3>2 DEF PopCopyStart, PopCopyEnd, Fifo!vars
  <2>9. ASSUME NEW s \in Side, PopStore(s)
        PROVE  Fifo!PopOk(s)
    <3>1. /\ Contents(Peer(s))' = Tail(Contents(Peer(s)))
          /\ popBuf[s] = Head(Contents(Peer(s)))
        BY <1>2, <2>9, ContentsPop
    <3>2. ASSUME NEW t \in Side, t # Peer(s) PROVE Contents(t)' = Contents(t)
        BY <2>0, <2>9, <3>2, ContentsSame, SideSplit, PeerSide
           DEF TypeOK, PopStore
    <3>3. PopSeen(s) = "element" /\ PopSeen(s)' = "nothing"
        BY <2>0, <2>9 DEF TypeOK, CachedIndexes, PopStore, PopReturn, PopSeen
    <3>4. ASSUME NEW t \in Side, t # s PROVE PopSeen(t)' = PopSeen(t)
        BY <2>0, <2>9, <3>4 DEF TypeOK, PopStore, PopReturn, PopSeen
    <3>5. [t \in Side |-> Contents(t)]' =
              [[t \in Side |-> Contents(t)] EXCEPT ![Peer(s)] = Tail(@)]
        BY <3>1, <3>2, PeerSide
    <3>6. [t \in Side |-> PopSeen(t)]' =
              [[t \in Side |-> PopSeen(t)] EXCEPT ![s] = "nothing"]
        BY <3>3, <3>4
    <3> QED BY <2>9, <3>1, <3>3, <3>5, <3>6, PeerSide
            DEF PopStore, PopReturn, Fifo!PopOk, Fifo!Peer, Peer
  <2> QED BY <1>2, <2>1, <2>2, <2>3, <2>4, <2>5, <2>6, <2>7, <2>8, <2>9
          DEF Next, PushStep, PopStep, Fifo!Next, Fifo!Side, Side
<1> QED BY <1>1, <1>2, IndInvInit, IndInvStep, PTL
        DEF Spec, ImplementsFifo, Fifo!Spec

-----------------------------------------------------------------------------
(* Initialisation, release and restart *)

CallTypes ==
    /\ pushPc \in [Side -> {"idle", "loaded", "copying", "copied"}]
    /\ pushWrite \in [Side -> Index]
    /\ pushElem \in [Side -> Elem \cup {Torn}]
    /\ popPc \in [Side -> {"idle", "loaded", "checked", "copying", "copied"}]
    /\ popWrite \in [Side -> Index]
    /\ popRead \in [Side -> Index]

\* A side that is up has said so; it pushes when it is up or fills its pool, and
\* pops when it is up.
CallsInLife ==
    \A s \in Side :
        /\ Up(s) => sentinel[s] = "DONE"
        /\ pushPc[s] # "idle" => Up(s) \/ (initPc[s] = "fill" /\ Fills(s))
        /\ popPc[s] # "idle" \/ checked[s] => Up(s)

LifeTypeInv == InitTypeOK /\ CallTypes /\ CallsInLife

LEMMA LifeTypeInit == ColdInit => LifeTypeInv
<1> SUFFICES ASSUME ColdInit PROVE LifeTypeInv
    OBVIOUS
<1>1. <<>> \in Seq(Elem \cup {Torn}) /\ 0 \in 0..ElemNum /\ 0 \in 0..MaxRestarts
    BY IndexRange, RestartAssumption, SMTT(60) DEF RestartAssumption
<1>2. InitTypeOK
    BY <1>1, IndexRange DEF ColdInit, InitTypeOK, Place
<1>3. CallTypes
    BY IndexRange DEF ColdInit, CallTypes
<1>4. CallsInLife
    BY DEF ColdInit, CallsInLife, Up
<1> QED BY <1>2, <1>3, <1>4 DEF LifeTypeInv

\* What every step finds, in pieces.
LEMMA LifeTypes ==
    ASSUME LifeTypeInv
    PROVE  /\ Rings
           /\ sentinel \in [Side -> {"NONE", "IN_PROGRESS", "DONE"}]
           /\ initPc \in [Side -> Place]
           /\ filled \in [Side -> 0..ElemNum]
           /\ checked \in [Side -> BOOLEAN]
           /\ restarts \in 0..MaxRestarts
           /\ sent \in [Side -> Seq(Elem \cup {Torn})]
           /\ CallTypes
           /\ CallsInLife
BY DEF LifeTypeInv, InitTypeOK, Rings

\* Steps of ipc_queue_init and ipc_queue_free that only change where a side is
\* and what its sentinel says.
LEMMA TypeMoves ==
    ASSUME LifeTypeInv, NEW s \in Side,
           InitCheck(s) \/ InitMark(s) \/ InitProbe(s) \/ InitDone(s) \/ FreeSentinel(s)
    PROVE  LifeTypeInv'
<1>a. /\ UNCHANGED <<write, read, data, push, pop, filled, checked, restarts, sent>>
      /\ \/ initPc[s] # "up" /\ initPc'[s] # "up" /\ initPc[s] # "fill"
         \/ initPc[s] = "fill" /\ pushPc[s] = "idle" /\ sentinel'[s] = "DONE"
      /\ \A t \in Side : t # s => initPc'[t] = initPc[t] /\ sentinel'[t] = sentinel[t]
      /\ sentinel' \in [Side -> {"NONE", "IN_PROGRESS", "DONE"}]
      /\ initPc' \in [Side -> Place]
  <2>1. /\ sentinel \in [Side -> {"NONE", "IN_PROGRESS", "DONE"}]
        /\ initPc \in [Side -> Place]
      BY LifeTypes
  <2>2. CASE InitCheck(s)
      BY <2>1, <2>2 DEF InitCheck, Goto, Place, vars, ring
  <2>3. CASE InitMark(s)
      BY <2>1, <2>3 DEF InitMark, Goto, Place
  <2>4. CASE InitProbe(s)
      BY <2>1, <2>4 DEF InitProbe, Goto, Place, vars, ring
  <2>5. CASE InitDone(s)
      BY <2>1, <2>5 DEF InitDone, Goto, Place
  <2>6. CASE FreeSentinel(s)
      BY <2>1, <2>6 DEF FreeSentinel, Goto, Place
  <2> QED BY <2>2, <2>3, <2>4, <2>5, <2>6
<1>1. InitTypeOK'
    BY <1>a DEF LifeTypeInv, InitTypeOK
<1>2. CallTypes'
    BY <1>a DEF LifeTypeInv, CallTypes, push, pop
<1>3. CallsInLife'
    BY <1>a DEF LifeTypeInv, CallsInLife, Up, Fills, push, pop
<1> QED BY <1>1, <1>2, <1>3 DEF LifeTypeInv

\* Steps that store one index.
LEMMA TypeIndexes ==
    ASSUME LifeTypeInv, NEW s \in Side,
           \/ InitZeroWrite(s) \/ InitZeroRead(s) \/ InitSyncWrite(s) \/ InitSyncRead(s)
           \/ FreeWrite(s) \/ FreeRead(s)
    PROVE  LifeTypeInv'
<1>t. /\ write \in [Side -> Index] /\ read \in [Side -> Index]
      /\ data \in [Side -> [Index -> Elem \cup {Torn}]]
      /\ initPc \in [Side -> Place] /\ filled \in [Side -> 0..ElemNum]
      /\ sent \in [Side -> Seq(Elem \cup {Torn})]
      /\ 0 \in Index /\ 0 \in 0..ElemNum /\ <<>> \in Seq(Elem \cup {Torn})
      /\ Peer(s) \in Side
    BY LifeTypes, IndexRange, PeerSide, SMTT(60) DEF Rings
<1>s. ASSUME NEW w \in Index
      PROVE  /\ SyncedRead(w) \in Index
             /\ Available(s, SyncedRead(w)) \in Seq(Elem \cup {Torn})
  <2>1. ElemNum \in Nat /\ elem_num = ElemNum + 1 /\ w \in 0..ElemNum /\ elem_num \in Nat \ {0}
      BY IndexRange, SMTT(60) DEF elem_num, Index
  <2>2. w % elem_num \in Index /\ (w + 1) % elem_num \in Index
    <3>1. w \in 0..(elem_num - 1)
        BY <2>1, SMTT(60)
    <3> QED BY <2>1, <3>1, ModBelow, IndexRange
  <2>3. SyncedRead(w) \in Index
      BY <2>2 DEF SyncedRead
  <2>4. ASSUME NEW i \in 1..ElemNum PROVE (SyncedRead(w) + i - 1) % elem_num \in Index
      BY <2>1, <2>3, SMTT(60) DEF Index
  <2>5. [i \in 1..ElemNum |-> data[Peer(s)][(SyncedRead(w) + i - 1) % elem_num]]
            \in [1..ElemNum -> Elem \cup {Torn}]
      BY <1>t, <2>4
  <2>6. \A f \in [1..ElemNum -> Elem \cup {Torn}] : f \in Seq(Elem \cup {Torn})
      BY <2>1, SMTT(60)
  <2> QED BY <1>t, <2>3, <2>5, <2>6 DEF Available
<1>a. /\ UNCHANGED <<sentinel, data, push, pop, checked, restarts>>
      /\ initPc[s] # "up" /\ initPc'[s] # "up" /\ initPc[s] # "fill"
      /\ \A t \in Side : t # s => initPc'[t] = initPc[t] /\ filled'[t] = filled[t]
      /\ initPc' \in [Side -> Place] /\ filled' \in [Side -> 0..ElemNum]
      /\ write' \in [Side -> Index] /\ read' \in [Side -> Index]
      /\ sent' \in [Side -> Seq(Elem \cup {Torn})]
  <2>2. CASE InitZeroWrite(s)
      BY <1>t, <2>2 DEF InitZeroWrite, Goto, Place
  <2>3. CASE InitZeroRead(s)
      BY <1>t, <2>3 DEF InitZeroRead, Goto, Place
  <2>4. CASE InitSyncWrite(s)
      BY <1>t, <2>4 DEF InitSyncWrite, Goto, Place
  <2>5. CASE InitSyncRead(s)
      BY <1>t, <1>s, <2>5 DEF InitSyncRead, Goto, Place
  <2>6. CASE FreeWrite(s)
      BY <1>t, <2>6 DEF FreeWrite, Goto, Place
  <2>7. CASE FreeRead(s)
      BY <1>t, <2>7 DEF FreeRead, Goto, Place
  <2> QED BY <2>2, <2>3, <2>4, <2>5, <2>6, <2>7
<1>1. InitTypeOK'
    BY <1>a DEF LifeTypeInv, InitTypeOK
<1>2. CallTypes'
    BY <1>a DEF LifeTypeInv, CallTypes, push, pop
<1>3. CallsInLife'
    BY <1>a DEF LifeTypeInv, CallsInLife, Up, Fills, push, pop
<1> QED BY <1>1, <1>2, <1>3 DEF LifeTypeInv

\* A side is freed or crashes.
LEMMA TypeStops ==
    ASSUME LifeTypeInv, NEW s \in Side, FreeBegin(s) \/ Crash(s)
    PROVE  LifeTypeInv'
<1>t. /\ initPc \in [Side -> Place] /\ checked \in [Side -> BOOLEAN]
      /\ pushPc \in [Side -> {"idle", "loaded", "copying", "copied"}]
      /\ popPc \in [Side -> {"idle", "loaded", "checked", "copying", "copied"}]
    BY LifeTypes DEF CallTypes
<1>r. restarts' \in 0..MaxRestarts
  <2>1. restarts < MaxRestarts /\ restarts' = restarts + 1 /\ restarts \in 0..MaxRestarts
      BY LifeTypes DEF FreeBegin, Crash
  <2> QED BY <2>1, RestartAssumption, SMTT(60) DEF RestartAssumption
<1>a. /\ UNCHANGED <<ring, filled, sent, pushWrite, pushElem, popWrite, popRead>>
      /\ initPc'[s] # "up" /\ pushPc'[s] = "idle" /\ popPc'[s] = "idle" /\ ~checked'[s]
      /\ \A t \in Side : t # s => /\ initPc'[t] = initPc[t] /\ checked'[t] = checked[t]
                                  /\ pushPc'[t] = pushPc[t] /\ popPc'[t] = popPc[t]
      /\ initPc' \in [Side -> Place] /\ checked' \in [Side -> BOOLEAN]
      /\ pushPc' \in [Side -> {"idle", "loaded", "copying", "copied"}]
      /\ popPc' \in [Side -> {"idle", "loaded", "checked", "copying", "copied"}]
  <2>1. CASE FreeBegin(s)
      BY <1>t, <2>1 DEF FreeBegin, Goto, Place, vars, push, pop
  <2>2. CASE Crash(s)
      BY <1>t, <2>2 DEF Crash, Place
  <2> QED BY <2>1, <2>2
<1>1. InitTypeOK'
  <2>1. UNCHANGED <<sentinel, write, read, data, filled, sent>>
      BY <1>a DEF ring
  <2> QED BY <1>a, <1>r, <2>1 DEF LifeTypeInv, InitTypeOK
<1>2. CallTypes'
    BY <1>a DEF LifeTypeInv, CallTypes
<1>3. CallsInLife'
    BY <1>a DEF LifeTypeInv, CallsInLife, Up, Fills, ring
<1> QED BY <1>1, <1>2, <1>3 DEF LifeTypeInv

\* Calls of push and pop, and the pushes that fill a pool.
LEMMA TypePush ==
    ASSUME LifeTypeInv, NEW s \in Side,
           \/ InitFill(s) \/ InitFillRefused(s) \/ PushChecked(s) \/ PushCall(s)
           \/ PushRun(s)
    PROVE  LifeTypeInv'
<1>t. /\ write \in [Side -> Index] /\ read \in [Side -> Index]
      /\ data \in [Side -> [Index -> Elem \cup {Torn}]]
      /\ initPc \in [Side -> Place] /\ filled \in [Side -> 0..ElemNum]
      /\ checked \in [Side -> BOOLEAN]
      /\ sent \in [Side -> Seq(Elem \cup {Torn})]
      /\ pushPc \in [Side -> {"idle", "loaded", "copying", "copied"}]
      /\ pushWrite \in [Side -> Index] /\ pushElem \in [Side -> Elem \cup {Torn}]
    BY LifeTypes DEF Rings, CallTypes
<1>u. /\ pushPc[s] # "idle" => Up(s) \/ (initPc[s] = "fill" /\ Fills(s))
      /\ popPc[s] # "idle" \/ checked[s] => Up(s)
    BY LifeTypes DEF CallsInLife
<1>f. \A n \in 0..ElemNum : n < ElemNum => n + 1 \in 0..ElemNum /\ n \in 0..(ElemNum - 1)
    BY IndexRange, SMTT(60)
<1>b. /\ initPc[s] = "fill" /\ Fills(s) => Bd(filled[s]) \in Elem
      /\ initPc[s] = "fill" /\ Fills(s) => filled[s] + 1 \in 0..ElemNum
    BY <1>t, <1>f, BdAssumption DEF BdAssumption, Fills
<1>i. \A i \in Index : (i + 1) % elem_num \in Index
    BY IndexRange
<1>q. \A q \in Seq(Elem \cup {Torn}), e \in Elem \cup {Torn} :
          Append(q, e) \in Seq(Elem \cup {Torn})
    BY SMTT(60)
<1>a. /\ UNCHANGED <<sentinel, read, restarts, pop>>
      /\ initPc' \in [Side -> Place] /\ filled' \in [Side -> 0..ElemNum]
      /\ checked' \in [Side -> BOOLEAN]
      /\ write' \in [Side -> Index]
      /\ data' \in [Side -> [Index -> Elem \cup {Torn}]]
      /\ sent' \in [Side -> Seq(Elem \cup {Torn})]
      /\ pushPc' \in [Side -> {"idle", "loaded", "copying", "copied"}]
      /\ pushWrite' \in [Side -> Index] /\ pushElem' \in [Side -> Elem \cup {Torn}]
      /\ \A t \in Side : t # s => /\ initPc'[t] = initPc[t] /\ checked'[t] = checked[t]
                                  /\ pushPc'[t] = pushPc[t] /\ filled'[t] = filled[t]
      /\ Up(s)' <=> Up(s)
      /\ pushPc'[s] # "idle" => Up(s)' \/ (initPc'[s] = "fill" /\ Fills(s)')
      /\ checked'[s] => Up(s)'
  <2>1. CASE InitFill(s)
      BY <1>t, <1>u, <1>b, <2>1 DEF InitFill, PushLoad, life, ring, Up, Fills
  <2>2. CASE InitFillRefused(s)
      BY <1>t, <1>u, <2>2 DEF InitFillRefused, PushRefused, Goto, Place, ring, Up, Fills
  <2>3. CASE PushChecked(s)
      BY <1>t, <1>u, <2>3 DEF PushChecked, vars, ring, push, Up, Fills
  <2>4. CASE PushCall(s)
    <3>1. CASE PushRefused(s)
        BY <1>t, <1>u, <2>4, <3>1 DEF PushCall, PushRefused, ring, Up, Fills
    <3>2. CASE \E e \in Elem : PushLoad(s, e)
      <4>1. PICK e \in Elem : PushLoad(s, e)
          BY <3>2
      <4> QED BY <1>t, <1>u, <2>4, <4>1 DEF PushCall, PushLoad, ring, Up, Fills
    <3> QED BY <2>4, <3>1, <3>2 DEF PushCall
  <2>5. CASE PushRun(s)
    <3>1. CASE PushCopyStart(s)
        BY <1>t, <1>u, <2>5, <3>1 DEF PushRun, PushCopyStart, PushStore, PushCopyEnd, Up, Fills
    <3>2. CASE PushCopyEnd(s)
        BY <1>t, <1>u, <2>5, <3>2 DEF PushRun, PushCopyStart, PushStore, PushCopyEnd, Up, Fills
    <3>3. CASE PushStore(s)
      <4> DEFINE n == IF initPc[s] = "fill" THEN filled[s] + 1 ELSE filled[s]
                 q == Append(sent[s], pushElem[s])
                 w == (pushWrite[s] + 1) % elem_num
      <4>1. /\ write' = [write EXCEPT ![s] = w] /\ filled' = [filled EXCEPT ![s] = n]
            /\ sent' = [sent EXCEPT ![s] = q] /\ pushPc' = [pushPc EXCEPT ![s] = "idle"]
            /\ UNCHANGED <<sentinel, read, data, pushWrite, pushElem, pop,
                           initPc, checked, restarts>>
          BY <2>5, <3>3 DEF PushRun, PushCopyStart, PushCopyEnd, PushStore
      <4>2. n \in 0..ElemNum
          BY <1>t, <1>u, <1>b, <3>3 DEF PushStore, Up
      <4>3. q \in Seq(Elem \cup {Torn}) /\ w \in Index
          BY <1>t, <1>i, <1>q
      <4> HIDE DEF n, q, w
      <4> QED BY <1>t, <1>u, <4>1, <4>2, <4>3 DEF Up
    <3> QED BY <2>5, <3>1, <3>2, <3>3 DEF PushRun
  <2> QED BY <2>1, <2>2, <2>3, <2>4, <2>5
<1>1. InitTypeOK'
    BY <1>a DEF LifeTypeInv, InitTypeOK
<1>2. CallTypes'
    BY <1>a DEF LifeTypeInv, CallTypes, pop
<1>3. CallsInLife'
    BY <1>a DEF LifeTypeInv, CallsInLife, Up, Fills, pop
<1> QED BY <1>1, <1>2, <1>3 DEF LifeTypeInv

LEMMA TypePop ==
    ASSUME LifeTypeInv, NEW s \in Side, PopCall(s) \/ PopRun(s)
    PROVE  LifeTypeInv'
<1>t. /\ write \in [Side -> Index] /\ read \in [Side -> Index]
      /\ sent \in [Side -> Seq(Elem \cup {Torn})]
      /\ popPc \in [Side -> {"idle", "loaded", "checked", "copying", "copied"}]
      /\ popWrite \in [Side -> Index] /\ popRead \in [Side -> Index]
      /\ Peer(s) \in Side
    BY LifeTypes, PeerSide DEF Rings, CallTypes
<1>u. popPc[s] # "idle" => Up(s)
    BY LifeTypes DEF CallsInLife
<1>i. \A i \in Index : (i + 1) % elem_num \in Index
    BY IndexRange
<1>q. \A q \in Seq(Elem \cup {Torn}) : q # <<>> => Tail(q) \in Seq(Elem \cup {Torn})
    BY SMTT(60)
<1>a. /\ UNCHANGED <<sentinel, write, data, push, life, restarts>>
      /\ read' \in [Side -> Index]
      /\ sent' \in [Side -> Seq(Elem \cup {Torn})]
      /\ popPc' \in [Side -> {"idle", "loaded", "checked", "copying", "copied"}]
      /\ popWrite' \in [Side -> Index] /\ popRead' \in [Side -> Index]
      /\ \A t \in Side : t # s => popPc'[t] = popPc[t]
      /\ Up(s)
  <2>1. CASE PopCall(s)
      BY <1>t, <2>1 DEF PopCall, PopLoad, ring, Up
  <2>2. CASE PopRun(s)
    <3>1. CASE PopCheck(s)
        BY <1>t, <1>u, <2>2, <3>1 DEF PopRun, PopCheck, PopReturn, PopStore, ring
    <3>2. CASE PopCopyStart(s)
        BY <1>t, <1>u, <2>2, <3>2 DEF PopRun, PopCopyStart, PopStore, ring
    <3>3. CASE PopCopyEnd(s)
        BY <1>t, <1>u, <2>2, <3>3 DEF PopRun, PopCopyEnd, PopStore, ring
    <3>4. CASE PopStore(s)
      <4> DEFINE q == IF sent[Peer(s)] = <<>> THEN sent[Peer(s)] ELSE Tail(sent[Peer(s)])
                 r == (popRead[s] + 1) % elem_num
      <4>1. /\ read' = [read EXCEPT ![s] = r] /\ sent' = [sent EXCEPT ![Peer(s)] = q]
            /\ popPc' = [popPc EXCEPT ![s] = "idle"] /\ popPc[s] # "idle"
            /\ UNCHANGED <<sentinel, write, data, push, popWrite, popRead, life, restarts>>
          BY <2>2, <3>4 DEF PopRun, PopStore, PopReturn, PopCheck, PopCopyStart, PopCopyEnd
      <4>2. q \in Seq(Elem \cup {Torn}) /\ r \in Index
          BY <1>t, <1>i, <1>q
      <4> HIDE DEF q, r
      <4> QED BY <1>t, <1>u, <4>1, <4>2
    <3> QED BY <2>2, <3>1, <3>2, <3>3, <3>4 DEF PopRun
  <2> QED BY <2>1, <2>2
<1>1. InitTypeOK'
    BY <1>a DEF LifeTypeInv, InitTypeOK, life
<1>2. CallTypes'
    BY <1>a DEF LifeTypeInv, CallTypes, push
<1>3. CallsInLife'
    BY <1>a DEF LifeTypeInv, CallsInLife, Up, Fills, push, life
<1> QED BY <1>1, <1>2, <1>3 DEF LifeTypeInv

LEMMA LifeTypeStep == LifeTypeInv /\ [LifeNext]_allVars => LifeTypeInv'
<1> SUFFICES ASSUME LifeTypeInv, [LifeNext]_allVars PROVE LifeTypeInv'
    OBVIOUS
<1>1. CASE UNCHANGED allVars
    BY <1>1 DEF LifeTypeInv, InitTypeOK, CallTypes, CallsInLife, Up, Fills,
                allVars, vars, ring, push, pop, life
<1>2. CASE LifeNext
    BY <1>2, TypeMoves, TypeIndexes, TypeStops, TypePush, TypePop DEF LifeNext, InitStep
<1> QED BY <1>1, <1>2

\* No handshake, fill, release, restart or call brings an index out of its range,
\* the loop that fills a pool beyond its buffers, or a side anywhere unknown,
\* whatever the peer is doing meanwhile (InitTypeOK).
THEOREM LifeTypeCorrect == LifeSpec => []InitTypeOK
<1>1. LifeTypeInv => InitTypeOK
    BY DEF LifeTypeInv
<1> QED BY LifeTypeInit, LifeTypeStep, <1>1, PTL DEF LifeSpec

-----------------------------------------------------------------------------
(* Agreement of the two sides *)

Two(s, p) == s \in Side /\ p \in Side /\ p # s /\ Peer(s) = p /\ Peer(p) = s

Quiet(s) == pushPc[s] = "idle" /\ popPc[s] = "idle" /\ ~checked[s]

\* After a restart only one side initialises at a time.  One that found its peer
\* up takes over the peer's indexes, and the peer makes no call meanwhile.
AloneAt(s, p) ==
    restarts # 0 =>
        /\ ~(Initialising(s) /\ Initialising(p))
        /\ Up(p) => initPc[s] \notin {"zeroWrite", "zeroRead"}
        /\ Up(p) /\ initPc[s] \notin {"down", "mark", "up"} => Quiet(p)

\* Until the first restart or until both are up, whichever comes first, the two
\* sides may initialise at the same time.
Cold(s, p) == restarts = 0 /\ ~(Up(s) /\ Up(p))

\* Then both read indexes are zero, and a write index counts the elements that
\* filled a pool.
ColdAt(s, p) ==
    Cold(s, p) =>
        /\ read[s] = 0
        /\ write[s] = IF Up(s) THEN InitialWrite
                      ELSE IF initPc[s] = "fill" /\ QueueType = "IPC_SHM_POOL_QUEUE"
                           THEN filled[s] ELSE 0
        /\ initPc[s] \notin {"freeWrite", "freeRead"}
        /\ initPc[s] \in {"down", "mark", "free"} => sentinel[s] = "NONE"
        /\ sentinel[s] = "DONE" => Up(s)
        /\ ~checked[s]
        /\ pushPc[s] # "idle" => initPc[s] = "fill"
        /\ popPc[s] # "idle" => popPc[s] = "loaded" /\ popRead[s] = 0 /\ popWrite[s] = 0
        /\ initPc[s] \in {"syncWrite", "syncRead"} => Up(p)

\* What s pushes is what p has to receive: one of them is up, and the other has
\* got far enough for its indexes to count.
Linked(s, p) ==
    \/ Cold(s, p)
    \/ Up(s) /\ initPc[p] \in {"fill", "up"}
    \/ Up(p) /\ initPc[s] \in {"syncRead", "fill", "up"}

PushGood(s, p) ==
    pushPc[s] # "idle" =>
        /\ pushWrite[s] = write[s]
        /\ (write[s] + 1) % elem_num # read[p]
        /\ pushPc[s] = "copied" => data[s][write[s]] = pushElem[s]

PopGood(s, p) ==
    popPc[s] # "idle" =>
        /\ popRead[s] = read[s]
        /\ popWrite[s] # popRead[s] => read[s] # write[p]
        /\ popPc[s] # "loaded" => popWrite[s] # popRead[s]

LinkAt(s, p) ==
    /\ Linked(s, p) => Contents(s) = sent[s] /\ PushGood(s, p)
    /\ Up(s) /\ Up(p) => PopGood(s, p)

Pair(s, p) == AloneAt(s, p) /\ ColdAt(s, p) /\ LinkAt(s, p)

Life(s, p) == Two(s, p) /\ LifeTypeInv /\ Pair(s, p) /\ Pair(p, s)

LifeInv == LifeTypeInv /\ \A s \in Side : Pair(s, Peer(s))

LEMMA TwoSides == \A s \in Side : Two(s, Peer(s)) /\ \A t \in Side : t = s \/ t = Peer(s)
BY PeerSide, SideSplit DEF Two

LEMMA LifeInvPairs ==
    ASSUME NEW s \in Side
    PROVE  /\ LifeInv => Life(s, Peer(s))
           /\ LifeTypeInv' /\ Pair(s, Peer(s))' /\ Pair(Peer(s), s)' => LifeInv'
<1>1. PICK p : p = Peer(s) /\ Two(s, p) /\ \A t \in Side : t = s \/ t = p
    BY TwoSides
<1>2. LifeInv => Life(s, p)
    BY <1>1 DEF LifeInv, Life, Two
<1>3. LifeTypeInv' /\ Pair(s, p)' /\ Pair(p, s)' => LifeInv'
  <2>1. Peer(s) = p /\ Peer(p) = s
      BY <1>1 DEF Two
  <2>2. ASSUME LifeTypeInv', Pair(s, p)', Pair(p, s)', NEW t \in Side
        PROVE  Pair(t, Peer(t))'
    <3>1. CASE t = s
      <4>1. Pair(t, Peer(t))' <=> Pair(s, p)'
          BY <2>1, <3>1
      <4> QED BY <2>2, <4>1
    <3>2. CASE t = p
      <4>1. Pair(t, Peer(t))' <=> Pair(p, s)'
          BY <2>1, <3>2
      <4> QED BY <2>2, <4>1
    <3> QED BY <1>1, <3>1, <3>2
  <2> QED BY <2>2 DEF LifeInv
<1> QED BY <1>1, <1>2, <1>3

LEMMA LifeInvInit == ColdInit => LifeInv
<1> SUFFICES ASSUME ColdInit PROVE LifeInv
    OBVIOUS
<1>1. ASSUME NEW s \in Side PROVE Pair(s, Peer(s))
  <2>1. PICK p \in Side : p = Peer(s)
      BY PeerSide
  <2>2. AloneAt(s, p)
      BY DEF ColdInit, AloneAt
  <2>3. ColdAt(s, p)
      BY DEF ColdInit, ColdAt, Up
  <2>4. Contents(s) = sent[s]
    <3>1. write[s] = 0 /\ read[Peer(s)] = 0 /\ sent[s] = <<>>
        BY <2>1 DEF ColdInit
    <3>2. Used(s) = 0
        BY <3>1, UsedFacts, LifeTypeInit, LifeTypes, IndexRange, SMTT(60)
    <3>3. Contents(s) = <<>>
        BY <3>2, SMTT(60) DEF Contents
    <3> QED BY <3>1, <3>3
  <2>5. LinkAt(s, p)
      BY <2>4 DEF ColdInit, LinkAt, PushGood, PopGood
  <2> QED BY <2>1, <2>2, <2>3, <2>5 DEF Pair
<1> QED BY <1>1, LifeTypeInit DEF LifeInv

-----------------------------------------------------------------------------
\* Where nothing moves in a direction, it stays linked or ceases to be.
LEMMA LinkFrame ==
    ASSUME NEW t, NEW u, Two(t, u), Rings, LinkAt(t, u),
           write'[t] = write[t], read'[u] = read[u], data'[t] = data[t],
           sent'[t] = sent[t], pushPc'[t] = pushPc[t],
           pushWrite'[t] = pushWrite[t], pushElem'[t] = pushElem[t],
           Linked(t, u)' => Linked(t, u),
           Up(t)' /\ Up(u)' => PopGood(t, u)'
    PROVE  LinkAt(t, u)'
<1>1. t \in Side /\ Peer(t) = u
    BY DEF Two
<1>2. Contents(t)' = Contents(t)
    BY <1>1, ContentsSame
<1>3. PushGood(t, u)' <=> PushGood(t, u)
    BY DEF PushGood
<1> QED BY <1>2, <1>3 DEF LinkAt

\* A side that does nothing keeps what it has from a cold start.
LEMMA ColdFrame ==
    ASSUME NEW t, NEW u, ColdAt(t, u),
           read'[t] = read[t], write'[t] = write[t], initPc'[t] = initPc[t],
           sentinel'[t] = sentinel[t], checked'[t] = checked[t], filled'[t] = filled[t],
           pushPc'[t] = pushPc[t], popPc'[t] = popPc[t], popRead'[t] = popRead[t],
           popWrite'[t] = popWrite[t],
           Cold(t, u)' => Cold(t, u), Up(u) => Up(u)'
    PROVE  ColdAt(t, u)'
<1>1. Up(t)' <=> Up(t)
    BY DEF Up
<1> QED BY <1>1 DEF ColdAt

\* The facts of Life(s, p) that steps of s start from.
LEMMA LifeFacts ==
    ASSUME NEW s, NEW p, Life(s, p)
    PROVE  /\ s \in Side /\ p \in Side /\ p # s /\ Peer(s) = p /\ Peer(p) = s
           /\ Two(s, p) /\ Two(p, s) /\ Rings
           /\ AloneAt(s, p) /\ AloneAt(p, s) /\ ColdAt(s, p) /\ ColdAt(p, s)
           /\ LinkAt(s, p) /\ LinkAt(p, s)
           /\ restarts \in Nat /\ (restarts > 0 <=> restarts # 0)
           /\ initPc \in [Side -> Place]
           /\ sentinel \in [Side -> {"NONE", "IN_PROGRESS", "DONE"}]
           /\ checked \in [Side -> BOOLEAN] /\ filled \in [Side -> 0..ElemNum]
           /\ CallTypes /\ CallsInLife
<1>1. restarts \in Nat /\ (restarts > 0 <=> restarts # 0)
  <2>1. restarts \in 0..MaxRestarts
      BY LifeTypes DEF Life
  <2> QED BY <2>1, RestartAssumption, SMTT(60) DEF RestartAssumption
<1> QED BY <1>1, LifeTypes DEF Life, Two, Pair

LEMMA LifeSides ==
    ASSUME NEW s, NEW p, Life(s, p)
    PROVE  /\ s \in Side /\ p \in Side /\ p # s /\ Peer(s) = p /\ Peer(p) = s
           /\ (restarts > 0 <=> restarts # 0)
           /\ initPc \in [Side -> Place]
           /\ sentinel \in [Side -> {"NONE", "IN_PROGRESS", "DONE"}]
BY LifeFacts

\* A step of s that moves it in ipc_queue_init or ipc_queue_free and touches at
\* most its sentinel leaves both directions alone.
LEMMA LinkMoves ==
    ASSUME NEW s, NEW p, Life(s, p),
           UNCHANGED <<write, read, data, push, pop, sent>>,
           Linked(s, p)' => Linked(s, p), Linked(p, s)' => Linked(p, s),
           Up(s)' /\ Up(p)' => PopGood(s, p) /\ PopGood(p, s)
    PROVE  LinkAt(s, p)' /\ LinkAt(p, s)'
<1>1. /\ Two(s, p) /\ Two(p, s) /\ Rings /\ LinkAt(s, p) /\ LinkAt(p, s)
    BY LifeFacts
<1>2. /\ UNCHANGED <<write, read, data, sent>>
      /\ UNCHANGED <<pushPc, pushWrite, pushElem, popPc, popWrite, popRead>>
    BY DEF push, pop
<1>3. (PopGood(s, p)' <=> PopGood(s, p)) /\ (PopGood(p, s)' <=> PopGood(p, s))
    BY <1>2 DEF PopGood
<1> QED BY <1>1, <1>2, <1>3, LinkFrame

LEMMA StepInitCheck ==
    ASSUME NEW s, NEW p, Life(s, p), Overlap = {}, InitCheck(s)
    PROVE  Pair(s, p)' /\ Pair(p, s)'
<1>a. /\ initPc[s] = "down" /\ initPc'[p] = initPc[p]
      /\ \/ initPc'[s] = "mark"
         \/ initPc'[s] = "free" /\ sentinel[p] = "IN_PROGRESS"
      /\ restarts # 0 => ~Initialising(p)
      /\ UNCHANGED <<sentinel, write, read, data, push, pop, filled, checked, restarts, sent>>
    BY LifeSides DEF InitCheck, Goto, vars, ring
<1>b. UNCHANGED <<pushPc, popPc, popRead, popWrite>>
    BY <1>a DEF push, pop
<1>c. /\ ~Up(s) /\ ~Up(s)' /\ (Up(p)' <=> Up(p)) /\ (Up(p) => sentinel[p] = "DONE")
      /\ (Initialising(p)' <=> Initialising(p))
    BY <1>a, LifeFacts DEF Up, CallsInLife, Initialising
<1>1. AloneAt(s, p)' /\ AloneAt(p, s)'
    BY <1>a, <1>b, <1>c, LifeFacts DEF AloneAt, Quiet
<1>2. ColdAt(s, p)'
    BY <1>a, <1>b, <1>c, LifeFacts DEF ColdAt, Cold
<1>3. ColdAt(p, s)'
  <2>1. Cold(p, s)' => Cold(p, s)
      BY <1>a, <1>b, <1>c DEF Cold
  <2> QED BY <1>a, <1>b, <1>c, <2>1, LifeFacts, ColdFrame
<1>4. (Linked(s, p)' => Linked(s, p)) /\ (Linked(p, s)' => Linked(p, s))
    BY <1>a, <1>c DEF Linked, Cold
<1>5. LinkAt(s, p)' /\ LinkAt(p, s)'
    BY <1>a, <1>c, <1>4, LinkMoves
<1> QED BY <1>1, <1>2, <1>3, <1>5 DEF Pair

LEMMA StepInitMark ==
    ASSUME NEW s, NEW p, Life(s, p), Overlap = {}, InitMark(s)
    PROVE  Pair(s, p)' /\ Pair(p, s)'
<1>a. /\ initPc[s] = "mark" /\ initPc'[s] = "probe" /\ initPc'[p] = initPc[p]
      /\ sentinel'[s] = "IN_PROGRESS" /\ sentinel'[p] = sentinel[p]
      /\ restarts # 0 /\ Up(p) => Quiet(p)
      /\ UNCHANGED <<write, read, data, push, pop, filled, checked, restarts, sent>>
  <2>1. restarts # 0 /\ Up(p) => Quiet(p)
      BY LifeSides DEF InitMark, PeerQuiet, Quiet, Up
  <2> QED BY <2>1, LifeSides DEF InitMark, Goto
<1>b. UNCHANGED <<pushPc, popPc, popRead, popWrite>>
    BY <1>a DEF push, pop
<1>c. /\ ~Up(s) /\ ~Up(s)' /\ (Up(p)' <=> Up(p)) /\ (Quiet(p)' <=> Quiet(p))
      /\ (Initialising(p)' <=> Initialising(p)) /\ Initialising(s)
    BY <1>a, <1>b, LifeFacts DEF Up, Initialising, Quiet
<1>1. AloneAt(s, p)' /\ AloneAt(p, s)'
    BY <1>a, <1>c, LifeFacts DEF AloneAt
<1>2. ColdAt(s, p)'
    BY <1>a, <1>b, <1>c, LifeFacts DEF ColdAt, Cold
<1>3. ColdAt(p, s)'
  <2>1. Cold(p, s)' => Cold(p, s)
      BY <1>a, <1>b, <1>c DEF Cold
  <2> QED BY <1>a, <1>b, <1>c, <2>1, LifeFacts, ColdFrame
<1>4. (Linked(s, p)' => Linked(s, p)) /\ (Linked(p, s)' => Linked(p, s))
    BY <1>a, <1>c DEF Linked, Cold
<1>5. LinkAt(s, p)' /\ LinkAt(p, s)'
    BY <1>a, <1>c, <1>4, LinkMoves
<1> QED BY <1>1, <1>2, <1>3, <1>5 DEF Pair

LEMMA StepInitProbe ==
    ASSUME NEW s, NEW p, Life(s, p), InitProbe(s)
    PROVE  Pair(s, p)' /\ Pair(p, s)'
<1>a. /\ initPc[s] = "probe" /\ initPc'[p] = initPc[p]
      /\ \/ initPc'[s] = "syncWrite" /\ sentinel[p] = "DONE"
         \/ initPc'[s] = "zeroWrite" /\ sentinel[p] # "DONE"
      /\ UNCHANGED <<sentinel, write, read, data, push, pop, filled, checked, restarts, sent>>
    BY LifeSides DEF InitProbe, Goto, vars, ring
<1>b. UNCHANGED <<pushPc, popPc, popRead, popWrite>>
    BY <1>a DEF push, pop
<1>c. /\ ~Up(s) /\ ~Up(s)' /\ (Up(p)' <=> Up(p)) /\ (Quiet(p)' <=> Quiet(p))
      /\ (Initialising(p)' <=> Initialising(p)) /\ Initialising(s)
      /\ Up(p) => sentinel[p] = "DONE"
    BY <1>a, <1>b, LifeFacts DEF Up, Initialising, Quiet, CallsInLife
<1>1. AloneAt(s, p)' /\ AloneAt(p, s)'
    BY <1>a, <1>c, LifeFacts DEF AloneAt
<1>2. ColdAt(s, p)'
    BY <1>a, <1>b, <1>c, LifeFacts DEF ColdAt, Cold
<1>3. ColdAt(p, s)'
  <2>1. Cold(p, s)' => Cold(p, s)
      BY <1>a, <1>b, <1>c DEF Cold
  <2> QED BY <1>a, <1>b, <1>c, <2>1, LifeFacts, ColdFrame
<1>4. (Linked(s, p)' => Linked(s, p)) /\ (Linked(p, s)' => Linked(p, s))
    BY <1>a, <1>c DEF Linked, Cold
<1>5. LinkAt(s, p)' /\ LinkAt(p, s)'
    BY <1>a, <1>c, <1>4, LinkMoves
<1> QED BY <1>1, <1>2, <1>3, <1>5 DEF Pair

\* The last side to come up finds its peer up and quiet, or both started cold.
LEMMA StepInitDone ==
    ASSUME NEW s, NEW p, Life(s, p), InitDone(s)
    PROVE  Pair(s, p)' /\ Pair(p, s)'
<1>a. /\ initPc[s] = "fill" /\ initPc'[s] = "up" /\ initPc'[p] = initPc[p]
      /\ sentinel'[s] = "DONE" /\ sentinel'[p] = sentinel[p]
      /\ ~Fills(s) /\ pushPc[s] = "idle"
      /\ UNCHANGED <<write, read, data, push, pop, filled, checked, restarts, sent>>
    BY LifeSides DEF InitDone, Goto
<1>b. UNCHANGED <<pushPc, popPc, popRead, popWrite>>
    BY <1>a DEF push, pop
<1>c. /\ ~Up(s) /\ Up(s)' /\ (Up(p)' <=> Up(p)) /\ (Quiet(p)' <=> Quiet(p))
      /\ (Initialising(p)' <=> Initialising(p)) /\ Initialising(s) /\ ~Initialising(s)'
      /\ popPc[s] = "idle" /\ ~checked[s] /\ Quiet(s)'
    BY <1>a, <1>b, LifeFacts DEF Up, Initialising, Quiet, CallsInLife
<1>d. Cold(s, p)' => Cold(s, p)
    BY <1>a, <1>c DEF Cold
<1>f. initPc[p] \in {"zeroWrite", "zeroRead", "syncRead", "fill"} => Initialising(p)
    BY DEF Initialising
<1>e. initPc[p] \in {"syncRead", "fill"} => Cold(s, p)
    BY <1>c, <1>f, LifeFacts DEF AloneAt, Cold
<1>1. AloneAt(s, p)' /\ AloneAt(p, s)'
  <2>1. restarts # 0 => ~Initialising(p)
      BY <1>c, LifeFacts DEF AloneAt
  <2> QED BY <1>a, <1>c, <1>f, <2>1 DEF AloneAt
<1>2. ColdAt(s, p)'
  <2>1. ASSUME Cold(s, p) PROVE write[s] = InitialWrite
    <3>1. write[s] = IF QueueType = "IPC_SHM_POOL_QUEUE" THEN filled[s] ELSE 0
        BY <1>a, <1>c, <2>1, LifeFacts DEF ColdAt
    <3>2. QueueType = "IPC_SHM_POOL_QUEUE" => filled[s] = ElemNum
      <4>1. filled[s] \in 0..ElemNum /\ ElemNum \in Nat
          BY LifeFacts, IndexRange
      <4> QED BY <1>a, <4>1, SMTT(60) DEF Fills
    <3> QED BY <3>1, <3>2 DEF InitialWrite
  <2> QED BY <1>a, <1>b, <1>c, <1>d, <2>1, LifeFacts DEF ColdAt
<1>3. ColdAt(p, s)'
  <2>1. Cold(p, s)' => Cold(p, s)
      BY <1>a, <1>b, <1>c DEF Cold
  <2> QED BY <1>a, <1>b, <1>c, <2>1, LifeFacts, ColdFrame
<1>4. (Linked(s, p)' => Linked(s, p)) /\ (Linked(p, s)' => Linked(p, s))
  <2>1. Cold(s, p) => Cold(p, s)
      BY DEF Cold
  <2>2. Cold(p, s)' => Cold(p, s)
      BY <1>a, <1>c DEF Cold
  <2> QED BY <1>a, <1>c, <1>d, <1>e, <2>1, <2>2 DEF Linked, Up
<1>5. Up(p) => PopGood(s, p) /\ PopGood(p, s)
  <2>1. PopGood(s, p)
      BY <1>c DEF PopGood
  <2>2. CASE restarts # 0
      BY <1>a, <1>c, <2>1, <2>2, LifeFacts DEF AloneAt, Quiet, PopGood
  <2>3. CASE restarts = 0
      BY <1>c, <2>1, <2>3, LifeFacts DEF ColdAt, Cold, PopGood
  <2> QED BY <2>2, <2>3
<1>6. LinkAt(s, p)' /\ LinkAt(p, s)'
    BY <1>a, <1>c, <1>4, <1>5, LinkMoves
<1> QED BY <1>1, <1>2, <1>3, <1>6 DEF Pair

LEMMA StepFreeSentinel ==
    ASSUME NEW s, NEW p, Life(s, p), FreeSentinel(s)
    PROVE  Pair(s, p)' /\ Pair(p, s)'
<1>a. /\ initPc[s] = "free" /\ initPc'[p] = initPc[p]
      /\ \/ initPc'[s] = "freeWrite" /\ sentinel[s] # "NONE"
         \/ initPc'[s] = "down"
      /\ sentinel'[s] = "NONE" /\ sentinel'[p] = sentinel[p]
      /\ UNCHANGED <<write, read, data, push, pop, filled, checked, restarts, sent>>
    BY LifeSides DEF FreeSentinel, Goto
<1>b. UNCHANGED <<pushPc, popPc, popRead, popWrite>>
    BY <1>a DEF push, pop
<1>c. /\ ~Up(s) /\ ~Up(s)' /\ (Up(p)' <=> Up(p)) /\ (Quiet(p)' <=> Quiet(p))
      /\ ~Initialising(s)'
    BY <1>a, <1>b, LifeFacts DEF Up, Initialising, Quiet
<1>1. AloneAt(s, p)' /\ AloneAt(p, s)'
    BY <1>a, <1>c, LifeFacts DEF AloneAt
<1>2. ColdAt(s, p)'
    BY <1>a, <1>b, <1>c, LifeFacts DEF ColdAt, Cold
<1>3. ColdAt(p, s)'
  <2>1. Cold(p, s)' => Cold(p, s)
      BY <1>a, <1>b, <1>c DEF Cold
  <2> QED BY <1>a, <1>b, <1>c, <2>1, LifeFacts, ColdFrame
<1>4. (Linked(s, p)' => Linked(s, p)) /\ (Linked(p, s)' => Linked(p, s))
    BY <1>a, <1>c DEF Linked, Cold
<1>5. LinkAt(s, p)' /\ LinkAt(p, s)'
    BY <1>a, <1>c, <1>4, LinkMoves
<1> QED BY <1>1, <1>2, <1>3, <1>5 DEF Pair

\* Nothing is linked to a side that is freed or has crashed.
LEMMA StepStops ==
    ASSUME NEW s, NEW p, Life(s, p), Overlap = {}, FreeBegin(s) \/ Crash(s)
    PROVE  Pair(s, p)' /\ Pair(p, s)'
<1>a. /\ restarts' = restarts + 1 /\ initPc'[p] = initPc[p]
      /\ initPc'[s] = "down" \/ (initPc'[s] = "free" /\ (Up(p) => Quiet(p)))
      /\ checked'[p] = checked[p] /\ pushPc'[p] = pushPc[p] /\ popPc'[p] = popPc[p]
  <2>1. CASE FreeBegin(s)
    <3>1. /\ restarts' = restarts + 1 /\ initPc'[p] = initPc[p] /\ initPc'[s] = "free"
          /\ checked'[p] = checked[p] /\ UNCHANGED <<pushPc, popPc>>
        BY <2>1, LifeFacts DEF FreeBegin, Goto, vars, push, pop
    <3>2. Up(p) => Quiet(p)
        BY <2>1, LifeSides DEF FreeBegin, PeerQuiet, Quiet, Up
    <3> QED BY <3>1, <3>2
  <2>2. CASE Crash(s)
      BY <2>2, LifeFacts DEF Crash, CallTypes
  <2> QED BY <2>1, <2>2
<1>b. restarts' # 0
    BY <1>a, LifeFacts, SMTT(60)
<1>c. /\ ~Up(s)' /\ (Up(p)' <=> Up(p)) /\ (Quiet(p)' <=> Quiet(p)) /\ ~Initialising(s)'
    BY <1>a DEF Up, Quiet, Initialising
<1>1. AloneAt(s, p)' /\ AloneAt(p, s)'
    BY <1>a, <1>c DEF AloneAt
<1>2. ColdAt(s, p)' /\ ColdAt(p, s)'
    BY <1>b DEF ColdAt, Cold
<1>3. LinkAt(s, p)' /\ LinkAt(p, s)'
    BY <1>a, <1>b, <1>c DEF LinkAt, Linked, Cold
<1> QED BY <1>1, <1>2, <1>3 DEF Pair

-----------------------------------------------------------------------------
(* The steps of ipc_queue_sync_index *)

LEMMA ContentsEmpty ==
    ASSUME NEW s \in Side, NEW i \in Index, write'[s] = i, read'[Peer(s)] = i
    PROVE  Contents(s)' = <<>>
<1>1. i \in 0..(elem_num - 1) /\ elem_num \in Nat \ {0}
    BY IndexRange, SMTT(60) DEF Index, elem_num
<1>2. (i + elem_num - i) % elem_num = 0
    BY <1>1, ModDistance, SMTT(60)
<1>3. Used(s)' = 0
    BY <1>2 DEF Used
<1> QED BY <1>3, SMTT(60) DEF Contents

\* A side that takes over its peer's write index has to receive what Available
\* says: nothing, or as many descriptors as the pool has.
LEMMA ContentsSynced ==
    ASSUME NEW s \in Side, NEW p \in Side, Peer(p) = s, Peer(s) = p, Rings,
           read'[s] = SyncedRead(write[p]), write'[p] = write[p], data'[p] = data[p]
    PROVE  Contents(p)' = Available(s, SyncedRead(write[p]))
<1> DEFINE w == write[p] r == SyncedRead(w)
<1>1. /\ elem_num \in Nat \ {0} /\ elem_num = ElemNum + 1 /\ ElemNum \in Nat \ {0}
      /\ w \in Index /\ w \in 0..ElemNum /\ w \in 0..(elem_num - 1)
  <2>1. w \in Index
      BY DEF Rings
  <2> HIDE DEF w
  <2> QED BY <2>1, IndexRange, SMTT(60) DEF Index, elem_num
<1>2. Used(p)' = (w + elem_num - r) % elem_num
    BY DEF Used
<1>3. CASE QueueType = "IPC_SHM_CHANNEL_QUEUE"
  <2>1. r = w
      BY <1>1, <1>3, ModBelow DEF SyncedRead
  <2>2. Used(p)' = 0
      BY <1>1, <1>2, <2>1, ModDistance, SMTT(60)
  <2>3. Contents(p)' = <<>>
      BY <2>2, SMTT(60) DEF Contents
  <2> QED BY <1>3, <2>3 DEF Available
<1>4. CASE QueueType # "IPC_SHM_CHANNEL_QUEUE"
  <2>1. r = IF w = ElemNum THEN 0 ELSE w + 1
      BY <1>1, <1>4, NextIndex DEF SyncedRead
  <2>2. r \in 0..(elem_num - 1)
      BY <1>1, <2>1, SMTT(60)
  <2>3. Used(p)' = IF r <= w THEN w - r ELSE w + elem_num - r
      BY <1>1, <1>2, <2>2, ModDistance
  <2>4. Used(p)' = ElemNum
      BY <1>1, <2>1, <2>3, SMTT(60)
  <2>5. Contents(p)' = [i \in 1..ElemNum |-> data[p][(r + i - 1) % elem_num]]
      BY <2>4 DEF Contents
  <2> QED BY <1>4, <2>5 DEF Available
<1> QED BY <1>3, <1>4

LEMMA StepInitZeroWrite ==
    ASSUME NEW s, NEW p, Life(s, p), InitZeroWrite(s)
    PROVE  Pair(s, p)' /\ Pair(p, s)'
<1>a. /\ initPc[s] = "zeroWrite" /\ initPc'[s] = "zeroRead" /\ initPc'[p] = initPc[p]
      /\ write'[s] = 0 /\ write'[p] = write[p] /\ sent'[s] = <<>> /\ sent'[p] = sent[p]
      /\ UNCHANGED <<sentinel, read, data, push, pop, filled, checked, restarts>>
  <2>1. write \in [Side -> Index] /\ DOMAIN sent = Side
      BY LifeTypes DEF Life, Rings
  <2> QED BY <2>1, LifeSides DEF InitZeroWrite, Goto
<1>b. UNCHANGED <<pushPc, pushWrite, pushElem, popPc, popRead, popWrite>>
    BY <1>a DEF push, pop
<1>c. /\ ~Up(s) /\ ~Up(s)' /\ (Up(p)' <=> Up(p)) /\ (Quiet(p)' <=> Quiet(p))
      /\ (Initialising(p)' <=> Initialising(p)) /\ Initialising(s)
      /\ pushPc[s] = "idle"
    BY <1>a, <1>b, LifeFacts DEF Up, Initialising, Quiet, CallsInLife
<1>1. AloneAt(s, p)' /\ AloneAt(p, s)'
    BY <1>a, <1>c, LifeFacts DEF AloneAt
<1>2. ColdAt(s, p)'
    BY <1>a, <1>b, <1>c, LifeFacts DEF ColdAt, Cold
<1>3. ColdAt(p, s)'
  <2>1. Cold(p, s)' => Cold(p, s)
      BY <1>a, <1>b, <1>c DEF Cold
  <2> QED BY <1>a, <1>b, <1>c, <2>1, LifeFacts, ColdFrame
<1>4. LinkAt(s, p)'
  <2>1. Linked(s, p)' => read[p] = 0
      BY <1>a, <1>c, LifeFacts DEF Linked, ColdAt, Cold
  <2>2. Linked(s, p)' => Contents(s)' = <<>>
      BY <1>a, <2>1, LifeSides, ContentsEmpty, IndexRange
  <2> QED BY <1>a, <1>b, <1>c, <2>2 DEF LinkAt, PushGood
<1>5. LinkAt(p, s)'
  <2>1. Linked(p, s)' => Linked(p, s)
      BY <1>a, <1>c DEF Linked, Cold
  <2> QED BY <1>a, <1>b, <1>c, <2>1, LifeFacts, LinkFrame
<1> QED BY <1>1, <1>2, <1>3, <1>4, <1>5 DEF Pair

LEMMA StepInitZeroRead ==
    ASSUME NEW s, NEW p, Life(s, p), InitZeroRead(s)
    PROVE  Pair(s, p)' /\ Pair(p, s)'
<1>a. /\ initPc[s] = "zeroRead" /\ initPc'[s] = "fill" /\ initPc'[p] = initPc[p]
      /\ read'[s] = 0 /\ read'[p] = read[p] /\ filled'[s] = 0 /\ filled'[p] = filled[p]
      /\ UNCHANGED <<sentinel, write, data, push, pop, checked, restarts, sent>>
  <2>1. read \in [Side -> Index] /\ DOMAIN filled = Side
      BY LifeTypes DEF Life, Rings
  <2> QED BY <2>1, LifeSides DEF InitZeroRead, Goto
<1>b. UNCHANGED <<pushPc, pushWrite, pushElem, popPc, popRead, popWrite>>
    BY <1>a DEF push, pop
<1>c. /\ ~Up(s) /\ ~Up(s)' /\ (Up(p)' <=> Up(p)) /\ (Quiet(p)' <=> Quiet(p))
      /\ (Initialising(p)' <=> Initialising(p)) /\ Initialising(s)
    BY <1>a, <1>b, LifeFacts DEF Up, Initialising, Quiet
<1>1. AloneAt(s, p)' /\ AloneAt(p, s)'
    BY <1>a, <1>c, LifeFacts DEF AloneAt
<1>2. ColdAt(s, p)'
    BY <1>a, <1>b, <1>c, LifeFacts DEF ColdAt, Cold
<1>3. ColdAt(p, s)'
  <2>1. Cold(p, s)' => Cold(p, s)
      BY <1>a, <1>b, <1>c DEF Cold
  <2> QED BY <1>a, <1>b, <1>c, <2>1, LifeFacts, ColdFrame
<1>4. Up(p) => Cold(s, p)
    BY <1>a, <1>c, LifeFacts DEF AloneAt, Cold
<1>5. /\ Linked(s, p)' => Cold(s, p) /\ Linked(s, p)
      /\ Linked(p, s)' => Cold(s, p) /\ Linked(p, s)
    BY <1>a, <1>c, <1>4 DEF Linked, Cold
<1>6. LinkAt(s, p)'
    BY <1>a, <1>b, <1>c, <1>5, LifeFacts, LinkFrame
<1>7. LinkAt(p, s)'
  <2>1. CASE Cold(s, p)
    <3>1. read'[s] = read[s]
        BY <1>a, <2>1, LifeFacts DEF ColdAt
    <3> QED BY <1>a, <1>b, <1>c, <1>5, <3>1, LifeFacts, LinkFrame
  <2>2. CASE ~Cold(s, p)
      BY <1>c, <1>5, <2>2 DEF LinkAt
  <2> QED BY <2>1, <2>2
<1> QED BY <1>1, <1>2, <1>3, <1>6, <1>7 DEF Pair

LEMMA StepInitSyncWrite ==
    ASSUME NEW s, NEW p, Life(s, p), InitSyncWrite(s)
    PROVE  Pair(s, p)' /\ Pair(p, s)'
<1>a. /\ initPc[s] = "syncWrite" /\ initPc'[s] = "syncRead" /\ initPc'[p] = initPc[p]
      /\ write'[s] = read[p] /\ write'[p] = write[p]
      /\ sent'[s] = <<>> /\ sent'[p] = sent[p]
      /\ UNCHANGED <<sentinel, read, data, push, pop, filled, checked, restarts>>
  <2>1. write \in [Side -> Index] /\ DOMAIN sent = Side
      BY LifeTypes DEF Life, Rings
  <2> QED BY <2>1, LifeSides DEF InitSyncWrite, Goto
<1>b. UNCHANGED <<pushPc, pushWrite, pushElem, popPc, popRead, popWrite>>
    BY <1>a DEF push, pop
<1>c. /\ ~Up(s) /\ ~Up(s)' /\ (Up(p)' <=> Up(p)) /\ (Quiet(p)' <=> Quiet(p))
      /\ (Initialising(p)' <=> Initialising(p)) /\ Initialising(s)
      /\ pushPc[s] = "idle"
    BY <1>a, <1>b, LifeFacts DEF Up, Initialising, Quiet, CallsInLife
<1>1. AloneAt(s, p)' /\ AloneAt(p, s)'
    BY <1>a, <1>c, LifeFacts DEF AloneAt
<1>2. ColdAt(s, p)'
  <2>1. Cold(s, p) => read[p] = 0
      BY LifeFacts DEF ColdAt, Cold
  <2> QED BY <1>a, <1>b, <1>c, <2>1, LifeFacts DEF ColdAt, Cold
<1>3. ColdAt(p, s)'
  <2>1. Cold(p, s)' => Cold(p, s)
      BY <1>a, <1>b, <1>c DEF Cold
  <2> QED BY <1>a, <1>b, <1>c, <2>1, LifeFacts, ColdFrame
<1>4. LinkAt(s, p)'
  <2>1. Contents(s)' = <<>>
    <3>1. read[p] \in Index /\ s \in Side /\ Peer(s) = p
        BY LifeFacts DEF Rings
    <3> QED BY <1>a, <3>1, ContentsEmpty
  <2> QED BY <1>a, <1>b, <1>c, <2>1 DEF LinkAt, PushGood
<1>5. LinkAt(p, s)'
  <2>1. Linked(p, s)' => Linked(p, s)
      BY <1>a, <1>c DEF Linked, Cold
  <2> QED BY <1>a, <1>b, <1>c, <2>1, LifeFacts, LinkFrame
<1> QED BY <1>1, <1>2, <1>3, <1>4, <1>5 DEF Pair

LEMMA StepInitSyncRead ==
    ASSUME NEW s, NEW p, Life(s, p), InitSyncRead(s)
    PROVE  Pair(s, p)' /\ Pair(p, s)'
<1> DEFINE r == SyncedRead(write[p])
<1>a. /\ initPc[s] = "syncRead" /\ initPc'[s] = "fill" /\ initPc'[p] = initPc[p]
      /\ read'[s] = r /\ read'[p] = read[p] /\ filled'[s] = 0 /\ filled'[p] = filled[p]
      /\ sent'[s] = sent[s] /\ sent'[p] = Available(s, r)
      /\ UNCHANGED <<sentinel, write, data, push, pop, checked, restarts>>
  <2>1. read \in [Side -> Index] /\ DOMAIN filled = Side /\ DOMAIN sent = Side
      BY LifeTypes DEF Life, Rings
  <2> QED BY <2>1, LifeSides DEF InitSyncRead, Goto
<1> HIDE DEF r
<1>b. UNCHANGED <<pushPc, pushWrite, pushElem, popPc, popRead, popWrite>>
    BY <1>a DEF push, pop
<1>c. /\ ~Up(s) /\ ~Up(s)' /\ (Up(p)' <=> Up(p)) /\ (Quiet(p)' <=> Quiet(p))
      /\ (Initialising(p)' <=> Initialising(p)) /\ Initialising(s)
    BY <1>a, <1>b, LifeFacts DEF Up, Initialising, Quiet
<1>1. AloneAt(s, p)' /\ AloneAt(p, s)'
    BY <1>a, <1>c, LifeFacts DEF AloneAt
<1>d. Cold(s, p) => Up(p)
    BY <1>a, LifeFacts DEF ColdAt
<1>2. ColdAt(s, p)'
  <2>1. Cold(s, p) => write[p] = InitialWrite
      BY <1>d, LifeFacts DEF ColdAt, Cold
  <2>2. SyncedRead(InitialWrite) = 0
    <3>1. 0 \in 0..(elem_num - 1) /\ elem_num \in Nat \ {0}
        BY IndexRange, SMTT(60) DEF elem_num
    <3>2. 0 % elem_num = 0 /\ (ElemNum + 1) % elem_num = 0
        BY <3>1, ModBelow, NextIndex, IndexRange
    <3> QED BY <3>2, QueueTypeAssumption
            DEF QueueTypeAssumption, SyncedRead, InitialWrite
  <2>3. Cold(s, p) => r = 0
      BY <2>1, <2>2 DEF r
  <2> QED BY <1>a, <1>b, <1>c, <2>3, LifeFacts DEF ColdAt, Cold
<1>3. ColdAt(p, s)'
  <2>1. Cold(p, s)' => Cold(p, s)
      BY <1>a, <1>b, <1>c DEF Cold
  <2> QED BY <1>a, <1>b, <1>c, <2>1, LifeFacts, ColdFrame
<1>4. LinkAt(s, p)'
  <2>1. Linked(s, p)' => Linked(s, p)
      BY <1>a, <1>c DEF Linked, Cold
  <2> QED BY <1>a, <1>b, <1>c, <2>1, LifeFacts, LinkFrame
<1>5. LinkAt(p, s)'
  <2>1. Contents(p)' = sent'[p]
      BY <1>a, LifeFacts, ContentsSynced DEF r
  <2>2. Linked(p, s)' => Up(p)
      BY <1>a, <1>c, <1>d DEF Linked, Cold
  <2>3. Up(p) => pushPc[p] = "idle"
    <3>1. CASE restarts # 0
        BY <1>a, <3>1, LifeFacts DEF AloneAt, Quiet
    <3>2. CASE restarts = 0
        BY <1>c, <3>2, LifeFacts DEF ColdAt, Cold, Up
    <3> QED BY <3>1, <3>2
  <2> QED BY <1>b, <1>c, <2>1, <2>2, <2>3 DEF LinkAt, PushGood
<1> QED BY <1>1, <1>2, <1>3, <1>4, <1>5 DEF Pair

\* What ipc_queue_free clears was linked to nothing.
LEMMA StepFreeIndexes ==
    ASSUME NEW s, NEW p, Life(s, p), FreeWrite(s) \/ FreeRead(s)
    PROVE  Pair(s, p)' /\ Pair(p, s)'
<1>a. /\ initPc[s] \in {"freeWrite", "freeRead"} /\ initPc'[s] \in {"freeRead", "down"}
      /\ initPc'[p] = initPc[p] /\ UNCHANGED <<push, pop, checked, restarts>>
  <2>1. CASE FreeWrite(s)
      BY <2>1, LifeSides DEF FreeWrite, Goto
  <2>2. CASE FreeRead(s)
      BY <2>2, LifeSides DEF FreeRead, Goto
  <2> QED BY <2>1, <2>2
<1>b. UNCHANGED <<pushPc, popPc>>
    BY <1>a DEF push, pop
<1>c. /\ ~Up(s) /\ ~Up(s)' /\ (Up(p)' <=> Up(p)) /\ (Quiet(p)' <=> Quiet(p))
      /\ ~Initialising(s)'
    BY <1>a, <1>b DEF Up, Initialising, Quiet
<1>d. restarts' # 0 /\ restarts # 0
    BY <1>a, <1>c, LifeFacts DEF ColdAt, Cold
<1>1. AloneAt(s, p)' /\ AloneAt(p, s)'
    BY <1>a, <1>c, <1>d, LifeFacts DEF AloneAt
<1>2. ColdAt(s, p)' /\ ColdAt(p, s)'
    BY <1>d DEF ColdAt, Cold
<1>3. LinkAt(s, p)' /\ LinkAt(p, s)'
    BY <1>a, <1>c, <1>d DEF LinkAt, Linked, Cold
<1> QED BY <1>1, <1>2, <1>3 DEF Pair

-----------------------------------------------------------------------------
(* Calls of push and pop *)

\* A side whose call is under way is up, or fills its pool; after a restart its
\* peer is then up too, or has not begun to initialise.
LEMMA Calling ==
    ASSUME NEW s, NEW p, Life(s, p), ~Quiet(s)
    PROVE  /\ Up(s) \/ initPc[s] = "fill"
           /\ restarts # 0 /\ Up(s) => initPc[p] \in {"down", "mark", "up"}
           /\ Cold(s, p) => ~checked[s] /\ popPc[s] \in {"idle", "loaded"}
<1>1. Up(s) \/ initPc[s] = "fill"
    BY LifeFacts DEF CallsInLife, Quiet
<1>2. restarts # 0 /\ Up(s) => initPc[p] \in {"down", "mark", "up"}
    BY LifeFacts DEF AloneAt
<1>3. Cold(s, p) => ~checked[s] /\ popPc[s] \in {"idle", "loaded"}
    BY LifeFacts DEF ColdAt
<1> QED BY <1>1, <1>2, <1>3

\* Steps of a push of s, seen from the invariants on lives: s stays where it is.
LEMMA AloneCall ==
    ASSUME NEW s, NEW p, Life(s, p), UNCHANGED <<initPc, restarts>>,
           pushPc'[p] = pushPc[p], popPc'[p] = popPc[p], checked'[p] = checked[p],
           \/ ~Up(s)
           \/ restarts # 0 => initPc[p] \in {"down", "mark", "up"}
    PROVE  AloneAt(s, p)' /\ AloneAt(p, s)'
<1>1. /\ (Up(s)' <=> Up(s)) /\ (Up(p)' <=> Up(p)) /\ (Quiet(p)' <=> Quiet(p))
      /\ (Initialising(s)' <=> Initialising(s)) /\ (Initialising(p)' <=> Initialising(p))
    BY DEF Up, Quiet, Initialising
<1> QED BY <1>1, LifeFacts DEF AloneAt

LEMMA StepInitFill ==
    ASSUME NEW s, NEW p, Life(s, p), InitFill(s)
    PROVE  Pair(s, p)' /\ Pair(p, s)'
<1>a. /\ initPc[s] = "fill" /\ pushPc'[s] = "loaded" /\ pushPc'[p] = pushPc[p]
      /\ pushWrite'[s] = write[s] /\ pushWrite'[p] = pushWrite[p]
      /\ pushElem'[p] = pushElem[p] /\ (write[s] + 1) % elem_num # read[p]
      /\ UNCHANGED <<ring, pop, life, restarts, sent>>
    BY LifeFacts DEF InitFill, PushLoad, PushNoRoom, CallTypes
<1>b. UNCHANGED <<sentinel, write, read, data, popPc, popRead, popWrite, initPc, filled,
                  checked, restarts, sent>>
    BY <1>a DEF ring, pop, life
<1>c. /\ ~Up(s) /\ ~Up(s)' /\ (Up(p)' <=> Up(p))
    BY <1>a, <1>b DEF Up
<1>1. AloneAt(s, p)' /\ AloneAt(p, s)'
    BY <1>a, <1>b, <1>c, AloneCall
<1>2. ColdAt(s, p)'
    BY <1>a, <1>b, <1>c, LifeFacts DEF ColdAt, Cold
<1>3. ColdAt(p, s)'
  <2>1. Cold(p, s)' => Cold(p, s)
      BY <1>a, <1>b, <1>c DEF Cold
  <2> QED BY <1>a, <1>b, <1>c, <2>1, LifeFacts, ColdFrame
<1>4. (Linked(s, p)' <=> Linked(s, p)) /\ (Linked(p, s)' <=> Linked(p, s))
    BY <1>b, <1>c DEF Linked, Cold
<1>5. LinkAt(s, p)'
  <2>1. Contents(s)' = Contents(s)
      BY <1>b, LifeFacts, ContentsSame
  <2>2. PushGood(s, p)'
      BY <1>a, <1>b DEF PushGood
  <2> QED BY <1>b, <1>c, <1>4, <2>1, <2>2, LifeFacts DEF LinkAt
<1>6. LinkAt(p, s)'
    BY <1>a, <1>b, <1>c, <1>4, LifeFacts, LinkFrame
<1> QED BY <1>1, <1>2, <1>3, <1>5, <1>6 DEF Pair

\* A pool that is filled from the beginning has room for all its buffers.
LEMMA StepInitFillRefused ==
    ASSUME NEW s, NEW p, Life(s, p), InitFillRefused(s)
    PROVE  Pair(s, p)' /\ Pair(p, s)'
<1>a. /\ initPc[s] = "fill" /\ initPc'[s] = "free" /\ initPc'[p] = initPc[p]
      /\ Fills(s) /\ (~PushInRange(s) \/ PushNoRoom(s))
      /\ UNCHANGED <<ring, pushPc, pop, checked, restarts>>
    BY LifeSides DEF InitFillRefused, PushRefused, Goto
<1>b. UNCHANGED <<pushPc, popPc>>
    BY <1>a DEF pop
<1>c. /\ ~Up(s) /\ ~Up(s)' /\ (Up(p)' <=> Up(p)) /\ (Quiet(p)' <=> Quiet(p))
      /\ ~Initialising(s)'
    BY <1>a, <1>b DEF Up, Initialising, Quiet
<1>d. restarts # 0
  <2>1. SUFFICES ASSUME restarts = 0 PROVE FALSE
      OBVIOUS
  <2>2. Cold(s, p) /\ Cold(p, s)
      BY <1>c, <2>1 DEF Cold
  <2>3. read[p] = 0 /\ write[s] = filled[s] /\ filled[s] < ElemNum
      BY <1>a, <1>c, <2>2, LifeFacts DEF ColdAt, Fills
  <2>4. write[s] \in Index /\ read[p] \in Index /\ Peer(s) = p
      BY LifeFacts DEF Rings
  <2>5. PushNoRoom(s)
      BY <1>a, <2>4, IndexRange DEF PushInRange
  <2>6. (IF write[s] = ElemNum THEN 0 ELSE write[s] + 1) = 0
      BY <2>3, <2>4, <2>5, NextIndex DEF PushNoRoom
  <2>7. ~(ElemNum < ElemNum) /\ \A i \in Index : i + 1 # 0
      BY IndexRange, SMTT(60) DEF Index
  <2> QED BY <2>3, <2>4, <2>6, <2>7
<1>1. AloneAt(s, p)' /\ AloneAt(p, s)'
    BY <1>a, <1>c, LifeFacts DEF AloneAt
<1>2. ColdAt(s, p)' /\ ColdAt(p, s)'
    BY <1>a, <1>d DEF ColdAt, Cold
<1>3. LinkAt(s, p)' /\ LinkAt(p, s)'
    BY <1>a, <1>c, <1>d DEF LinkAt, Linked, Cold
<1> QED BY <1>1, <1>2, <1>3 DEF Pair

LEMMA StepPushChecked ==
    ASSUME NEW s, NEW p, Life(s, p), Overlap = {}, PushChecked(s)
    PROVE  Pair(s, p)' /\ Pair(p, s)'
<1>a. /\ initPc[s] = "up" /\ initPc[p] \in {"down", "up"} /\ sentinel[p] = "DONE"
      /\ checked'[p] = checked[p]
      /\ UNCHANGED <<vars, initPc, filled, restarts, sent>>
    BY LifeFacts DEF PushChecked, ipc_queue_check_integrity
<1>b. UNCHANGED <<sentinel, write, read, data, push, pop, pushPc, popPc, popRead, popWrite>>
    BY <1>a DEF vars, ring, push, pop
<1>c. (Up(s)' <=> Up(s)) /\ (Up(p)' <=> Up(p)) /\ Up(s)
    BY <1>a DEF Up
<1>d. ~Cold(s, p) /\ ~Cold(p, s) /\ ~Cold(s, p)' /\ ~Cold(p, s)'
    BY <1>a, <1>c, LifeFacts DEF ColdAt, Cold
<1>1. AloneAt(s, p)' /\ AloneAt(p, s)'
    BY <1>a, <1>b, AloneCall
<1>2. ColdAt(s, p)' /\ ColdAt(p, s)'
    BY <1>d DEF ColdAt
<1>3. (Linked(s, p)' => Linked(s, p)) /\ (Linked(p, s)' => Linked(p, s))
    BY <1>a, <1>c, <1>d DEF Linked
<1>4. Up(s)' /\ Up(p)' => PopGood(s, p) /\ PopGood(p, s)
    BY <1>c, LifeFacts DEF LinkAt
<1>5. LinkAt(s, p)' /\ LinkAt(p, s)'
    BY <1>a, <1>b, <1>3, <1>4, LinkMoves
<1> QED BY <1>1, <1>2, <1>5 DEF Pair

LEMMA StepPushCall ==
    ASSUME NEW s, NEW p, Life(s, p), PushCall(s)
    PROVE  Pair(s, p)' /\ Pair(p, s)'
<1>a. /\ checked[s] /\ checked'[p] = checked[p]
      /\ pushPc'[p] = pushPc[p] /\ pushWrite'[p] = pushWrite[p]
      /\ pushElem'[p] = pushElem[p]
      /\ \/ pushPc'[s] = pushPc[s] /\ pushPc[s] = "idle"
         \/ /\ pushPc'[s] = "loaded" /\ pushWrite'[s] = write[s]
            /\ (write[s] + 1) % elem_num # read[p]
      /\ UNCHANGED <<ring, pop, initPc, filled, restarts, sent>>
  <2>1. CASE PushRefused(s)
      BY <2>1, LifeFacts DEF PushCall, PushRefused
  <2>2. CASE \E e \in Elem : PushLoad(s, e)
      BY <2>2, LifeFacts DEF PushCall, PushLoad, PushNoRoom, CallTypes
  <2> QED BY <2>1, <2>2 DEF PushCall
<1>b. UNCHANGED <<sentinel, write, read, data, popPc, popRead, popWrite>>
    BY <1>a DEF ring, pop
<1>c. (Up(s)' <=> Up(s)) /\ (Up(p)' <=> Up(p)) /\ Up(s)
    BY <1>a, LifeFacts DEF Up, CallsInLife
<1>d. ~Cold(s, p) /\ ~Cold(p, s) /\ ~Cold(s, p)' /\ ~Cold(p, s)'
    BY <1>a, <1>c, LifeFacts DEF ColdAt, Cold
<1>1. AloneAt(s, p)' /\ AloneAt(p, s)'
    BY <1>a, <1>b, <1>c, Calling, AloneCall DEF Quiet
<1>2. ColdAt(s, p)' /\ ColdAt(p, s)'
    BY <1>d DEF ColdAt
<1>3. (Linked(s, p)' <=> Linked(s, p)) /\ (Linked(p, s)' <=> Linked(p, s))
    BY <1>a, <1>c, <1>d DEF Linked
<1>4. (PopGood(s, p)' <=> PopGood(s, p)) /\ (PopGood(p, s)' <=> PopGood(p, s))
    BY <1>b DEF PopGood
<1>5. LinkAt(s, p)'
  <2>1. Contents(s)' = Contents(s)
      BY <1>b, LifeFacts, ContentsSame
  <2>2. PushGood(s, p)'
      BY <1>a, <1>b DEF PushGood
  <2> QED BY <1>a, <1>c, <1>3, <1>4, <2>1, <2>2, LifeFacts DEF LinkAt
<1>6. Up(p)' /\ Up(s)' => PopGood(p, s)'
    BY <1>c, <1>4, LifeFacts DEF LinkAt
<1>7. LinkAt(p, s)'
    BY <1>a, <1>b, <1>3, <1>6, LifeFacts, LinkFrame
<1> QED BY <1>1, <1>2, <1>5, <1>7 DEF Pair

\* A push writes where nothing is waiting to be popped.
LEMMA StepPushCopy ==
    ASSUME NEW s, NEW p, Life(s, p), PushRun(s), PushCopyStart(s) \/ PushCopyEnd(s)
    PROVE  Pair(s, p)' /\ Pair(p, s)'
<1>a. /\ pushPc[s] # "idle" /\ pushPc'[s] # "idle" /\ pushPc'[p] = pushPc[p]
      /\ data'[p] = data[p]
      /\ \A i \in Index : i # pushWrite[s] => data'[s][i] = data[s][i]
      /\ pushPc'[s] = "copied" => data'[s][pushWrite[s]] = pushElem[s]
      /\ UNCHANGED <<sentinel, write, read, pushWrite, pushElem, pop, initPc, filled, checked,
                     restarts, sent>>
  <2>1. /\ data \in [Side -> [Index -> Elem \cup {Torn}]] /\ pushWrite[s] \in Index
        /\ pushPc \in [Side -> {"idle", "loaded", "copying", "copied"}]
      BY LifeFacts DEF Rings, CallTypes
  <2>2. UNCHANGED <<initPc, filled, checked, restarts, sent>>
      BY DEF PushRun, PushCopyStart, PushCopyEnd, PushStore
  <2>3. CASE PushCopyStart(s)
      BY <2>1, <2>2, <2>3, LifeSides DEF PushCopyStart
  <2>4. CASE PushCopyEnd(s)
      BY <2>1, <2>2, <2>4, LifeSides DEF PushCopyEnd
  <2> QED BY <2>3, <2>4
<1>b. UNCHANGED <<popPc, popRead, popWrite>>
    BY <1>a DEF pop
<1>c. (Up(s)' <=> Up(s)) /\ (Up(p)' <=> Up(p))
    BY <1>a DEF Up
<1>1. AloneAt(s, p)' /\ AloneAt(p, s)'
    BY <1>a, <1>b, Calling, AloneCall DEF Quiet
<1>2. ColdAt(s, p)'
    BY <1>a, <1>b, <1>c, LifeFacts DEF ColdAt, Cold
<1>3. ColdAt(p, s)'
  <2>1. Cold(p, s)' => Cold(p, s)
      BY <1>a, <1>b, <1>c DEF Cold
  <2> QED BY <1>a, <1>b, <1>c, <2>1, LifeFacts, ColdFrame
<1>4. (Linked(s, p)' <=> Linked(s, p)) /\ (Linked(p, s)' <=> Linked(p, s))
    BY <1>a, <1>c DEF Linked, Cold
<1>5. (PopGood(s, p)' <=> PopGood(s, p)) /\ (PopGood(p, s)' <=> PopGood(p, s))
    BY <1>a, <1>b DEF PopGood
<1>6. LinkAt(s, p)'
  <2>1. ASSUME Linked(s, p) PROVE Contents(s)' = sent'[s] /\ PushGood(s, p)'
    <3>1. /\ pushWrite[s] = write[s] /\ (write[s] + 1) % elem_num # read[p]
          /\ Contents(s) = sent[s]
        BY <1>a, <2>1, LifeFacts DEF LinkAt, PushGood
    <3>2. write[s] \notin Occupied(s) /\ Occupied(s) \subseteq Index
        BY LifeFacts, OccupiedFacts
    <3>3. \A i \in Occupied(s) : data'[s][i] = data[s][i]
        BY <1>a, <3>1, <3>2
    <3>4. Contents(s)' = Contents(s)
        BY <1>a, <3>3, LifeFacts, ContentsSame
    <3> QED BY <1>a, <3>1, <3>4 DEF PushGood
  <2> QED BY <1>c, <1>4, <1>5, <2>1, LifeFacts DEF LinkAt
<1>7. Up(p)' /\ Up(s)' => PopGood(p, s)'
    BY <1>c, <1>5, LifeFacts DEF LinkAt
<1>8. LinkAt(p, s)'
    BY <1>a, <1>4, <1>7, LifeFacts, LinkFrame
<1> QED BY <1>1, <1>2, <1>3, <1>6, <1>8 DEF Pair

LEMMA StepPushStore ==
    ASSUME NEW s, NEW p, Life(s, p), PushRun(s), PushStore(s)
    PROVE  Pair(s, p)' /\ Pair(p, s)'
<1>a. /\ pushPc[s] = "copied" /\ pushPc'[s] = "idle" /\ pushPc'[p] = pushPc[p]
      /\ write'[s] = (pushWrite[s] + 1) % elem_num /\ write'[p] = write[p]
      /\ sent'[s] = Append(sent[s], pushElem[s]) /\ sent'[p] = sent[p]
      /\ filled'[s] = IF initPc[s] = "fill" THEN filled[s] + 1 ELSE filled[s]
      /\ filled'[p] = filled[p]
      /\ UNCHANGED <<sentinel, read, data, pushWrite, pushElem, pop, initPc, checked, restarts>>
  <2>1. /\ write \in [Side -> Index] /\ DOMAIN sent = Side /\ DOMAIN filled = Side
        /\ pushPc \in [Side -> {"idle", "loaded", "copying", "copied"}]
      BY LifeFacts, LifeTypes DEF Life, Rings, CallTypes
  <2>2. /\ sent' = [sent EXCEPT ![s] = Append(@, pushElem[s])]
        /\ filled' = [filled EXCEPT ![s] = IF initPc[s] = "fill" THEN @ + 1 ELSE @]
        /\ UNCHANGED <<initPc, checked, restarts>>
      BY DEF PushRun, PushCopyStart, PushCopyEnd, PushStore
  <2> QED BY <2>1, <2>2, LifeSides DEF PushStore
<1>b. UNCHANGED <<popPc, popRead, popWrite>>
    BY <1>a DEF pop
<1>c. (Up(s)' <=> Up(s)) /\ (Up(p)' <=> Up(p))
    BY <1>a DEF Up
<1>d. /\ Linked(s, p) => /\ write'[s] = (write[s] + 1) % elem_num /\ write'[s] # read[p]
                         /\ data[s][write[s]] = pushElem[s] /\ Contents(s) = sent[s]
      /\ write[s] \in Index
  <2>1. Linked(s, p) => Contents(s) = sent[s] /\ PushGood(s, p)
      BY LifeFacts DEF LinkAt
  <2>2. write[s] \in Index
      BY LifeFacts DEF Rings
  <2> QED BY <1>a, <2>1, <2>2 DEF PushGood
<1>1. AloneAt(s, p)' /\ AloneAt(p, s)'
    BY <1>a, <1>b, Calling, AloneCall DEF Quiet
<1>2. ColdAt(s, p)'
  <2>1. ASSUME Cold(s, p)
        PROVE  /\ initPc[s] = "fill" /\ ~Up(s) /\ QueueType = "IPC_SHM_POOL_QUEUE"
               /\ write'[s] = filled'[s]
    <3>1. initPc[s] = "fill" /\ ~Up(s)
        BY <1>a, <2>1, LifeFacts DEF ColdAt, Up
    <3>2. Fills(s)
        BY <1>a, <3>1, LifeFacts DEF CallsInLife
    <3>3. write[s] = filled[s] /\ filled[s] < ElemNum /\ QueueType = "IPC_SHM_POOL_QUEUE"
        BY <2>1, <3>1, <3>2, LifeFacts DEF ColdAt, Fills
    <3>4. write'[s] = (write[s] + 1) % elem_num
        BY <1>d, <2>1 DEF Linked
    <3>5. ~(ElemNum < ElemNum)
        BY IndexRange, SMTT(60)
    <3>6. write'[s] = write[s] + 1
        BY <1>d, <3>3, <3>4, <3>5, NextIndex
    <3> QED BY <1>a, <3>1, <3>3, <3>6
  <2> QED BY <1>a, <1>b, <1>c, <2>1, LifeFacts DEF ColdAt, Cold
<1>3. ColdAt(p, s)'
  <2>1. Cold(p, s)' => Cold(p, s)
      BY <1>a, <1>b, <1>c DEF Cold
  <2> QED BY <1>a, <1>b, <1>c, <2>1, LifeFacts, ColdFrame
<1>4. (Linked(s, p)' <=> Linked(s, p)) /\ (Linked(p, s)' <=> Linked(p, s))
    BY <1>a, <1>c DEF Linked, Cold
<1>5. LinkAt(s, p)'
  <2>1. Linked(s, p) => Contents(s)' = Append(Contents(s), data[s][write[s]])
      BY <1>a, <1>d, LifeFacts, ContentsAppend
  <2>2. PopGood(s, p)' <=> PopGood(s, p)
      BY <1>a, <1>b DEF PopGood
  <2>3. PushGood(s, p)'
      BY <1>a DEF PushGood
  <2> QED BY <1>a, <1>c, <1>d, <1>4, <2>1, <2>2, <2>3, LifeFacts DEF LinkAt
<1>6. Up(p)' /\ Up(s)' => PopGood(p, s)'
  <2>1. Up(p) /\ Up(s) => Linked(s, p) /\ PopGood(p, s)
      BY LifeFacts DEF LinkAt, Linked, Up
  <2> QED BY <1>a, <1>b, <1>c, <1>d, <2>1 DEF PopGood
<1>7. LinkAt(p, s)'
    BY <1>a, <1>4, <1>6, LifeFacts, LinkFrame
<1> QED BY <1>1, <1>2, <1>3, <1>5, <1>7 DEF Pair

LEMMA StepPopCall ==
    ASSUME NEW s, NEW p, Life(s, p), Overlap = {}, PopCall(s)
    PROVE  Pair(s, p)' /\ Pair(p, s)'
<1>a. /\ initPc[s] = "up" /\ initPc[p] \in {"down", "up"} /\ popPc'[s] = "loaded"
      /\ popWrite'[s] = write[p] /\ popRead'[s] = read[s]
      /\ popPc'[p] = popPc[p] /\ popWrite'[p] = popWrite[p] /\ popRead'[p] = popRead[p]
      /\ UNCHANGED <<ring, push, life, restarts, sent>>
    BY LifeFacts DEF PopCall, PopLoad, CallTypes
<1>b. UNCHANGED <<sentinel, write, read, data, pushPc, pushWrite, pushElem, initPc, filled,
                  checked>>
    BY <1>a DEF ring, push, life
<1>c. (Up(s)' <=> Up(s)) /\ (Up(p)' <=> Up(p)) /\ Up(s)
    BY <1>a, <1>b DEF Up
<1>1. AloneAt(s, p)' /\ AloneAt(p, s)'
    BY <1>a, <1>b, AloneCall
<1>2. ColdAt(s, p)'
  <2>1. Cold(s, p) => read[s] = 0 /\ write[p] = 0
      BY <1>a, <1>c, LifeFacts DEF ColdAt, Cold, Up
  <2> QED BY <1>a, <1>b, <1>c, <2>1, LifeFacts DEF ColdAt, Cold
<1>3. ColdAt(p, s)'
  <2>1. Cold(p, s)' => Cold(p, s)
      BY <1>a, <1>c DEF Cold
  <2> QED BY <1>a, <1>b, <1>c, <2>1, LifeFacts, ColdFrame
<1>4. (Linked(s, p)' => Linked(s, p)) /\ (Linked(p, s)' => Linked(p, s))
    BY <1>a, <1>b, <1>c DEF Linked, Cold
<1>5. PopGood(s, p)' /\ (PopGood(p, s)' <=> PopGood(p, s))
    BY <1>a, <1>b DEF PopGood
<1>6. LinkAt(s, p)'
    BY <1>a, <1>b, <1>4, <1>5, LifeFacts, LinkFrame
<1>7. Up(p)' /\ Up(s)' => PopGood(p, s)'
    BY <1>c, <1>5, LifeFacts DEF LinkAt
<1>8. LinkAt(p, s)'
    BY <1>a, <1>b, <1>4, <1>7, LifeFacts, LinkFrame
<1> QED BY <1>1, <1>2, <1>3, <1>6, <1>8 DEF Pair

\* A pop goes on only with an element it has seen, and copies it out.
LEMMA StepPopCopy ==
    ASSUME NEW s, NEW p, Life(s, p), PopRun(s),
           PopCheck(s) \/ PopCopyStart(s) \/ PopCopyEnd(s)
    PROVE  Pair(s, p)' /\ Pair(p, s)'
<1>a. /\ popPc[s] # "idle" /\ popPc'[p] = popPc[p]
      /\ \/ popPc[s] = "loaded" /\ popPc'[s] = "idle"
         \/ popPc[s] = "loaded" /\ popPc'[s] = "checked" /\ popRead[s] # popWrite[s]
         \/ popPc[s] \in {"checked", "copying"} /\ popPc'[s] \in {"copying", "copied"}
      /\ UNCHANGED <<ring, push, popWrite, popRead, life, restarts, sent>>
  <2>1. popPc \in [Side -> {"idle", "loaded", "checked", "copying", "copied"}]
      BY LifeFacts DEF CallTypes
  <2>2. UNCHANGED <<life, restarts, sent>>
      BY DEF PopRun, PopCheck, PopCopyStart, PopCopyEnd, PopStore
  <2>3. CASE PopCheck(s)
      BY <2>1, <2>2, <2>3, LifeSides DEF PopCheck, PopReturn
  <2>4. CASE PopCopyStart(s)
      BY <2>1, <2>2, <2>4, LifeSides DEF PopCopyStart
  <2>5. CASE PopCopyEnd(s)
      BY <2>1, <2>2, <2>5, LifeSides DEF PopCopyEnd
  <2> QED BY <2>3, <2>4, <2>5
<1>b. UNCHANGED <<sentinel, write, read, data, pushPc, pushWrite, pushElem, initPc, filled,
                  checked>>
    BY <1>a DEF ring, push, life
<1>c. (Up(s)' <=> Up(s)) /\ (Up(p)' <=> Up(p))
    BY <1>b DEF Up
<1>1. AloneAt(s, p)' /\ AloneAt(p, s)'
    BY <1>a, <1>b, Calling, AloneCall DEF Quiet
<1>2. ColdAt(s, p)'
  <2>1. Cold(s, p) => popPc'[s] = "idle"
      BY <1>a, LifeFacts DEF ColdAt
  <2> QED BY <1>a, <1>b, <1>c, <2>1, LifeFacts DEF ColdAt, Cold
<1>3. ColdAt(p, s)'
  <2>1. Cold(p, s)' => Cold(p, s)
      BY <1>a, <1>c DEF Cold
  <2> QED BY <1>a, <1>b, <1>c, <2>1, LifeFacts, ColdFrame
<1>4. (Linked(s, p)' => Linked(s, p)) /\ (Linked(p, s)' => Linked(p, s))
    BY <1>a, <1>b, <1>c DEF Linked, Cold
<1>5. (PopGood(s, p) => PopGood(s, p)') /\ (PopGood(p, s)' <=> PopGood(p, s))
    BY <1>a, <1>b DEF PopGood
<1>6. Up(s)' /\ Up(p)' => PopGood(s, p)' /\ PopGood(p, s)'
    BY <1>c, <1>5, LifeFacts DEF LinkAt
<1>7. LinkAt(s, p)'
    BY <1>a, <1>b, <1>4, <1>6, LifeFacts, LinkFrame
<1>8. LinkAt(p, s)'
    BY <1>a, <1>b, <1>4, <1>6, LifeFacts, LinkFrame
<1> QED BY <1>1, <1>2, <1>3, <1>7, <1>8 DEF Pair

LEMMA StepPopStore ==
    ASSUME NEW s, NEW p, Life(s, p), PopRun(s), PopStore(s)
    PROVE  Pair(s, p)' /\ Pair(p, s)'
<1>a. /\ popPc[s] = "copied" /\ popPc'[s] = "idle" /\ popPc'[p] = popPc[p]
      /\ read'[s] = (popRead[s] + 1) % elem_num /\ read'[p] = read[p]
      /\ sent'[p] = (IF sent[p] = <<>> THEN sent[p] ELSE Tail(sent[p]))
      /\ sent'[s] = sent[s]
      /\ UNCHANGED <<sentinel, write, data, push, popWrite, popRead, life, restarts>>
  <2>1. /\ read \in [Side -> Index] /\ DOMAIN sent = Side
        /\ popPc \in [Side -> {"idle", "loaded", "checked", "copying", "copied"}]
      BY LifeFacts, LifeTypes DEF Life, Rings, CallTypes
  <2>2. /\ sent' = [sent EXCEPT ![p] = IF @ = <<>> THEN @ ELSE Tail(@)]
        /\ UNCHANGED <<life, restarts>>
      BY LifeSides DEF PopRun, PopCheck, PopCopyStart, PopCopyEnd, PopStore
  <2> QED BY <2>1, <2>2, LifeSides DEF PopStore, PopReturn
<1>b. UNCHANGED <<pushPc, pushWrite, pushElem, initPc, filled, checked>>
    BY <1>a DEF push, life
<1>c. (Up(s)' <=> Up(s)) /\ (Up(p)' <=> Up(p)) /\ Up(s)
    BY <1>a, <1>b, LifeFacts DEF Up, CallsInLife
<1>d. ~Cold(s, p) /\ ~Cold(p, s) /\ ~Cold(s, p)' /\ ~Cold(p, s)'
    BY <1>a, <1>c, LifeFacts DEF ColdAt, Cold
<1>e. restarts # 0 => initPc[p] \in {"down", "mark", "up"}
    BY <1>a, <1>c, Calling DEF Quiet
<1>1. AloneAt(s, p)' /\ AloneAt(p, s)'
    BY <1>a, <1>b, <1>e, AloneCall
<1>2. ColdAt(s, p)' /\ ColdAt(p, s)'
    BY <1>d DEF ColdAt
<1>3. (Linked(s, p)' => Linked(s, p)) /\ (Linked(p, s)' => Linked(p, s) /\ Up(p))
  <2>1. initPc[p] \in {"syncRead", "fill", "up"} => Up(p)
    <3>1. CASE restarts # 0
        BY <1>e, <3>1 DEF Up
    <3>2. CASE restarts = 0
        BY <1>c, <1>d, <3>2 DEF Cold
    <3> QED BY <3>1, <3>2
  <2> QED BY <1>b, <1>c, <1>d, <2>1 DEF Linked
<1>4. PopGood(s, p)' /\ (PopGood(p, s)' <=> PopGood(p, s))
    BY <1>a DEF PopGood
<1>5. LinkAt(s, p)'
    BY <1>a, <1>b, <1>3, <1>4, LifeFacts, LinkFrame
<1>6. LinkAt(p, s)'
  <2>1. ASSUME Up(p), Linked(p, s)
        PROVE  Contents(p)' = sent'[p] /\ PushGood(p, s)' /\ PopGood(p, s)'
    <3>1. PopGood(s, p) /\ PopGood(p, s) /\ PushGood(p, s) /\ Contents(p) = sent[p]
        BY <1>c, <2>1, LifeFacts DEF LinkAt
    <3>2. popRead[s] = read[s] /\ read[s] # write[p]
        BY <1>a, <3>1 DEF PopGood
    <3>3. Contents(p) # <<>> /\ Contents(p)' = Tail(Contents(p))
        BY <1>a, <3>2, LifeFacts, ContentsTail
    <3>4. (write[p] + 1) % elem_num # read'[s]
      <4>1. write[p] \in Index /\ read[s] \in Index
          BY LifeFacts DEF Rings
      <4>2. (write[p] + 1) % elem_num # (read[s] + 1) % elem_num
          BY <3>2, <4>1, NextIndex, IndexRange, SMTT(60) DEF Index
      <4> QED BY <1>a, <3>2, <4>2
    <3>5. PushGood(p, s)'
        BY <1>a, <1>b, <3>1, <3>4 DEF PushGood
    <3> QED BY <1>a, <1>4, <3>1, <3>3, <3>5
  <2>2. Up(p) => Linked(p, s)
      BY <1>c DEF Linked, Up
  <2> QED BY <1>c, <1>3, <2>1, <2>2 DEF LinkAt
<1> QED BY <1>1, <1>2, <1>5, <1>6 DEF Pair

-----------------------------------------------------------------------------
LEMMA LifeInvStep ==
    ASSUME Overlap = {}
    PROVE  LifeInv /\ [LifeNext]_allVars => LifeInv'
<1> SUFFICES ASSUME LifeInv, [LifeNext]_allVars PROVE LifeInv'
    OBVIOUS
<1>1. LifeTypeInv'
    BY LifeTypeStep DEF LifeInv
<1>2. CASE UNCHANGED allVars
  <2>1. UNCHANGED <<sentinel, write, read, data, pushPc, pushWrite, pushElem, popPc,
                    popWrite, popRead, initPc, filled, checked, restarts, sent>>
      BY <1>2 DEF allVars, vars, ring, push, pop, life
  <2>2. ASSUME NEW s \in Side PROVE Pair(s, Peer(s))'
    <3>1. Pair(s, Peer(s))
        BY DEF LifeInv
    <3>2. AloneAt(s, Peer(s))'
        BY <2>1, <3>1 DEF Pair, AloneAt, Up, Quiet, Initialising
    <3>3. ColdAt(s, Peer(s))'
        BY <2>1, <3>1 DEF Pair, ColdAt, Cold, Up
    <3>4. Contents(s)' = Contents(s) /\ (Linked(s, Peer(s))' <=> Linked(s, Peer(s)))
        BY <2>1 DEF Contents, Used, Linked, Cold, Up
    <3>5. LinkAt(s, Peer(s))'
        BY <2>1, <3>1, <3>4 DEF Pair, LinkAt, PushGood, PopGood, Up
    <3> QED BY <3>2, <3>3, <3>5 DEF Pair
  <2> QED BY <1>1, <2>2 DEF LifeInv
<1>3. CASE LifeNext
  <2>1. PICK s \in Side :
            \/ InitStep(s)
            \/ FreeBegin(s) \/ Crash(s)
            \/ PushChecked(s) \/ PushCall(s) \/ PushRun(s)
            \/ PopCall(s) \/ PopRun(s)
      BY <1>3 DEF LifeNext
  <2>2. PICK p : p = Peer(s)
      OBVIOUS
  <2>3. Life(s, p)
      BY <2>2, LifeInvPairs
  <2>4. InitStep(s) => Pair(s, p)' /\ Pair(p, s)'
      BY <2>3, StepInitCheck, StepInitMark, StepInitProbe, StepInitZeroWrite,
         StepInitZeroRead, StepInitSyncWrite, StepInitSyncRead, StepInitFill,
         StepInitFillRefused, StepInitDone, StepFreeSentinel, StepFreeIndexes
         DEF InitStep
  <2>5. PushRun(s) => Pair(s, p)' /\ Pair(p, s)'
      BY <2>3, StepPushCopy, StepPushStore DEF PushRun
  <2>6. PopRun(s) => Pair(s, p)' /\ Pair(p, s)'
      BY <2>3, StepPopCopy, StepPopStore DEF PopRun
  <2>7. Pair(s, p)' /\ Pair(p, s)'
      BY <2>1, <2>3, <2>4, <2>5, <2>6, StepStops, StepPushChecked, StepPushCall,
         StepPopCall
  <2> QED BY <1>1, <2>2, <2>7, LifeInvPairs
<1> QED BY <1>2, <1>3

\* Once both sides have initialised the queue they agree on what is in it, after
\* any number of handshakes, retries, releases and crashes of either side, at any
\* step, of a queue of any size (Agreement): as long as a side that starts again
\* finds its peer between calls, and not initialising.
THEOREM AgreementHolds ==
    ASSUME Overlap = {}
    PROVE  LifeSpec => []Agreement
<1>1. LifeInv => Agreement
  <2> SUFFICES ASSUME LifeInv, \A s \in Side : Up(s), NEW s \in Side
               PROVE  Contents(s) = sent[s]
      BY DEF Agreement
  <2>1. LinkAt(s, Peer(s)) /\ Up(s) /\ Up(Peer(s))
      BY PeerSide DEF LifeInv, Pair
  <2> QED BY <2>1 DEF LinkAt, Linked, Up
<1>2. LifeInv /\ [LifeNext]_allVars => LifeInv'
    BY LifeInvStep
<1> QED BY LifeInvInit, <1>1, <1>2, PTL DEF LifeSpec

\* The two memcpy calls of ipc_queue_push and ipc_queue_pop do not meet in a slot
\* while both sides are up, also when one of them has restarted (SlotExclusion).
THEOREM RestartedSlotExclusion ==
    ASSUME Overlap = {}
    PROVE  LifeSpec => []((\A s \in Side : Up(s)) => SlotExclusion)
<1>1. LifeInv => ((\A s \in Side : Up(s)) => SlotExclusion)
  <2> SUFFICES ASSUME LifeInv, \A s \in Side : Up(s), NEW s \in Side,
                      pushPc[s] \in {"loaded", "copying", "copied"},
                      popPc[Peer(s)] \in {"checked", "copying", "copied"}
               PROVE  pushWrite[s] # popRead[Peer(s)]
      BY DEF SlotExclusion
  <2>1. PICK p : p = Peer(s) /\ Life(s, p)
      BY LifeInvPairs
  <2>2. PushGood(s, p) /\ PopGood(p, s)
      BY <2>1, LifeFacts DEF LinkAt, Linked, Up
  <2> QED BY <2>1, <2>2 DEF PushGood, PopGood
<1>2. LifeInv /\ [LifeNext]_allVars => LifeInv'
    BY LifeInvStep
<1> QED BY LifeInvInit, <1>1, <1>2, PTL DEF LifeSpec
=============================================================================
