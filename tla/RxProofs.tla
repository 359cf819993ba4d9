------------------------------ MODULE RxProofs ------------------------------
(***************************************************************************)
(* Theorems about RxPath, for any number of instances, channels and lines, *)
(* shared or not, and any budget.                                          *)
(***************************************************************************)
EXTENDS RxPath, TLAPS

\* Leaves are for Zenon unless they name another prover.
USE ZenonT(120)

\* The calls of ipc_shm_rx.
RxCall == [on : BOOLEAN, chan_id : Nat, chan_budget : Nat, chan_work : Nat, work : Nat,
           more_work : BOOLEAN, msgs : Nat]

\* Every step of the module: with polls and with crashes of the remote.
AnyNext == CrashNext \/ PollNext

\* What is left of a round of ipc_shm_rx, if every channel uses up its share,
\* stays within the bound of BudgetOverrun.
RoundInv ==
    \A i \in Instance :
        LET r == rx[i]
        IN  /\ r.on =>
                  /\ r.chan_id \in Chan(i)
                  /\ r.chan_budget > 0 /\ r.chan_work <= r.chan_budget
                  /\ r.work + (NumChans[i] - r.chan_id) * r.chan_budget
                        < Budget + NumChans[i]
            /\ ~r.on => r.chan_work = 0 /\ r.work < Budget + NumChans[i]

\* Without polls ipc_shm_rx runs in the tasklet, and without crashes there are
\* messages only for an instance that is in use.
TaskletInv ==
    /\ \A i \in Instance : rx[i].on => softirq = 3 * i + 1
    /\ \A ch \in Channel :
          remote[ch] # "idle" \/ pending[ch] > 0 => state[ch[1]] = "READY"

\* LineComesBack with the instance's own turn as the only one that counts.
LineInv ==
    \A i \in Instance :
        Line[i] # IPC_IRQ_NONE /\ state[i] \in {"enabled", "READY"}
        /\ ~enabled[Line[i]] =>
            \/ \E l \in Lines : hardirq[l] # Idle
            \/ scheduled
            \/ softirq # Idle /\ softirq <= 3 * i + 2

RoundIndInv == TypeOK /\ RoundInv

IndInv == RoundIndInv /\ TaskletInv /\ LineInv /\ WakeupPending

-----------------------------------------------------------------------------
(* Constants and positions *)

LEMMA Constants ==
    /\ NumInstances \in Nat \ {0} /\ Budget \in Nat \ {0} /\ QueueCap \in Nat \ {0}
    /\ \A i \in Instance : i \in Nat /\ i < NumInstances
    /\ \A i \in Instance : NumChans[i] \in Nat \ {0}
    /\ \A i \in Instance : Line[i] # IPC_IRQ_NONE => Line[i] \in Lines
BY RxAssumption, SMTT(60) DEF RxAssumption, Instance, Lines

LEMMA ChannelFacts ==
    /\ \A ch \in Channel : ch = <<ch[1], ch[2]>> /\ ch[1] \in Instance /\ ch[2] \in Chan(ch[1])
    /\ \A i \in Instance : \A c \in Chan(i) : <<i, c>> \in Channel
BY SMTT(60) DEF Channel

LEMMA ChanFacts ==
    \A i \in Instance : \A c : c \in Chan(i) <=> c \in Nat /\ c < NumChans[i]
<1> SUFFICES ASSUME NEW i \in Instance, NEW c
             PROVE  c \in Chan(i) <=> c \in Nat /\ c < NumChans[i]
    OBVIOUS
<1> QED BY Constants, SMTT(60) DEF Chan

\* Where the handler of a line and the tasklet are in their loops.
LEMMA HardirqAt ==
    \A p \in 0..(2 * NumInstances - 1) :
        /\ p \div 2 \in Instance
        /\ p % 2 = 0 => p = 2 * (p \div 2)
        /\ p % 2 = 1 => p = 2 * (p \div 2) + 1
BY Constants, SMTT(60) DEF Instance

LEMMA SoftirqAt ==
    \A p \in 0..(3 * NumInstances - 1) :
        /\ p \div 3 \in Instance
        /\ \A k \in 0..2 : p % 3 = k => p = 3 * (p \div 3) + k
BY Constants, SMTT(60) DEF Instance

-----------------------------------------------------------------------------
(* The budget *)

\* A round begins with work below the budget, and ends within the bound even
\* when every channel uses up its share.
LEMMA ShareBound ==
    ASSUME NEW i \in Instance, NEW work \in Nat, work < Budget
    PROVE  /\ ChanBudget(i, work) \in Nat /\ ChanBudget(i, work) > 0
           /\ work + NumChans[i] * ChanBudget(i, work) < Budget + NumChans[i]
<1> DEFINE n == NumChans[i]
           d == Budget - work
           share == d \div n
<1>1. n \in Nat /\ n > 0 /\ d \in Nat /\ Budget \in Nat /\ Budget = work + d /\ d > 0
    BY Constants, SMTT(60)
<1> HIDE DEF n, d
<1>2. share \in Nat /\ n * share <= d
    BY <1>1, Z3
<1> HIDE DEF share
<1>3. CASE share = 0
    BY <1>1, <1>3, SMTT(60) DEF ChanBudget, share, n, d
<1>4. CASE share # 0
  <2>1. ChanBudget(i, work) = share
      BY <1>4 DEF ChanBudget, share, n, d
  <2>2. work + n * share < Budget + n
      BY <1>1, <1>2, SMTT(60)
  <2> QED BY <1>2, <1>4, <2>1, <2>2, SMTT(60) DEF n
<1> QED BY <1>3, <1>4

\* One channel less is left of the round.
LEMMA OneChannelOn ==
    ASSUME NEW n \in Nat, NEW c \in Nat, NEW b \in Nat, c < n
    PROVE  /\ (n - c) * b = (n - (c + 1)) * b + b
           /\ (n - c) * b >= b
           /\ (n - 0) * b = n * b
<1> DEFINE k == n - (c + 1)
<1>1. k \in Nat /\ n - c = k + 1
    BY SMTT(60)
<1> HIDE DEF k
<1>2. (k + 1) * b = k * b + b /\ k * b >= 0
    BY <1>1, Z3
<1> QED BY <1>1, <1>2, SMTT(60) DEF k

LEMMA RoundInit == Init => RoundIndInv
<1> SUFFICES ASSUME Init PROVE RoundIndInv
    OBVIOUS
<1>1. TypeOK
  <2>1. RxOff \in RxCall
      BY DEF RxOff, RxCall
  <2>2. /\ 0 \in 0..QueueCap
        /\ Idle \in Idle..(2 * NumInstances) /\ Idle \in Idle..(3 * NumInstances)
      BY Constants, SMTT(60) DEF Idle
  <2> QED BY <2>1, <2>2 DEF Init, TypeOK, RxCall
<1>2. RoundInv
    BY Constants, SMTT(60) DEF Init, RoundInv, RxOff
<1> QED BY <1>1, <1>2 DEF RoundIndInv

\* A call of ipc_shm_rx begins.
LEMMA RxBegins ==
    ASSUME RoundIndInv, NEW i \in Instance, RxBegin(i)
    PROVE  rx' \in [Instance -> RxCall] /\ RoundInv'
<1> DEFINE b == ChanBudget(i, 0)
           q == [RxOff EXCEPT !.on = (state[i] = "READY"), !.chan_budget = b]
<1>1. /\ b \in Nat /\ b > 0
      /\ 0 + NumChans[i] * b < Budget + NumChans[i]
    BY ShareBound, Constants, SMTT(60)
<1>2. rx' = [rx EXCEPT ![i] = q]
    BY DEF RxBegin
<1> HIDE DEF b
<1>3. /\ q \in RxCall /\ q.chan_id = 0 /\ q.chan_budget = b /\ q.chan_work = 0
      /\ q.work = 0
    BY <1>1 DEF RxOff, RxCall
<1>4. 0 + (NumChans[i] - 0) * b < Budget + NumChans[i]
    BY <1>1, Constants, SMTT(60)
<1>5. 0 \in Chan(i) /\ 0 < Budget + NumChans[i]
    BY Constants, ChanFacts, SMTT(60)
<1> HIDE DEF q
<1>6. rx' \in [Instance -> RxCall]
    BY <1>2, <1>3 DEF RoundIndInv, TypeOK, RxCall
<1>7. RoundInv'
    BY <1>1, <1>2, <1>3, <1>4, <1>5, SMTT(60) DEF RoundIndInv, TypeOK, RoundInv
<1> QED BY <1>6, <1>7

\* A step that leaves the calls of ipc_shm_rx alone leaves their bounds alone.
LEMMA RxKeeps ==
    ASSUME RoundIndInv, UNCHANGED rx
    PROVE  RoundInv'
BY DEF RoundIndInv, RoundInv

\* A call of ipc_shm_rx takes a message.
LEMMA RxTakes ==
    ASSUME RoundIndInv, NEW i \in Instance, RxManaged(i) \/ RxUnmanaged(i)
    PROVE  RoundIndInv'
<1> DEFINE r == rx[i]
           ch == <<i, r.chan_id>>
<1>1. /\ ch \in Channel /\ r.on /\ pending[ch] \in 0..QueueCap /\ pending[ch] > 0
      /\ r.chan_work \in Nat /\ r.chan_budget \in Nat /\ r.msgs \in Nat
    BY ChannelFacts DEF RoundIndInv, RoundInv, TypeOK, RxManaged, RxUnmanaged
<1>2. PICK k \in Nat :
          /\ k <= r.chan_budget
          /\ rx' = [rx EXCEPT ![i].chan_work = k, ![i].msgs = @ + 1]
  <2>1. CASE RxManaged(i)
    <3>1. /\ r.chan_work + 1 \in Nat /\ r.chan_work + 1 <= r.chan_budget
          /\ rx' = [rx EXCEPT ![i].chan_work = r.chan_work + 1, ![i].msgs = @ + 1]
        BY <1>1, <2>1, SMTT(60) DEF RxManaged, TypeOK, RoundIndInv
    <3> QED BY <3>1
  <2>2. CASE RxUnmanaged(i)
    <3>1. r.chan_budget \in Nat /\ r.chan_budget <= r.chan_budget
        BY <1>1, SMTT(60)
    <3>2. rx' = [rx EXCEPT ![i].chan_work = r.chan_budget, ![i].msgs = @ + 1]
        BY <2>2 DEF RxUnmanaged
    <3> QED BY <3>1, <3>2
  <2> QED BY <2>1, <2>2
<1>3. rx' \in [Instance -> RxCall]
    BY <1>2, SMTT(60) DEF RoundIndInv, TypeOK, RxCall
<1>4. RoundInv'
    BY <1>1, <1>2, SMTT(60) DEF RoundIndInv, TypeOK, RoundInv
<1>5. pending' \in [Channel -> 0..QueueCap]
    BY <1>1, Constants, SMTT(60) DEF RoundIndInv, TypeOK, RxManaged, RxUnmanaged
<1>6. TypeOK'
    BY <1>3, <1>5 DEF RoundIndInv, TypeOK, RxCall, RxManaged, RxUnmanaged, hw, poll
<1> QED BY <1>4, <1>6 DEF RoundIndInv

\* A call of ipc_shm_rx goes on to the next channel, to the next round or back.
LEMMA RxGoesOn ==
    ASSUME RoundIndInv, NEW i \in Instance, RxNextChan(i)
    PROVE  RoundIndInv'
<1> DEFINE r == rx[i]
           n == NumChans[i]
           work == r.work + r.chan_work
           more == r.more_work \/ r.chan_work = r.chan_budget
           last == r.chan_id + 1 = n
           again == last /\ work < Budget /\ more
           q == [r EXCEPT !.on = ~last \/ again,
                          !.chan_id = IF last THEN 0 ELSE r.chan_id + 1,
                          !.chan_budget = IF again THEN ChanBudget(i, work)
                                          ELSE r.chan_budget,
                          !.chan_work = 0,
                          !.work = work,
                          !.more_work = more /\ ~last]
<1>1. /\ r \in RxCall
      /\ r.on /\ r.chan_id \in Nat /\ r.chan_id < n /\ r.chan_work <= r.chan_budget
      /\ r.chan_budget > 0
      /\ r.work + (n - r.chan_id) * r.chan_budget < Budget + n
    BY ChanFacts DEF RoundIndInv, RoundInv, TypeOK, RxCall, RxNextChan
<1>2. rx' = [rx EXCEPT ![i] = q]
    BY DEF RxNextChan
<1>3. /\ n \in Nat /\ n > 0 /\ Budget \in Nat /\ work \in Nat
      /\ r.work \in Nat /\ r.chan_work \in Nat /\ r.chan_budget \in Nat
    BY <1>1, Constants, SMTT(60) DEF RxCall
<1>4. /\ (n - r.chan_id) * r.chan_budget = (n - (r.chan_id + 1)) * r.chan_budget + r.chan_budget
      /\ (n - r.chan_id) * r.chan_budget >= r.chan_budget
  <2>1. r.chan_id \in Nat /\ r.chan_id < n /\ r.chan_budget \in Nat /\ n \in Nat
      BY <1>1, <1>3
  <2> HIDE DEF r, n
  <2> QED BY <2>1, OneChannelOn
<1>5. again => /\ ChanBudget(i, work) \in Nat /\ ChanBudget(i, work) > 0
               /\ work + n * ChanBudget(i, work) < Budget + n
    BY <1>3, ShareBound
<1> DEFINE left == (n - (r.chan_id + 1)) * r.chan_budget
<1>6. left \in Int /\ work + left < Budget + n /\ work < Budget + n
  <2>1. left \in Int
      BY <1>1, <1>3, SMTT(60)
  <2>2. r.work + (left + r.chan_budget) < Budget + n /\ left >= 0
      BY <1>1, <1>3, <1>4, <2>1, SMTT(60)
  <2> HIDE DEF left
  <2> QED BY <1>1, <1>3, <2>1, <2>2, SMTT(60)
<1>7. /\ q \in RxCall /\ q.work = work /\ q.chan_work = 0
      /\ q.on <=> ~last \/ again
      /\ q.chan_id = IF last THEN 0 ELSE r.chan_id + 1
      /\ q.chan_budget = IF again THEN ChanBudget(i, work) ELSE r.chan_budget
  <2> HIDE DEF r, n
  <2>1. (IF again THEN ChanBudget(i, work) ELSE r.chan_budget) \in Nat
      BY <1>3, <1>5
  <2>2. (IF last THEN 0 ELSE r.chan_id + 1) \in Nat
      BY <1>1, SMTT(60)
  <2>3. /\ (~last \/ again) \in BOOLEAN /\ (more /\ ~last) \in BOOLEAN
      OBVIOUS
  <2> HIDE DEF again, last, more, work
  <2> QED BY <1>1, <1>3, <2>1, <2>2, <2>3 DEF RxCall
<1> HIDE DEF q
<1>8. q.on => /\ q.chan_id \in Chan(i) /\ q.chan_budget > 0 /\ q.chan_work <= q.chan_budget
              /\ q.work + (n - q.chan_id) * q.chan_budget < Budget + n
  <2>1. CASE ~last
    <3>1. ~again /\ r.chan_id + 1 < n
        BY <1>1, <1>3, <2>1, SMTT(60)
    <3>2. q.chan_id = r.chan_id + 1 /\ q.chan_budget = r.chan_budget
        BY <1>7, <2>1, <3>1
    <3>3. q.chan_id \in Chan(i)
        BY <1>1, <3>1, <3>2, ChanFacts, SMTT(60)
    <3>4. q.work + (n - q.chan_id) * q.chan_budget < Budget + n
        BY <1>6, <1>7, <3>2
    <3> QED BY <1>1, <1>3, <1>7, <3>2, <3>3, <3>4, SMTT(60)
  <2>2. CASE again
    <3>1. q.chan_id = 0 /\ q.chan_budget = ChanBudget(i, work)
        BY <1>7, <2>2
    <3>2. q.chan_id \in Chan(i)
        BY <1>3, <3>1, ChanFacts, SMTT(60)
    <3>3. n - q.chan_id = n
        BY <1>3, <3>1, SMTT(60)
    <3>4. q.work + (n - q.chan_id) * q.chan_budget < Budget + n
        BY <1>5, <1>7, <2>2, <3>1, <3>3
    <3> QED BY <1>5, <1>7, <2>2, <3>1, <3>2, <3>4, SMTT(60)
  <2> QED BY <1>7, <2>1, <2>2
<1>9. RoundInv'
    BY <1>2, <1>6, <1>7, <1>8 DEF RoundIndInv, RoundInv, TypeOK
<1>10. TypeOK'
  <2>1. UNCHANGED <<state, pending, remote, hw, hardirq, scheduled, softirq, poll>>
      BY DEF RxNextChan
  <2>2. rx \in [Instance -> RxCall]
      BY DEF RoundIndInv, TypeOK, RxCall
  <2>3. rx' \in [Instance -> RxCall]
      BY <1>2, <1>7, <2>2
  <2> QED BY <2>1, <2>3 DEF RoundIndInv, TypeOK, RxCall, hw, poll
<1> QED BY <1>9, <1>10 DEF RoundIndInv

LEMMA RoundStep == RoundIndInv /\ [AnyNext]_vars => RoundIndInv'
<1> SUFFICES ASSUME RoundIndInv, [AnyNext]_vars PROVE RoundIndInv'
    OBVIOUS
<1>0. TypeOK
    BY DEF RoundIndInv
<1> USE DEF hw, poll
<1>1. CASE UNCHANGED vars
    BY <1>1, RxKeeps DEF vars, RoundIndInv, TypeOK
<1>2. ASSUME NEW i \in Instance, InitOs(i) \/ InitEnable(i) \/ InitReady(i)
      PROVE  RoundIndInv'
  <2>1. UNCHANGED rx
      BY <1>2 DEF InitOs, InitEnable, InitReady
  <2>2. TypeOK'
      BY <1>0, <1>2 DEF InitOs, InitEnable, InitReady, EnableLine, TypeOK
  <2> QED BY <2>1, <2>2, RxKeeps DEF RoundIndInv
<1>3. ASSUME NEW i \in Instance, Rx(i) PROVE RoundIndInv'
    BY <1>3, RxTakes, RxGoesOn DEF Rx
<1>4. ASSUME NEW ch \in Channel, TxCheck(ch) \/ TxPush(ch) \/ TxNotify(ch)
      PROVE  RoundIndInv'
  <2>1. UNCHANGED rx
      BY <1>4 DEF TxCheck, TxPush, TxNotify
  <2>2. CASE TxPush(ch)
    <3>1. (IF ch \in Unmanaged THEN 1 ELSE pending[ch] + 1) \in 0..QueueCap
        BY <1>0, <2>2, Constants, SMTT(60) DEF TypeOK, TxPush
    <3>2. pending' \in [Channel -> 0..QueueCap]
        BY <1>0, <2>2, <3>1 DEF TypeOK, TxPush
    <3>3. TypeOK'
        BY <1>0, <2>2, <3>2 DEF TypeOK, TxPush
    <3> QED BY <2>1, <3>3, RxKeeps DEF RoundIndInv
  <2>3. CASE TxCheck(ch) \/ TxNotify(ch)
    <3>1. TypeOK'
        BY <1>0, <2>3 DEF TypeOK, TxCheck, TxNotify
    <3> QED BY <2>1, <3>1, RxKeeps DEF RoundIndInv
  <2> QED BY <1>4, <2>2, <2>3
<1>5. ASSUME NEW l \in Lines, Hardirq(l) PROVE RoundIndInv'
  <2>1. UNCHANGED rx
      BY <1>5 DEF Hardirq, HardirqEnter, HardirqDisable, HardirqClear, HardirqExit
  <2>2. hardirq' \in [Lines -> Idle..(2 * NumInstances)]
    <3>1. CASE HardirqEnter(l) \/ HardirqExit(l)
      <4>1. 0 \in Idle..(2 * NumInstances) /\ Idle \in Idle..(2 * NumInstances)
          BY Constants, SMTT(60) DEF Idle
      <4> QED BY <1>0, <3>1, <4>1 DEF TypeOK, HardirqEnter, HardirqExit
    <3>2. CASE HardirqDisable(l)
      <4>1. /\ hardirq[l] + 1 \in Idle..(2 * NumInstances)
            /\ hardirq[l] + 2 \in Idle..(2 * NumInstances)
          BY <3>2, Constants, SMTT(60) DEF HardirqDisable, Idle
      <4> QED BY <1>0, <3>2, <4>1 DEF TypeOK, HardirqDisable
    <3>3. CASE HardirqClear(l)
      <4>1. hardirq[l] + 1 \in Idle..(2 * NumInstances)
          BY <3>3, Constants, SMTT(60) DEF HardirqClear, Idle
      <4> QED BY <1>0, <3>3, <4>1 DEF TypeOK, HardirqClear
    <3> QED BY <1>5, <3>1, <3>2, <3>3 DEF Hardirq
  <2>3. TypeOK'
      BY <1>0, <1>5, <2>2
         DEF TypeOK, Hardirq, HardirqEnter, HardirqDisable, HardirqClear, HardirqExit
  <2> QED BY <2>1, <2>3, RxKeeps DEF RoundIndInv
<1>6. CASE SoftirqEnter \/ SoftirqExit
  <2>1. 0 \in Idle..(3 * NumInstances) /\ Idle \in Idle..(3 * NumInstances)
      BY Constants, SMTT(60) DEF Idle
  <2>2. TypeOK' /\ UNCHANGED rx
      BY <1>0, <1>6, <2>1 DEF TypeOK, SoftirqEnter, SoftirqExit
  <2> QED BY <2>2, RxKeeps DEF RoundIndInv
<1>7. CASE SoftirqRx
  <2> DEFINE i == softirq \div 3
  <2>1. /\ i \in Instance
        /\ softirq + 3 \in Idle..(3 * NumInstances)
        /\ softirq + 1 \in Idle..(3 * NumInstances)
      BY <1>7, SoftirqAt, Constants, SMTT(60) DEF SoftirqRx, Idle
  <2>2. UNCHANGED rx \/ RxBegin(i)
      BY <1>7 DEF SoftirqRx
  <2>3. RoundInv' /\ rx' \in [Instance -> RxCall]
      BY <1>0, <2>1, <2>2, RxKeeps, RxBegins DEF TypeOK, RxCall
  <2>4. softirq' \in Idle..(3 * NumInstances)
      BY <1>7, <2>1 DEF SoftirqRx
  <2>5. TypeOK'
      BY <1>0, <1>7, <2>3, <2>4 DEF TypeOK, RxCall, SoftirqRx
  <2> QED BY <2>3, <2>5 DEF RoundIndInv
<1>8. CASE SoftirqTest \/ SoftirqEnable
  <2>1. softirq' \in Idle..(3 * NumInstances) /\ UNCHANGED rx
      BY <1>8, Constants, SMTT(60) DEF SoftirqTest, SoftirqEnable, Idle
  <2>2. TypeOK'
      BY <1>0, <1>8, <2>1 DEF TypeOK, SoftirqTest, SoftirqEnable, EnableLine
  <2> QED BY <2>1, <2>2, RxKeeps DEF RoundIndInv
<1>9. ASSUME NEW i \in Instance, RemoteCrash(i) \/ RemoteRestart(i) PROVE RoundIndInv'
  <2>1. 0 \in 0..QueueCap
      BY Constants, SMTT(60)
  <2>2. TypeOK' /\ UNCHANGED rx
      BY <1>0, <1>9, <2>1, SMTT(60) DEF TypeOK, RemoteCrash, RemoteRestart
  <2> QED BY <2>2, RxKeeps DEF RoundIndInv
<1>10. ASSUME NEW i \in Instance, PollCall(i) PROVE RoundIndInv'
  <2>1. RoundInv' /\ rx' \in [Instance -> RxCall]
      BY <1>10, RxBegins DEF PollCall
  <2>2. TypeOK'
      BY <1>0, <1>10, <2>1 DEF TypeOK, RxCall, PollCall
  <2> QED BY <2>1, <2>2 DEF RoundIndInv
<1>11. ASSUME NEW i \in Instance, PollReturn(i) PROVE RoundIndInv'
  <2>1. TypeOK' /\ UNCHANGED rx
      BY <1>0, <1>11 DEF TypeOK, PollReturn
  <2> QED BY <2>1, RxKeeps DEF RoundIndInv
<1> QED BY <1>1, <1>2, <1>3, <1>4, <1>5, <1>6, <1>7, <1>8, <1>9, <1>10, <1>11
        DEF AnyNext, CrashNext, PollNext, Next, Softirq

LEMMA OverrunFollows == RoundIndInv => BudgetOverrun
<1> SUFFICES ASSUME RoundIndInv, NEW i \in Instance
             PROVE  rx[i].work + rx[i].chan_work < Budget + NumChans[i]
    BY DEF BudgetOverrun
<1> DEFINE r == rx[i]
           n == NumChans[i]
<1>1. /\ r.work \in Nat /\ r.chan_work \in Nat /\ r.chan_budget \in Nat
      /\ n \in Nat /\ Budget \in Nat
    BY Constants DEF RoundIndInv, TypeOK
<1>2. CASE r.on
  <2>1. /\ r.chan_id \in Nat /\ r.chan_id < n /\ r.chan_work <= r.chan_budget
        /\ r.work + (n - r.chan_id) * r.chan_budget < Budget + n
      BY <1>2, ChanFacts DEF RoundIndInv, RoundInv
  <2> HIDE DEF r, n
  <2>2. /\ (n - r.chan_id) * r.chan_budget >= r.chan_budget
        /\ (n - r.chan_id) * r.chan_budget \in Int
      BY <1>1, <2>1, OneChannelOn, SMTT(60)
  <2>3. r.work + r.chan_work < Budget + n
      BY <1>1, <2>1, <2>2, SMTT(60)
  <2> QED BY <2>3 DEF r, n
<1>3. CASE ~r.on
    BY <1>1, <1>3, SMTT(60) DEF RoundIndInv, RoundInv
<1> QED BY <1>2, <1>3

\* However the tasklet, the pollers and the remote interleave, a call of
\* ipc_shm_rx goes over its budget by less than the number of channels.
THEOREM Overrun == (FairSpec \/ PollSpec) => []BudgetOverrun
<1>1. Init /\ [][AnyNext]_vars => []RoundIndInv
    BY RoundInit, RoundStep, PTL
<1>2. FairSpec => Init /\ [][AnyNext]_vars
  <2>1. [CrashNext]_vars => [AnyNext]_vars
      BY DEF AnyNext
  <2> QED BY <2>1, PTL DEF FairSpec
<1>3. PollSpec => Init /\ [][AnyNext]_vars
  <2>1. [PollNext]_vars => [AnyNext]_vars
      BY DEF AnyNext
  <2> QED BY <2>1, PTL DEF PollSpec
<1> QED BY <1>1, <1>2, <1>3, OverrunFollows, PTL

-----------------------------------------------------------------------------
(* Interrupts and wakeups *)

LEMMA TaskletStep == RoundIndInv /\ TaskletInv /\ [Next]_vars => TaskletInv'
<1> SUFFICES ASSUME RoundIndInv, TaskletInv, [Next]_vars PROVE TaskletInv'
    OBVIOUS
<1>0. TypeOK
    BY DEF RoundIndInv
<1> USE DEF TaskletInv
<1>1. CASE UNCHANGED vars
    BY <1>1 DEF vars
<1>2. ASSUME NEW i \in Instance, InitOs(i) \/ InitEnable(i) \/ InitReady(i)
      PROVE  TaskletInv'
    BY <1>0, <1>2, ChannelFacts DEF TypeOK, InitOs, InitEnable, InitReady
<1>3. ASSUME NEW i \in Instance, RxManaged(i) \/ RxUnmanaged(i) PROVE TaskletInv'
  <2>1. \A ch \in Channel : pending'[ch] > 0 => pending[ch] > 0
      BY <1>0, <1>3 DEF TypeOK, RxManaged, RxUnmanaged
  <2>2. \A j \in Instance : rx'[j].on => rx[j].on
      BY <1>0, <1>3 DEF TypeOK, RxManaged, RxUnmanaged
  <2>3. UNCHANGED <<state, remote, softirq>>
      BY <1>3 DEF RxManaged, RxUnmanaged
  <2> QED BY <2>1, <2>2, <2>3
<1>4. ASSUME NEW i \in Instance, RxNextChan(i) PROVE TaskletInv'
  <2>1. \A j \in Instance : rx'[j].on => rx[j].on
      BY <1>0, <1>4 DEF TypeOK, RxNextChan
  <2> QED BY <1>4, <2>1 DEF RxNextChan
<1>5. ASSUME NEW ch \in Channel, TxCheck(ch) \/ TxPush(ch) \/ TxNotify(ch)
      PROVE  TaskletInv'
    BY <1>0, <1>5 DEF TypeOK, TxCheck, TxPush, TxNotify
<1>6. ASSUME NEW l \in Lines, Hardirq(l) PROVE TaskletInv'
    BY <1>6 DEF Hardirq, HardirqEnter, HardirqDisable, HardirqClear, HardirqExit
<1>7. CASE SoftirqEnter \/ SoftirqExit
  <2>1. \A i \in Instance : ~rx[i].on
      BY <1>7, Constants, SMTT(60) DEF SoftirqEnter, SoftirqExit, Idle
  <2> QED BY <1>7, <2>1 DEF SoftirqEnter, SoftirqExit
<1>8. CASE SoftirqRx
  <2> DEFINE i == softirq \div 3
  <2>1. i \in Instance /\ softirq = 3 * i
      BY <1>8, SoftirqAt, SMTT(60) DEF SoftirqRx
  <2>2. \A j \in Instance : ~rx[j].on
      BY <2>1, Constants, SMTT(60)
  <2>3. CASE UNCHANGED rx
      BY <1>8, <2>2, <2>3 DEF SoftirqRx
  <2>4. CASE softirq' = softirq + 1 /\ RxBegin(i)
    <3>1. \A j \in Instance : j # i => rx'[j] = rx[j]
        BY <1>0, <2>4 DEF TypeOK, RxBegin
    <3> QED BY <1>8, <2>1, <2>2, <2>4, <3>1 DEF SoftirqRx
  <2> QED BY <1>8, <2>3, <2>4 DEF SoftirqRx
<1>9. CASE SoftirqTest \/ SoftirqEnable
  <2> DEFINE i == softirq \div 3
  <2>1. i \in Instance /\ ((softirq = 3 * i + 1 /\ ~rx[i].on) \/ softirq = 3 * i + 2)
      BY <1>9, SoftirqAt, SMTT(60) DEF SoftirqTest, SoftirqEnable
  <2>2. \A j \in Instance : ~rx[j].on
      BY <2>1, Constants, SMTT(60)
  <2> QED BY <1>9, <2>2 DEF SoftirqTest, SoftirqEnable
<1> QED BY <1>1, <1>2, <1>3, <1>4, <1>5, <1>6, <1>7, <1>8, <1>9 DEF Next, Softirq, Rx

\* ipc_hw_irq_enable enables its own line, and disables none.
LEMMA LinesEnabled ==
    ASSUME RoundIndInv, NEW i \in Instance, EnableLine(i)
    PROVE  /\ Line[i] # IPC_IRQ_NONE => enabled'[Line[i]]
           /\ \A j \in Instance : Line[j] # IPC_IRQ_NONE /\ enabled[Line[j]] => enabled'[Line[j]]
BY Constants DEF RoundIndInv, TypeOK, EnableLine

LEMMA LineStep == RoundIndInv /\ LineInv /\ [Next]_vars => LineInv'
<1> SUFFICES ASSUME RoundIndInv, LineInv, [Next]_vars PROVE LineInv'
    OBVIOUS
<1>0. TypeOK
    BY DEF RoundIndInv
<1> USE DEF LineInv
<1>1. CASE UNCHANGED vars
    BY <1>1 DEF vars, hw
<1>2. ASSUME NEW i \in Instance, InitOs(i) \/ InitReady(i) PROVE LineInv'
    BY <1>0, <1>2, SMTT(60) DEF TypeOK, InitOs, InitReady, hw
<1>3. ASSUME NEW i \in Instance, InitEnable(i) PROVE LineInv'
    BY <1>0, <1>3, Constants DEF TypeOK, InitEnable, EnableLine
<1>4. ASSUME NEW i \in Instance, Rx(i) PROVE LineInv'
    BY <1>4, SMTT(60) DEF Rx, RxManaged, RxUnmanaged, RxNextChan, hw
<1>5. ASSUME NEW ch \in Channel, TxCheck(ch) \/ TxPush(ch) \/ TxNotify(ch)
      PROVE  LineInv'
    BY <1>5, SMTT(60) DEF TxCheck, TxPush, TxNotify, hw
<1>6. ASSUME NEW l \in Lines, HardirqEnter(l) \/ HardirqDisable(l) \/ HardirqClear(l)
      PROVE  LineInv'
  <2>1. hardirq'[l] # Idle
      BY <1>0, <1>6, SMTT(60) DEF TypeOK, HardirqEnter, HardirqDisable, HardirqClear, Idle
  <2> QED BY <2>1
<1>7. ASSUME NEW l \in Lines, HardirqExit(l) PROVE LineInv'
    BY <1>7 DEF HardirqExit
<1>8. CASE SoftirqEnter
    BY <1>8, Constants, SMTT(60) DEF SoftirqEnter, hw, Idle
<1>9. CASE SoftirqRx
  <2> DEFINE i == softirq \div 3
  <2>1. i \in Instance /\ softirq = 3 * i
      BY <1>9, SoftirqAt, SMTT(60) DEF SoftirqRx
  <2> HIDE DEF i
  <2>2. softirq' = IF Skipped(i) THEN softirq + 3 ELSE softirq + 1
      BY <1>9 DEF SoftirqRx, i
  <2>3. UNCHANGED <<state, enabled, hardirq, scheduled>>
      BY <1>9 DEF SoftirqRx, hw
  <2> QED BY <2>1, <2>2, <2>3, Constants, SMTT(60) DEF Skipped, Idle
<1>10. CASE SoftirqTest
  <2> DEFINE i == softirq \div 3
  <2>1. i \in Instance /\ softirq = 3 * i + 1
      BY <1>10, SoftirqAt, SMTT(60) DEF SoftirqTest
  <2> HIDE DEF i
  <2>2. /\ softirq' = softirq + 1 /\ UNCHANGED <<state, hardirq>>
        /\ scheduled' = TRUE \/ (EnableLine(i) /\ UNCHANGED scheduled)
      BY <1>10 DEF SoftirqTest, i
  <2>3. CASE scheduled' = TRUE
      BY <2>3
  <2>4. CASE EnableLine(i) /\ UNCHANGED scheduled
      BY <2>1, <2>2, <2>4, LinesEnabled, Constants, SMTT(60) DEF Idle
  <2> QED BY <2>2, <2>3, <2>4
<1>11. CASE SoftirqEnable
  <2> DEFINE i == softirq \div 3
  <2>1. i \in Instance /\ softirq = 3 * i + 2
      BY <1>11, SoftirqAt, SMTT(60) DEF SoftirqEnable
  <2> HIDE DEF i
  <2>2. softirq' = softirq + 1 /\ UNCHANGED <<state, hardirq, scheduled>> /\ EnableLine(i)
      BY <1>11 DEF SoftirqEnable, i
  <2> QED BY <2>1, <2>2, LinesEnabled, Constants, SMTT(60) DEF Idle
<1>12. CASE SoftirqExit
    BY <1>12, Constants, SMTT(60) DEF SoftirqExit, hw, Idle
<1> QED BY <1>1, <1>2, <1>3, <1>4, <1>5, <1>6, <1>7, <1>8, <1>9, <1>10, <1>11, <1>12
        DEF Next, Hardirq, Softirq

\* What follows a message in channel ch, by WakeupPending.
Woken(ch) ==
    \/ remote[ch] = "pushed"
    \/ notified[Line[ch[1]]]
    \/ \E l \in Lines : hardirq[l] # Idle
    \/ scheduled
    \/ softirq # Idle /\ softirq <= 3 * ch[1]
    \/ RxStillSees(ch)

LEMMA WakeupStep ==
    RoundIndInv /\ TaskletInv /\ WakeupPending /\ [Next]_vars => WakeupPending'
<1> SUFFICES ASSUME RoundIndInv, TaskletInv, WakeupPending, [Next]_vars,
                    NEW ch \in Channel, pending'[ch] > 0, Line[ch[1]] # IPC_IRQ_NONE
             PROVE  Woken(ch)'
    BY DEF WakeupPending, Woken
<1>0. /\ TypeOK /\ RoundInv
      /\ ch[1] \in Instance /\ ch[1] \in Nat /\ ch[1] < NumInstances
      /\ ch[2] \in Nat /\ ch[2] < NumChans[ch[1]]
      /\ ch = <<ch[1], ch[2]>> /\ Line[ch[1]] \in Lines
    BY ChannelFacts, ChanFacts, Constants DEF RoundIndInv
<1>a. pending[ch] > 0 => Woken(ch) /\ state[ch[1]] = "READY"
    BY DEF WakeupPending, Woken, TaskletInv
<1> USE DEF Woken
<1>1. CASE UNCHANGED vars
    BY <1>1, <1>a DEF vars, hw, RxStillSees
<1>2. ASSUME NEW i \in Instance, InitOs(i) \/ InitEnable(i) \/ InitReady(i)
      PROVE  Woken(ch)'
    BY <1>2, <1>a, SMTT(60) DEF InitOs, InitEnable, InitReady, hw, RxStillSees
<1>3. ASSUME NEW i \in Instance, RxManaged(i) \/ RxUnmanaged(i) PROVE Woken(ch)'
  <2>1. pending[ch] > 0
      BY <1>0, <1>3 DEF TypeOK, RxManaged, RxUnmanaged
  <2>2. RxStillSees(ch) => RxStillSees(ch)'
    <3> DEFINE r == rx[ch[1]]
    <3>1. /\ rx'[ch[1]].on = r.on /\ rx'[ch[1]].chan_id = r.chan_id
          /\ rx'[ch[1]].more_work = r.more_work /\ rx'[ch[1]].work = r.work
          /\ rx'[ch[1]].chan_budget = r.chan_budget /\ softirq' = softirq
        BY <1>0, <1>3, SMTT(60) DEF TypeOK, RxManaged, RxUnmanaged
    <3>2. r.chan_work = r.chan_budget => rx'[ch[1]].chan_work = r.chan_budget
        BY <1>0, <1>3, SMTT(60) DEF TypeOK, RxManaged, RxUnmanaged
    <3> QED BY <3>1, <3>2 DEF RxStillSees
  <2> QED BY <1>3, <1>a, <2>1, <2>2, SMTT(60) DEF RxManaged, RxUnmanaged, hw
<1>4. ASSUME NEW i \in Instance, RxNextChan(i) PROVE Woken(ch)'
  <2> DEFINE r == rx[i]
             work == r.work + r.chan_work
             more == r.more_work \/ r.chan_work = r.chan_budget
             last == r.chan_id + 1 = NumChans[i]
             again == last /\ work < Budget /\ more
             q == rx'[i]
  <2>1. Woken(ch) /\ pending[ch] > 0
      BY <1>4, <1>a DEF RxNextChan
  <2>2. UNCHANGED <<remote, notified, hardirq, scheduled, softirq, pending>>
      BY <1>4 DEF RxNextChan, hw
  <2>3. CASE ~RxStillSees(ch)
      BY <2>1, <2>2, <2>3
  <2>4. CASE RxStillSees(ch) /\ ch[1] # i
    <3>1. rx'[ch[1]] = rx[ch[1]]
        BY <1>0, <1>4, <2>4 DEF RxNextChan, TypeOK
    <3> QED BY <2>2, <2>4, <3>1 DEF RxStillSees
  <2>5. CASE RxStillSees(ch) /\ ch[1] = i
    <3>1. /\ r.on \in BOOLEAN /\ r.more_work \in BOOLEAN /\ r.on
          /\ r.chan_id \in Nat /\ r.chan_work \in Nat /\ r.work \in Nat
          /\ r.chan_id < NumChans[i] /\ NumChans[i] \in Nat /\ Budget \in Nat
        BY <1>0, <1>4, ChanFacts, Constants DEF TypeOK, RoundInv, RxNextChan
    <3>2. r.chan_work = r.chan_budget \/ pending[<<i, r.chan_id>>] = 0
        BY <1>4 DEF RxNextChan
    <3>3. /\ q.on <=> ~last \/ again
          /\ q.chan_id = IF last THEN 0 ELSE r.chan_id + 1
          /\ q.work = work
          /\ q.more_work <=> more /\ ~last
      <4>1. q = [r EXCEPT !.on = ~last \/ again,
                          !.chan_id = IF last THEN 0 ELSE r.chan_id + 1,
                          !.chan_budget = IF again THEN ChanBudget(i, work)
                                          ELSE r.chan_budget,
                          !.chan_work = 0,
                          !.work = work,
                          !.more_work = more /\ ~last]
          BY <1>0, <1>4 DEF TypeOK, RxNextChan
      <4>2. r \in RxCall
          BY <1>0 DEF TypeOK, RxCall
      <4> HIDE DEF q, r, work, more, last, again
      <4> QED BY <4>1, <4>2 DEF RxCall
    <3>4. softirq = 3 * i + 1
        BY <2>5 DEF RxStillSees
    <3>5. ch[2] > r.chan_id \/ more \/ r.work >= Budget
      <4>1. ch[2] = r.chan_id => r.chan_work = r.chan_budget
          BY <1>0, <2>1, <2>5, <3>2, SMTT(60)
      <4> QED BY <1>0, <2>5, <3>1, <4>1, SMTT(60) DEF RxStillSees
    <3> HIDE DEF q
    <3>6. CASE ~last
      <4>1. q.on /\ (ch[2] >= q.chan_id \/ q.more_work \/ q.work >= Budget)
          BY <1>0, <3>1, <3>3, <3>5, <3>6, SMTT(60)
      <4> QED BY <2>2, <2>5, <3>4, <4>1 DEF RxStillSees, q
    <3>7. CASE last
      <4>1. more \/ r.work >= Budget
          BY <1>0, <2>5, <3>1, <3>5, <3>7, SMTT(60)
      <4>2. (q.on /\ ch[2] >= q.chan_id) \/ q.work >= Budget
          BY <1>0, <3>1, <3>3, <3>7, <4>1, SMTT(60)
      <4> QED BY <2>2, <2>5, <3>4, <4>2 DEF RxStillSees, q
    <3> QED BY <3>6, <3>7
  <2> QED BY <2>3, <2>4, <2>5
<1>5. ASSUME NEW c \in Channel, TxCheck(c) \/ TxPush(c) \/ TxNotify(c)
      PROVE  Woken(ch)'
  <2>1. CASE TxCheck(c)
      BY <1>0, <1>a, <2>1 DEF TypeOK, TxCheck, hw, RxStillSees
  <2>2. CASE TxPush(c)
    <3>1. CASE c = ch
        BY <1>0, <2>2, <3>1 DEF TypeOK, TxPush
    <3>2. CASE c # ch
        BY <1>0, <1>a, <2>2, <3>2 DEF TypeOK, TxPush, hw, RxStillSees
    <3> QED BY <3>1, <3>2
  <2>3. CASE TxNotify(c)
    <3>1. pending[ch] > 0
        BY <2>3 DEF TxNotify
    <3>2. CASE c = ch
        BY <1>0, <2>3, <3>2 DEF TypeOK, TxNotify
    <3>3. CASE c # ch
      <4>1. notified[Line[ch[1]]] => notified'[Line[ch[1]]]
          BY <1>0, <2>3 DEF TypeOK, TxNotify
      <4>2. UNCHANGED <<hardirq, scheduled, softirq, rx>> /\ remote'[ch] = remote[ch]
          BY <1>0, <2>3, <3>3 DEF TypeOK, TxNotify
      <4> QED BY <1>a, <3>1, <4>1, <4>2 DEF RxStillSees
    <3> QED BY <3>2, <3>3
  <2> QED BY <1>5, <2>1, <2>2, <2>3
<1>6. ASSUME NEW l \in Lines, HardirqEnter(l) \/ HardirqDisable(l) \/ HardirqClear(l)
      PROVE  Woken(ch)'
  <2>1. hardirq'[l] # Idle
      BY <1>0, <1>6, SMTT(60) DEF TypeOK, HardirqEnter, HardirqDisable, HardirqClear, Idle
  <2> QED BY <2>1
<1>7. ASSUME NEW l \in Lines, HardirqExit(l) PROVE Woken(ch)'
    BY <1>7 DEF HardirqExit
<1>8. CASE SoftirqEnter
    BY <1>0, <1>8, SMTT(60) DEF SoftirqEnter, Idle
<1>9. CASE SoftirqRx
  <2> DEFINE i == softirq \div 3
  <2>1. i \in Instance /\ i \in Nat /\ softirq = 3 * i
      BY <1>9, SoftirqAt, Constants, SMTT(60) DEF SoftirqRx
  <2> HIDE DEF i
  <2>2. /\ softirq' = IF Skipped(i) THEN softirq + 3 ELSE softirq + 1
        /\ ~Skipped(i) => RxBegin(i)
        /\ UNCHANGED <<pending, remote, notified, hardirq, scheduled>>
      BY <1>9 DEF SoftirqRx, hw, i
  <2>3. CASE i = ch[1]
    <3>1. ~Skipped(i) /\ state[i] = "READY"
        BY <1>a, <2>2, <2>3 DEF Skipped
    <3>2. rx'[i].on /\ rx'[i].chan_id = 0
      <4>1. rx'[i] = [RxOff EXCEPT !.on = (state[i] = "READY"),
                                   !.chan_budget = ChanBudget(i, 0)]
          BY <1>0, <2>1, <2>2, <3>1 DEF TypeOK, RxBegin
      <4> QED BY <3>1, <4>1 DEF RxOff
    <3> QED BY <1>0, <2>1, <2>2, <2>3, <3>1, <3>2, SMTT(60) DEF RxStillSees
  <2>4. CASE i # ch[1]
      BY <1>0, <1>a, <2>1, <2>2, <2>4, SMTT(60) DEF RxStillSees, Idle
  <2> QED BY <2>3, <2>4
<1>10. CASE SoftirqTest
  <2> DEFINE i == softirq \div 3
  <2>1. i \in Instance /\ i \in Nat /\ softirq = 3 * i + 1
      BY <1>10, SoftirqAt, Constants, SMTT(60) DEF SoftirqTest
  <2> HIDE DEF i
  <2>2. /\ softirq' = softirq + 1 /\ ~rx[i].on
        /\ UNCHANGED <<pending, remote, notified, hardirq>>
      BY <1>10 DEF SoftirqTest, i
  <2>3. IF rx[i].work >= Budget THEN scheduled' = TRUE ELSE scheduled' = scheduled
      BY <1>10 DEF SoftirqTest, i
  <2>4. RxStillSees(ch) => scheduled' = TRUE
      BY <1>0, <2>1, <2>2, <2>3, SMTT(60) DEF RxStillSees
  <2> QED BY <1>0, <1>a, <2>1, <2>2, <2>3, <2>4, SMTT(60) DEF Idle
<1>11. CASE SoftirqEnable
  <2> DEFINE i == softirq \div 3
  <2>1. i \in Instance /\ i \in Nat /\ softirq = 3 * i + 2
      BY <1>11, SoftirqAt, Constants, SMTT(60) DEF SoftirqEnable
  <2> HIDE DEF i
  <2>2. softirq' = softirq + 1 /\ UNCHANGED <<pending, remote, notified, hardirq, scheduled>>
      BY <1>11 DEF SoftirqEnable
  <2> QED BY <1>0, <1>a, <2>1, <2>2, SMTT(60) DEF RxStillSees, Idle
<1>12. CASE SoftirqExit
  <2>1. softirq = 3 * NumInstances /\ softirq > 3 * ch[1] + 1
      BY <1>0, <1>12, Constants, SMTT(60) DEF SoftirqExit
  <2>2. ~(softirq <= 3 * ch[1]) /\ ~RxStillSees(ch)
      BY <1>0, <2>1, SMTT(60) DEF RxStillSees, TypeOK, Idle
  <2>3. UNCHANGED <<pending, remote, notified, hardirq, scheduled>>
      BY <1>12 DEF SoftirqExit, hw
  <2> QED BY <1>a, <2>2, <2>3
<1> QED BY <1>1, <1>2, <1>3, <1>4, <1>5, <1>6, <1>7, <1>8, <1>9, <1>10, <1>11, <1>12
        DEF Next, Rx, Hardirq, Softirq

LEMMA Inductive == Spec => []IndInv
<1>1. Init => IndInv
  <2> SUFFICES ASSUME Init PROVE IndInv
      OBVIOUS
  <2>1. TaskletInv /\ LineInv /\ WakeupPending
      BY Constants, SMTT(60) DEF Init, TaskletInv, LineInv, WakeupPending, RxOff
  <2> QED BY <2>1, RoundInit DEF IndInv
<1>2. IndInv /\ [Next]_vars => IndInv'
  <2>1. [Next]_vars => [AnyNext]_vars
      BY DEF AnyNext, CrashNext
  <2> QED BY <2>1, RoundStep, TaskletStep, LineStep, WakeupStep DEF IndInv
<1> QED BY <1>1, <1>2, PTL DEF Spec

\* However the remote, the handlers of all lines and the one tasklet interleave,
\* a message in a channel with an interrupt is going to be looked at: no wakeup
\* is lost between ipc_shm_hardirq, ipc_shm_softirq and ipc_shm_rx.
THEOREM NoLostWakeup == Spec => []WakeupPending
<1>1. IndInv => WakeupPending
    BY DEF IndInv
<1> QED BY <1>1, Inductive, PTL

\* ipc_shm_hardirq disables the lines of all instances; each of them is enabled
\* again by ipc_shm_softirq.
THEOREM NoLostLine == Spec => []LineComesBack
<1>1. IndInv => LineComesBack
    BY DEF IndInv, LineInv, LineComesBack
<1> QED BY <1>1, Inductive, PTL
=============================================================================
