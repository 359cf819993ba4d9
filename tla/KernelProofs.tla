---------------------------- MODULE KernelProofs ----------------------------
(***************************************************************************)
(* Proofs about KernelIrq, for any boards: what the instances of a side    *)
(* hold while calls come, fail and go and the tasklet is at work.          *)
(***************************************************************************)
EXTENDS KernelIrq, TLAPS

\* Leaves are for Zenon unless they name another prover.
USE ZenonT(120)

\* request_irq does not fail for an interrupt that instances share, and only the
\* kernel driver has instances with an interrupt.
FaultsAlone ==
    \A b \in Boards : \A k \in 1..Len(b.cfgs) :
        b.cfgs[k].rx_irq # IPC_IRQ_NONE =>
            /\ b.os = "kernel"
            /\ \A l \in 1..Len(b.cfgs) \ {k} :
                  b.cfgs[l].rx_irq = b.cfgs[k].rx_irq => <<"request_irq", k - 1>> \notin b.faults

\* Where ipc_os_init may be, with its registers mapped or on its way out.
Mapping == {"osInit", "osInitRemote", "osInitIrq"}
InOsInit == Mapping \cup Labels

\* The functions and labels a call may be at.
Places == {"none", "hwInit", "channels", "osFree", "freeAll"} \cup InOsInit

\* A call and the tasklet.
CallType == [at : Places, i : Instance, all : BOOLEAN]

TaskletType == [sched : BOOLEAN, at : 0..4, rx : BOOLEAN, overtaken : BOOLEAN, dead : BOOLEAN]

TypeOK ==
    /\ board \in Boards
    /\ used \subseteq Instance
    /\ state \in [Instance -> BOOLEAN]
    /\ irq_num \in [Instance -> Int]
    /\ call \in CallType
    /\ tasklet \in TaskletType
    /\ mscm \subseteq Instance

\* Where a call is, and what it has done with its instance.
CallInv ==
    /\ call.at = "none" => call = NoCall
    /\ used \subseteq Configured /\ call.i \in Configured
    /\ call.at \in {"hwInit", "osFree"} \cup InOsInit => call.i \notin used
    /\ call.at \in {"channels", "freeAll"} => call.i \in used

\* The instances with OS resources: those in use, and one that ipc_os_free is
\* about to be called for.
Held == {i \in Instance : i \in used \/ At("osFree", i)}

\* An instance holds its state, its registers and its interrupt number together.
HeldInv ==
    /\ \A i \in Instance : state[i] <=> i \in Held
    /\ board.os = "kernel" =>
          /\ used \subseteq mscm
          /\ call.at \in Mapping => call.i \in mscm
          /\ \A i \in Held : irq_num[i] = Line(i)

\* Where ipc_os_init has the local region, and where it has the remote one.
HasLocal == InOsInit \ {"osInit"}
HasRemote == {"osInitIrq", "err_unmap_remote_shm", "err_release_remote_region"}

\* Besides the instances with OS resources only the one that ipc_os_init is called
\* for has regions, and what is behind a pointer that will be used is mapped.
RegionInv ==
    /\ local_region = {i \in Instance : i \in Held \/ (call.at \in HasLocal /\ call.i = i)}
    /\ remote_region = {i \in Instance : i \in Held \/ (call.at \in HasRemote /\ call.i = i)}
    /\ Held \subseteq local_virt_shm \cap remote_virt_shm
    /\ call.at \in {"osInitRemote", "osInitIrq"} => call.i \in local_virt_shm
    /\ call.at = "osInitIrq" => call.i \in remote_virt_shm

\* An instance in use with an interrupt of its own: the interrupt is enabled, or
\* the tasklet still comes to the instance.
Heard(i) ==
    \/ At("channels", i)
    \/ \E j \in Configured \ {i} : Line(j) = Line(i)
    \/ RouteOf(i) \subseteq enabled
    \/ tasklet.sched
    \/ tasklet.at <= i

HeardInv == \A i \in used : Heard(i)

\* What holds on every board.
BaseInv == TypeOK /\ CallInv /\ HeldInv

-----------------------------------------------------------------------------
(* Boards *)

\* What BoardsAssumption says of the board at hand.
LEMMA BoardFacts ==
    ASSUME board \in Boards
    PROVE  /\ board.os \in {"kernel", "xen"}
           /\ board.hw \in {"s32gen1", "s32g3xx", "s32r47", "xen"}
           /\ board.hw = "xen" <=> board.os = "xen"
           /\ Len(board.cfgs) \in 1..4
           /\ 0 \in Configured /\ Configured \subseteq Instance
           /\ \A i \in Configured : Cfg(i).rx_irq \in Nat \cup {IPC_IRQ_NONE}
<1>1. /\ board.os \in {"kernel", "xen"} /\ (board.hw = "xen" <=> board.os = "xen")
      /\ board.hw \in {"s32gen1", "s32g3xx", "s32r47", "xen"}
      /\ Len(board.cfgs) \in 1..4
      /\ \A k \in 1..Len(board.cfgs) : board.cfgs[k].rx_irq \in Nat \cup {IPC_IRQ_NONE}
    BY BoardsAssumption DEF BoardsAssumption, IPC_SHM_MAX_INSTANCES
<1>2. 0 \in Configured /\ Configured \subseteq Instance
  <2>1. \A n \in 1..4 : 0 \in 0..(n - 1) /\ 0..(n - 1) \subseteq 0..3
      BY SMTT(60)
  <2>2. Instance = 0..3
      BY SMTT(60) DEF Instance, IPC_SHM_MAX_INSTANCES
  <2> QED
      BY <1>1, <2>1, <2>2 DEF Configured
<1>3. ASSUME NEW i \in Configured PROVE Cfg(i).rx_irq \in Nat \cup {IPC_IRQ_NONE}
  <2>1. i + 1 \in 1..Len(board.cfgs)
      BY <1>1, <1>3, SMTT(60) DEF Configured
  <2> QED
      BY <1>1, <2>1 DEF Cfg
<1> QED
    BY <1>1, <1>2, <1>3

\* First finds an instance of a set that has one.
LEMMA FirstOf ==
    ASSUME NEW S, S \subseteq Instance, S # {}
    PROVE  First(S) \in S
<1>1. \E j \in S : \A k \in S : j <= k
  <2>1. S \subseteq {0, 1, 2, 3}
      BY SMTT(60) DEF Instance, IPC_SHM_MAX_INSTANCES
  <2>2. CASE 0 \in S
      BY <2>1, <2>2, SMTT(60)
  <2>3. CASE 0 \notin S /\ 1 \in S
      BY <2>1, <2>3, SMTT(60)
  <2>4. CASE S \subseteq {2, 3} /\ 2 \in S
      BY <2>4, SMTT(60)
  <2>5. CASE S = {3}
      BY <2>5, SMTT(60)
  <2> QED
      BY <2>1, <2>2, <2>3, <2>4, <2>5
<1> QED
    BY <1>1 DEF First

\* Interrupt numbers are positive, and tell the Rx interrupts apart.
LEMMA LineFacts ==
    ASSUME board \in Boards, NEW i \in Configured
    PROVE  /\ Line(i) \in Int
           /\ Line(i) # IPC_IRQ_NONE => Line(i) > 0
           /\ Line(i) = IPC_IRQ_NONE => Cfg(i).rx_irq = IPC_IRQ_NONE
           /\ \A j \in Configured : Line(i) = Line(j) => Cfg(i).rx_irq = Cfg(j).rx_irq
    BY BoardFacts, SMTT(60) DEF Line, IPC_IRQ_NONE

\* An interrupt determines its register, and no two have the same.
LEMMA RouteFacts ==
    ASSUME board \in Boards, NEW i \in Configured, NEW j \in Configured
    PROVE  /\ Line(i) = Line(j) => RouteOf(i) = RouteOf(j)
           /\ Line(i) # Line(j) => RouteOf(i) \cap RouteOf(j) = {}
           /\ Line(i) = IPC_IRQ_NONE => RouteOf(i) = {}
           /\ board.os = "xen" => RouteOf(i) = {}
<1>1. /\ Line(i) = Line(j) => Cfg(i).rx_irq = Cfg(j).rx_irq
      /\ Line(i) # Line(j) => Cfg(i).rx_irq # Cfg(j).rx_irq
      /\ Line(i) = IPC_IRQ_NONE => Cfg(i).rx_irq = IPC_IRQ_NONE
      /\ Cfg(i).rx_irq \in Int /\ Cfg(j).rx_irq \in Int
      /\ board.hw \in {"s32gen1", "s32g3xx", "s32r47", "xen"}
      /\ board.os = "xen" => board.hw = "xen"
  <2>1. Cfg(i).rx_irq \in Int /\ Cfg(j).rx_irq \in Int
      BY BoardFacts, SMTT(60) DEF IPC_IRQ_NONE
  <2>2. /\ Line(i) = Line(j) => Cfg(i).rx_irq = Cfg(j).rx_irq
        /\ Line(i) = IPC_IRQ_NONE => Cfg(i).rx_irq = IPC_IRQ_NONE
      BY LineFacts
  <2>3. Line(i) # Line(j) => Cfg(i).rx_irq # Cfg(j).rx_irq
      BY DEF Line
  <2> QED BY <2>1, <2>2, <2>3, BoardFacts
<1>2. CASE board.hw = "s32gen1"
    BY <1>1, <1>2, SMTT(60) DEF RouteOf, Routing, Spi_s32gen1, IPC_IRQ_NONE
<1>3. CASE board.hw = "s32g3xx"
    BY <1>1, <1>3, SMTT(60) DEF RouteOf, Routing, Spi_s32g3xx, IPC_IRQ_NONE
<1>4. CASE board.hw = "s32r47"
    BY <1>1, <1>4, SMTT(60) DEF RouteOf, Routing, IPC_IRQ_NONE
<1>5. CASE board.hw = "xen"
    BY <1>1, <1>5 DEF RouteOf, Routing, IPC_IRQ_NONE
<1> QED
    BY <1>1, <1>2, <1>3, <1>4, <1>5

-----------------------------------------------------------------------------
(* The calls *)

\* The records that a call goes through.
LEMMA CallTypes ==
    /\ NoCall \in CallType
    /\ \A at \in Places, i \in Instance, all \in BOOLEAN :
          [at |-> at, i |-> i, all |-> all] \in CallType
    /\ \A c \in CallType, at \in Places, i \in Instance :
          [c EXCEPT !.at = at, !.i = i] \in CallType
<1>1. 0 \in Instance
    BY SMTT(60) DEF Instance, IPC_SHM_MAX_INSTANCES
<1>2. NoCall \in CallType
    BY <1>1 DEF NoCall, CallType, Places
<1>3. QED
    BY <1>2 DEF CallType

\* ipc_shm_init and ipc_shm_free go on with an instance of the set, or are over.
LEMMA GoOnType ==
    ASSUME call \in CallType, NEW at \in Places, NEW rest, rest \subseteq Instance, GoOn(at, rest)
    PROVE  call' \in CallType /\ (call' = NoCall \/ (call'.at = at /\ call'.i \in rest))
<1>1. CASE call.all /\ rest # {}
  <2>1. First(rest) \in rest /\ First(rest) \in Instance
      BY <1>1, FirstOf
  <2>2. call' = [at |-> at, i |-> First(rest), all |-> TRUE]
      BY <1>1 DEF GoOn
  <2> QED
      BY <2>1, <2>2, CallTypes
<1>2. CASE ~(call.all /\ rest # {})
    BY <1>2, CallTypes DEF GoOn
<1> QED
    BY <1>1, <1>2

\* What the steps of ipc_os_init that do not complete it have in common.
LEMMA OsInitSteps ==
    ASSUME BaseInv, NEW i \in Instance,
           \/ OsInitLocal(i) \/ OsInitRemote(i) \/ OsInitNumber(i) \/ OsInitRequest(i)
           \/ Unwind(i)
    PROVE  /\ UNCHANGED <<board, used, state, handlers, enabled, tasklet>>
           /\ call.at \in InOsInit /\ call.i = i /\ i \in Configured \ used
           /\ call' \in CallType
           /\ \/ call' = NoCall /\ mscm' = mscm \ {i}
              \/ call'.at \in HasLocal /\ call'.i = i /\ mscm' = mscm /\ call.at \in Mapping
           /\ \A j \in Instance \ {i} : irq_num'[j] = irq_num[j]
           /\ irq_num' \in [Instance -> Int]
<1>1. call.at \in InOsInit /\ call.i = i
    BY DEF OsInitLocal, OsInitRemote, OsInitNumber, OsInitRequest, Unwind, At, InOsInit, Mapping
<1>2. i \in Configured \ used /\ board \in Boards /\ call \in CallType
      /\ irq_num \in [Instance -> Int]
    BY <1>1 DEF BaseInv, TypeOK, CallInv
<1>3. ASSUME NEW to \in HasLocal, call' = [call EXCEPT !.at = to, !.i = i]
      PROVE  call' \in CallType /\ call'.at \in HasLocal /\ call'.i = i
    BY <1>2, <1>3, CallTypes DEF CallType, HasLocal, Places
<1>4. /\ UNCHANGED <<board, used, state, handlers, enabled, tasklet>>
      /\ \/ call' = NoCall /\ mscm' = mscm \ {i}
         \/ /\ mscm' = mscm /\ call.at \in Mapping
            /\ \E to \in HasLocal : call' = [call EXCEPT !.at = to, !.i = i]
  <2>1. CASE OsInitLocal(i)
      BY <2>1 DEF OsInitLocal, At, Error, Goto, Return, ipc_hw_free, Mapping, HasLocal,
         InOsInit, Labels
  <2>2. CASE OsInitRemote(i)
      BY <2>2 DEF OsInitRemote, At, Error, Goto, Mapping, HasLocal, InOsInit, Labels
  <2>3. CASE OsInitNumber(i) \/ OsInitRequest(i)
      BY <2>3 DEF OsInitNumber, OsInitRequest, At, Error, Goto, Mapping, HasLocal,
         InOsInit, Labels
  <2>4. CASE Unwind(i)
      BY <2>4 DEF Unwind, ipc_hw_free
  <2> QED
      BY <2>1, <2>2, <2>3, <2>4
<1>5. call' \in CallType
    BY <1>3, <1>4, CallTypes
<1>6. \A j \in Instance \ {i} : irq_num'[j] = irq_num[j]
    BY <1>2 DEF OsInitLocal, OsInitRemote, OsInitNumber, OsInitRequest, Unwind
<1>7. irq_num' \in [Instance -> Int]
  <2>1. Line(i) \in Int
      BY <1>2, LineFacts
  <2> QED
      BY <1>2, <2>1, SMTT(60)
         DEF OsInitLocal, OsInitRemote, OsInitNumber, OsInitRequest, Unwind
<1> QED
    BY <1>1, <1>2, <1>3, <1>4, <1>5, <1>6, <1>7

\* The changes of the tasklet keep its type.
LEMMA TaskletTypes ==
    ASSUME NEW t \in TaskletType
    PROVE  /\ \A b \in BOOLEAN : /\ [t EXCEPT !.sched = b] \in TaskletType
                                 /\ [t EXCEPT !.rx = b] \in TaskletType
                                 /\ [t EXCEPT !.overtaken = b] \in TaskletType
                                 /\ [t EXCEPT !.dead = b] \in TaskletType
           /\ \A n \in 0..4 : [t EXCEPT !.at = n] \in TaskletType
           /\ \A n \in 0..4, b \in BOOLEAN :
                 /\ [t EXCEPT !.sched = b, !.at = n] \in TaskletType
                 /\ [t EXCEPT !.at = n, !.rx = FALSE, !.sched = b] \in TaskletType
    BY DEF TaskletType

\* Every step keeps the types.
LEMMA TypeStep == BaseInv /\ [Next]_vars => TypeOK'
<1> SUFFICES ASSUME BaseInv, [Next]_vars PROVE TypeOK'
    OBVIOUS
<1>0. Configured \subseteq Instance /\ 0 \in Instance /\ Instance = 0..3
    BY BoardFacts, SMTT(60) DEF BaseInv, TypeOK, Instance, IPC_SHM_MAX_INSTANCES
<1>1. /\ "hwInit" \in Places /\ "osInit" \in Places /\ "channels" \in Places
      /\ "osFree" \in Places /\ "freeAll" \in Places
    BY DEF Places, InOsInit, Mapping
<1> USE DEF BaseInv, TypeOK, os
<1>2. CASE UNCHANGED vars
    BY <1>2 DEF vars
<1>3. CASE InitAll
  <2>1. Configured \ used # {} => First(Configured \ used) \in Instance
      BY <1>0, FirstOf
  <2>2. call' \in CallType
      BY <1>1, <1>3, <2>1, CallTypes DEF InitAll
  <2> QED
      BY <1>3, <2>2 DEF InitAll
<1>4. ASSUME NEW i \in Instance, InitInstance(i)
      PROVE  TypeOK'
    BY <1>1, <1>4, CallTypes DEF InitInstance
<1>5. ASSUME NEW i \in Instance, HwInit(i)
      PROVE  TypeOK'
  <2>1. call' = NoCall \/ call' = [call EXCEPT !.at = "osInit", !.i = i]
      BY <1>5 DEF HwInit, Return, Goto
  <2>2. call' \in CallType
    <3>1. call \in CallType /\ "osInit" \in Places
        BY <1>1
    <3>2. [call EXCEPT !.at = "osInit", !.i = i] \in CallType
        BY <3>1, CallTypes
    <3> QED
        BY <2>1, <3>2, CallTypes
  <2>3. mscm' \subseteq Instance
      BY <1>5 DEF HwInit, ipc_os_map_intc
  <2> QED
      BY <1>5, <2>2, <2>3 DEF HwInit
<1>6. ASSUME NEW i \in Instance,
             \/ OsInitLocal(i) \/ OsInitRemote(i) \/ OsInitNumber(i) \/ OsInitRequest(i)
             \/ Unwind(i)
      PROVE  TypeOK'
    BY <1>6, OsInitSteps
<1>7. ASSUME NEW i \in Instance, OsInit(i) \/ XenOsInit(i)
      PROVE  TypeOK'
  <2>1. i \in Configured
      BY <1>7 DEF OsInit, XenOsInit, At, CallInv
  <2>2. Line(i) \in Int
      BY <2>1, LineFacts
  <2>3. OsInitDone(i)
      BY <1>7 DEF OsInit, XenOsInit
  <2>4. call' \in CallType
      BY <1>1, <2>3, CallTypes DEF OsInitDone, Goto
  <2>5. irq_num' \in [Instance -> Int]
      BY <1>7, <2>2, SMTT(60) DEF OsInit, XenOsInit, IPC_IRQ_NONE
  <2> QED
      BY <2>3, <2>4, <2>5 DEF OsInitDone
<1>8. ASSUME NEW i \in Instance, Channels(i)
      PROVE  TypeOK'
  <2>1. CASE GoOn("hwInit", {j \in Configured \ used : j > i}) /\ UNCHANGED used
    <3>1. {j \in Configured \ used : j > i} \subseteq Instance
        BY <1>0
    <3>2. call' \in CallType
        BY <1>1, <2>1, <3>1, GoOnType
    <3> QED
        BY <1>8, <2>1, <3>2 DEF Channels
  <2>2. CASE \E err : ChannelsFail(i, err)
    <3>1. call' \in CallType /\ used' \subseteq used
        BY <1>1, <2>2, CallTypes DEF ChannelsFail
    <3> QED
        BY <1>8, <3>1 DEF Channels
  <2> QED
      BY <1>8, <2>1, <2>2 DEF Channels
<1>9. ASSUME NEW i \in Instance, FreeInstance(i) \/ FreeAll(i)
      PROVE  TypeOK'
  <2>1. call' \in CallType /\ FreeBegin(i)
      BY <1>1, <1>9, CallTypes DEF FreeInstance, FreeAll
  <2> QED
      BY <2>1 DEF FreeBegin
<1>10. ASSUME NEW i \in Instance, OsFree(i) \/ XenOsFree(i)
      PROVE  TypeOK'
  <2>1. OsFreeEnd(i)
      BY <1>10 DEF OsFree, XenOsFree
  <2>2. call' \in CallType
      BY <1>1, <2>1, GoOnType DEF OsFreeEnd
  <2>3. tasklet' \in TaskletType
    <3>1. tasklet' = [tasklet EXCEPT !.overtaken = tasklet.overtaken
                                         \/ (tasklet.rx /\ tasklet.at = i)]
        BY <2>1 DEF OsFreeEnd
    <3>2. (tasklet.overtaken \/ (tasklet.rx /\ tasklet.at = i)) \in BOOLEAN
        OBVIOUS
    <3> QED
        BY <3>1, <3>2, TaskletTypes
  <2>4. state' \in [Instance -> BOOLEAN]
      BY <1>10 DEF OsFree, XenOsFree
  <2>5. irq_num' \in [Instance -> Int]
      BY <1>10, SMTT(60) DEF OsFree, XenOsFree
  <2> QED
      BY <1>10, <2>1, <2>2, <2>3, <2>4, <2>5 DEF OsFreeEnd, ipc_hw_free
<1>11. CASE Interrupts
  <2>1. tasklet.at \in 0..4 /\ (tasklet.at # Idle => tasklet.at + 1 \in 0..4)
      BY SMTT(60) DEF TaskletType, Idle, IPC_SHM_MAX_INSTANCES
  <2>2. tasklet' \in TaskletType
    <3>1. ASSUME NEW i \in Instance, ipc_shm_hardirq(i) PROVE tasklet' \in TaskletType
        BY <3>1, TaskletTypes DEF ipc_shm_hardirq
    <3>2. CASE SoftirqBegin \/ SoftirqFault
      <4>1. \/ tasklet' = [tasklet EXCEPT !.sched = FALSE, !.at = 0]
            \/ tasklet' = [tasklet EXCEPT !.dead = TRUE]
          BY <3>2 DEF SoftirqBegin, SoftirqFault
      <4>2. 0 \in 0..4
          BY SMTT(60)
      <4> QED
          BY <4>1, <4>2, TaskletTypes
    <3>3. CASE SoftirqLook
      <4>1. \/ tasklet' = [tasklet EXCEPT !.rx = TRUE]
            \/ tasklet' = [tasklet EXCEPT !.at = tasklet.at + 1]
          BY <3>3 DEF SoftirqLook
      <4>2. tasklet.at + 1 \in 0..4
          BY <2>1, <3>3 DEF SoftirqLook
      <4> QED
          BY <4>1, <4>2, TaskletTypes
    <3>4. CASE SoftirqEnable
      <4>1. PICK again \in BOOLEAN :
                tasklet' = [tasklet EXCEPT !.at = tasklet.at + 1, !.rx = FALSE,
                                           !.sched = tasklet.sched \/ again]
          BY <3>4 DEF SoftirqEnable
      <4>2. tasklet.at + 1 \in 0..4
          BY <1>0, <3>4, SMTT(60) DEF SoftirqEnable
      <4>3. (tasklet.sched \/ again) \in BOOLEAN
          OBVIOUS
      <4> QED
          BY <4>1, <4>2, <4>3, TaskletTypes
    <3> QED
        BY <1>11, <3>1, <3>2, <3>3, <3>4 DEF Interrupts
  <2>3. UNCHANGED <<board, used, os, mscm, call>>
      BY <1>11 DEF Interrupts, ipc_shm_hardirq, SoftirqBegin, SoftirqLook,
         SoftirqEnable,
         SoftirqFault
  <2> QED
      BY <2>2, <2>3
<1> QED
    BY <1>2, <1>3, <1>4, <1>5, <1>6, <1>7, <1>8, <1>9, <1>10, <1>11 DEF Next,
       Calls

\* The board stays.
LEMMA BoardSame ==
    ASSUME [Next]_vars
    PROVE  board' = board
<1>1. CASE UNCHANGED vars
    BY <1>1 DEF vars
<1>2. ASSUME NEW i \in Instance,
             \/ InitInstance(i) \/ HwInit(i) \/ OsInitLocal(i) \/ OsInitRemote(i)
             \/ OsInitNumber(i) \/ OsInitRequest(i) \/ OsInit(i) \/ XenOsInit(i) \/ Unwind(i)
      PROVE  board' = board
    BY <1>2 DEF InitInstance, HwInit, OsInitLocal, OsInitRemote, OsInitNumber, OsInitRequest,
       OsInit, XenOsInit, OsInitDone, Unwind
<1>3. ASSUME NEW i \in Instance,
             \/ Channels(i) \/ FreeInstance(i) \/ FreeAll(i) \/ OsFree(i) \/ XenOsFree(i)
      PROVE  board' = board
    BY <1>3 DEF Channels, FreeInstance, FreeAll, FreeBegin, OsFree, XenOsFree, OsFreeEnd
<1>4. CASE InitAll \/ Interrupts
    BY <1>4 DEF InitAll, Interrupts, ipc_shm_hardirq, SoftirqBegin, SoftirqLook,
       SoftirqEnable, SoftirqFault
<1> QED
    BY <1>1, <1>2, <1>3, <1>4 DEF Next, Calls

\* Between calls there is no call under way.
LEMMA NoCallFacts ==
    ASSUME BaseInv
    PROVE  /\ NoCall.at = "none" /\ NoCall.i = 0 /\ 0 \in Configured
           /\ call.at = "none" <=> call = NoCall
    BY BoardFacts, SMTT(60) DEF BaseInv, TypeOK, CallInv, NoCall

\* What a call is about once it is gone to a place, and once it is over.
LEMMA CallOf ==
    ASSUME call' \in CallType, BaseInv, board' = board, used' \subseteq Configured,
           \/ call' = NoCall
           \/ /\ call'.at \in {"hwInit", "osFree"} \cup InOsInit
              /\ call'.i \in Configured \ used'
           \/ call'.at \in {"channels", "freeAll"} /\ call'.i \in used'
    PROVE  CallInv'
<1>1. Configured' = Configured /\ NoCall' = NoCall
    BY DEF Configured, NoCall
<1> QED
    BY <1>1, NoCallFacts DEF CallInv, InOsInit, Mapping, Labels

\* Every step keeps a call with an instance that it may be about.
LEMMA CallStep == BaseInv /\ TypeOK' /\ [Next]_vars => CallInv'
<1> SUFFICES ASSUME BaseInv, TypeOK', [Next]_vars PROVE CallInv'
    OBVIOUS
<1>0. /\ Configured \subseteq Instance /\ board' = board
      /\ used \subseteq Configured /\ call \in CallType /\ call' \in CallType
      /\ call.at \in {"hwInit", "osFree"} \cup InOsInit => call.i \in Configured \ used
      /\ call.at \in {"channels", "freeAll"} => call.i \in used
    BY BoardFacts, BoardSame DEF BaseInv, TypeOK, CallInv
<1>1. CASE UNCHANGED vars \/ Interrupts
  <2>1. UNCHANGED <<board, used, call>>
      BY <1>1 DEF vars, os, Interrupts, ipc_shm_hardirq, SoftirqBegin,
         SoftirqLook,
         SoftirqEnable, SoftirqFault
  <2> QED
      BY <2>1 DEF BaseInv, CallInv, NoCall, Configured
<1>2. CASE InitAll
  <2>1. used' = used /\ (Configured \ used # {} => First(Configured \ used) \in Configured \ used)
      BY <1>0, <1>2, FirstOf DEF InitAll
  <2>2. call' = NoCall \/ (call'.at = "hwInit" /\ call'.i \in Configured \ used')
      BY <1>2, <2>1 DEF InitAll
  <2> QED
      BY <1>0, <2>1, <2>2, CallOf
<1>3. ASSUME NEW i \in Instance, InitInstance(i)
      PROVE  CallInv'
  <2>1. used' = used /\ call'.at = "hwInit" /\ call'.i \in Configured \ used'
      BY <1>3 DEF InitInstance
  <2> QED
      BY <1>0, <2>1, CallOf
<1>4. ASSUME NEW i \in Instance, HwInit(i)
      PROVE  CallInv'
  <2>1. used' = used /\ i \in Configured \ used
      BY <1>0, <1>4 DEF HwInit, At
  <2>2. call' = NoCall \/ call' = [call EXCEPT !.at = "osInit", !.i = i]
      BY <1>4 DEF HwInit, Return, Goto
  <2>3. call' = NoCall \/ (call'.at = "osInit" /\ call'.i = i)
      BY <1>0, <2>2 DEF CallType
  <2> QED
      BY <1>0, <2>1, <2>3, CallOf DEF InOsInit, Mapping
<1>5. ASSUME NEW i \in Instance,
             \/ OsInitLocal(i) \/ OsInitRemote(i) \/ OsInitNumber(i) \/ OsInitRequest(i)
             \/ Unwind(i)
      PROVE  CallInv'
  <2>1. /\ used' = used /\ i \in Configured \ used
        /\ call' = NoCall \/ (call'.at \in HasLocal /\ call'.i = i)
      BY <1>5, OsInitSteps
  <2> QED
      BY <1>0, <2>1, CallOf DEF HasLocal
<1>6. ASSUME NEW i \in Instance, OsInit(i) \/ XenOsInit(i)
      PROVE  CallInv'
  <2>1. i \in Configured /\ OsInitDone(i)
      BY <1>0, <1>6 DEF OsInit, XenOsInit, At, InOsInit, Mapping
  <2>2. used' = used \cup {i} /\ call'.at = "channels" /\ call'.i = i
      BY <1>0, <2>1 DEF OsInitDone, Goto, CallType
  <2>3. used' \subseteq Configured /\ call'.i \in used'
      BY <1>0, <2>1, <2>2
  <2> QED
      BY <1>0, <2>2, <2>3, CallOf
<1>7. ASSUME NEW i \in Instance, Channels(i)
      PROVE  CallInv'
  <2>1. i \in used
      BY <1>0, <1>7 DEF Channels, At
  <2>2. CASE GoOn("hwInit", {j \in Configured \ used : j > i}) /\ UNCHANGED used
    <3>1. {j \in Configured \ used : j > i} \subseteq Instance /\ "hwInit" \in Places
        BY <1>0 DEF Places
    <3>2. \/ call' = NoCall
          \/ call'.at = "hwInit" /\ call'.i \in {j \in Configured \ used : j > i}
        BY <1>0, <2>2, <3>1, GoOnType
    <3> QED
        BY <1>0, <2>2, <3>2, CallOf
  <2>3. CASE \E err : ChannelsFail(i, err)
    <3>1. used' = used \ {i} /\ call'.at = "osFree" /\ call'.i = i
        BY <2>3, SMTT(60) DEF ChannelsFail
    <3> QED
        BY <1>0, <2>1, <3>1, CallOf
  <2> QED
      BY <1>7, <2>2, <2>3 DEF Channels
<1>8. ASSUME NEW i \in Instance, FreeInstance(i) \/ FreeAll(i)
      PROVE  CallInv'
  <2>1. i \in used /\ used' = used \ {i} /\ call'.at = "osFree" /\ call'.i = i
      BY <1>8, SMTT(60) DEF FreeInstance, FreeAll, FreeBegin
  <2> QED
      BY <1>0, <2>1, CallOf
<1>9. ASSUME NEW i \in Instance, OsFree(i) \/ XenOsFree(i)
      PROVE  CallInv'
  <2>1. used' = used /\ GoOn("freeAll", used) /\ "freeAll" \in Places
      BY <1>9 DEF OsFree, XenOsFree, OsFreeEnd, Places
  <2>2. used \subseteq Instance
      BY <1>0
  <2>3. call' = NoCall \/ (call'.at = "freeAll" /\ call'.i \in used)
      BY <1>0, <2>1, <2>2, GoOnType
  <2> QED
      BY <1>0, <2>1, <2>3, CallOf
<1> QED
    BY <1>1, <1>2, <1>3, <1>4, <1>5, <1>6, <1>7, <1>8, <1>9 DEF Next, Calls

-----------------------------------------------------------------------------
(* What instances hold *)

\* On the same board interrupts and routing are the same.
LEMMA LineSame ==
    ASSUME board' = board
    PROVE  /\ Configured' = Configured
           /\ \A i : Line(i)' = Line(i) /\ RouteOf(i)' = RouteOf(i)
    BY DEF Configured, Line, RouteOf, Cfg

\* The instances in use and the one about to be freed.
LEMMA HeldIs ==
    ASSUME BaseInv
    PROVE  /\ Held \subseteq Configured
           /\ call.at # "osFree" => Held = used
           /\ call.at = "osFree" => Held = used \cup {call.i} /\ call.i \notin used
    BY DEF BaseInv, TypeOK, CallInv, Held, At, CallType

\* The same after a step.
LEMMA HeldNext ==
    ASSUME TypeOK', CallInv'
    PROVE  /\ call'.at # "osFree" => Held' = used'
           /\ call'.at = "osFree" => Held' = used' \cup {call'.i}
    BY DEF TypeOK, CallInv, Held, At, CallType

\* Every step changes state, registers and interrupt together.
LEMMA HeldStep == BaseInv /\ TypeOK' /\ CallInv' /\ [Next]_vars => HeldInv'
<1> SUFFICES ASSUME BaseInv, TypeOK', CallInv', [Next]_vars PROVE HeldInv'
    OBVIOUS
<1>0. /\ board' = board /\ \A i : Line(i)' = Line(i)
      /\ board.os = "kernel" => board.hw # "xen"
      /\ call \in CallType /\ call' \in CallType
      /\ used \subseteq Instance
      /\ state \in [Instance -> BOOLEAN] /\ irq_num \in [Instance -> Int]
    BY BoardFacts, BoardSame, LineSame DEF BaseInv, TypeOK
<1>1. /\ \A i \in Instance : state[i] <=> i \in Held
      /\ board.os = "kernel" =>
            /\ used \subseteq mscm
            /\ call.at \in Mapping => call.i \in mscm
            /\ \A i \in Held : irq_num[i] = Line(i)
    BY DEF BaseInv, HeldInv
<1>2. CASE UNCHANGED vars \/ Interrupts
  <2>1. UNCHANGED <<board, used, state, irq_num, mscm, call>>
      BY <1>2 DEF vars, os, Interrupts, ipc_shm_hardirq, SoftirqBegin,
         SoftirqLook,
         SoftirqEnable, SoftirqFault
  <2>2. Held' = Held
      BY <2>1 DEF Held, At
  <2> QED
      BY <1>0, <1>1, <2>1, <2>2 DEF HeldInv
<1>3. ASSUME InitAll \/ (\E i \in Instance : InitInstance(i))
      PROVE  HeldInv'
  <2>1. UNCHANGED <<board, used, state, irq_num, mscm>>
      BY <1>3 DEF InitAll, InitInstance, os
  <2>2. call.at = "none" /\ call'.at \in {"none", "hwInit"}
      BY <1>3, NoCallFacts, SMTT(60) DEF InitAll, InitInstance, NoCall
  <2>3. Held' = Held
      BY <2>1, <2>2, HeldIs, HeldNext
  <2> QED
      BY <1>0, <1>1, <2>1, <2>2, <2>3 DEF HeldInv, Mapping
<1>4. ASSUME NEW i \in Instance, HwInit(i)
      PROVE  HeldInv'
  <2>1. UNCHANGED <<board, used, state, irq_num>> /\ At("hwInit", i)
      BY <1>4 DEF HwInit, os
  <2>2. \/ call' = NoCall /\ (mscm' = mscm \/ ipc_os_map_intc(i))
        \/ call' = [call EXCEPT !.at = "osInit", !.i = i] /\ ipc_os_map_intc(i)
      BY <1>4 DEF HwInit, Return, Goto
  <2>3. /\ call'.at = "none" \/ (call'.at = "osInit" /\ call'.i = i)
        /\ mscm \subseteq mscm'
        /\ board.os = "kernel" /\ call'.at = "osInit" => i \in mscm'
      BY <1>0, <2>2, NoCallFacts DEF CallType, ipc_os_map_intc
  <2>4. Held' = Held
      BY <2>1, <2>3, HeldIs, HeldNext DEF At
  <2> QED
      BY <1>0, <1>1, <2>1, <2>3, <2>4 DEF HeldInv, Mapping
<1>5. ASSUME NEW i \in Instance,
             \/ OsInitLocal(i) \/ OsInitRemote(i) \/ OsInitNumber(i) \/ OsInitRequest(i)
             \/ Unwind(i)
      PROVE  HeldInv'
  <2>1. /\ UNCHANGED <<board, used, state>> /\ call.at \in InOsInit /\ i \notin used
        /\ \/ call' = NoCall /\ mscm' = mscm \ {i}
           \/ call'.at \in HasLocal /\ call'.i = i /\ mscm' = mscm /\ call.at \in Mapping
        /\ \A j \in Instance \ {i} : irq_num'[j] = irq_num[j]
        /\ call.i = i
      BY <1>5, OsInitSteps
  <2>2. call'.at # "osFree" /\ call.at # "osFree"
      BY <2>1, NoCallFacts DEF HasLocal, InOsInit, Mapping, Labels
  <2>3. Held = used /\ Held' = Held
      BY <2>1, <2>2, HeldIs, HeldNext
  <2>4. board.os = "kernel" =>
            used \subseteq mscm' /\ (call'.at \in Mapping => call'.i \in mscm')
    <3>1. NoCall.at \notin Mapping
        BY DEF NoCall, Mapping
    <3> QED
        BY <1>1, <2>1, <3>1
  <2> QED
      BY <1>0, <1>1, <2>1, <2>3, <2>4 DEF HeldInv
<1>6. ASSUME NEW i \in Instance, OsInit(i) \/ XenOsInit(i)
      PROVE  HeldInv'
  <2>1. At("osInitIrq", i) /\ OsInitDone(i)
      BY <1>6 DEF OsInit, XenOsInit
  <2>2. /\ used' = used \cup {i} /\ mscm' = mscm
        /\ call'.at = "channels" /\ state' = [state EXCEPT ![i] = TRUE]
      BY <1>0, <2>1 DEF OsInitDone, Goto, CallType
  <2>3. \A j \in Instance \ {i} : irq_num'[j] = irq_num[j]
      BY <1>0, <1>6 DEF OsInit, XenOsInit
  <2>4. board.os = "kernel" => irq_num'[i] = Line(i)
      BY <1>0, <1>6 DEF OsInit, XenOsInit
  <2>5. Held = used /\ Held' = used \cup {i}
      BY <2>1, <2>2, HeldIs, HeldNext DEF At
  <2>6. \A j \in Instance : state'[j] <=> j \in Held'
      BY <1>0, <1>1, <2>2, <2>5
  <2>7. board.os = "kernel" => /\ used' \subseteq mscm'
                               /\ \A j \in Held' : irq_num'[j] = Line(j)
      BY <1>0, <1>1, <2>1, <2>2, <2>3, <2>4, <2>5 DEF At, Mapping
  <2> QED
      BY <1>0, <1>1, <2>2, <2>5, <2>6, <2>7 DEF HeldInv, Mapping
<1>7. ASSUME NEW i \in Instance, Channels(i) \/ FreeInstance(i) \/ FreeAll(i)
      PROVE  HeldInv'
  <2>1. UNCHANGED <<board, state, irq_num, mscm>>
      BY <1>7 DEF Channels, FreeInstance, FreeAll, FreeBegin, os
  <2>2. call.at # "osFree"
      BY <1>7, NoCallFacts DEF Channels, FreeInstance, FreeAll, At
  <2>3. \/ used' = used /\ call'.at \in {"none", "hwInit"}
        \/ used' = used \ {i} /\ i \in used /\ call'.at = "osFree" /\ call'.i = i
    <3>1. CASE FreeInstance(i) \/ FreeAll(i)
        BY <3>1, SMTT(60) DEF FreeInstance, FreeAll, FreeBegin
    <3>2. CASE Channels(i)
      <4>1. i \in used
          BY <3>2 DEF Channels, At, BaseInv, CallInv
      <4>2. CASE \E err : ChannelsFail(i, err)
          BY <4>1, <4>2, SMTT(60) DEF ChannelsFail
      <4>3. CASE GoOn("hwInit", {j \in Configured \ used : j > i}) /\ UNCHANGED used
          BY <4>3, NoCallFacts DEF GoOn
      <4> QED
          BY <3>2, <4>2, <4>3 DEF Channels
    <3> QED
        BY <1>7, <3>1, <3>2
  <2>4. Held' = Held /\ used' \subseteq used /\ call'.at \notin Mapping
      BY <2>2, <2>3, HeldIs, HeldNext DEF Mapping
  <2> QED
      BY <1>0, <1>1, <2>1, <2>4 DEF HeldInv
<1>8. ASSUME NEW i \in Instance, OsFree(i) \/ XenOsFree(i)
      PROVE  HeldInv'
  <2>1. /\ At("osFree", i) /\ OsFreeEnd(i)
        /\ state' = [state EXCEPT ![i] = FALSE]
      BY <1>8 DEF OsFree, XenOsFree
  <2>2. used' = used /\ mscm' = mscm \ {i}
      BY <2>1 DEF OsFreeEnd, ipc_hw_free
  <2>3. call'.at \in {"none", "freeAll"}
      BY <2>1, NoCallFacts DEF OsFreeEnd, GoOn
  <2>4. \A j \in Instance \ {i} : irq_num'[j] = irq_num[j]
      BY <1>0, <1>8 DEF OsFree, XenOsFree
  <2>5. Held = used \cup {i} /\ i \notin used /\ Held' = used
      BY <2>1, <2>2, <2>3, HeldIs, HeldNext DEF At
  <2>6. \A j \in Instance : state'[j] <=> j \in Held'
      BY <1>0, <1>1, <2>1, <2>5
  <2>7. board.os = "kernel" => /\ used' \subseteq mscm'
                               /\ \A j \in Held' : irq_num'[j] = Line(j)
      BY <1>0, <1>1, <2>2, <2>4, <2>5
  <2> QED
      BY <1>0, <1>1, <2>1, <2>3, <2>5, <2>6, <2>7 DEF HeldInv, Mapping
<1> QED
    BY <1>2, <1>3, <1>4, <1>5, <1>6, <1>7, <1>8 DEF Next, Calls

\* The invariant that the others rest on.
LEMMA BaseInductive ==
    /\ Init => BaseInv
    /\ BaseInv /\ [Next]_vars => BaseInv'
<1>1. ASSUME Init PROVE BaseInv
  <2>1. 0 \in Configured /\ 0 \in Instance
      BY <1>1, BoardFacts DEF Init
  <2>2. TypeOK
    <3>1. call \in CallType
        BY <1>1, CallTypes DEF Init
    <3>2. tasklet \in TaskletType
        BY <1>1, SMTT(60) DEF Init, TaskletType, Idle, IPC_SHM_MAX_INSTANCES
    <3> QED
        BY <1>1, <3>1, <3>2, SMTT(60) DEF Init, TypeOK
  <2>3. CallInv
      BY <1>1, <2>1 DEF Init, CallInv, NoCall
  <2>4. HeldInv
      BY <1>1 DEF Init, HeldInv, Held, At, NoCall, Mapping
  <2> QED
      BY <2>2, <2>3, <2>4 DEF BaseInv
<1>2. ASSUME BaseInv, [Next]_vars PROVE BaseInv'
    BY <1>2, TypeStep, CallStep, HeldStep DEF BaseInv
<1> QED
    BY <1>1, <1>2

\* The instances with OS resources are those whose state is enabled.
LEMMA HeldByState ==
    /\ BaseInv => Held = {i \in Instance : state[i]} /\ state \in [Instance -> BOOLEAN]
    /\ BaseInv' => Held' = {i \in Instance : state'[i]}
    BY DEF BaseInv, TypeOK, HeldInv, Held

\* Every step keeps the regions that are to be released, each as often as it was
\* requested.
LEMMA RegionStep == BaseInv /\ BaseInv' /\ RegionInv /\ [Next]_vars => RegionInv'
<1> SUFFICES ASSUME BaseInv, BaseInv', RegionInv, [Next]_vars PROVE RegionInv'
    OBVIOUS
<1>0. call \in CallType /\ call' \in CallType /\ Held \subseteq Instance
    BY DEF BaseInv, TypeOK, Held
<1>1. NoCall.at \notin HasLocal /\ NoCall.at \notin HasRemote /\ NoCall.at # "osInitIrq"
      /\ NoCall.at # "osInitRemote" /\ HasRemote \subseteq HasLocal
      /\ "osInitIrq" \in HasRemote /\ "osInitRemote" \in HasLocal \ HasRemote
    BY DEF NoCall, HasLocal, HasRemote, InOsInit, Mapping, Labels
<1>2. /\ local_region = {i \in Instance : i \in Held \/ (call.at \in HasLocal /\ call.i = i)}
      /\ remote_region = {i \in Instance : i \in Held \/ (call.at \in HasRemote /\ call.i = i)}
      /\ Held \subseteq local_virt_shm \cap remote_virt_shm
      /\ call.at \in {"osInitRemote", "osInitIrq"} => call.i \in local_virt_shm
      /\ call.at = "osInitIrq" => call.i \in remote_virt_shm
    BY DEF RegionInv
<1>3. CASE UNCHANGED vars \/ Interrupts
  <2>1. UNCHANGED <<used, mem, call>>
      BY <1>3 DEF vars, os, Interrupts, ipc_shm_hardirq, SoftirqBegin, SoftirqLook,
         SoftirqEnable, SoftirqFault
  <2>2. Held' = Held
      BY <2>1 DEF Held, At
  <2> QED
      BY <2>1, <2>2 DEF RegionInv, mem
\* Calls begin, go on and end outside ipc_os_init.
<1>4. ASSUME UNCHANGED <<mem, state>>, call.at \notin HasLocal, call'.at \notin HasLocal
      PROVE  RegionInv'
  <2>1. Held' = Held
      BY <1>4, HeldByState
  <2> QED
      BY <1>1, <1>2, <1>4, <2>1 DEF RegionInv, mem
<1>5. ASSUME InitAll \/ (\E i \in Instance : InitInstance(i))
      PROVE  RegionInv'
  <2>1. UNCHANGED <<mem, state>>
      BY <1>5 DEF InitAll, InitInstance, os
  <2>2. call.at = "none" /\ call'.at \in {"none", "hwInit"}
      BY <1>5, NoCallFacts, SMTT(60) DEF InitAll, InitInstance, NoCall
  <2> QED
      BY <1>4, <2>1, <2>2 DEF HasLocal, InOsInit, Mapping, Labels
<1>6. ASSUME NEW i \in Instance, HwInit(i)
      PROVE  RegionInv'
  <2>1. UNCHANGED <<mem, state>> /\ call.at = "hwInit"
      BY <1>6 DEF HwInit, os, At
  <2>2. call' = NoCall \/ call'.at = "osInit"
      BY <1>0, <1>6 DEF HwInit, Return, Goto, CallType
  <2> QED
      BY <1>1, <1>4, <2>1, <2>2 DEF HasLocal, InOsInit, Mapping, Labels
<1>7. ASSUME NEW i \in Instance, Channels(i) \/ FreeInstance(i) \/ FreeAll(i)
      PROVE  RegionInv'
  <2>1. UNCHANGED <<mem, state>>
      BY <1>7 DEF Channels, FreeInstance, FreeAll, FreeBegin, os
  <2>2. call.at \in {"none", "channels", "freeAll"}
      BY <1>7, NoCallFacts DEF Channels, FreeInstance, FreeAll, At
  <2>3. call'.at \in {"none", "hwInit", "osFree"}
    <3>1. CASE FreeInstance(i) \/ FreeAll(i)
        BY <3>1, SMTT(60) DEF FreeInstance, FreeAll
    <3>2. CASE \E err : ChannelsFail(i, err)
        BY <3>2, SMTT(60) DEF ChannelsFail
    <3>3. CASE GoOn("hwInit", {j \in Configured \ used : j > i})
        BY <3>3, NoCallFacts DEF GoOn
    <3> QED
        BY <1>7, <3>1, <3>2, <3>3 DEF Channels
  <2> QED
      BY <1>4, <2>1, <2>2, <2>3 DEF HasLocal, InOsInit, Mapping, Labels
<1>8. ASSUME NEW i \in Instance,
             \/ OsInitLocal(i) \/ OsInitRemote(i) \/ OsInitNumber(i) \/ OsInitRequest(i)
             \/ Unwind(i)
      PROVE  RegionInv'
  <2>1. /\ Held' = Held /\ i \notin Held /\ call.i = i
        /\ call' = NoCall \/ call'.i = i
    <3>1. /\ state' = state /\ i \notin used /\ call.i = i /\ call.at # "osFree"
          /\ call' = NoCall \/ call'.i = i
        BY <1>8, OsInitSteps DEF InOsInit, Mapping, Labels
    <3> QED
        BY <3>1, HeldIs, HeldByState
  <2>2. CASE OsInitLocal(i)
    <3>1. /\ call.at = "osInit" /\ "osInit" \notin HasLocal /\ "osInit" \notin HasRemote
          /\ UNCHANGED <<remote_region, remote_virt_shm>>
        BY <2>2 DEF OsInitLocal, At, HasLocal, HasRemote
    <3>2. \/ call' = NoCall /\ UNCHANGED <<local_region, local_virt_shm>>
          \/ /\ call'.at = "err_release_local_region"
             /\ local_region' = local_region \cup {i} /\ local_virt_shm' = local_virt_shm \ {i}
          \/ /\ call'.at = "osInitRemote"
             /\ local_region' = local_region \cup {i}
             /\ local_virt_shm' = local_virt_shm \cup {i}
        BY <1>0, <2>2 DEF OsInitLocal, Return, Error, Goto, CallType
    <3>3. /\ "err_release_local_region" \in HasLocal \ HasRemote
          /\ "err_release_local_region" \notin {"osInitRemote", "osInitIrq"}
        BY DEF HasLocal, HasRemote, InOsInit, Labels
    <3>4. CASE call' = NoCall
        BY <1>1, <1>2, <2>1, <3>1, <3>2, <3>3, <3>4 DEF RegionInv
    <3>5. CASE call'.at = "err_release_local_region" /\ call' # NoCall
        BY <1>1, <1>2, <2>1, <3>1, <3>2, <3>3, <3>5 DEF RegionInv
    <3>6. CASE call'.at = "osInitRemote" /\ call' # NoCall
        BY <1>1, <1>2, <2>1, <3>1, <3>2, <3>3, <3>6 DEF RegionInv
    <3> QED
        BY <3>2, <3>4, <3>5, <3>6
  <2>3. CASE OsInitRemote(i)
    <3>1. call.at = "osInitRemote" /\ UNCHANGED <<local_region, local_virt_shm>>
        BY <2>3 DEF OsInitRemote, At
    <3>2. \/ call'.at = "err_unmap_local_shm" /\ UNCHANGED <<remote_region, remote_virt_shm>>
          \/ /\ call'.at = "err_release_remote_region"
             /\ remote_region' = remote_region \cup {i}
             /\ remote_virt_shm' = remote_virt_shm \ {i}
          \/ /\ call'.at = "osInitIrq"
             /\ remote_region' = remote_region \cup {i}
             /\ remote_virt_shm' = remote_virt_shm \cup {i}
        BY <1>0, <2>3 DEF OsInitRemote, Error, Goto, CallType
    <3>3. /\ "err_unmap_local_shm" \in HasLocal \ HasRemote
          /\ "err_release_remote_region" \in HasLocal \cap HasRemote
          /\ "err_unmap_local_shm" \notin {"osInitRemote", "osInitIrq"}
          /\ "err_release_remote_region" \notin {"osInitRemote", "osInitIrq"}
        BY DEF HasLocal, HasRemote, InOsInit, Mapping, Labels
    <3>4. call' # NoCall
        BY <1>1, <3>2, <3>3
    <3>5. CASE call'.at = "err_unmap_local_shm"
        BY <1>1, <1>2, <2>1, <3>1, <3>2, <3>3, <3>4, <3>5 DEF RegionInv
    <3>6. CASE call'.at = "err_release_remote_region"
        BY <1>1, <1>2, <2>1, <3>1, <3>2, <3>3, <3>4, <3>6 DEF RegionInv
    <3>7. CASE call'.at = "osInitIrq"
        BY <1>1, <1>2, <2>1, <3>1, <3>2, <3>3, <3>4, <3>7 DEF RegionInv
    <3> QED
        BY <3>2, <3>5, <3>6, <3>7
  <2>4. CASE OsInitNumber(i) \/ OsInitRequest(i)
    <3>1. call.at = "osInitIrq" /\ call'.at = "err_unmap_remote_shm" /\ UNCHANGED mem
        BY <1>0, <2>4 DEF OsInitNumber, OsInitRequest, At, Error, Goto, CallType
    <3>2. /\ "err_unmap_remote_shm" \in HasLocal \cap HasRemote
          /\ "err_unmap_remote_shm" \notin {"osInitRemote", "osInitIrq"}
        BY DEF HasLocal, HasRemote, InOsInit, Labels
    <3>3. call' # NoCall
        BY <1>1, <3>1, <3>2
    <3> QED
        BY <1>1, <1>2, <2>1, <3>1, <3>2, <3>3 DEF RegionInv, mem
  <2>5. CASE Unwind(i)
    <3>1. /\ call.at \in Labels /\ call' = NoCall
          /\ UNCHANGED <<local_virt_shm, remote_virt_shm>>
          /\ local_region' = local_region \ {i}
          /\ remote_region' = IF ReleasesRemote(call.at) THEN remote_region \ {i}
                              ELSE remote_region
        BY <2>5 DEF Unwind
    <3>2. call.at \in HasLocal /\ (ReleasesRemote(call.at) <=> call.at \in HasRemote)
        BY <3>1 DEF Labels, ReleasesRemote, HasLocal, HasRemote, InOsInit
    <3>3. local_region' = Held /\ remote_region' = Held
        BY <1>0, <1>2, <2>1, <3>1, <3>2
    <3> QED
        BY <1>0, <1>1, <1>2, <2>1, <3>1, <3>3 DEF RegionInv
  <2> QED
      BY <1>8, <2>2, <2>3, <2>4, <2>5
<1>9. ASSUME NEW i \in Instance, OsInit(i) \/ XenOsInit(i)
      PROVE  RegionInv'
  <2>1. At("osInitIrq", i) /\ OsInitDone(i)
      BY <1>9 DEF OsInit, XenOsInit
  <2>2. /\ UNCHANGED mem /\ call'.at = "channels" /\ call.at = "osInitIrq" /\ call.i = i
        /\ state' = [state EXCEPT ![i] = TRUE]
      BY <1>0, <2>1 DEF OsInitDone, Goto, CallType, At
  <2>3. Held' = Held \cup {i}
      BY <2>2, HeldByState
  <2>4. /\ "channels" \notin HasLocal
        /\ "channels" \notin {"osInitRemote", "osInitIrq"}
      BY DEF HasLocal, InOsInit, Mapping, Labels
  <2> QED
      BY <1>1, <1>2, <2>2, <2>3, <2>4 DEF RegionInv, mem
<1>10. ASSUME NEW i \in Instance, OsFree(i) \/ XenOsFree(i)
      PROVE  RegionInv'
  <2>1. /\ At("osFree", i) /\ OsFreeEnd(i) /\ OsFreeMemory(i)
        /\ state' = [state EXCEPT ![i] = FALSE]
      BY <1>10 DEF OsFree, XenOsFree
  <2>2. call.at = "osFree" /\ call'.at \in {"none", "freeAll"}
      BY <2>1, NoCallFacts DEF OsFreeEnd, GoOn, At
  <2>3. Held' = Held \ {i}
      BY <2>1, HeldByState
  <2>4. call.at \notin HasLocal /\ call'.at \notin HasLocal
      BY <2>2 DEF HasLocal, InOsInit, Mapping, Labels
  <2> QED
      BY <1>1, <1>2, <2>1, <2>3, <2>4 DEF RegionInv, OsFreeMemory
<1> QED
    BY <1>3, <1>5, <1>6, <1>7, <1>8, <1>9, <1>10 DEF Next, Calls

\* The invariant about the regions rests on the first one only.
LEMMA RegionInductive ==
    /\ Init => RegionInv
    /\ BaseInv /\ RegionInv /\ [Next]_vars => RegionInv'
<1>1. ASSUME Init PROVE RegionInv
    BY <1>1 DEF Init, RegionInv, Held, At, NoCall, HasLocal, HasRemote, InOsInit, Mapping,
       Labels
<1> QED
    BY <1>1, RegionStep, BaseInductive

\* Between calls exactly the instances in use hold both their regions and have
\* their memory and registers mapped (RegionsMatch), whatever the boards, the
\* order of calls, and the step of ipc_os_init that fails.
THEOREM RegionsMatchHolds == Spec => []RegionsMatch
<1>1. BaseInv /\ RegionInv => RegionsMatch
  <2> SUFFICES ASSUME BaseInv, RegionInv, call = NoCall
               PROVE  /\ local_region = used /\ remote_region = used
                      /\ used \subseteq local_virt_shm \cap remote_virt_shm
                      /\ board.os = "kernel" => used \subseteq mscm
      BY DEF RegionsMatch
  <2>1. Held = used /\ used \subseteq Instance
      BY NoCallFacts, HeldIs DEF BaseInv, TypeOK
  <2>2. call.at \notin HasLocal /\ call.at \notin HasRemote
      BY NoCallFacts DEF HasLocal, HasRemote, InOsInit, Mapping, Labels
  <2> QED
      BY <2>1, <2>2 DEF BaseInv, HeldInv, RegionInv
<1> QED
    BY <1>1, BaseInductive, RegionInductive, PTL DEF Spec

-----------------------------------------------------------------------------
(* Interrupts come back *)

\* Disabling the interrupt of instance k does not disable that of another.
LEMMA HeardKeeps ==
    ASSUME board \in Boards, board' = board,
           NEW i \in Configured, NEW k \in Configured, i # k,
           Heard(i), ~At("channels", i), enabled \ RouteOf(k) \subseteq enabled',
           tasklet'.sched = tasklet.sched, tasklet'.at = tasklet.at
    PROVE  Heard(i)'
<1>1. CASE \E j \in Configured \ {i} : Line(j) = Line(i)
    BY <1>1, LineSame DEF Heard
<1>2. CASE Line(k) # Line(i) /\ RouteOf(i) \subseteq enabled
  <2>1. RouteOf(i) \cap RouteOf(k) = {}
      BY <1>2, RouteFacts
  <2>2. RouteOf(i) \subseteq enabled' /\ RouteOf(i)' = RouteOf(i)
      BY <1>2, <2>1, LineSame
  <2> QED
      BY <2>2 DEF Heard
<1>3. CASE tasklet.sched \/ tasklet.at <= i
    BY <1>3 DEF Heard
<1> QED
    BY <1>1, <1>2, <1>3 DEF Heard

\* Enabling interrupts leaves an instance heard.
LEMMA HeardMore ==
    ASSUME board' = board, NEW i, Heard(i), ~At("channels", i), enabled \subseteq enabled',
           tasklet'.sched = tasklet.sched, tasklet'.at = tasklet.at
    PROVE  Heard(i)'
    BY LineSame DEF Heard

\* Every step leaves an instance in use heard, or to be looked at by the tasklet.
LEMMA HeardStep == BaseInv /\ HeardInv /\ BaseInv' /\ [Next]_vars => HeardInv'
<1> SUFFICES ASSUME BaseInv, HeardInv, BaseInv', [Next]_vars, NEW i \in used'
             PROVE  Heard(i)'
    BY DEF HeardInv
<1>0. /\ board' = board /\ board \in Boards /\ tasklet \in TaskletType /\ call \in CallType
      /\ \A j \in used : j \in Configured /\ Heard(j)
      /\ RouteOf(i)' = RouteOf(i) /\ i \in Configured /\ i \in Int
      /\ Configured \subseteq Instance
  <2>1. board' = board /\ board \in Boards
      BY BoardSame DEF BaseInv, TypeOK
  <2>2. Configured' = Configured /\ RouteOf(i)' = RouteOf(i) /\ Configured \subseteq Instance
      BY <2>1, LineSame, BoardFacts
  <2>3. i \in Configured /\ i \in Int
      BY <2>2, SMTT(60) DEF BaseInv, CallInv, Instance, IPC_SHM_MAX_INSTANCES
  <2> QED
      BY <2>1, <2>2, <2>3 DEF BaseInv, TypeOK, CallInv, HeardInv
<1>1. CASE UNCHANGED vars
    BY <1>0, <1>1, LineSame DEF vars, Heard, At
<1>2. ASSUME InitAll \/ (\E k \in Instance : InitInstance(k))
      PROVE  Heard(i)'
  <2>1. UNCHANGED <<used, enabled, tasklet>> /\ call.at = "none"
      BY <1>2, NoCallFacts DEF InitAll, InitInstance
  <2> QED
      BY <1>0, <2>1, HeardMore DEF At
<1>3. ASSUME NEW k \in Instance, HwInit(k)
      PROVE  Heard(i)'
  <2>1. /\ UNCHANGED <<used, tasklet>> /\ enabled \ RouteOf(k) \subseteq enabled'
        /\ At("hwInit", k)
      BY <1>3 DEF HwInit
  <2>2. k \in Configured /\ k \notin used /\ ~At("channels", i)
      BY <2>1 DEF At, BaseInv, CallInv
  <2> QED
      BY <1>0, <2>1, <2>2, HeardKeeps
<1>4. ASSUME NEW k \in Instance,
             \/ OsInitLocal(k) \/ OsInitRemote(k) \/ OsInitNumber(k) \/ OsInitRequest(k)
             \/ Unwind(k)
      PROVE  Heard(i)'
  <2>1. UNCHANGED <<used, enabled, tasklet>> /\ call.at # "channels"
      BY <1>4, OsInitSteps DEF InOsInit, Mapping, Labels
  <2> QED
      BY <1>0, <2>1, HeardMore DEF At
<1>5. ASSUME NEW k \in Instance, OsInit(k) \/ XenOsInit(k)
      PROVE  Heard(i)'
  <2>1. OsInitDone(k) /\ call.at = "osInitIrq"
      BY <1>5 DEF OsInit, XenOsInit, At
  <2>2. /\ UNCHANGED <<enabled, tasklet>> /\ used' = used \cup {k}
        /\ call'.at = "channels" /\ call'.i = k
      BY <1>0, <2>1 DEF OsInitDone, Goto, CallType
  <2>3. CASE i = k
      BY <2>2, <2>3 DEF Heard, At
  <2>4. CASE i \in used
      BY <1>0, <2>1, <2>2, <2>4, HeardMore DEF At
  <2> QED
      BY <2>2, <2>3, <2>4
<1>6. ASSUME NEW k \in Instance, Channels(k)
      PROVE  Heard(i)'
  <2>1. /\ call.at = "channels" /\ call.i = k /\ UNCHANGED tasklet
        /\ \/ enabled' = enabled \cup RouteOf(k) /\ used' = used
           \/ enabled' = enabled /\ used' = used \ {k}
      BY <1>6 DEF Channels, ChannelsFail, At
  <2>2. CASE i = k
      BY <1>0, <2>1, <2>2 DEF Heard
  <2>3. CASE i # k
      BY <1>0, <2>1, <2>3, HeardMore DEF At
  <2> QED
      BY <2>2, <2>3
<1>7. ASSUME NEW k \in Instance, FreeInstance(k) \/ FreeAll(k)
      PROVE  Heard(i)'
  <2>1. /\ used' = used \ {k} /\ enabled' = enabled \ RouteOf(k) /\ UNCHANGED tasklet
        /\ call.at # "channels" /\ k \in used
      BY <1>7, NoCallFacts DEF FreeInstance, FreeAll, FreeBegin, At
  <2> QED
      BY <1>0, <2>1, HeardKeeps DEF At
<1>8. ASSUME NEW k \in Instance, OsFree(k) \/ XenOsFree(k)
      PROVE  Heard(i)'
  <2>1. /\ At("osFree", k) /\ OsFreeEnd(k) /\ enabled \ RouteOf(k) \subseteq enabled'
      BY <1>8 DEF OsFree, XenOsFree
  <2>2. used' = used /\ tasklet'.sched = tasklet.sched /\ tasklet'.at = tasklet.at
      BY <1>0, <2>1 DEF OsFreeEnd, TaskletType
  <2>3. k \in Configured /\ k \notin used /\ ~At("channels", i)
      BY <2>1 DEF At, BaseInv, CallInv
  <2> QED
      BY <1>0, <2>1, <2>2, <2>3, HeardKeeps
<1>9. ASSUME NEW k \in Instance, ipc_shm_hardirq(k)
      PROVE  Heard(i)'
    BY <1>0, <1>9 DEF ipc_shm_hardirq, Heard, TaskletType
<1>10. CASE SoftirqBegin
  <2>1. tasklet'.at = 0
      BY <1>0, <1>10 DEF SoftirqBegin, TaskletType
  <2>2. tasklet'.at <= i
      BY <1>0, <2>1, SMTT(60) DEF Instance, IPC_SHM_MAX_INSTANCES
  <2> QED
      BY <2>2 DEF Heard
<1>11. CASE SoftirqLook
  <2>1. UNCHANGED <<used, call, enabled>> /\ tasklet'.sched = tasklet.sched
      BY <1>0, <1>11 DEF SoftirqLook, TaskletType
  <2>2. CASE At("channels", i)
      BY <2>1, <2>2 DEF Heard, At
  <2>3. CASE tasklet'.at = tasklet.at /\ ~At("channels", i)
      BY <1>0, <2>1, <2>3, HeardMore
  <2>4. CASE tasklet'.at # tasklet.at /\ ~At("channels", i)
    <3>1. ~Listening(tasklet.at) /\ tasklet'.at = tasklet.at + 1 /\ tasklet.at \in Int
        BY <1>0, <1>11, <2>4, SMTT(60) DEF SoftirqLook, TaskletType
    <3>2. CASE tasklet.at = i
      <4>1. i \in used /\ state[i]
          BY <1>0, <2>1, HeldIs DEF BaseInv, HeldInv, Held
      <4>2. irq_num[i] = IPC_IRQ_NONE
          BY <3>1, <3>2, <4>1 DEF Listening
      <4>3. board.os = "kernel" => Line(i) = IPC_IRQ_NONE
          BY <1>0, <4>1, <4>2 DEF BaseInv, HeldInv, Held
      <4>4. RouteOf(i) = {}
          BY <1>0, <4>3, RouteFacts, BoardFacts
      <4> QED
          BY <1>0, <4>4 DEF Heard
    <3>3. CASE tasklet.at # i
      <4>1. tasklet.at <= i => tasklet'.at <= i
          BY <1>0, <3>1, <3>3, SMTT(60)
      <4> QED
          BY <1>0, <2>1, <2>4, <4>1, LineSame DEF Heard
    <3> QED
        BY <3>2, <3>3
  <2> QED
      BY <2>2, <2>3, <2>4
<1>12. CASE SoftirqEnable
  <2>1. /\ UNCHANGED <<used, call>> /\ enabled' = enabled \cup RouteOf(tasklet.at)
        /\ tasklet'.at = tasklet.at + 1 /\ tasklet.at \in Int
        /\ tasklet.sched => tasklet'.sched
      BY <1>0, <1>12, SMTT(60) DEF SoftirqEnable, TaskletType
  <2>2. CASE tasklet.at = i
      BY <1>0, <2>1, <2>2 DEF Heard
  <2>3. CASE tasklet.at # i
    <3>1. tasklet.at <= i => tasklet'.at <= i
        BY <1>0, <2>1, <2>3, SMTT(60)
    <3> QED
        BY <1>0, <2>1, <3>1, LineSame DEF Heard, At
  <2> QED
      BY <2>2, <2>3
<1>13. CASE SoftirqFault
  <2>1. /\ UNCHANGED <<used, call, enabled>> /\ tasklet'.sched = tasklet.sched
        /\ tasklet'.at = tasklet.at
      BY <1>0, <1>13 DEF SoftirqFault, TaskletType
  <2> QED
      BY <1>0, <2>1, LineSame DEF Heard, At
<1> QED
    BY <1>1, <1>2, <1>3, <1>4, <1>5, <1>6, <1>7, <1>8, <1>9, <1>10, <1>11, <1>12, <1>13
       DEF Next, Calls, Interrupts

\* Between calls, with the tasklet idle, an instance in use that shares its
\* interrupt with no other has it enabled (OwnLineHeard), whatever the boards,
\* the faults, and the calls that overtake the tasklet.
THEOREM OwnLineHeardHolds == Spec => []OwnLineHeard
<1>1. Init => HeardInv
    BY DEF Init, HeardInv
<1>2. BaseInv /\ HeardInv => OwnLineHeard
  <2> SUFFICES ASSUME BaseInv, HeardInv, call = NoCall, ~tasklet.sched, tasklet.at = Idle,
                      NEW i \in used
               PROVE  \/ \E j \in Configured \ {i} : Line(j) = Line(i)
                      \/ RouteOf(i) \subseteq enabled
      BY DEF OwnLineHeard
  <2>1. ~At("channels", i)
      BY NoCallFacts DEF At
  <2>2. ~(tasklet.at <= i)
      BY SMTT(60) DEF BaseInv, TypeOK, Idle, Instance, IPC_SHM_MAX_INSTANCES
  <2> QED
      BY <2>1, <2>2 DEF HeardInv, Heard
<1>3. BaseInv /\ HeardInv /\ [Next]_vars => BaseInv' /\ HeardInv'
    BY HeardStep, BaseInductive
<1> QED
    BY <1>1, <1>2, <1>3, BaseInductive, PTL DEF Spec

-----------------------------------------------------------------------------
(* Interrupts and their handlers *)

\* The interrupts of some instances.
Lines(S) == {Line(i) : i \in S} \ {IPC_IRQ_NONE}

\* Exactly the instances that hold OS resources have a handler.  The number that
\* an instance without them was left with is none that another one looks for.
HandlerInv ==
    /\ handlers = Lines(Held)
    /\ board.os = "kernel" =>
          \A j \in Instance \ Held :
              \/ irq_num[j] \in {0, IPC_IRQ_NONE, -2}
              \/ /\ j \in Configured /\ irq_num[j] = Line(j)
                 /\ \A l \in Configured \ {j} : Line(l) # Line(j)

\* What FaultsAlone says of the board at hand.
LEMMA AloneFacts ==
    ASSUME FaultsAlone, board \in Boards, NEW i \in Configured, Line(i) # IPC_IRQ_NONE
    PROVE  /\ board.os = "kernel"
           /\ Fails("request_irq", i) => \A l \in Configured \ {i} : Line(l) # Line(i)
<1>1. Cfg(i).rx_irq # IPC_IRQ_NONE
    BY DEF Line
<1>2. /\ Len(board.cfgs) \in Nat /\ i \in Int
      /\ \A l \in Configured : l \in Int /\ l + 1 \in 1..Len(board.cfgs)
  <2>1. Len(board.cfgs) \in 1..4
      BY BoardFacts
  <2> QED BY <2>1, SMTT(60) DEF Configured
<1>3. i + 1 \in 1..Len(board.cfgs) /\ (i + 1) - 1 = i
    BY <1>2, SMTT(60)
<1>4. /\ board.os = "kernel"
      /\ \A l \in 1..Len(board.cfgs) \ {i + 1} :
            board.cfgs[l].rx_irq = Cfg(i).rx_irq => <<"request_irq", i>> \notin board.faults
  <2>1. /\ board.os = "kernel"
        /\ \A l \in 1..Len(board.cfgs) \ {i + 1} :
              board.cfgs[l].rx_irq = board.cfgs[i + 1].rx_irq
                  => <<"request_irq", (i + 1) - 1>> \notin board.faults
      BY <1>1, <1>3 DEF FaultsAlone, Cfg
  <2> QED
      BY <1>3, <2>1 DEF Cfg
<1>5. ASSUME Fails("request_irq", i), NEW l \in Configured \ {i} PROVE Line(l) # Line(i)
  <2>1. l + 1 \in 1..Len(board.cfgs) \ {i + 1}
      BY <1>2, SMTT(60)
  <2>2. Cfg(l).rx_irq # Cfg(i).rx_irq
      BY <1>4, <1>5, <2>1 DEF Cfg, Fails
  <2> QED
      BY <2>2, LineFacts
<1> QED
    BY <1>4, <1>5

\* An interrupt that another instance is found to have is one with a handler, and
\* the instance holds OS resources.
LEMMA DuplicateHeld ==
    ASSUME BaseInv, HandlerInv, board.os = "kernel",
           NEW i \in Configured, Line(i) # IPC_IRQ_NONE,
           NEW j \in Instance \ {i}, irq_num[j] = Line(i)
    PROVE  j \in Held /\ Line(j) = Line(i)
<1>1. Line(i) \in Int /\ Line(i) > 0
    BY LineFacts DEF BaseInv, TypeOK
<1>2. j \in Held
  <2> SUFFICES ASSUME j \notin Held PROVE FALSE
      OBVIOUS
  <2>1. irq_num[j] \notin {0, IPC_IRQ_NONE, -2}
      BY <1>1, SMTT(60) DEF IPC_IRQ_NONE
  <2>2. irq_num[j] = Line(j) /\ \A l \in Configured \ {j} : Line(l) # Line(j)
      BY <2>1 DEF HandlerInv
  <2> QED
      BY <2>2
<1>3. irq_num[j] = Line(j)
    BY <1>2 DEF BaseInv, HeldInv
<1> QED
    BY <1>2, <1>3

\* Every step requests and frees interrupts along with the instances.
LEMMA HandlerStep ==
    ASSUME FaultsAlone, BaseInv, HandlerInv, BaseInv', [Next]_vars
    PROVE  HandlerInv'
<1>0. /\ board' = board /\ board \in Boards /\ Configured \subseteq Instance
      /\ Configured' = Configured /\ \A i : Line(i)' = Line(i)
      /\ Held \subseteq Configured /\ irq_num \in [Instance -> Int]
      /\ board.os \in {"kernel", "xen"}
    BY BoardSame, BoardFacts, LineSame, HeldIs DEF BaseInv, TypeOK
<1>2. ASSUME UNCHANGED <<handlers, irq_num>>, Held' = Held
      PROVE  HandlerInv'
  <2>1. Lines(Held)' = Lines(Held)
      BY <1>0, <1>2 DEF Lines
  <2> QED
      BY <1>0, <1>2, <2>1 DEF HandlerInv
<1>3. CASE UNCHANGED vars \/ Interrupts
  <2>1. UNCHANGED <<handlers, irq_num, used, call>>
      BY <1>3 DEF vars, os, Interrupts, ipc_shm_hardirq, SoftirqBegin,
         SoftirqLook,
         SoftirqEnable, SoftirqFault
  <2>2. Held' = Held
      BY <2>1 DEF Held, At
  <2> QED
      BY <1>2, <2>1, <2>2
<1>4. ASSUME \/ InitAll
             \/ \E i \in Instance : \/ InitInstance(i) \/ HwInit(i) \/ Channels(i)
                                    \/ FreeInstance(i) \/ FreeAll(i)
      PROVE  HandlerInv'
  <2>1. UNCHANGED <<handlers, irq_num, state>>
      BY <1>4 DEF InitAll, InitInstance, HwInit, Channels, FreeInstance,
         FreeAll, FreeBegin, os
  <2>2. Held' = Held
      BY <2>1, HeldByState
  <2> QED
      BY <1>2, <2>1, <2>2
<1>5. ASSUME NEW i \in Instance,
             \/ OsInitLocal(i) \/ OsInitRemote(i) \/ OsInitNumber(i) \/ OsInitRequest(i)
             \/ Unwind(i)
      PROVE  HandlerInv'
  <2>1. /\ UNCHANGED <<handlers, state>> /\ call.at # "osFree"
        /\ i \in Configured \ used
      BY <1>5, OsInitSteps DEF InOsInit, Mapping, Labels
  <2>2. Held' = Held /\ i \in Configured /\ i \notin Held
      BY <2>1, HeldIs, HeldByState
  <2>3. CASE UNCHANGED irq_num
      BY <1>2, <2>1, <2>2, <2>3
  <2>4. CASE ~UNCHANGED irq_num
    <3>0. OsInitNumber(i) \/ OsInitRequest(i)
        BY <1>5, <2>4 DEF OsInitLocal, OsInitRemote, Unwind
    <3>1. board.os = "kernel" /\ \A j \in Instance \ {i} : irq_num'[j] = irq_num[j]
        BY <1>5, <3>0, OsInitSteps DEF OsInitNumber, OsInitRequest
    <3>2. \/ irq_num'[i] \in {0, -2}
          \/ irq_num'[i] = Line(i) /\ \A l \in Configured \ {i} : Line(l) # Line(i)
      <4>1. CASE OsInitNumber(i)
          BY <1>0, <2>4, <4>1 DEF OsInitNumber
      <4>2. CASE OsInitRequest(i)
        <5>1. /\ irq_num'[i] = Line(i) /\ Line(i) # IPC_IRQ_NONE /\ ~Duplicate(i)
              /\ Fails("request_irq", i) \/ Line(i) \in handlers
            BY <1>0, <4>2 DEF OsInitRequest
        <5>2. Line(i) \notin handlers
          <6> SUFFICES ASSUME Line(i) \in handlers PROVE FALSE
              OBVIOUS
          <6>1. PICK j \in Held : Line(j) = Line(i)
              BY DEF HandlerInv, Lines
          <6>2. irq_num[j] = Line(i) /\ j \in Instance \ {i}
              BY <1>0, <2>2, <3>1, <6>1 DEF BaseInv, HeldInv
          <6> QED
              BY <5>1, <6>2 DEF Duplicate
        <5> QED
            BY <1>0, <2>2, <5>1, <5>2, AloneFacts
      <4> QED
          BY <3>0, <4>1, <4>2
    <3>3. Lines(Held)' = Lines(Held)
        BY <1>0, <2>2 DEF Lines
    <3> QED
        BY <1>0, <2>1, <2>2, <3>1, <3>2, <3>3 DEF HandlerInv
  <2> QED
      BY <2>3, <2>4
<1>6. ASSUME NEW i \in Instance, OsInit(i)
      PROVE  HandlerInv'
  <2>1. /\ At("osInitIrq", i) /\ OsInitDone(i) /\ board.os = "kernel"
        /\ \A j \in Instance \ {i} : irq_num'[j] = irq_num[j]
      BY <1>0, <1>6 DEF OsInit
  <2>2. Held' = Held \cup {i} /\ i \in Configured
    <3>1. state' = [state EXCEPT ![i] = TRUE] /\ i \in Configured
        BY <2>1 DEF OsInitDone, At, BaseInv, CallInv
    <3> QED
        BY <3>1, HeldByState
  <2>3. Lines(Held)' = Lines(Held) \cup ({Line(i)} \ {IPC_IRQ_NONE})
      BY <1>0, <2>2 DEF Lines
  <2>4. handlers' = handlers \cup ({Line(i)} \ {IPC_IRQ_NONE})
    <3>1. CASE Line(i) = IPC_IRQ_NONE
        BY <1>6, <3>1 DEF OsInit
    <3>2. CASE Line(i) # IPC_IRQ_NONE /\ Duplicate(i)
      <4>1. PICK j \in Instance \ {i} : irq_num[j] = Line(i)
          BY <3>2 DEF Duplicate
      <4>2. j \in Held /\ Line(j) = Line(i)
          BY <2>1, <2>2, <3>2, <4>1, DuplicateHeld
      <4>3. Line(i) \in handlers
          BY <3>2, <4>2 DEF HandlerInv, Lines
      <4> QED
          BY <1>6, <3>2, <4>3 DEF OsInit
    <3>3. CASE Line(i) # IPC_IRQ_NONE /\ ~Duplicate(i)
        BY <1>6, <3>3 DEF OsInit
    <3> QED
        BY <3>1, <3>2, <3>3
  <2> QED
      BY <1>0, <2>1, <2>2, <2>3, <2>4 DEF HandlerInv
<1>7. ASSUME NEW i \in Instance, OsFree(i)
      PROVE  HandlerInv'
  <2>1. /\ At("osFree", i) /\ OsFreeEnd(i) /\ board.os = "kernel"
        /\ \A j \in Instance \ {i} : irq_num'[j] = irq_num[j]
        /\ irq_num'[i] \in {0, IPC_IRQ_NONE}
      BY <1>0, <1>7 DEF OsFree
  <2>2. Held' = Held \ {i} /\ i \in Held /\ i \in Configured
    <3>1. state' = [state EXCEPT ![i] = FALSE] /\ i \in Held
        BY <1>7 DEF OsFree, At, Held
    <3> QED
        BY <1>0, <3>1, HeldByState
  <2>3. irq_num[i] = Line(i)
      BY <2>1, <2>2 DEF BaseInv, HeldInv
  <2>4. handlers' = Lines(Held \ {i})
    <3>1. CASE Line(i) = IPC_IRQ_NONE
        BY <1>7, <2>3, <3>1 DEF OsFree, FreesIrq, HandlerInv, Lines
    <3>2. CASE Line(i) # IPC_IRQ_NONE /\ Kept(i)
      <4>1. PICK j \in Instance \ {i} : irq_num[j] = Line(i)
          BY <2>3, <3>2 DEF Kept
      <4>2. j \in Held \ {i} /\ Line(j) = Line(i)
          BY <2>1, <2>2, <3>2, <4>1, DuplicateHeld
      <4>3. handlers' = handlers
          BY <1>7, <2>1, <3>2 DEF OsFree, FreesIrq
      <4> QED
          BY <4>2, <4>3 DEF HandlerInv, Lines
    <3>3. CASE Line(i) # IPC_IRQ_NONE /\ ~Kept(i)
      <4>1. \A j \in Held \ {i} : Line(j) # Line(i)
          BY <1>0, <2>1, <2>3, <3>3 DEF Kept, BaseInv, HeldInv
      <4>2. handlers' = handlers \ {Line(i)}
        <5>1. Line(i) \notin {IPC_IRQ_NONE, 0}
            BY <1>0, <2>2, <3>3, LineFacts, SMTT(60)
        <5> QED
            BY <1>7, <2>1, <2>3, <3>3, <5>1 DEF OsFree, FreesIrq
      <4> QED
          BY <4>1, <4>2, SMTT(60) DEF HandlerInv, Lines
    <3> QED
        BY <3>1, <3>2, <3>3
  <2>5. Lines(Held)' = Lines(Held \ {i})
      BY <1>0, <2>2 DEF Lines
  <2> QED
      BY <1>0, <2>1, <2>2, <2>4, <2>5 DEF HandlerInv
<1>8. ASSUME NEW i \in Instance, XenOsInit(i) \/ XenOsFree(i)
      PROVE  HandlerInv'
  <2>1. handlers' = handlers /\ board.os = "xen"
      BY <1>8 DEF XenOsInit, XenOsFree
  <2>2. \A j \in Configured : Line(j) = IPC_IRQ_NONE
      BY <1>0, <2>1, AloneFacts
  <2>3. Held' \subseteq Configured
      BY <1>0 DEF BaseInv, CallInv, Held, At
  <2>4. Lines(Held) = {} /\ Lines(Held)' = {}
      BY <1>0, <2>2, <2>3 DEF Lines
  <2> QED
      BY <1>0, <2>1, <2>4 DEF HandlerInv
<1> QED
    BY <1>3, <1>4, <1>5, <1>6, <1>7, <1>8 DEF Next, Calls

\* At first no instance holds anything and no interrupt has a handler.
LEMMA HandlerInit == Init => HandlerInv
<1> SUFFICES ASSUME Init PROVE HandlerInv
    OBVIOUS
<1>1. Held = {}
    BY DEF Init, Held, At, NoCall
<1> QED
    BY <1>1 DEF Init, HandlerInv, Lines

\* The tasklet calls ipc_shm_rx for an instance that has an interrupt, and what
\* is routed here has a handler, unless an instance was freed under it.
RouteInv ==
    ~tasklet.overtaken =>
        /\ RoutedHasHandler
        /\ tasklet.rx => tasklet.at \in Held /\ irq_num[tasklet.at] # IPC_IRQ_NONE

\* The registers whose interrupt has a handler.
Covered == UNION {RouteOf(i) : i \in {j \in Configured : Line(j) \in handlers}}

\* The interrupt of an instance with OS resources has a handler.
LEMMA HeldCovered ==
    ASSUME FaultsAlone, BaseInv, HandlerInv, NEW i \in Held
    PROVE  RouteOf(i) \subseteq Covered
<1>1. i \in Configured /\ board \in Boards
    BY HeldIs DEF BaseInv, TypeOK
<1>2. CASE Line(i) = IPC_IRQ_NONE
    BY <1>1, <1>2, RouteFacts
<1>3. CASE Line(i) # IPC_IRQ_NONE
  <2>1. Line(i) \in handlers
      BY <1>3 DEF HandlerInv, Lines
  <2> QED
      BY <1>1, <2>1 DEF Covered
<1> QED
    BY <1>2, <1>3

\* Every step leaves what is routed here with a handler.
LEMMA RouteStep ==
    ASSUME FaultsAlone, BaseInv, HandlerInv, RouteInv, BaseInv', HandlerInv', [Next]_vars
    PROVE  RouteInv'
<1> SUFFICES ASSUME ~tasklet'.overtaken
             PROVE  /\ enabled' \subseteq Covered'
                    /\ tasklet'.rx => tasklet'.at \in Held' /\ irq_num'[tasklet'.at] # IPC_IRQ_NONE
    BY DEF RouteInv, RoutedHasHandler, Covered
<1>0. /\ board' = board /\ board \in Boards /\ Configured' = Configured
      /\ \A i : Line(i)' = Line(i) /\ RouteOf(i)' = RouteOf(i)
      /\ tasklet \in TaskletType /\ Held \subseteq Instance /\ irq_num \in [Instance -> Int]
      /\ Held = {i \in Instance : state[i]} /\ Held' = {i \in Instance : state'[i]}
    BY BoardSame, LineSame, HeldByState DEF BaseInv, TypeOK, Held
<1>1. ASSUME handlers' = handlers PROVE Covered' = Covered
    BY <1>0, <1>1 DEF Covered
<1>2. ASSUME ~tasklet.overtaken
      PROVE  /\ enabled \subseteq Covered
             /\ tasklet.rx => tasklet.at \in Held /\ irq_num[tasklet.at] # IPC_IRQ_NONE
    BY <1>2 DEF RouteInv, RoutedHasHandler, Covered
<1>3. CASE UNCHANGED vars
    BY <1>1, <1>2, <1>3 DEF vars, os, Held, At
<1>4. ASSUME \/ InitAll
             \/ \E i \in Instance : \/ InitInstance(i) \/ HwInit(i)
                                    \/ FreeInstance(i) \/ FreeAll(i)
      PROVE  /\ UNCHANGED <<handlers, irq_num, state, tasklet>> /\ enabled' \subseteq enabled
    BY <1>4 DEF InitAll, InitInstance, HwInit, FreeInstance, FreeAll,
       FreeBegin, os
<1>5. ASSUME UNCHANGED <<handlers, irq_num, state, tasklet>>, enabled' \subseteq enabled
      PROVE  /\ enabled' \subseteq Covered'
             /\ tasklet'.rx => tasklet'.at \in Held' /\ irq_num'[tasklet'.at] # IPC_IRQ_NONE
    BY <1>0, <1>1, <1>2, <1>5
<1>6. ASSUME NEW i \in Instance,
             \/ OsInitLocal(i) \/ OsInitRemote(i) \/ OsInitNumber(i) \/ OsInitRequest(i)
             \/ Unwind(i)
      PROVE  /\ enabled' \subseteq Covered'
             /\ tasklet'.rx => tasklet'.at \in Held' /\ irq_num'[tasklet'.at] # IPC_IRQ_NONE
  <2>1. /\ UNCHANGED <<handlers, state, tasklet, enabled>> /\ call.at # "osFree"
        /\ i \notin used
      BY <1>6, OsInitSteps DEF InOsInit, Mapping, Labels
  <2>2. \A j \in Instance \ {i} : irq_num'[j] = irq_num[j]
      BY <1>6, OsInitSteps
  <2>3. i \notin Held
      BY <2>1, HeldIs
  <2> QED
      BY <1>0, <1>1, <1>2, <2>1, <2>2, <2>3
<1>7. ASSUME NEW i \in Instance, OsInit(i) \/ XenOsInit(i)
      PROVE  /\ enabled' \subseteq Covered'
             /\ tasklet'.rx => tasklet'.at \in Held' /\ irq_num'[tasklet'.at] # IPC_IRQ_NONE
  <2>1. /\ UNCHANGED <<tasklet, enabled>> /\ At("osInitIrq", i) /\ handlers \subseteq handlers'
        /\ Held' = Held \cup {i}
    <3>1. /\ UNCHANGED <<tasklet, enabled>> /\ At("osInitIrq", i)
          /\ handlers \subseteq handlers' /\ state' = [state EXCEPT ![i] = TRUE]
        BY <1>7 DEF OsInit, XenOsInit, OsInitDone
    <3> QED
        BY <3>1, HeldByState
  <2>2. \A j \in Instance \ {i} : irq_num'[j] = irq_num[j]
      BY <1>0, <1>7 DEF OsInit, XenOsInit
  <2>3. i \notin Held
      BY <2>1, HeldIs DEF BaseInv, CallInv, At, InOsInit, Mapping
  <2>4. Covered \subseteq Covered'
      BY <1>0, <2>1 DEF Covered
  <2> QED
      BY <1>0, <1>2, <2>1, <2>2, <2>3, <2>4
<1>8. ASSUME NEW i \in Instance, Channels(i)
      PROVE  /\ enabled' \subseteq Covered'
             /\ tasklet'.rx => tasklet'.at \in Held' /\ irq_num'[tasklet'.at] # IPC_IRQ_NONE
  <2>1. /\ UNCHANGED <<handlers, irq_num, state, tasklet>> /\ At("channels", i)
        /\ enabled' \subseteq enabled \cup RouteOf(i)
      BY <1>8 DEF Channels, ChannelsFail, os
  <2>2. i \in Held
      BY <2>1 DEF BaseInv, CallInv, At, Held
  <2> QED
      BY <1>0, <1>1, <1>2, <2>1, <2>2, HeldCovered
<1>9. ASSUME NEW i \in Instance, OsFree(i) \/ XenOsFree(i)
      PROVE  /\ enabled' \subseteq Covered'
             /\ tasklet'.rx => tasklet'.at \in Held' /\ irq_num'[tasklet'.at] # IPC_IRQ_NONE
  <2>1. /\ At("osFree", i) /\ OsFreeEnd(i) /\ Held' = Held \ {i}
    <3>1. /\ At("osFree", i) /\ OsFreeEnd(i) /\ state' = [state EXCEPT ![i] = FALSE]
        BY <1>9 DEF OsFree, XenOsFree
    <3> QED
        BY <3>1, HeldByState
  <2>2. /\ ~tasklet.overtaken /\ ~(tasklet.rx /\ tasklet.at = i)
        /\ tasklet'.rx = tasklet.rx /\ tasklet'.at = tasklet.at
      BY <1>0, <2>1 DEF OsFreeEnd, TaskletType
  <2>3. \A j \in Instance \ {i} : irq_num'[j] = irq_num[j]
      BY <1>0, <1>9 DEF OsFree, XenOsFree
  <2>4. tasklet'.rx => tasklet'.at \in Held' /\ irq_num'[tasklet'.at] # IPC_IRQ_NONE
      BY <1>0, <1>2, <2>1, <2>2, <2>3
  <2>5. CASE handlers' = handlers
    <3>1. enabled' \subseteq enabled
        BY <1>9 DEF OsFree, XenOsFree
    <3> QED
        BY <1>1, <1>2, <2>2, <2>4, <2>5, <3>1
  <2>6. CASE handlers' # handlers
    <3>1. /\ handlers' = handlers \ {Line(i)} /\ enabled' = enabled \ RouteOf(i)
          /\ i \in Configured
      <4>1. board.os = "kernel" /\ FreesIrq(i) /\ ~Kept(i) /\ OsFree(i)
          BY <1>9, <2>6 DEF OsFree, XenOsFree, FreesIrq
      <4>2. irq_num[i] = Line(i) /\ i \in Configured
          BY <2>1, <4>1, HeldIs DEF BaseInv, HeldInv, Held, At
      <4> QED
          BY <4>1, <4>2 DEF OsFree
    <3>2. ASSUME NEW e \in enabled' PROVE e \in Covered'
      <4>1. PICK j \in Configured : Line(j) \in handlers /\ e \in RouteOf(j)
          BY <1>2, <2>2, <3>1 DEF Covered
      <4>2. Line(j) # Line(i)
          BY <1>0, <3>1, <4>1, RouteFacts
      <4> QED
          BY <1>0, <3>1, <4>1, <4>2 DEF Covered
    <3> QED
        BY <2>4, <3>2
  <2> QED
      BY <2>5, <2>6
<1>10. ASSUME NEW i \in Instance, ipc_shm_hardirq(i)
      PROVE  /\ enabled' \subseteq Covered'
             /\ tasklet'.rx => tasklet'.at \in Held' /\ irq_num'[tasklet'.at] # IPC_IRQ_NONE
  <2>1. /\ UNCHANGED <<handlers, irq_num, state>> /\ enabled' \subseteq enabled
        /\ tasklet'.rx = tasklet.rx /\ tasklet'.at = tasklet.at
        /\ tasklet'.overtaken = tasklet.overtaken
      BY <1>0, <1>10 DEF ipc_shm_hardirq, os, TaskletType
  <2> QED
      BY <1>0, <1>1, <1>2, <2>1
<1>11. CASE SoftirqBegin \/ SoftirqLook \/ SoftirqFault
  <2>1. /\ UNCHANGED <<handlers, irq_num, state, enabled>>
        /\ tasklet'.overtaken = tasklet.overtaken
      BY <1>0, <1>11 DEF SoftirqBegin, SoftirqLook, SoftirqFault, os,
         TaskletType
  <2>2. enabled' \subseteq Covered'
      BY <1>1, <1>2, <2>1
  <2>3. CASE tasklet'.rx /\ ~tasklet.rx
    <3>1. Listening(tasklet.at) /\ tasklet'.at = tasklet.at /\ tasklet.at \in 0..3
      <4>1. SoftirqLook
          BY <1>0, <1>11, <2>3 DEF SoftirqBegin, SoftirqFault, TaskletType
      <4>2. Listening(tasklet.at)
          BY <1>0, <2>3, <4>1 DEF SoftirqLook, TaskletType
      <4>3. tasklet' = [tasklet EXCEPT !.rx = TRUE] /\ tasklet.at # Idle
          BY <4>1, <4>2 DEF SoftirqLook
      <4> QED
          BY <1>0, <4>2, <4>3, SMTT(60) DEF TaskletType, Idle, IPC_SHM_MAX_INSTANCES
    <3>2. tasklet.at \in Held
        BY <3>1, SMTT(60) DEF Listening, BaseInv, HeldInv, Instance, IPC_SHM_MAX_INSTANCES
    <3> QED
        BY <1>0, <2>1, <2>2, <3>1, <3>2 DEF Listening
  <2>4. CASE tasklet.rx /\ tasklet'.at = tasklet.at
      BY <1>0, <1>2, <2>1, <2>2, <2>4
  <2>5. CASE tasklet.rx /\ tasklet'.at # tasklet.at
    <3>1. SoftirqBegin /\ tasklet.at = Idle
        BY <1>0, <1>11, <2>5 DEF SoftirqBegin, SoftirqLook, SoftirqFault, TaskletType
    <3> QED
        BY <1>0, <1>2, <2>1, <2>5, <3>1, SMTT(60) DEF Idle, Instance, IPC_SHM_MAX_INSTANCES
  <2> QED
      BY <2>2, <2>3, <2>4, <2>5
<1>12. CASE SoftirqEnable
  <2>1. /\ UNCHANGED <<handlers, irq_num, state>> /\ ~tasklet'.rx /\ tasklet.rx
        /\ tasklet'.overtaken = tasklet.overtaken
        /\ enabled' = enabled \cup RouteOf(tasklet.at)
      BY <1>0, <1>12 DEF SoftirqEnable, os, TaskletType
  <2>2. RouteOf(tasklet.at) \subseteq Covered
      BY <1>2, <2>1, HeldCovered
  <2> QED
      BY <1>1, <1>2, <2>1, <2>2
<1> QED
    BY <1>3, <1>4, <1>5, <1>6, <1>7, <1>8, <1>9, <1>10, <1>11, <1>12
       DEF Next, Calls, Interrupts

\* What holds on the boards of FaultsAlone.
AloneInv == BaseInv /\ HandlerInv /\ RouteInv

\* The three invariants together are inductive.
LEMMA AloneInductive ==
    ASSUME FaultsAlone
    PROVE  Spec => []AloneInv
<1>1. Init => AloneInv
  <2> SUFFICES ASSUME Init PROVE RouteInv
      BY BaseInductive, HandlerInit DEF AloneInv
  <2> QED
      BY DEF Init, RouteInv, RoutedHasHandler
<1>2. AloneInv /\ [Next]_vars => AloneInv'
    BY BaseInductive, HandlerStep, RouteStep DEF AloneInv
<1> QED
    BY <1>1, <1>2, PTL DEF Spec

\* Between calls the interrupts with a handler are those of the instances in use
\* (HandlersMatch), whatever the boards of FaultsAlone, their other faults and the
\* order of calls.
THEOREM HandlersMatchHolds ==
    ASSUME FaultsAlone
    PROVE  Spec => []HandlersMatch
<1>1. AloneInv => HandlersMatch
    BY NoCallFacts, HeldIs DEF AloneInv, HandlerInv, Lines, HandlersMatch
<1> QED
    BY <1>1, AloneInductive, PTL

\* ipc_os_free gives free_irq only an interrupt that has a handler
\* (FreesRequested).
THEOREM FreesRequestedHolds ==
    ASSUME FaultsAlone
    PROVE  Spec => []FreesRequested
<1>1. AloneInv => FreesRequested
  <2> SUFFICES ASSUME AloneInv, NEW i \in Instance, At("osFree", i), board.os = "kernel",
                      FreesIrq(i)
               PROVE  irq_num[i] \in handlers
      BY DEF FreesRequested
  <2>1. i \in Held /\ irq_num[i] = Line(i) /\ irq_num[i] # IPC_IRQ_NONE
      BY DEF AloneInv, BaseInv, HeldInv, Held, FreesIrq
  <2> QED
      BY <2>1 DEF AloneInv, HandlerInv, Lines
<1> QED
    BY <1>1, AloneInductive, PTL

\* What is routed to this side has a handler (RoutedHasHandler), unless an
\* instance is freed while the tasklet is in ipc_shm_rx for it.
THEOREM RoutedHasHandlerHolds ==
    ASSUME FaultsAlone
    PROVE  Spec => []RoutedHasHandler
<1>1. AloneInv => RoutedHasHandler
    BY DEF AloneInv, RouteInv, RoutedHasHandler
<1> QED
    BY <1>1, AloneInductive, PTL

-----------------------------------------------------------------------------
(* The memory *)

\* Requested regions do not overlap, and an instance stays in use only if its
\* channels could be laid out.
MemoryInv ==
    /\ \A i, j \in local_region : i # j => ~Overlap(Windows(i)[1], Windows(j)[1])
    /\ \A i, j \in remote_region : i # j => ~Overlap(Windows(i)[2], Windows(j)[2])
    /\ \A i \in local_region, j \in remote_region : ~Overlap(Windows(i)[1], Windows(j)[2])
    /\ \A i \in used : At("channels", i) \/ Layouts[Cfg(i)].err = "0"

\* The memory of a configured instance.
LEMMA MemoryFacts ==
    ASSUME board \in Boards, NEW i \in Configured
    PROVE  /\ i + 1 \in 1..Len(board.cfgs)
           /\ Cfg(i).local_shm_addr \in Nat /\ Cfg(i).remote_shm_addr \in Nat
           /\ Cfg(i).shm_size \in Nat
<1>1. /\ Len(board.cfgs) \in 1..4
      /\ \A k \in 1..Len(board.cfgs) :
            /\ board.cfgs[k].local_shm_addr \in Nat /\ board.cfgs[k].remote_shm_addr \in Nat
            /\ board.cfgs[k].shm_size \in Nat
    BY BoardsAssumption DEF BoardsAssumption, IPC_SHM_MAX_INSTANCES
<1>2. i + 1 \in 1..Len(board.cfgs)
    BY <1>1, SMTT(60) DEF Configured
<1> QED
    BY <1>1, <1>2 DEF Cfg

\* A region that request_mem_region gives overlaps none that is held.
LEMMA NotTaken ==
    ASSUME NEW w, ~Taken(w)
    PROVE  /\ \A j \in local_region :
                 ~Overlap(w, Windows(j)[1]) /\ ~Overlap(Windows(j)[1], w)
           /\ \A j \in remote_region :
                 ~Overlap(w, Windows(j)[2]) /\ ~Overlap(Windows(j)[2], w)
<1>1. \A u, v : Overlap(u, v) <=> Overlap(v, u)
    BY DEF Overlap
<1> QED
    BY <1>1 DEF Taken

\* Every step keeps it: only ipc_os_init adds a region, and only
\* ipc_shm_init_channels leaves an instance in use that it was called for.
LEMMA MemoryStep == BaseInv /\ BaseInv' /\ MemoryInv /\ [Next]_vars => MemoryInv'
<1> SUFFICES ASSUME BaseInv, BaseInv', MemoryInv, [Next]_vars PROVE MemoryInv'
    OBVIOUS
<1>0. board' = board
    BY BoardSame DEF BaseInv
<1>1. \A i : Windows(i)' = Windows(i)
    BY <1>0 DEF Windows, Cfg
<1>2. \A i : Cfg(i)' = Cfg(i)
    BY <1>0 DEF Cfg
<1>3. CASE UNCHANGED vars \/ Interrupts
  <2>1. UNCHANGED <<used, local_region, remote_region, call>>
      BY <1>3 DEF vars, os, mem, Interrupts, ipc_shm_hardirq, SoftirqBegin,
         SoftirqLook, SoftirqEnable, SoftirqFault
  <2> QED
      BY <1>1, <1>2, <2>1 DEF MemoryInv, At, Overlap
<1>4. CASE /\ local_region' \subseteq local_region /\ remote_region' \subseteq remote_region
           /\ used' \subseteq used /\ call.at # "channels"
    BY <1>1, <1>2, <1>4 DEF MemoryInv, At, Overlap
<1>5. CASE InitAll \/ \E i \in Instance : InitInstance(i) \/ HwInit(i)
  <2>1. UNCHANGED <<used, local_region, remote_region>>
      BY <1>5 DEF InitAll, InitInstance, HwInit, os, mem
  <2>2. call.at # "channels"
      BY <1>5, NoCallFacts DEF InitAll, InitInstance, HwInit, At
  <2> QED
      BY <1>4, <2>1, <2>2
<1>6. CASE \E i \in Instance : OsInitNumber(i) \/ OsInitRequest(i) \/ Unwind(i)
  <2>1. /\ local_region' \subseteq local_region /\ remote_region' \subseteq remote_region
        /\ used' = used /\ call.at # "channels"
      BY <1>6 DEF OsInitNumber, OsInitRequest, Unwind, At, Labels, mem
  <2> QED
      BY <1>4, <2>1
<1>7. ASSUME NEW i \in Instance, OsInitLocal(i)
      PROVE  MemoryInv'
  <2>1. /\ UNCHANGED <<used, remote_region>> /\ call.at = "osInit"
        /\ \/ UNCHANGED local_region
           \/ local_region' = local_region \cup {i} /\ ~Taken(Windows(i)[1])
      BY <1>7 DEF OsInitLocal, At
  <2>2. CASE UNCHANGED local_region
      BY <1>4, <2>1, <2>2
  <2>3. CASE local_region' = local_region \cup {i} /\ ~Taken(Windows(i)[1])
    <3>1. /\ \A j \in local_region : /\ ~Overlap(Windows(i)[1], Windows(j)[1])
                                     /\ ~Overlap(Windows(j)[1], Windows(i)[1])
          /\ \A j \in remote_region : ~Overlap(Windows(i)[1], Windows(j)[2])
        BY <2>3, NotTaken
    <3> QED
        BY <1>1, <1>2, <2>1, <2>3, <3>1 DEF MemoryInv, At, Overlap
  <2> QED
      BY <2>1, <2>2, <2>3
<1>8. ASSUME NEW i \in Instance, OsInitRemote(i)
      PROVE  MemoryInv'
  <2>1. /\ UNCHANGED <<used, local_region>> /\ call.at = "osInitRemote"
        /\ \/ UNCHANGED remote_region
           \/ remote_region' = remote_region \cup {i} /\ ~Taken(Windows(i)[2])
      BY <1>8 DEF OsInitRemote, At
  <2>2. CASE UNCHANGED remote_region
      BY <1>4, <2>1, <2>2
  <2>3. CASE remote_region' = remote_region \cup {i} /\ ~Taken(Windows(i)[2])
    <3>1. /\ \A j \in remote_region : /\ ~Overlap(Windows(i)[2], Windows(j)[2])
                                      /\ ~Overlap(Windows(j)[2], Windows(i)[2])
          /\ \A j \in local_region : ~Overlap(Windows(j)[1], Windows(i)[2])
        BY <2>3, NotTaken
    <3> QED
        BY <1>1, <1>2, <2>1, <2>3, <3>1 DEF MemoryInv, At, Overlap
  <2> QED
      BY <2>1, <2>2, <2>3
<1>9. ASSUME NEW i \in Instance, OsInit(i) \/ XenOsInit(i)
      PROVE  MemoryInv'
  <2>1. OsInitDone(i) /\ At("osInitIrq", i)
      BY <1>9 DEF OsInit, XenOsInit
  <2>2. UNCHANGED <<local_region, remote_region>> /\ used' = used \cup {i}
      BY <2>1 DEF OsInitDone, mem
  <2>3. At("channels", i)' /\ call.at # "channels"
      BY <2>1 DEF OsInitDone, Goto, At, BaseInv, TypeOK, CallType
  <2> QED
      BY <1>1, <1>2, <2>2, <2>3 DEF MemoryInv, At, Overlap
<1>10. ASSUME NEW i \in Instance, Channels(i)
      PROVE  MemoryInv'
  <2>1. UNCHANGED <<local_region, remote_region>> /\ At("channels", i)
      BY <1>10 DEF Channels, os, mem
  <2>2. \/ used' = used /\ Layouts[Cfg(i)].err = "0"
        \/ used' = used \ {i}
      BY <1>10 DEF Channels, ChannelsFail
  <2>3. \A j \in used' : Layouts[Cfg(j)].err = "0"
      BY <2>1, <2>2 DEF MemoryInv, At
  <2> QED
      BY <1>1, <1>2, <2>1, <2>3 DEF MemoryInv, Overlap
<1>11. CASE \E i \in Instance : FreeInstance(i) \/ FreeAll(i) \/ OsFree(i) \/ XenOsFree(i)
  <2>1. /\ local_region' \subseteq local_region /\ remote_region' \subseteq remote_region
        /\ used' \subseteq used
      BY <1>11 DEF FreeInstance, FreeAll, FreeBegin, OsFree, XenOsFree, OsFreeEnd,
         OsFreeMemory, os, mem
  <2>2. call.at # "channels"
      BY <1>11, NoCallFacts DEF FreeInstance, FreeAll, OsFree, XenOsFree, At
  <2> QED
      BY <1>4, <2>1, <2>2
<1> QED
    BY <1>3, <1>5, <1>6, <1>7, <1>8, <1>9, <1>10, <1>11 DEF Next, Calls

\* What overlaps a part of a window overlaps the window.
LEMMA PartOfWindow ==
    ASSUME NEW base \in Nat, NEW first \in Nat, NEW last \in Nat, NEW pages \in Nat,
           NEW v, NEW w, v.base = base, v.pages = pages, w.base \in Nat, w.pages \in Nat,
           first <= last, last + 1 <= pages, ~Overlap(v, w)
    PROVE  ~Overlap([base |-> base + first, pages |-> last - first + 1], w)
<1> DEFINE b == w.base n == w.pages
<1>1. ~(base < b + n /\ b < base + pages)
    BY DEF Overlap
<1>2. b \in Nat /\ n \in Nat
    OBVIOUS
<1> HIDE DEF b, n
<1>3. ~(base + first < b + n /\ b < base + first + (last - first + 1))
    BY <1>1, <1>2, SMTT(60)
<1> QED
    BY <1>3 DEF Overlap, b, n

\* The pages of a range inside a window are pages of the window.
LEMMA PagesInside ==
    ASSUME NEW base \in Nat, NEW from \in Nat, NEW to \in Nat, NEW size \in Nat,
           from < to, to <= size
    PROVE  LET first == from \div PageSize
               last == (to - 1) \div PageSize
               pages == (size + PageSize - 1) \div PageSize
           IN  /\ first \in Nat /\ last \in Nat /\ pages \in Nat
               /\ first <= last /\ last + 1 <= pages
    BY SMTT(60) DEF PageSize

\* Between calls the queues and pools of an instance in use share no page with
\* memory of another (PrivateMemory), whatever the boards, the faults and the
\* order of calls: given that the layouts are inside the memory, which is for the
\* loops over channels and pools to keep.
THEOREM PrivateMemoryHolds ==
    ASSUME LayoutsInside
    PROVE  Spec => []PrivateMemory
<1>1. Init => MemoryInv
    BY DEF Init, MemoryInv
<1>2. BaseInv /\ RegionInv /\ MemoryInv => PrivateMemory
  <2> SUFFICES ASSUME BaseInv, RegionInv, MemoryInv, call = NoCall, NEW i \in used,
                      NEW k \in Compared(Layouts[Cfg(i)])
               PROVE  LET a == Layouts[Cfg(i)].areas[k]
                          first == a.from \div PageSize
                          here == [base |-> Cfg(i).local_shm_addr + first,
                                   pages |-> (a.to - 1) \div PageSize - first + 1]
                      IN  /\ a.to <= Cfg(i).shm_size
                          /\ \A j \in used \ {i} : \A w \in 1..2 :
                                 ~Overlap(here, Windows(j)[w])
      BY DEF PrivateMemory
  <2>1. /\ used \subseteq local_region /\ used \subseteq remote_region
        /\ used \subseteq Configured /\ Layouts[Cfg(i)].err = "0"
        /\ board \in Boards
    <3>1. call.at # "channels"
        BY NoCallFacts
    <3> QED
        BY <3>1, HeldIs
           DEF BaseInv, TypeOK, CallInv, RegionInv, Held, MemoryInv, At
  <2>2. /\ i + 1 \in 1..Len(board.cfgs)
        /\ Cfg(i).local_shm_addr \in Nat /\ Cfg(i).shm_size \in Nat
      BY <2>1, MemoryFacts
  <2>3. PICK from \in Nat, to \in Nat :
            /\ from = Layouts[Cfg(i)].areas[k].from /\ to = Layouts[Cfg(i)].areas[k].to
            /\ from < to /\ to <= Cfg(i).shm_size
      BY <2>1, <2>2 DEF LayoutsInside, Cfg
  <2>4. PICK first \in Nat, last \in Nat, pages \in Nat :
            /\ first = from \div PageSize /\ last = (to - 1) \div PageSize
            /\ pages = (Cfg(i).shm_size + PageSize - 1) \div PageSize
            /\ first <= last /\ last + 1 <= pages
      BY <2>2, <2>3, PagesInside
  <2>5. ASSUME NEW j \in used \ {i}, NEW w \in 1..2
        PROVE  ~Overlap([base |-> Cfg(i).local_shm_addr + first, pages |-> last - first + 1],
                        Windows(j)[w])
    <3>1. Windows(i)[1].base = Cfg(i).local_shm_addr /\ Windows(i)[1].pages = pages
        BY <2>4 DEF Windows
    <3>2. ~Overlap(Windows(i)[1], Windows(j)[w])
      <4>1. w = 1 \/ w = 2
          BY SMTT(60)
      <4> QED
          BY <2>1, <2>5, <4>1 DEF MemoryInv
    <3>3. Windows(j)[w].base \in Nat /\ Windows(j)[w].pages \in Nat
      <4>1. /\ Cfg(j).local_shm_addr \in Nat /\ Cfg(j).remote_shm_addr \in Nat
            /\ Cfg(j).shm_size \in Nat
          BY <2>1, <2>5, MemoryFacts
      <4> QED
          BY <4>1, SMTT(60) DEF Windows, PageSize
    <3>4. first <= last /\ last + 1 <= pages
        BY <2>4
    <3> QED
        BY <2>2, <3>1, <3>2, <3>3, <3>4, PartOfWindow
  <2> QED
      BY <2>3, <2>4, <2>5
<1> QED
    BY <1>1, <1>2, BaseInductive, RegionInductive, MemoryStep, PTL DEF Spec
=============================================================================
