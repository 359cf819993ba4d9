----------------------------- MODULE KernelIrq ------------------------------
(***************************************************************************)
(* What the instances of a Linux side hold while ipc_shm_init_instance,    *)
(* ipc_shm_free_instance, ipc_shm_init and ipc_shm_free come and go: the   *)
(* memory regions and mapped registers, the Linux interrupts with their    *)
(* handler, the routing of the inter-core interrupts, and the tasklet that *)
(* all instances share (src/ipc-shm.c, src/os_kernel/ipc-os.c or           *)
(* src/os_kernel/ipc-xen.c, and a back end of src/hw).  Instances may have *)
(* the same interrupt, whose handler is then requested once.  The calls    *)
(* are not reentrant: there is one at a time, and each function it goes    *)
(* through is an action, with the faults that end it early; handler and    *)
(* tasklet run on another core meanwhile.                                  *)
(***************************************************************************)
EXTENDS Integers, Sequences, HwBackends, ShmLayout

\* What the program is built for and configured with: the OS layer os ("kernel"
\* or "xen"), the back end hw, the configuration cfgs of the instances, the
\* faults <<f, i>> that instance i may meet, and whether all of it is shipped.
CONSTANT Boards

IPC_SHM_MAX_INSTANCES == 4

Instance == 0..(IPC_SHM_MAX_INSTANCES - 1)

\* The interrupt routing is locked; memory is taken, or cannot be mapped; the
\* device tree has no such interrupt; request_irq fails; a channel's peer is in
\* the middle of its own initialisation.
Fault == {"locked", "region", "map", "irq_number", "request_irq", "channels"}

ASSUME BoardsAssumption ==
    \A b \in Boards :
        /\ b.os \in {"kernel", "xen"} /\ b.hw \in {"s32gen1", "s32g3xx", "s32r47", "xen"}
        /\ b.hw = "xen" <=> b.os = "xen"
        /\ Len(b.cfgs) \in 1..IPC_SHM_MAX_INSTANCES
        /\ b.faults \subseteq Fault \X Instance
        /\ \A k \in 1..Len(b.cfgs) :
               /\ b.cfgs[k].rx_irq \in Nat \cup {IPC_IRQ_NONE}
               /\ b.cfgs[k].local_shm_addr \in Nat /\ b.cfgs[k].remote_shm_addr \in Nat
               /\ b.cfgs[k].shm_size \in Nat
        /\ \A k \in DOMAIN b.cfgs : \A c \in DOMAIN b.cfgs[k].channels :
               LET ch == b.cfgs[k].channels[c]
               IN  ch.type = "MANAGED" =>
                       \A p \in DOMAIN ch.pools :
                           ch.pools[p].num_bufs * ch.pools[p].buf_size < MaxPoolBytes

VARIABLES
    board,      \* chosen at the start
    used,       \* the instances whose global data is not NULL
    state,      \* priv.id[i].state is IPC_SHM_INSTANCE_ENABLED
    irq_num,    \* priv.id[i].irq_num
    irq_num_init, \* priv.irq_num_init[i], of the Xen driver
    local_region,   \* the instances whose local memory region is requested
    remote_region,  \* the instances whose remote memory region is requested
    local_virt_shm, \* those whose priv.id[i].local_virt_shm is a mapping
    remote_virt_shm, \* those whose priv.id[i].remote_virt_shm is a mapping
    mscm,       \* the instances whose registers are mapped
    handlers,   \* the interrupts that are requested
    enabled,    \* the registers IRSPRC[n] that route to this side
    call,       \* the call in progress: the next function and its instance
    ret,        \* what the call in progress or the last one returns
    tasklet     \* whether it is scheduled, and which instance it is at

mem == <<local_region, remote_region, local_virt_shm, remote_virt_shm>>
os == <<state, irq_num, irq_num_init, handlers, mem>>
vars == <<board, used, os, mscm, enabled, call, ret, tasklet>>

Configured == 0..(Len(board.cfgs) - 1)
Cfg(i) == board.cfgs[i + 1]
Fails(f, i) == <<f, i>> \in board.faults

\* The Linux interrupt number that the device tree has for an Rx interrupt.
Line(i) == IF Cfg(i).rx_irq = IPC_IRQ_NONE THEN IPC_IRQ_NONE
           ELSE 100 + Cfg(i).rx_irq

RouteOf(i) == Routing(board.hw, Cfg(i))

\* The layouts of all configurations.
Layouts == [c \in UNION {{b.cfgs[k] : k \in DOMAIN b.cfgs} : b \in Boards} |-> Layout(c)]

NoCall == [at |-> "none", i |-> 0, all |-> FALSE]

\* The tasklet is not running.
Idle == IPC_SHM_MAX_INSTANCES

Init ==
    /\ board \in Boards
    /\ used = {}
    /\ state = [i \in Instance |-> FALSE]
    /\ irq_num = [i \in Instance |-> 0]
    /\ irq_num_init = [i \in Instance |-> 0]
    /\ local_region = {} /\ remote_region = {}
    /\ local_virt_shm = {} /\ remote_virt_shm = {}
    /\ mscm = {}
    /\ handlers = {} /\ enabled = {}
    /\ call = NoCall /\ ret = "0"
    /\ tasklet = [sched |-> FALSE, at |-> Idle, rx |-> FALSE,
                  overtaken |-> FALSE, dead |-> FALSE]

At(from, i) == call.at = from /\ call.i = i

Goto(to, i) == call' = [call EXCEPT !.at = to, !.i = i]

Return(err) == call' = NoCall /\ ret' = err

\* err is set and the function goes to a label.
Error(label, i, err) == Goto(label, i) /\ ret' = err

First(S) == CHOOSE j \in S : \A k \in S : j <= k

\* ipc_shm_init and ipc_shm_free go on with the first instance of the set.
GoOn(at, rest) ==
    call' = IF call.all /\ rest # {} THEN [at |-> at, all |-> TRUE, i |-> First(rest)]
            ELSE NoCall

-----------------------------------------------------------------------------
(* ipc_shm_init_instance and ipc_shm_init *)

InitInstance(i) ==
    /\ call = NoCall /\ i \in Configured \ used
    /\ call' = [at |-> "hwInit", i |-> i, all |-> FALSE]
    /\ ret' = "0"
    /\ UNCHANGED <<board, used, os, mscm, enabled, tasklet>>

\* The instances in use are skipped.
InitAll ==
    /\ call = NoCall
    /\ LET rest == Configured \ used
       IN  call' = IF rest = {} THEN NoCall
                   ELSE [at |-> "hwInit", all |-> TRUE, i |-> First(rest)]
    /\ ret' = "0"
    /\ UNCHANGED <<board, used, os, mscm, enabled, tasklet>>

\* The stubs of the Xen driver map nothing.
ipc_os_map_intc(i) == mscm' = IF board.hw = "xen" THEN mscm ELSE mscm \cup {i}

\* The parameters are checked and ipc_hw_init maps the registers.  It refuses a
\* configuration, or disables the interrupt and then finds the routing locked.
HwInit(i) ==
    /\ At("hwInit", i)
    /\ \E cpx \in 0..3 :
           \/ /\ ~ParamsValid(Cfg(i))
              /\ Return("EINVAL")
              /\ UNCHANGED <<mscm, enabled>>
           \/ /\ ParamsValid(Cfg(i)) /\ ~HwAccepts(board.hw, Cfg(i), cpx)
              /\ ipc_os_map_intc(i)
              /\ Return("EINVAL")
              /\ UNCHANGED enabled
           \/ /\ ParamsValid(Cfg(i)) /\ HwAccepts(board.hw, Cfg(i), cpx)
              /\ ipc_os_map_intc(i)
              /\ enabled' = enabled \ RouteOf(i)
              /\ \/ Goto("osInit", i) /\ UNCHANGED ret
                 \/ Fails("locked", i) /\ Return("EACCES")
    /\ UNCHANGED <<board, used, os, tasklet>>

ipc_hw_free(i) == mscm' = mscm \ {i}

\* The shared memory of an instance, in whole pages.
Windows(i) ==
    LET pages == (Cfg(i).shm_size + PageSize - 1) \div PageSize
    IN  <<[base |-> Cfg(i).local_shm_addr, pages |-> pages],
          [base |-> Cfg(i).remote_shm_addr, pages |-> pages]>>

Overlap(v, w) == v.base < w.base + w.pages /\ w.base < v.base + v.pages

\* Mutant: the memory is mapped whatever request_mem_region answers.
TakenIgnored(w) == FALSE

\* request_mem_region refuses what overlaps a region that is already taken.
Taken(w) ==
    \/ \E j \in local_region : Overlap(w, Windows(j)[1])
    \/ \E j \in remote_region : Overlap(w, Windows(j)[2])

\* ipc_os_init requests and maps the local memory.  If it is refused there is
\* nothing to give back but the registers.
OsInitLocal(i) ==
    /\ At("osInit", i)
    /\ \/ /\ Fails("region", i) \/ Taken(Windows(i)[1])
          /\ ipc_hw_free(i) /\ Return("EADDRINUSE")
          /\ UNCHANGED <<local_region, local_virt_shm>>
       \/ /\ ~Taken(Windows(i)[1])
          /\ local_region' = local_region \cup {i}
          /\ \/ /\ Fails("map", i)
                /\ local_virt_shm' = local_virt_shm \ {i}
                /\ Error("err_release_local_region", i, "ENOMEM")
             \/ /\ local_virt_shm' = local_virt_shm \cup {i}
                /\ Goto("osInitRemote", i) /\ UNCHANGED ret
          /\ UNCHANGED mscm
    /\ UNCHANGED <<board, used, state, irq_num, irq_num_init, handlers, remote_region,
                   remote_virt_shm, enabled, tasklet>>

\* The same for the remote memory.
OsInitRemote(i) ==
    /\ At("osInitRemote", i)
    /\ \/ /\ Fails("region", i) \/ Taken(Windows(i)[2])
          /\ Error("err_unmap_local_shm", i, "EADDRINUSE")
          /\ UNCHANGED <<remote_region, remote_virt_shm>>
       \/ /\ ~Taken(Windows(i)[2])
          /\ remote_region' = remote_region \cup {i}
          /\ \/ /\ Fails("map", i)
                /\ remote_virt_shm' = remote_virt_shm \ {i}
                /\ Error("err_release_remote_region", i, "ENOMEM")
             \/ /\ remote_virt_shm' = remote_virt_shm \cup {i}
                /\ Goto("osInitIrq", i) /\ UNCHANGED ret
    /\ UNCHANGED <<board, used, state, irq_num, irq_num_init, handlers, local_region,
                   local_virt_shm, mscm, enabled, tasklet>>

\* The device tree has no node or interrupt for the device: irq_num is left alone.
\* Or of_irq_get answered 0 or an error.
OsInitNumber(i) ==
    /\ At("osInitIrq", i) /\ board.os = "kernel"
    /\ Fails("irq_number", i) /\ Line(i) # IPC_IRQ_NONE
    /\ \/ Error("err_unmap_remote_shm", i, "ENXIO") /\ UNCHANGED irq_num
       \/ /\ Error("err_unmap_remote_shm", i, "EINVAL")
          /\ \E n \in {0, -2} : irq_num' = [irq_num EXCEPT ![i] = n]
    /\ UNCHANGED <<board, used, state, irq_num_init, handlers, mem, mscm, enabled, tasklet>>

\* Another instance has the interrupt, or is polled as well.
Duplicate(i) == \E j \in Instance \ {i} : irq_num[j] = Line(i)

\* request_irq fails, at any rate for an interrupt that has a handler.
OsInitRequest(i) ==
    /\ At("osInitIrq", i) /\ board.os = "kernel"
    /\ Line(i) # IPC_IRQ_NONE /\ ~Duplicate(i)
    /\ Fails("request_irq", i) \/ Line(i) \in handlers
    /\ Error("err_unmap_remote_shm", i, "EBUSY")
    /\ irq_num' = [irq_num EXCEPT ![i] = Line(i)]
    /\ UNCHANGED <<board, used, state, irq_num_init, handlers, mem, mscm, enabled, tasklet>>

\* The instance is enabled, and the global data is set.
OsInitDone(i) ==
    /\ state' = [state EXCEPT ![i] = TRUE]
    /\ used' = used \cup {i}
    /\ Goto("channels", i)
    /\ UNCHANGED <<board, mem, mscm, enabled, ret, tasklet>>

OsInit(i) ==
    /\ At("osInitIrq", i) /\ board.os = "kernel"
    /\ irq_num' = [irq_num EXCEPT ![i] = Line(i)]
    /\ \/ (Duplicate(i) \/ Line(i) = IPC_IRQ_NONE) /\ UNCHANGED handlers
       \/ /\ ~Duplicate(i) /\ Line(i) \notin handlers \cup {IPC_IRQ_NONE}
          /\ handlers' = handlers \cup {Line(i)}
    /\ OsInitDone(i)
    /\ UNCHANGED irq_num_init

\* ipc_os_init of the Xen driver requests no interrupt.  irq_num_init keeps the
\* first polled instance, unless it is 0 or known already.
XenOsInit(i) ==
    /\ At("osInitIrq", i) /\ board.os = "xen"
    /\ LET n == IF Line(i) = IPC_IRQ_NONE THEN IPC_IRQ_NONE ELSE irq_num[i]
       IN  /\ irq_num' = [irq_num EXCEPT ![i] = n]
           /\ irq_num_init' = IF \E j \in Instance : irq_num_init[j] = n
                              THEN irq_num_init
                              ELSE [irq_num_init EXCEPT ![i] = n]
    /\ OsInitDone(i)
    /\ UNCHANGED handlers

\* The labels at the end of ipc_os_init, in their order.
Labels == {"err_unmap_remote_shm", "err_release_remote_region", "err_unmap_local_shm",
           "err_release_local_region"}

\* Mutant: a goto to the label behind the right one.
ReleasesRemoteLate(label) == label = "err_unmap_remote_shm"

ReleasesRemote(label) == label \in {"err_unmap_remote_shm", "err_release_remote_region"}

\* From the label on to the end of ipc_os_init, then ipc_hw_free.  iounmap is given
\* physical addresses, where there is no mapping: those that were made stay.
Unwind(i) ==
    /\ call.at \in Labels /\ call.i = i
    /\ remote_region' = IF ReleasesRemote(call.at) THEN remote_region \ {i}
                        ELSE remote_region
    /\ local_region' = local_region \ {i}
    /\ ipc_hw_free(i)
    /\ call' = NoCall
    /\ UNCHANGED <<board, used, state, irq_num, irq_num_init, handlers, local_virt_shm,
                   remote_virt_shm, enabled, ret, tasklet>>

ChannelsFail(i, err) ==
    /\ used' = used \ {i}
    /\ call' = [at |-> "osFree", i |-> i, all |-> FALSE]
    /\ ret' = err
    /\ UNCHANGED enabled

\* Mutant: the interrupt is left disabled.
ChannelsNoEnable(i) ==
    /\ At("channels", i)
    /\ \/ /\ Layouts[Cfg(i)].err = "0"
          /\ ret' = "0" /\ GoOn("hwInit", {j \in Configured \ used : j > i})
          /\ UNCHANGED <<used, enabled>>
       \/ Fails("channels", i) /\ ChannelsFail(i, "EAGAIN")
       \/ Layouts[Cfg(i)].err # "0" /\ ChannelsFail(i, Layouts[Cfg(i)].err)
    /\ UNCHANGED <<board, os, mscm, tasklet>>

\* The channels are laid out and initialised and the interrupt is enabled, or
\* one fails and what the instance holds is given back.
Channels(i) ==
    /\ At("channels", i)
    /\ \/ /\ Layouts[Cfg(i)].err = "0"
          /\ enabled' = enabled \cup RouteOf(i)
          /\ ret' = "0" /\ GoOn("hwInit", {j \in Configured \ used : j > i})
          /\ UNCHANGED used
       \/ Fails("channels", i) /\ ChannelsFail(i, "EAGAIN")
       \/ Layouts[Cfg(i)].err # "0" /\ ChannelsFail(i, Layouts[Cfg(i)].err)
    /\ UNCHANGED <<board, os, mscm, tasklet>>

-----------------------------------------------------------------------------
(* ipc_shm_free_instance and ipc_shm_free *)

\* The state is cleared, the interrupt disabled and the channels are freed.
FreeBegin(i) ==
    /\ used' = used \ {i}
    /\ enabled' = enabled \ RouteOf(i)
    /\ ret' = "0"
    /\ UNCHANGED <<board, os, mscm, tasklet>>

FreeInstance(i) ==
    /\ call = NoCall /\ i \in used
    /\ call' = [at |-> "osFree", i |-> i, all |-> FALSE]
    /\ FreeBegin(i)

\* The instances in use one after the other.
FreeAll(i) ==
    /\ call = NoCall \/ At("freeAll", i)
    /\ i \in used /\ \A j \in used : i <= j
    /\ call' = [at |-> "osFree", i |-> i, all |-> TRUE]
    /\ FreeBegin(i)

\* Mutant: the interrupt is given back although another instance has it.
KeptNever(i) == FALSE

Kept(i) == \E j \in Instance \ {i} : irq_num[j] = irq_num[i]

\* Mutant: a polled instance gives back an interrupt, too.
FreesIrqPolled(i) ==
    IF board.os = "xen" THEN irq_num_init[i] # 0 ELSE irq_num[i] # 0 /\ ~Kept(i)

\* ipc_os_free gives free_irq this interrupt.
FreesIrq(i) ==
    IF board.os = "xen" THEN irq_num_init[i] # 0
    ELSE irq_num[i] \notin {IPC_IRQ_NONE, 0} /\ ~Kept(i)

\* ipc_hw_free; ipc_shm_free goes on.  Recorded: the tasklet is in ipc_shm_rx for
\* the instance.
OsFreeEnd(i) ==
    /\ ipc_hw_free(i)
    /\ GoOn("freeAll", used)
    /\ tasklet' = [tasklet EXCEPT !.overtaken = @ \/ (tasklet.rx /\ tasklet.at = i)]
    /\ UNCHANGED <<board, used, ret>>

\* ipc_os_free unmaps and releases the memory.
OsFreeMemory(i) ==
    /\ local_region' = local_region \ {i}
    /\ remote_region' = remote_region \ {i}
    /\ local_virt_shm' = local_virt_shm \ {i}
    /\ remote_virt_shm' = remote_virt_shm \ {i}

\* Mutant: ipc_os_free leaves it to its caller to disable the interrupt.
OsFreeNoDisable(i) ==
    /\ At("osFree", i) /\ board.os = "kernel"
    /\ state' = [state EXCEPT ![i] = FALSE]
    /\ handlers' = IF FreesIrq(i) THEN handlers \ {irq_num[i]} ELSE handlers
    /\ irq_num' = IF irq_num[i] = IPC_IRQ_NONE THEN irq_num
                  ELSE [irq_num EXCEPT ![i] = 0]
    /\ OsFreeMemory(i)
    /\ OsFreeEnd(i)
    /\ UNCHANGED <<irq_num_init, enabled>>

\* ipc_os_free, then ipc_hw_free.
OsFree(i) ==
    /\ At("osFree", i) /\ board.os = "kernel"
    /\ state' = [state EXCEPT ![i] = FALSE]
    /\ handlers' = IF FreesIrq(i) THEN handlers \ {irq_num[i]} ELSE handlers
    /\ enabled' = IF Kept(i) THEN enabled ELSE enabled \ RouteOf(i)
    /\ irq_num' = IF irq_num[i] = IPC_IRQ_NONE THEN irq_num
                  ELSE [irq_num EXCEPT ![i] = 0]
    /\ OsFreeMemory(i)
    /\ OsFreeEnd(i)
    /\ UNCHANGED irq_num_init

\* The Xen driver: free_irq finds no handler to remove.
XenOsFree(i) ==
    /\ At("osFree", i) /\ board.os = "xen"
    /\ state' = [state EXCEPT ![i] = FALSE]
    /\ irq_num_init' = [irq_num_init EXCEPT ![i] = 0]
    /\ OsFreeMemory(i)
    /\ OsFreeEnd(i)
    /\ UNCHANGED <<irq_num, handlers, enabled>>

-----------------------------------------------------------------------------
(* Handler and tasklet *)

\* The instances that handler and tasklet look at.
Listening(i) == state[i] /\ irq_num[i] # IPC_IRQ_NONE

\* The remote side notifies an instance whose interrupt is routed here: the
\* handler disables the interrupts of all instances and schedules the tasklet.
ipc_shm_hardirq(i) ==
    /\ i \in Configured /\ RouteOf(i) \cap enabled # {} /\ Line(i) \in handlers
    /\ enabled' = enabled \ UNION {RouteOf(j) : j \in {k \in Configured : Listening(k)}}
    /\ tasklet' = [tasklet EXCEPT !.sched = TRUE]
    /\ UNCHANGED <<board, used, os, mscm, call, ret>>

SoftirqBegin ==
    /\ tasklet.sched /\ tasklet.at = Idle
    /\ tasklet' = [tasklet EXCEPT !.sched = FALSE, !.at = 0]
    /\ UNCHANGED <<board, used, os, mscm, enabled, call, ret>>

\* The tasklet looks at an instance, and calls ipc_shm_rx for it or goes on.
SoftirqLook ==
    /\ tasklet.at # Idle /\ ~tasklet.rx
    /\ tasklet' = IF Listening(tasklet.at) THEN [tasklet EXCEPT !.rx = TRUE]
                  ELSE [tasklet EXCEPT !.at = @ + 1]
    /\ UNCHANGED <<board, used, os, mscm, enabled, call, ret>>

\* ipc_shm_rx is back, the budget used up or not.  The interrupt is enabled in
\* either case.
SoftirqEnable ==
    /\ tasklet.rx /\ tasklet.at \in mscm /\ ~tasklet.dead
    /\ enabled' = enabled \cup RouteOf(tasklet.at)
    /\ \E again \in BOOLEAN :
           tasklet' = [tasklet EXCEPT !.at = @ + 1, !.rx = FALSE,
                                      !.sched = @ \/ again]
    /\ UNCHANGED <<board, used, os, mscm, call, ret>>

\* The instance was freed meanwhile and its registers are not mapped: the tasklet
\* ends in a fault and never runs again.
SoftirqFault ==
    /\ tasklet.rx /\ tasklet.at \notin mscm /\ ~tasklet.dead
    /\ tasklet' = [tasklet EXCEPT !.dead = TRUE]
    /\ UNCHANGED <<board, used, os, mscm, enabled, call, ret>>

-----------------------------------------------------------------------------
Calls ==
    \/ InitAll
    \/ \E i \in Instance :
        \/ InitInstance(i) \/ HwInit(i)
        \/ OsInitLocal(i) \/ OsInitRemote(i) \/ OsInitNumber(i) \/ OsInitRequest(i)
        \/ OsInit(i) \/ XenOsInit(i) \/ Unwind(i) \/ Channels(i)
        \/ FreeInstance(i) \/ FreeAll(i) \/ OsFree(i) \/ XenOsFree(i)

Interrupts ==
    \/ \E i \in Instance : ipc_shm_hardirq(i)
    \/ SoftirqBegin \/ SoftirqLook \/ SoftirqEnable \/ SoftirqFault

Next == Calls \/ Interrupts

Spec == Init /\ [][Next]_vars

-----------------------------------------------------------------------------
(* Properties *)

\* The shipped configurations come up: as long as nothing fails outside the
\* driver, ipc_shm_init and ipc_shm_init_instance return 0, in whatever order
\* instances are initialised, freed and initialised again.
ShippedComesUp == board.shipped /\ board.faults = {} => ret = "0"

\* The areas of the layout that ipc_shm_init_instance compares with the end of
\* the memory, itself or with a later one: all but unmanaged channels at the end.
Compared(lay) ==
    {k \in DOMAIN lay.areas :
        \E l \in k..Len(lay.areas) : lay.areas[l].kind # "unmanaged"}

\* A layout without error puts these areas inside the memory.
LayoutsInside ==
    \A b \in Boards : \A k \in 1..Len(b.cfgs) :
        LET lay == Layouts[b.cfgs[k]]
        IN  lay.err = "0" =>
                \A n \in Compared(lay) :
                    /\ lay.areas[n].from \in Nat /\ lay.areas[n].to \in Nat
                    /\ lay.areas[n].from < lay.areas[n].to
                    /\ lay.areas[n].to <= b.cfgs[k].shm_size

\* Between calls the queues and pools of an instance in use are inside its own
\* local memory, and none of their pages is in memory of another instance in
\* use: what one instance writes no other reads.
PrivateMemory ==
    call = NoCall =>
        \A i \in used : \A k \in Compared(Layouts[Cfg(i)]) :
            LET a == Layouts[Cfg(i)].areas[k]
                first == a.from \div PageSize
                here == [base |-> Cfg(i).local_shm_addr + first,
                         pages |-> (a.to - 1) \div PageSize - first + 1]
            IN  /\ a.to <= Cfg(i).shm_size
                /\ \A j \in used \ {i} : \A w \in 1..2 : ~Overlap(here, Windows(j)[w])

\* An inter-core interrupt is never routed to this side without a handler,
\* whatever the tasklet enables while instances come and go; unless one is freed
\* while the tasklet is in ipc_shm_rx for it, which ipc_os_free does not prevent.
RoutedHasHandler ==
    ~tasklet.overtaken =>
        enabled \subseteq UNION {RouteOf(i) : i \in {j \in Configured : Line(j) \in handlers}}

\* Between calls the interrupts with a handler are those of the instances in
\* use, however many share one and in whatever order they came, failed and went.
HandlersMatch ==
    call = NoCall => handlers = {Line(i) : i \in used} \ {IPC_IRQ_NONE}

\* "only free irq if irq number is requested": ipc_os_free gives free_irq only an
\* interrupt that has a handler.
FreesRequested ==
    \A i \in Instance :
        At("osFree", i) /\ board.os = "kernel" /\ FreesIrq(i) => irq_num[i] \in handlers

\* Between calls exactly the instances in use hold their memory regions, both of
\* them, and have their memory and registers mapped: wherever ipc_os_init fails, the
\* label it goes to releases what it has requested and nothing else, so that the
\* next attempt is not refused and no instance in use loses what it works with.
RegionsMatch ==
    call = NoCall =>
        /\ local_region = used /\ remote_region = used
        /\ used \subseteq local_virt_shm \cap remote_virt_shm
        /\ board.os = "kernel" => used \subseteq mscm

\* Between calls, with the tasklet neither scheduled nor running, an instance in
\* use that shares its interrupt with no other has it enabled, although every
\* handler disables the interrupts of all instances.
OwnLineHeard ==
    call = NoCall /\ ~tasklet.sched /\ tasklet.at = Idle =>
        \A i \in used :
            \/ \E j \in Configured \ {i} : Line(j) = Line(i)
            \/ RouteOf(i) \subseteq enabled
=============================================================================
