---------------------------- MODULE UioInstance -----------------------------
(***************************************************************************)
(* The driver in user space: the library of src/os_uio/ipc-os.c, whose     *)
(* instances each have an Rx thread that sleeps in read() on a UIO device, *)
(* and the kernel module of src/os_kernel/ipc-uio.c behind it, which the   *)
(* library loads for its first instance and unloads after the last one.    *)
(* ipc_shm_init_instance and ipc_shm_free_instance of src/ipc-shm.c call   *)
(* them; one thread makes these calls, one at a time.                      *)
(*                                                                         *)
(* The channels of an instance are the number of messages in them.  An     *)
(* instance has an Rx interrupt of its own, named like the instance, or is *)
(* polled.                                                                 *)
(***************************************************************************)
EXTENDS Naturals

CONSTANTS
    NumInstances,   \* IPC_SHM_MAX_INSTANCES
    QueueCap,       \* how many messages the channels of an instance can hold
    Budget,         \* IPC_SOFTIRQ_BUDGET
    PolledSets,     \* the instances that may be configured without interrupts
    Senders,        \* the instances whose remote sends
    Faults          \* the calls that may fail

Instance == 0..(NumInstances - 1)

ASSUME UioAssumption ==
    /\ NumInstances \in Nat \ {0}
    /\ QueueCap \in Nat \ {0} /\ Budget \in Nat \ {0}
    /\ PolledSets \subseteq SUBSET Instance /\ Senders \subseteq Instance
    /\ Faults \subseteq {"load", "mmap", "register", "open", "channels", "unload"}

VARIABLES
    polled,         \* the instances with inter_core_rx_irq IPC_IRQ_NONE
    state,          \* "FREE": global is NULL; "CLEAR"; "READY"
    call,           \* the call in progress: its instance and where it is
    os_enabled,     \* the instances whose state is IPC_SHM_INSTANCE_ENABLED
    files_opened,   \* is_files_opened
    fds,            \* of ipc_uio_module_fd and ipc_cdev_fd, the ones that are open
    thread,         \* thread[i]: where the Rx thread of instance i is
    cancelled,      \* the instances whose thread has been cancelled
    work,           \* work[i]: messages handled by this rx_cb call
    loaded,         \* the kernel module is loaded
    irq_num_init,   \* the instances whose irq_num_init is not IPC_IRQ_NONE
    uio_state,      \* the instances whose uio_id[i].state is ENABLED
    devices,        \* the instances whose UIO device is registered
    leaked,         \* recorded: failed with irq_num_init set since the loading
    handler,        \* handler[i]: where the interrupt handler is
    event,          \* event[i]: an interrupt that read() has not returned yet
    enabled,        \* the interrupts that are routed to this side
    notified,       \* the interrupts that the remote has raised
    remote,         \* remote[i]: where the remote is in a Tx to instance i
    pending,        \* pending[i]: messages in the channels of instance i
    crossed         \* recorded: freed after the test of a Tx and before its push,
                    \* and not notified since it is in use again

lib == <<os_enabled, files_opened, fds>>
rx == <<thread, cancelled, work>>
uio == <<irq_num_init, uio_state, devices, leaked>>
kernel == <<loaded, uio>>
irq == <<handler, event, enabled, notified>>
msgs == <<remote, pending, crossed>>
vars == <<polled, state, call, lib, rx, kernel, irq, msgs>>

NoCall == [at |-> "none", i |-> 0]

Init ==
    /\ polled \in PolledSets
    /\ state = [i \in Instance |-> "FREE"]
    /\ call = NoCall
    /\ os_enabled = {} /\ files_opened = FALSE /\ fds = {}
    /\ thread = [i \in Instance |-> "none"]
    /\ cancelled = {}
    /\ work = [i \in Instance |-> 0]
    /\ loaded = FALSE
    /\ irq_num_init = {} /\ uio_state = {} /\ devices = {} /\ leaked = {}
    /\ handler = [i \in Instance |-> "idle"]
    /\ event = [i \in Instance |-> FALSE]
    /\ enabled = {} /\ notified = {}
    /\ remote = [i \in Instance |-> "idle"]
    /\ pending = [i \in Instance |-> 0]
    /\ crossed = {}

At(from, i) == call = [at |-> from, i |-> i]

Goto(to, i) == call' = [at |-> to, i |-> i]

-----------------------------------------------------------------------------
(* ipc_shm_init_instance *)

\* ipc_os_module_init succeeds: the files are open, or the module is not loaded
\* yet and can be.
ModuleInit == files_opened \/ ~loaded

\* ipc_uio_init refuses an interrupt that is in irq_num_init.
Refused(i) == i \in irq_num_init

\* The module cannot be opened or loaded: its file is closed again.
ModuleInitFails ==
    /\ ~files_opened /\ (loaded \/ "load" \in Faults)
    /\ fds' = fds \ {"module"}
    /\ UNCHANGED <<polled, state, call, os_enabled, files_opened, rx, loaded, irq, msgs>>

\* Both files are closed unless another instance is enabled; the module stays.
OsInitError ==
    /\ files_opened' = (os_enabled # {})
    /\ fds' = IF os_enabled = {} THEN {} ELSE fds
    /\ loaded' = TRUE
    /\ UNCHANGED <<polled, state, call, os_enabled, rx, irq, msgs>>

\* ipc_os_module_init fails; or its character device cannot be opened, something
\* is not mapped, or ipc_uio_init fails before it sets irq_num_init.
OsInitFails(i) ==
    /\ call = NoCall /\ state[i] = "FREE"
    /\ \/ ModuleInitFails
       \/ ModuleInit /\ ("mmap" \in Faults \/ Refused(i)) /\ OsInitError
    /\ UNCHANGED uio

\* uio_register_device fails: irq_num_init stays.  Excluded is an instance that
\* was enabled since the loading of the module, which uio_state still tells:
\* ipc_shm_uio_remove would unregister a device that is not registered.
OsInitRegisterFails(i) ==
    /\ call = NoCall /\ state[i] = "FREE"
    /\ ModuleInit /\ ~Refused(i) /\ i \notin polled
    /\ "register" \in Faults /\ i \notin uio_state
    /\ irq_num_init' = irq_num_init \cup {i}
    /\ leaked' = leaked \cup {i}
    /\ OsInitError
    /\ UNCHANGED <<uio_state, devices>>

\* The UIO device is not found or cannot be opened, or the thread cannot be
\* started: the device stays registered.
OsInitOpenFails(i) ==
    /\ call = NoCall /\ state[i] = "FREE"
    /\ ModuleInit /\ ~Refused(i) /\ i \notin polled
    /\ "open" \in Faults
    /\ irq_num_init' = irq_num_init \cup {i}
    /\ uio_state' = uio_state \cup {i}
    /\ devices' = devices \cup {i}
    /\ leaked' = leaked \cup {i}
    /\ OsInitError

\* IPC_IOC_INIT: ipc_hw_init disables the interrupt, the UIO device is registered
\* and has no event for read() when it is opened.
ipc_uio_init(i) ==
    /\ enabled' = enabled \ {i}
    /\ irq_num_init' = irq_num_init \cup ({i} \ polled)
    /\ uio_state' = uio_state \cup ({i} \ polled)
    /\ devices' = devices \cup ({i} \ polled)
    /\ event' = [event EXCEPT ![i] = FALSE]

ipc_os_softirq_init(i) == thread' = [thread EXCEPT ![i] = "read"]

\* All of ipc_os_init; the global data is set and its state CLEAR.
OsInit(i) ==
    /\ call = NoCall /\ state[i] = "FREE"
    /\ ModuleInit /\ ~Refused(i)
    /\ loaded' = TRUE
    /\ files_opened' = TRUE /\ fds' = {"module", "cdev"}
    /\ ipc_uio_init(i)
    /\ IF i \in polled THEN UNCHANGED thread ELSE ipc_os_softirq_init(i)
    /\ os_enabled' = os_enabled \cup {i}
    /\ state' = [state EXCEPT ![i] = "CLEAR"]
    /\ Goto("channels", i)
    /\ UNCHANGED <<polled, cancelled, work, leaked, handler, notified, msgs>>

\* The channels are initialised, empty: whatever the remote has pushed before is
\* skipped.  Or one of them fails.
Channels(i) ==
    /\ At("channels", i)
    /\ \/ Goto("enable", i) /\ UNCHANGED state
       \/ /\ "channels" \in Faults
          /\ state' = [state EXCEPT ![i] = "FREE"]
          /\ Goto("osFree", i)
    /\ UNCHANGED <<polled, lib, rx, kernel, irq, msgs>>

\* ipc_hw_irq_enable; for a polled instance uio_fd is no UIO device.
IrqEnable(i) ==
    /\ At("enable", i)
    /\ enabled' = enabled \cup ({i} \ polled)
    /\ Goto("ready", i)
    /\ UNCHANGED <<polled, state, lib, rx, kernel, handler, event, notified, msgs>>

Ready(i) ==
    /\ At("ready", i)
    /\ state' = [state EXCEPT ![i] = "READY"]
    /\ call' = NoCall
    /\ UNCHANGED <<polled, lib, rx, kernel, irq, msgs>>

-----------------------------------------------------------------------------
(* ipc_shm_free_instance *)

\* Mutant: the thread is stopped before the state is cleared.
FreeStateLate(i) ==
    /\ call = NoCall /\ state[i] = "READY"
    /\ Goto("osFree", i)
    /\ UNCHANGED <<polled, state, lib, rx, kernel, irq, msgs>>

FreeState(i) ==
    /\ call = NoCall /\ state[i] = "READY"
    /\ state' = [state EXCEPT ![i] = "FREE"]
    /\ crossed' = IF remote[i] = "checked" THEN crossed \cup {i} ELSE crossed \ {i}
    /\ Goto("channelsFree", i)
    /\ UNCHANGED <<polled, lib, rx, kernel, irq, remote, pending>>

\* The interrupt is disabled and the channels are freed: nothing is found in
\* them from now on.
FreeChannels(i) ==
    /\ At("channelsFree", i)
    /\ enabled' = enabled \ {i}
    /\ pending' = [pending EXCEPT ![i] = 0]
    /\ Goto("osFree", i)
    /\ UNCHANGED <<polled, state, lib, rx, kernel, handler, event, notified, remote,
                   crossed>>

\* ipc_os_free: the instance is disabled, and its interrupt.
OsFreeDisable(i) ==
    /\ At("osFree", i)
    /\ os_enabled' = os_enabled \ {i}
    /\ enabled' = enabled \ {i}
    /\ Goto(IF i \in polled THEN "join" ELSE "cancel", i)
    /\ UNCHANGED <<polled, state, files_opened, fds, rx, kernel, handler, event, notified,
                   msgs>>

\* pthread_cancel: until then the thread may still enable the interrupt.
OsFreeCancel(i) ==
    /\ At("cancel", i)
    /\ cancelled' = cancelled \cup {i}
    /\ Goto("join", i)
    /\ UNCHANGED <<polled, state, lib, thread, work, kernel, irq, msgs>>

\* IPC_IOC_FREE unregisters the UIO device of i; uio_state is left alone.
ipc_uio_free(i) ==
    /\ devices' = devices \ {i}
    /\ irq_num_init' = irq_num_init \ {i}
    /\ UNCHANGED <<uio_state, leaked>>

\* The module is unloaded: it unregisters what is left, and its data are gone.
ipc_shm_uio_remove(i) ==
    /\ devices' = (devices \ {i}) \ (uio_state \cap irq_num_init)
    /\ irq_num_init' = {} /\ uio_state' = {} /\ leaked' = {}

\* The last instance goes: the character device is closed, the file of the module
\* is not, and delete_module may fail, which is only reported.
LastFree(i) ==
    /\ fds' = fds \ {"cdev"}
    /\ files_opened' = FALSE
    /\ \/ loaded' = FALSE /\ ipc_shm_uio_remove(i)
       \/ "unload" \in Faults /\ ipc_uio_free(i) /\ UNCHANGED loaded

\* Mutant: the UIO device is left registered.
OsFreeJoinedNoIoctl(i) ==
    /\ At("join", i) /\ thread[i] = "none" /\ handler[i] = "idle"
    /\ call' = NoCall
    /\ IF os_enabled = {} THEN LastFree(i)
                          ELSE UNCHANGED <<fds, files_opened, loaded, uio>>
    /\ UNCHANGED <<polled, state, os_enabled, rx, irq, msgs>>

\* The thread has ended.  Unregistering the UIO device waits for its handler.
OsFreeJoined(i) ==
    /\ At("join", i) /\ thread[i] = "none" /\ handler[i] = "idle"
    /\ call' = NoCall
    /\ IF os_enabled = {} THEN LastFree(i)
                          ELSE ipc_uio_free(i) /\ UNCHANGED <<fds, files_opened, loaded>>
    /\ UNCHANGED <<polled, state, os_enabled, rx, irq, msgs>>

-----------------------------------------------------------------------------
(* The Rx thread: ipc_shm_softirq *)

\* A cancelled thread ends in read(), in the write() of ipc_hw_irq_enable or in a
\* callback that calls something of the kind.
ThreadEnds(i) ==
    /\ i \in cancelled /\ thread[i] \in {"read", "rx", "enable"}
    /\ thread' = [thread EXCEPT ![i] = "none"]
    /\ cancelled' = cancelled \ {i}
    /\ UNCHANGED <<polled, state, call, lib, work, kernel, irq, msgs>>

ThreadRead(i) ==
    /\ thread[i] = "read" /\ i \notin cancelled /\ event[i]
    /\ event' = [event EXCEPT ![i] = FALSE]
    /\ thread' = [thread EXCEPT ![i] = "call"]
    /\ UNCHANGED <<polled, state, call, lib, cancelled, work, kernel, handler, enabled,
                   notified, msgs>>

\* rx_cb: nothing is done for an instance that is not in use.
ThreadCall(i) ==
    /\ thread[i] = "call"
    /\ work' = [work EXCEPT ![i] = 0]
    /\ thread' = [thread EXCEPT ![i] = IF state[i] = "READY" THEN "rx" ELSE "test"]
    /\ UNCHANGED <<polled, state, call, lib, cancelled, kernel, irq, msgs>>

ThreadRx(i) ==
    /\ thread[i] = "rx"
    /\ \/ /\ pending[i] > 0 /\ work[i] < Budget
          /\ pending' = [pending EXCEPT ![i] = @ - 1]
          /\ work' = [work EXCEPT ![i] = @ + 1]
          /\ UNCHANGED thread
       \/ /\ pending[i] = 0 \/ work[i] = Budget
          /\ thread' = [thread EXCEPT ![i] = "test"]
          /\ UNCHANGED <<pending, work>>
    /\ UNCHANGED <<polled, state, call, lib, cancelled, kernel, irq, remote,
                   crossed>>

\* Mutant: the interrupt is enabled although the budget was used up.
ThreadTestOnce(i) ==
    /\ thread[i] = "test"
    /\ thread' = [thread EXCEPT ![i] = "enable"]
    /\ UNCHANGED <<polled, state, call, lib, cancelled, work, kernel, irq, msgs>>

ThreadTest(i) ==
    /\ thread[i] = "test"
    /\ thread' = [thread EXCEPT ![i] = IF work[i] >= Budget THEN "call" ELSE "enable"]
    /\ UNCHANGED <<polled, state, call, lib, cancelled, work, kernel, irq, msgs>>

\* Mutant: the interrupt is enabled only if there was something to do.
ThreadEnableIfWork(i) ==
    /\ thread[i] = "enable" /\ i \notin cancelled
    /\ thread' = [thread EXCEPT ![i] = "read"]
    /\ enabled' = IF work[i] > 0 THEN enabled \cup {i} ELSE enabled
    /\ UNCHANGED <<polled, state, call, lib, cancelled, work, kernel, handler, event,
                   notified, msgs>>

\* Mutant: what the remote raised meanwhile is cleared.
ThreadEnableClears(i) ==
    /\ thread[i] = "enable" /\ i \notin cancelled
    /\ thread' = [thread EXCEPT ![i] = "read"]
    /\ enabled' = enabled \cup {i}
    /\ notified' = notified \ {i}
    /\ UNCHANGED <<polled, state, call, lib, cancelled, work, kernel, handler, event, msgs>>

ThreadEnable(i) ==
    /\ thread[i] = "enable" /\ i \notin cancelled
    /\ thread' = [thread EXCEPT ![i] = "read"]
    /\ enabled' = enabled \cup {i}
    /\ UNCHANGED <<polled, state, call, lib, cancelled, work, kernel, handler, event,
                   notified, msgs>>

-----------------------------------------------------------------------------
(* ipc_shm_uio_handler, and uio_event_notify of the UIO core after it *)

HandlerDisable(i) ==
    /\ handler[i] = "idle" /\ i \in devices
    /\ i \in notified /\ i \in enabled
    /\ handler' = [handler EXCEPT ![i] = "clear"]
    /\ enabled' = enabled \ {i}
    /\ UNCHANGED <<polled, state, call, lib, rx, kernel, event, notified, msgs>>

HandlerClear(i) ==
    /\ handler[i] = "clear"
    /\ handler' = [handler EXCEPT ![i] = "notify"]
    /\ notified' = notified \ {i}
    /\ UNCHANGED <<polled, state, call, lib, rx, kernel, event, enabled, msgs>>

HandlerNotify(i) ==
    /\ handler[i] = "notify"
    /\ handler' = [handler EXCEPT ![i] = "idle"]
    /\ event' = [event EXCEPT ![i] = TRUE]
    /\ UNCHANGED <<polled, state, call, lib, rx, kernel, enabled, notified, msgs>>

-----------------------------------------------------------------------------
(* ipc_shm_poll_channels, for a polled instance *)

ipc_os_poll_channels(i) ==
    /\ i \in polled /\ state[i] = "READY" /\ pending[i] > 0
    /\ pending' = [pending EXCEPT ![i] = IF @ > Budget THEN @ - Budget ELSE 0]
    /\ UNCHANGED <<polled, state, call, lib, rx, kernel, irq, remote, crossed>>

-----------------------------------------------------------------------------
(* ipc_shm_tx on the remote *)

\* The tests before the push: the state first, then the sentinels of the queue.
\* A Tx that fails the second one changes nothing, so they are one step, at the
\* moment of the first.
TxCheck(i) ==
    /\ i \in Senders /\ remote[i] = "idle" /\ state[i] = "READY"
    /\ remote' = [remote EXCEPT ![i] = "checked"]
    /\ UNCHANGED <<polled, state, call, lib, rx, kernel, irq, pending, crossed>>

\* The channels are initialised and not freed yet.
ChannelsUp(i) ==
    \/ state[i] = "READY"
    \/ call.i = i /\ call.at \in {"enable", "ready", "channelsFree"}

\* ipc_queue_push, whatever has become of the receiver since the tests: into a full
\* queue, or one whose indices the receiver has zeroed, it may fail, and ipc_shm_tx
\* returns without a notification; into a queue that is not initialised it may also
\* succeed, and the receiver will skip the message.
TxPush(i) ==
    /\ remote[i] = "checked"
    /\ \/ /\ ChannelsUp(i) /\ pending[i] < QueueCap
          /\ pending' = [pending EXCEPT ![i] = @ + 1]
          /\ remote' = [remote EXCEPT ![i] = "pushed"]
       \/ /\ ChannelsUp(i) => pending[i] = QueueCap
          /\ remote' = [remote EXCEPT ![i] = "idle"]
          /\ UNCHANGED pending
       \/ /\ ~ChannelsUp(i)
          /\ remote' = [remote EXCEPT ![i] = "pushed"]
          /\ UNCHANGED pending
    /\ UNCHANGED <<polled, state, call, lib, rx, kernel, irq, crossed>>

TxNotify(i) ==
    /\ remote[i] = "pushed"
    /\ remote' = [remote EXCEPT ![i] = "idle"]
    /\ notified' = notified \cup ({i} \ polled)
    /\ crossed' = IF state[i] = "READY" THEN crossed \ {i} ELSE crossed
    /\ UNCHANGED <<polled, state, call, lib, rx, kernel, handler, event, enabled, pending>>

-----------------------------------------------------------------------------
Thread(i) ==
    \/ ThreadEnds(i) \/ ThreadRead(i) \/ ThreadCall(i) \/ ThreadRx(i) \/ ThreadTest(i)
    \/ ThreadEnable(i)

Handler(i) == HandlerDisable(i) \/ HandlerClear(i) \/ HandlerNotify(i)

\* What the caller goes on with once it has begun.
CallStep(i) ==
    \/ Channels(i) \/ IrqEnable(i) \/ Ready(i)
    \/ FreeChannels(i) \/ OsFreeDisable(i) \/ OsFreeCancel(i) \/ OsFreeJoined(i)

Next ==
    \E i \in Instance :
        \/ OsInitFails(i) \/ OsInitRegisterFails(i) \/ OsInitOpenFails(i)
        \/ OsInit(i) \/ FreeState(i) \/ ipc_os_poll_channels(i)
        \/ CallStep(i) \/ Thread(i) \/ Handler(i)
        \/ TxCheck(i) \/ TxPush(i) \/ TxNotify(i)

Spec == Init /\ [][Next]_vars

\* Threads, interrupts and a call that has begun go on, and a remote that has
\* pushed notifies.
FairSpec ==
    /\ Spec
    /\ \A i \in Instance :
          /\ WF_vars(CallStep(i)) /\ WF_vars(Thread(i)) /\ WF_vars(Handler(i))
          /\ WF_vars(TxNotify(i))

-----------------------------------------------------------------------------
(* Properties *)

\* Queues stay within their capacity, and only instances have devices.
TypeOK ==
    /\ polled \in SUBSET Instance
    /\ state \in [Instance -> {"FREE", "CLEAR", "READY"}]
    /\ call \in [at : {"none", "channels", "enable", "ready", "channelsFree", "osFree",
                       "cancel", "join"},
                 i : Instance]
    /\ files_opened \in BOOLEAN /\ loaded \in BOOLEAN
    /\ fds \subseteq {"module", "cdev"}
    /\ thread \in [Instance -> {"none", "read", "call", "rx", "test", "enable"}]
    /\ work \in [Instance -> 0..Budget]
    /\ os_enabled \subseteq Instance /\ cancelled \subseteq Instance
    /\ irq_num_init \subseteq Instance
    /\ handler \in [Instance -> {"idle", "clear", "notify"}]
    /\ event \in [Instance -> BOOLEAN]
    /\ enabled \subseteq Instance /\ notified \subseteq Instance
    /\ remote \in [Instance -> {"idle", "checked", "pushed"}]
    /\ pending \in [Instance -> 0..QueueCap]
    /\ crossed \subseteq Instance

\* Between calls exactly the instances in use are enabled, and those that are not
\* polled have a UIO device and a thread that nobody has cancelled; the character
\* device is open exactly while there is one, and then the file of the module is too
\* and the module is loaded, whatever failed before.  What a late failure leaves
\* behind belongs to no instance in use and goes with the module: without the module
\* there is no UIO device.
HeldMatch ==
    call = NoCall =>
        LET inUse == {i \in Instance : state[i] = "READY"}
        IN  /\ os_enabled = inUse
            /\ irq_num_init = (inUse \ polled) \cup leaked
            /\ inUse \cap leaked = {}
            /\ inUse \ polled \subseteq devices
            /\ ~loaded => devices = {}
            /\ {i \in Instance : thread[i] # "none"} = inUse \ polled
            /\ cancelled = {}
            /\ "cdev" \in fds <=> inUse # {}
            /\ inUse # {} => loaded /\ files_opened /\ "module" \in fds

\* No wakeup is lost between the handler in the kernel and the thread: a message
\* for an instance in use is followed by its notification, the handler, an event
\* for read(), or a turn of the thread that still gets to it.  Excepted is an
\* instance that was freed between the test of ipc_shm_tx and its push and is in use
\* again, until it is notified: that push may fall after the channels are initialised
\* and its notification before the state is READY, when the thread does nothing; the
\* message waits for the next notification.
WakeupPending ==
    \A i \in Instance \ crossed :
        i \notin polled /\ state[i] = "READY" /\ pending[i] > 0 =>
            \/ remote[i] = "pushed" \/ i \in notified
            \/ handler[i] # "idle" \/ event[i]
            \/ thread[i] \in {"call", "rx"}
            \/ thread[i] = "test" /\ work[i] >= Budget

\* An interrupt of an instance in use that is disabled is going to be enabled
\* again, by the handler's event or by the thread.
LineComesBack ==
    \A i \in Instance :
        i \notin polled /\ state[i] = "READY" /\ i \notin enabled =>
            handler[i] # "idle" \/ event[i] \/ thread[i] # "read"

\* ipc_shm_free_instance and a failing ipc_shm_init_instance return: the thread
\* that pthread_join waits for ends, however much traffic there is.
CallsReturn == []<>(call = NoCall)

\* An instance in use with messages goes on receiving them: its thread is not
\* left waiting for an event that has passed, with the exception of WakeupPending.
Served ==
    \A i \in Instance :
        \/ []<>(\/ i \in polled \/ i \in crossed
               \/ pending[i] = 0 \/ state[i] # "READY")
        \/ []<><<pending'[i] < pending[i]>>_pending
=============================================================================
