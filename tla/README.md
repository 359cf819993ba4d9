# Verification of ipc-shm

`ipc-shm` is the shared-memory inter-processor communication driver of the NXP
S32 platforms: two cores, usually Linux on one and an RTOS on the other,
exchange messages through two uncached memory regions and an inter-core
interrupt. There is no lock between the two sides. This directory models the
driver in TLA+, checks the models with TLC on small instances and proves with
TLAPS the safety of queues, channels, initialisation, reception, the OS layers
and the samples.

## 1. The system

Each side writes only to its own region (`local_shm`) and reads the other's
(`remote_shm`). An *instance* is one pair of regions with its *channels*.

| Part | Source | State | Operations |
|---|---|---|---|
| Lock-free queue | `ipc-queue.[ch]` | two rings (`sentinel`, `write`, `read`, data), one in each region; the read indexes are swapped | `ipc_queue_push`, `ipc_queue_pop`, `ipc_queue_init` (`ipc_queue_sync_index`), `ipc_queue_free` |
| Managed channel and its pools | `ipc-shm.c` | a channel queue of descriptors, and for each pool a queue of free descriptors and the buffers | `ipc_shm_acquire_buf`, `ipc_shm_tx`, `ipc_channel_rx`, `ipc_shm_release_buf`, `managed_channel_init`, `ipc_buf_pool_init` |
| Unmanaged channel | `ipc-shm.c` | sentinel, `tx_count`, `remote_tx_count` | `unmanaged_channel_init`, `ipc_shm_unmanaged_tx`, `ipc_channel_rx`, `ipc_shm_free_channel` |
| Rx path | `ipc-shm.c`, `os_kernel/ipc-os.c` | tasklet, handler, budget | `ipc_shm_rx`, `ipc_shm_hardirq`, `ipc_shm_softirq`, `ipc_shm_poll_channels` |
| Inter-core interrupts | `hw/*` | routing and pending bits of the MSCM | `ipc_hw_irq_enable`, `_disable`, `_notify`, `_clear` |
| Instance lifecycle | `ipc-shm.c` | the `state` word (CLEAR, READY), the layout of the channels in memory | `ipc_shm_init`, `ipc_shm_init_instance`, `ipc_shm_free_instance`, `ipc_shm_free` |
| Kernel OS layer | `os_kernel/ipc-os.c` | Linux irq of each instance, mappings | `ipc_os_init`, `ipc_os_free` |
| User-space driver | `os_kernel/ipc-uio.c`, `os_uio/ipc-os.c` | UIO device, Rx thread of each instance | `ipc_uio_*`, `ipc_shm_softirq` (thread) |
| Xen driver | `os_kernel/ipc-xen.c` | as the kernel OS layer; instances are polled, the back end is a stub | `ipc_os_init`, `ipc_os_free`, `ipc_os_poll_channels` |
| Configurations | `sample*/ipcf_Ip_Cfg_*.c` | memory, interrupts, cores and channels of each sample on each platform | - |
| Samples | `sample*/` | request and reply over the channels, with a completion, a semaphore or polling | `run_demo`, `send_data_msg`, `data_chan_rx_cb`, `int_handler`, ... |

How they interact: `ipc_shm_tx` turns the address of an acquired buffer into a
descriptor, pushes it into the channel queue and raises the interrupt. On the
other side `ipc_shm_hardirq` disables and clears the lines and schedules the
tasklet; `ipc_shm_softirq` calls `ipc_shm_rx`, which pops descriptors and calls
the application, one budget's worth at a time. The application releases the
buffer, which pushes its descriptor into the pool queue the sender acquires
from.

What is hard about it:

* the two sides touch a ring at the same time, with nothing but the order of
  their loads and stores between them;
* either side may restart at any time and has to take over the indexes of a peer
  that goes on, with two sentinel words for a handshake;
* `tx` and `release` reserve nothing: that their pushes succeed follows from the
  number of buffers only;
* a buffer is an address on each side (two different ones) and a descriptor in
  the queues;
* handler, tasklet and remote interleave, each handler touches the lines of all
  instances, and the tasklet stops when its budget is used up;
* errors are retried by calling the initialisation again (`-EAGAIN`);
* instances share interrupts, a tasklet and a kernel module, and each failure
  has to give back exactly what its own instance holds;
* the samples share one completion or semaphore among messages, instances and
  processes.

The hazards, each with its line, the properties aimed at it and what these leave
out, are listed in `PROJECT.json`.

## 2. Modules

| Module | Models | Abstract specification |
|---|---|---|
| `IpcFifo` | what the queue promises: a bounded FIFO in each direction | - |
| `IpcQueue` | `ipc_queue_push`, `ipc_queue_pop`, both sides up | `IpcFifo` |
| `IpcQueueProofs` | theorems about `IpcQueue` and `IpcQueueInit` | |
| `IpcQueueInit` | extends `IpcQueue` with handshake, filling, release, crash | |
| `BufferLedger` | what a managed channel promises: the owner of each buffer | - |
| `ManagedChannel` | acquire, tx, rx, release over FIFOs | `BufferLedger` |
| `ManagedRestart` | extends `ManagedChannel` with the restart of a side | `BufferLedger` |
| `ManagedProofs` | theorems about `ManagedRestart` | |
| `UnmanagedChannel` | handshake, release, crash, Tx counter, Rx test | |
| `UnmanagedProofs` | theorem about `UnmanagedChannel` | |
| `RxPath` | remote Tx, interrupt lines, handler, tasklet, `ipc_shm_rx`, polling | |
| `RxProofs` | theorems about `RxPath` | |
| `InstanceInit` | `ipc_shm_init_instance` and `ipc_shm_free_instance` of both sides over all queues, crash | |
| `InstanceProofs` | theorems about `InstanceInit` | |
| `ShmLayout` | the layout of the channels in memory and the checks on sizes | |
| `HwBackends` | core numbers, checks and registers of `hw/s32gen1`, `hw/s32g3xx`, `hw/s32r47` | |
| `ShippedConfigs` | the 22 generated configurations of the samples | |
| `KernelIrq` | what the instances of a Linux side or Xen domain hold: regions, registers, interrupts, handlers, routing; extends `ShmLayout` and `HwBackends` | |
| `KernelProofs` | theorems about `KernelIrq` | |
| `UioInstance` | the user-space driver: library, kernel module, interrupt handler, Rx thread, polling | |
| `UioProofs` | theorems about `UioInstance` | |
| `SampleWait` | `sample/sample.c`: sysfs writers and a completion | |
| `SampleUser` | `sample_multi_instance_user`: main loop, semaphore, SIGINT | |
| `SampleXen` | `sample_xen`: two domains that poll | |
| `SampleProofs` | theorems about the three samples | |
| `MC*` | values of the constants for TLC; `MCSamples` has the three samples as alternatives | |

The layers are composed by refinement: `IpcQueue` is proved to implement
`IpcFifo`, `ManagedChannel` uses FIFOs for its queues, and `RxPath` counts the
messages in them. `ManagedRestart` takes the effect of a restart on each queue
from what `IpcQueueInit` checks for channel and pool queues. `InstanceInit` has
the handshakes of several queues and leaves out the calls on them.

**IpcQueue.** The fields of `struct ipc_ring` are variables indexed by the side
whose memory holds the ring. Each side has one pushing and one popping thread
(the condition for thread safety in `ipc-queue.h`). An action accesses at most
one word that the other side may change: in `ipc_queue_push` the peer's read
index (`PushLoad`), the slot (`PushCopyStart`, `PushCopyEnd`: `memcpy` takes
time, and a slot in the middle of it is `Torn`), the write index (`PushStore`).
In `ipc_queue_pop` the peer's write index (`PopLoad`), then the integrity and
range checks, which come after the loads in the code (`PopCheck`), the slot
(twice, so that a change during the copy shows) and the read index.
Program order is kept: the regions are mapped with `ioremap` (device memory).
A side's checks of the `queue` pointer and the like are left out.
`IpcFifo` allows a pop to answer "empty" when the queue was empty at some time
during the call.

**IpcQueueInit.** `initPc` is where a side is between power-on and "up"; each
load and store of a sentinel or index in `ipc_queue_sync_index` and
`ipc_queue_free` is a step. `-EAGAIN` leads to `ipc_queue_free` and another
attempt. `Crash` resets the program state of a side at any step and leaves its
ring. The constant `Overlap` says which activities of the peer a restart may
meet: nothing, calls of pop or push, or another restart. The very first
initialisation overlaps the peer's always. `Bd(i)` is the descriptor of buffer
`i`, with which `ipc_buf_pool_init` fills a pool queue. `sent` is a history
variable.

**ManagedChannel.** Addresses are numbers in two address spaces, with the layout
computed in `MCManagedRestart` as `managed_channel_init` and
`ipc_buf_pool_init` compute it; descriptors are records. The conversions
(`BufAddr`, `find_pool_for_buf`, `AddrBd`) and the tests on addresses are those
of the code. `ipc_shm_acquire_buf` is split at each pool it looks at, as the
peer may release a buffer in between. The applications follow the rules of
`ipc-shm.h`: they send what they acquired and release what they received.

**ManagedRestart.** A restart forgets the side's application state and applies
the handshake to all queues at once. `pushed` is what the slots of a pool ring
hold, popped or not, since a restarted side reads all of them again.

**UnmanagedChannel.** `tx_count` wraps around at `CountMod` (2^32 in the code).
The receiver only tests for a difference, so exactly `CountMod` transmissions
without an Rx in between look like none; the guard of `TxCheck` bounds them
below that. The READY test of the remote is left to `RxPath`.

**RxPath.** One side receives; the remote's `ipc_shm_tx` is three steps (READY
test, push, notify). A line has a latch and a routing bit. A handler goes
through all instances, as the code does, and may run while the tasklet of
another line's interrupt is at work. The tasklet follows `ipc_shm_softirq`
with its second, unconditional enable (`SoftirqEnable`). Instances on a shared
line are taken to have the same remote core, so that they also share the latch.
The remote may crash anywhere in a Tx (`RemoteCrash`); its restart takes this
side's indexes over, which drops what was not received (`RemoteRestart`).
`RxUnmanaged` reads and saves the counter in one step: what arrives in between
stays pending in both versions (`UnmanagedChannel` has the two steps).

**InstanceInit.** The queues of an instance are numbered in the order in which
`managed_channel_init` and `ipc_buf_pool_init` initialise them. A side is at one
queue at a time; the steps are those of `IpcQueueInit`, one for each access to a
word in shared memory. `-EAGAIN` at any queue, or a pool that looks full, makes
the side go through all queues with `ipc_queue_free`, leaving out those that
`ipc_shm_free_managed_channel` leaves out (`push_ring` NULL, or no sentinel),
and start again. `Exchange` stands for all traffic while both sides are up: it
moves the indexes on, so that a restart meets every position. `overlapped`
remembers whether, after a restart, both sides were inside these functions at
once: the handshake does not keep the indexes together then (see
`init_pop_race` for the calls).

**KernelIrq.** A *board* is a build with a configuration: the OS layer, the back
end, the instances, the faults they may meet. The calls are not reentrant
(`ipc-shm.h`), so there is one at a time, in steps of one function each; handler
and tasklet run in between. The interrupts that Linux knows (`handlers`) and
those that the MSCM routes to this core (`enabled`) are sets, and so are the
instances with a local and a remote region and with a mapping of each; regions
are windows of whole pages that `request_mem_region` refuses when they overlap.
`ipc_os_init` goes step by step: local region and mapping (`OsInitLocal`), remote
ones (`OsInitRemote`), interrupt number (`OsInitNumber`), `request_irq`
(`OsInitRequest`). Each may fail, and goes to the label that the code goes to;
`Unwind` is one label of the ladder (`ipc-os.c:229-236`). Its `iounmap` is given
physical addresses, which unmaps nothing: a failing `ipc_os_init` leaves its
mappings behind.
`HwInit` uses the checks of `HwBackends`, `Channels` the result of `ShmLayout`.
The tasklet goes through the instances one by one and enables the interrupt of
each that it finds in use; if the registers have been unmapped meanwhile it ends
in a fault (`SoftirqFault`). `overtaken` records that an instance was freed
while the tasklet was inside `ipc_shm_rx` for it. The latch of the interrupts
and the messages are left to `RxPath`.

**ShmLayout, HwBackends, ShippedConfigs.** Pure operators. `Layout` places
queues, pools and unmanaged channels one after the other with the code's checks
and errors, and records each area; the element count of a queue is kept in 16
bits. A platform is a table of core numbers and a table of registers. A
configuration is a sequence of records, with addresses in pages. `MCKernelIrq`
assumes, and TLC evaluates, that the user-space samples are configured as the
kernel samples, that the two Xen domains mirror each other, that a layout without
error is inside the memory (`LayoutsInside`, for the configurations of all
boards), and that no two interrupts of a platform use the same register.

**UioInstance.** `ipc_os_init` of `os_uio` is one step, as nobody else looks at
what it sets up before it is done, with one action for each way to fail that
leaves something else behind: loading the module, before `irq_num_init` is set,
in `uio_register_device`, and after it. The rest of `ipc_shm_init_instance` is
cut where the interrupt is enabled and where the state becomes READY
(`Channels`, `IrqEnable`, `Ready`); `ipc_os_free` where it disables the
interrupt, at `pthread_cancel` and at `pthread_join` (`OsFreeDisable`,
`OsFreeCancel`, `OsFreeJoined`). The remote's `ipc_shm_tx` is three steps as in
`RxPath` (`TxCheck`, `TxPush`, `TxNotify`), and here the local side may free and
initialise the instance between any two of them: `crossed` records it. `fds` are
the files that are open. `ipc_os_free` closes the character device and never the
file of the module, although its comment (`os_uio/ipc-os.c:468-471`) says that
both are closed; `delete_module` may fail. The
thread is cut wherever the handler, the remote or the caller may come in
between, and ends at the cancellation points: `read`, the `write` of
`ipc_hw_irq_enable`, and callbacks. `event` is whether the count of UIO differs
from what the last `read` returned. Both halves of the driver are in this one
module: the kernel's `ipc_shm_uio_handler`, and the library. Each instance has
its own interrupt, which `ipc_uio_init` insists on, or is polled. `leaked`
records the instances that a late failure left in `irq_num_init`.

**SampleWait.** A write to the sysfs file is a process with its own `msg`; the
completion and `last_rx_no_msg` are shared. The remote side, not part of the
repository, echoes. A signal may end a wait; `ipc_shm_tx` may fail and leave
its buffer acquired. If `init_sysfs` fails the module is not loaded and nobody
frees the driver; loaded again, the sample uses a driver that has the callbacks
of the module that is gone (`driver` is `"stale"`), and receives nothing.
`interrupted` and `crossed` record waits that were ended and writers that
overlapped.

**SampleUser.** The main thread is one program counter; callbacks, the remote
sides and SIGINT come in between. `sa_flags` is not initialised, so a signal may
or may not end the `sem_wait` or `scanf` under way (`SignalWait`, `SignalScan`,
`SignalBeside`). `astray` records a signal that changes where messages go or
what a prompt reads. An error of a send ends the program.

**SampleXen.** Both domains run the same code: a write announces messages,
sends them and polls; a read polls, then replies. A poll is a round of
`ipc_shm_rx` over the three channels, one channel at a step. A send may fail:
the call ends there, a data buffer stays acquired (`lost`), and the counters of
messages stay as they are; `txErrors` counts such errors.

## 3. Runs

| Run | Checks | Distinct states |
|---|---|---|
| `queue_channel` | one direction, 2 elements: types, no slot shared by two copies, whole elements, cached indexes, FIFO, wait-freedom | 73,504 |
| `init_pool` | one pool queue: the indexes of the two sides agree after any handshakes, crashes and releases (2), peer quiet; two sides that keep trying come up | 319,586 |
| `instance` | a channel queue and a pool queue: READY means usable, indexes agree, a pool can be filled, both sides come up; crashes and releases (3) | 326,253 |
| `managed` | one owner for each buffer, no refused call, order and content of messages, over restarts with all buffers returned | 100,352 |
| `unmanaged` | counters differ by exactly what the receiver has not seen; the handshake ends | 99,704 |
| `rx_live` | budget and no starvation, 1 instance with 2 channels, a remote that crashes | 33,033 |
| `rx_lines` | no lost wakeup, no line left disabled, 2 instances with a line each | 1,120,851 |
| `kernel_irq` | 35 boards: shipped configurations come up in any order of calls; memory is private; handlers, regions, mappings and routing are those of the instances in use, with a failure at any step of `ipc_os_init` and the tasklet at work | 743,348 |
| `uio` | devices, threads, files and module are those of the instances in use, whatever failed before; no lost wakeup; freeing ends; messages are served | 49,263 |
| `samples` | every signal has its reply, a reply is the echo of the last message, a demo leaves nothing behind, replies come after all messages; waits, programs and writes end | 129,248 |

Two more runs show that the code does not do what a comment says:

| Run | What happens |
|---|---|
| `init_pop_race` | `ipc_queue_pop` loads indexes, the peer restarts, the integrity check passes on the new handshake: an element that is not there is delivered |
| `rx_poll_full` | a poll that makes one callback of an unmanaged channel is answered as -128: the callback counts as the whole budget, which is cut down to `int8_t` |

What the passing runs exclude is a constant of the module, and matters. With
`Overlap` holding `"init"`, `"pop"` or `"push"` (`IpcQueueInit`) or `"rx"`
(`UnmanagedChannel`), a restart of the peer may meet that activity, and
`Agreement` and `CountsUnseen` fail: the handshake has no protection against
both sides restarting at once, nor against a call in flight. With `AllReturned`
FALSE (`ManagedRestart`) a side that restarts takes buffers for free that its
peer's application still holds. In `InstanceInit` the history variable
`overlapped` marks the same.

Other properties name their condition. `RoutedHasHandler`: no instance was freed
while the tasklet was in `ipc_shm_rx` for it, which nothing in the code
prevents. `OwnLineHeard`: the instance shares its interrupt with no other, as
`ipc_shm_free_instance` and `_ipc_hw_init` disable the interrupt of an instance
whatever other one uses it. `WakeupPending` and `Served` of `UioInstance`: the
instance was not freed between the READY test of a Tx and its push, or has been
notified since it is in use again. The code loses a wakeup otherwise: the remote
has passed the test for the life before, pushes after the channels are
initialised again, and its notification is taken after the interrupt is enabled
and before the state is READY, when the thread does nothing; the message waits for
the next notification. `EchoMatches`: no wait was interrupted and no two
processes wrote at once; `CompletionBalance` says what holds then.
`WaitReturns`: one writer at a time, and a driver with the callbacks of this
module. `GracefulExit`: the signal does not come at
a prompt, before the announcement or beside a demo on another instance than 0.
`RepliesAfterAll` and `PingReturns`: one domain only writes, the other only
reads, and no send has failed. In `samples` each of these conditions is left in some behaviours.
Deadlock is not checked in `samples`, as programs end and nobody has to type.

`TypeOK` (`InitTypeOK`) describes the state of several modules and is part of
their inductive invariants; only that of `IpcQueue` is among the properties of a
run.

**Bounds.** A queue of 2 elements (3 slots) wraps around, is full, empty and
half full; three values tell all slots apart. `init_pool` uses 1 element, where
a pool queue has 2 slots and every wrong index shows; 2 restarts in all
give a crash in the middle of the recovery from a crash, and a crash of each
side. `instance` has one queue of each type, which is enough for a later queue
to make an earlier one be freed, 1 element and 3 restarts: the third shows what a
crash inside `ipc_queue_free` leaves behind (below). `managed` has two
pools of different buffer sizes, the first with two buffers, and memory that
ends where the last buffer ends. `rx_*`, `uio`: budgets smaller than the traffic,
so that the tasklet is scheduled again and the thread goes round; `QueueCap`
bounds the messages in a channel as `ipc_queue_push` does. `CountMod` 3 makes
the counters wrap around within a few transmissions. `kernel_irq` has the
`IPC_SHM_MAX_INSTANCES` (4) of the code. Its boards are the shipped
configurations of the kernel and Xen samples without faults; four instances, two
that share an interrupt, one with its own, one polled, where the second and the
third meet the faults of `ipc_os_init` and of the channels, each of them at one
of the two at least; three instances of the Xen driver with faults at the second;
and configurations at the limits
(memory used to the last byte or one byte short and next to another instance's,
windows that overlap, pools, channels, interrupts, cores and masks that are
refused). Pools stay below `MaxPoolBytes`, where the code's 32-bit product does
not wrap around. A failing `request_irq` of the shared interrupt is left
out, as `HandlersMatch` does not survive it (see the hazards). `uio` has two
instances, one of them or none polled, and traffic to the first (`Senders`; the
second shares nothing with it but files and module); it leaves out
that a device which was registered before fails to be registered again
(`OsInitRegisterFails` says why). `samples`: two writers, two interrupted waits
and a failed send with two buffers for each channel; three instances, one
polled, and two signals; in the Xen samples three messages for one buffer, so
that a writer has to wait for its reader, and two writes.

**Fairness.** `IpcQueue`: a call that has begun goes on (straight-line code);
nobody has to call. `IpcQueueInit`, `InstanceInit`, `UnmanagedChannel`: a side
that is not up goes on with its initialisation, which includes calling it again
after `-EAGAIN` (left to the application by `ipc_shm_init`); restarts are
bounded and never required. `RxPath`: an interrupt that is pending and enabled
is taken, a scheduled tasklet runs, a running `ipc_shm_rx` goes on, and a remote
that has pushed notifies unless it crashes, which it may at any time and never
has to. `UioInstance`: the same for the handler, the thread
and the remote, and a call of `ipc_shm_init_instance` or
`ipc_shm_free_instance` goes on once begun. `MCSamples`: the threads of a
program run, the remote sides echo, interrupts are served, and in the Xen domain
that did not write somebody reads the file; nobody has to load a module, to type
or to send a signal. No strong fairness is used.

In `instance` the two sides come up unless one crashed while it was initialising
or freeing a queue (`Torn`). After such a crash TLC finds a fair behaviour in
which the two free their queues for each other in turns without end.

`ipc_queue_free` clears the sentinel first and the read index last. A side that
crashes in between leaves a read index behind with nothing to say so
(`LeftBehind`): if the peer then restarts, it starts its pool queue from 0
against that index, and the queue looks full before all buffers are in it. It
frees its queues and tries again, with the same result, until the side that
crashed has come back and cleared its index. `NeverFull` and `BothComeUp` name
this condition. It takes a side that came up, its crash inside a release, and the
restart of the other one to get there.

## 4. Proofs

`IpcQueueProofs` proves about `IpcQueue`, for every number of elements from 1 to
65534 (`IPC_SHM_MAX_BUFS_PER_CHANNEL`), every set of element values, both types
of queue, and any of the two sides pushing:

* `TypeCorrect`: `Spec => []TypeOK`;
* `Safety`: `Spec => [](CachedIndexes /\ PublishedIsWhole /\ SlotExclusion)`,
  with `PublishedIsWholeHolds` and `CachedIndexesHolds` for the parts;
* `Refinement`: `Spec => ImplementsFifo`, that is, every step of the two rings
  is a step of `IpcFifo` or leaves it unchanged.

The assumptions are the named ASSUMEs of `IpcQueue`: the range of the number of
elements, and that the values are not among the words used for results.
The inductive invariant is `TypeOK /\ CachedIndexes /\ PublishedIsWhole`.
`SlotExclusion` alone is not inductive: it says nothing of a push that has
yet to pass its full test. `CachedIndexes` says that what a call cached stays good
enough to act on: a push that found room still has room, as the peer's pops
only make more, and a pop that found an element still has it, as only this pop
takes it. Then the slot being written is not between the indexes, the slot
being read is, and the two differ. Arithmetic modulo the number of slots is
confined to a few lemmas about natural numbers, which split it into the step
that wraps around and the one that does not.

The same module proves about `IpcQueueInit`, where pushes and pops meet
handshakes, releases and crashes, for queues of any size and type, any number of
restarts and any sides that restart:

* `LifeTypeCorrect`: `LifeSpec => []InitTypeOK`, whatever a restart meets
  (any `Overlap`): no index leaves its ring;
* `AgreementHolds`: `LifeSpec => []Agreement`, if a restart finds the peer
  between calls and not initialising (`Overlap = {}`);
* `RestartedSlotExclusion`: under the same condition, `SlotExclusion` whenever
  both sides are up.

The condition is needed: with any of its three members in `Overlap` TLC finds a
counterexample to `Agreement`, and that for `"pop"` is the run `init_pop_race`.
`Agreement` speaks of two sides that are up, so the inductive invariant
(`LifeInv`) has to say what each leaves to the other on the way there. After a
restart only one side initialises at a time, and a peer that is up makes no call
from the moment its sentinel was read until the side is up (`AloneAt`). Before
the first restart both may be anywhere, but read indexes are 0 and a write index
is 0 or counts the elements that filled a pool (`ColdAt`). A direction is
`Linked` when one side is up and the other has set the index that this direction
needs: from `syncRead` on for what a side pushes, since it has taken over its
write index then, and from `fill` on for what it pops, since it has taken over
its read index. From there on what the ring holds between the indexes is what
was sent and not received, and a push under way has room (`LinkAt`). `IndInv` of
the first part does not hold here: while a side is between two stores of the
handshake the indexes of a direction are unrelated. So the lemmas on the contents
of a ring (`ContentsAppend`, `ContentsTail`) only need the types (`Rings`). TLC
has checked `LifeInv` with one element and two restarts, for a pool queue
(1,631,233 states) and a channel queue (5,331,856 states).

`ManagedProofs` proves about `ManagedRestart`, for any number of pools, any
numbers and sizes of buffers, any layout in which pools neither overlap nor pass
the end of the memory, any four mapping addresses, and any number of restarts,
each with all buffers returned (`AllReturned`):

* `Conserved`: `RestartSpec => []Conservation`;
* `Accepted`: `RestartSpec => []NeverRefused`;
* `Implements`: `RestartSpec => ImplementsLedger`.

The first part of the argument is about addresses: `find_pool_for_buf` and
`AddrBd` give back the descriptor that `BufAddr` started from, on either side
(`Address`), and two buffers never have the same address (`AddressUnique`). The
inductive invariant (`IndInv`) has for each side what `Good` says: the
descriptors in the pool rings, in the channel queue, and those of the addresses
that the two applications hold are four disjoint sets that make up all buffers,
and no queue has a descriptor twice. This gives the room in the queues, by
counting: a queue without repetitions that lacks a buffer is shorter than the
number of buffers. For restarts it also says that the elements of a pool ring
are the last ones that were pushed into it (`Recent`), since a side that
restarts reads all slots again.

`UnmanagedProofs` proves `Counts`: `Spec => []CountsUnseen` of
`UnmanagedChannel`, for counters of any width and any number of restarts, if a
restart may meet a transmission of the peer and nothing else
(`Overlap \subseteq {"tx"}`). `CountsUnseen` speaks of sides that are up, so the
invariant has to say what happens before: the sentinel tells where a side is,
nothing has been sent until both came up for the first time (`ColdInv`), later
only one side initialises at a time (`AloneInv`) and takes over the counter it
sends with, then the one it receives with (`CountInv`).

`InstanceProofs` proves about `InstanceInit`, for any number of channels, pools,
elements and restarts:

* `TypeCorrect`: `Spec => []TypeOK`;
* `ReadyIsUsableHolds`: `Spec => []ReadyIsUsable`;
* `AgreementHolds`: `Spec => []Agreement`;
* `NeverFullHolds`: `Spec => []NeverFull`.

`ReadyIsUsable` follows from what a side knows of itself (`LocalInv`): which of
its queues are marked at which step, and that the state word is CLEAR meanwhile.
`Agreement` and `NeverFull` relate the words of the two sides, and the reason why
they fit is not the same all the time; `IInv` has both. Until the first restart
(`ColdInv`) the two may be anywhere, but all words start from 0: no read index
has moved, a pool queue that is done has all its buffers, and a side that gives
up with -EAGAIN is behind its peer at every queue that it frees (`ColdPair`), so
that the two never free at once and none frees what the other has taken over.
After it (`WarmInv`), and as long as the two were not busy at once
(`overlapped`), the peer of a busy side stands still. Of a peer that is up, the
busy side takes over write and read index of each queue, which makes that queue
agree; the ones before it agree already. Of a peer that is down it starts from 0,
and a pool queue is filled with as many buffers as were counted, unless the peer
left its read index behind. TLC has checked `IInv` also with two channels, with
two pools and with two elements, and with four restarts.

`RxProofs` proves about `RxPath`, for any number of instances and channels, any
budget, and any assignment of instances to lines, shared ones included:

* `Overrun`: `(FairSpec \/ PollSpec) => []BudgetOverrun`, with crashes of the
  remote and with polls;
* `NoLostWakeup`: `Spec => []WakeupPending`;
* `NoLostLine`: `Spec => []LineComesBack`.

For the first, `RoundInv` bounds what the rest of a round of `ipc_shm_rx` can
still add: the share of each channel to come. The other two need that
`ipc_shm_rx` runs only inside the tasklet's turn for that instance
(`TaskletInv`), and a stronger form of `LineComesBack`, in which only the
instance's own turn counts as a promise to enable its line (`LineInv`): that
another instance's turn is under way says nothing of what follows.

`UioProofs` proves about `UioInstance`, for any number of instances, polled or
not, any senders and any of the failures: `Held` (`[]HeldMatch`), `NoLostWakeup`
(`[]WakeupPending`) and `NoLostLine` (`[]LineComesBack`). `HeldMatch` speaks of
the time between calls; `HeldInv` says what each step of a call holds, in
particular which thread is alive, cancelled or joined. `QuietInv` says that
a Tx past its READY test to an instance that is not in use was cut by its release
(`crossed`), and that without one its channels are empty: so `WakeupPending`
holds when the state becomes READY. `LineInv` extends
`LineComesBack` to the steps before READY.

`KernelProofs` proves about `KernelIrq`, for any boards and faults, all orders of
calls, and the tasklet overtaken or not: `RegionsMatchHolds` (`[]RegionsMatch`)
and `OwnLineHeardHolds` (`[]OwnLineHeard`). Both speak of the time between calls.
`HeldInv` says what an instance holds inside them: state and interrupt
number from the end of `ipc_os_init` to that of `ipc_os_free`, which is longer
than it is in use. `RegionInv` adds, for each step of `ipc_os_init` and each label
of its ladder, which of the two regions the instance of the call has at that
point, and that nobody else has one but the instances of `HeldInv`: a label that
gave back one region too few, or in another order than the steps took them, would
break it. `HeardInv` adds when the tasklet still comes to an instance.
Under `FaultsAlone` (`request_irq` does not fail for an interrupt that two
instances have, and the instances of a Xen domain are polled) it also proves
`HandlersMatchHolds` (`[]HandlersMatch`), `FreesRequestedHolds`
(`[]FreesRequested`) and `RoutedHasHandlerHolds` (`[]RoutedHasHandler`), sharing
of interrupts included. What makes these inductive is a statement on the
instances that hold *nothing* (`HandlerInv`): `ipc_os_init` leaves its number in
`irq_num` when it fails, and `ipc_os_free` and a later `ipc_os_init` of another
instance compare with it. It is harmless as long as no other instance has that
interrupt, which is what `FaultsAlone` is for. `RouteInv` adds that the tasklet,
unless overtaken, is in `ipc_shm_rx` for an instance that has its handler.

`PrivateMemoryHolds` proves `[]PrivateMemory` for any boards that satisfy
`LayoutsInside`. `MemoryInv` says that the windows of the instances that hold
regions are disjoint, at every step of a call, and that an instance stays in use
only if its layout had no error; `HeldInv` ties the regions to the instances in
use. The rest is about pages: those of an area inside the memory are inside the
window that was requested for it. `LayoutsInside` says of `ShmLayout` that its
loops over channels and pools do not pass the end of the memory without an
error. What a loop over a sequence computes needs induction over data, so this
is a hypothesis of the theorem, which TLC evaluates for the configurations of all
boards: the shipped ones, and those at the limits.

`SampleProofs` proves about the samples:

* `CompletionBalanceHolds` and `EchoMatchesHolds` (kernel sample), for any
  finite set of writers, and any numbers of messages, buffers and interrupted
  waits;
* `CleanPromptHolds` (user-space sample), for any instances, polled or not, any
  numbers of messages and buffers, and signals at any time;
* `RepliesAfterAllHolds` (Xen samples), for any numbers of messages, buffers,
  writes and failed sends.

Each invariant is an account of the messages. `WaitInv`: posts of the completion
and messages under way are as many as waits, and one more for each wait that was
interrupted; without interruption all that is under way belongs to the one
writer that waits. `UserInv`: in a demo that no signal has disturbed only its own
instance is busy, and semaphore, echoes and the last answer add up, with one
ledger for an instance with interrupts, which has one message under way
(`Echoing`), and one for a polled instance, which counts (`Counting`). A signal
makes `main` leave after the demo, so that a disturbed one never comes back to a
prompt. `XenInv`: from the beginning of a write to the first reply the write is
announced, either by a control message that was not read or by the number that
the reader polls for; what the reader has received and what waits for it is what
was sent, and afterwards replies sent, waiting and received add up. After a failed
send it claims the types only, as the property does.

TLC has checked each of these invariants on the instances of the runs. The
assumptions are the named ASSUMEs of the modules, which TLC evaluates in every
run, and those in the statements.

Only model-checked:

* `ShippedComesUp`: it is about the tables of 22 files, which TLC evaluates as
  they are.
* What the loops of `ShmLayout` compute (`LayoutsInside`): induction over data.
* The order and number of callbacks beyond the budget (`RxPath`).
* Liveness (`CallsReturn`, `BothComeUp`, `NoStarvation`, `Served`, `WaitReturns`,
  `GracefulExit`, `PingReturns`): out of the prover's reach.

## 5. Not modelled, and the plan

Next, in this order:

1. An instance with both kinds of channels in `InstanceInit`, and with more than
   one channel: `push_ring` of a refused queue (`ipc-shm.c:752`) is then looked
   at by a later attempt.
2. Instances that share an interrupt: what is needed for `OwnLineHeard` and
   `HandlersMatch` to hold for them, too.

Left out, and why:

* `hw/s32v234`: it takes `remote_core` for a pointer (`ipc-hw-s32v234.c:77`),
  which is a structure in `ipc-types.h`, and does not compile with it.
* The interrupt handler and tasklet of `ipc-xen.c`: nothing requests the
  interrupt. Its `ipc_os_free` passes `IPC_IRQ_NONE` to `free_irq` for the first
  polled instance, which has no effect in the model (`XenOsFree`).
* `sample_user` and `sample_multi_instance`: the first is the loop of
  `SampleUser` with one instance, the second has the state of `SampleWait` for
  each instance with interrupts and polls the others as `SampleUser` does.
* In user space, a polled instance with a Tx interrupt: `uio_fd` is never
  opened, and the notification is written to another file. The shipped polled
  instances have neither interrupt.
* The address that `ioctl` leaves for `mmap` in `ipc-uio.c`: one thread makes
  both calls, and the device can be opened once.
* Contents of an unmanaged channel (written by applications without
  synchronisation), logging, what the device tree holds, and checks of pointers.

## 6. Running it

    tlc -workers 2 -config MCIpcQueue.cfg MCIpcQueue
    tlapm IpcQueueProofs.tla
    tlapm ManagedProofs.tla
    tlapm UnmanagedProofs.tla
    tlapm RxProofs.tla
    tlapm UioProofs.tla
    tlapm KernelProofs.tla
    tlapm InstanceProofs.tla
    tlapm SampleProofs.tla

`SampleProofs` takes about thirteen minutes, `ManagedProofs` seven,
`IpcQueueProofs` six, `KernelProofs` four, the others two or three each.
`PROJECT.json` lists the module and configuration of each run, the lines of the
source that each definition models, and for each property a mutant of the model
that TLC shows to violate it.
