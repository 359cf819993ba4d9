----------------------------- MODULE SampleWait -----------------------------
(***************************************************************************)
(* The kernel sample (src/sample/sample.c): a write of a number to the     *)
(* sysfs file sends that many messages, and waits for the echo of each     *)
(* with a completion that the Rx callback signals.  Several processes may  *)
(* write at the same time: the file has no lock of its own, and the        *)
(* completion and last_rx_no_msg are shared.  A signal ends a wait.  The   *)
(* module may fail to load and leave the driver initialised.  The remote   *)
(* side, external, echoes the messages of a channel in their order.        *)
(***************************************************************************)
EXTENDS Integers, Sequences, FiniteSets

CONSTANTS
    Writers,        \* the processes that write to the sysfs file
    MaxMsgs,        \* bound: the numbers written
    NumBufs,        \* the buffers of a channel
    MaxInterrupts,  \* bound: waits that a signal ends
    MaxTxErrors     \* bound: calls of ipc_shm_tx that fail

\* Of the constants; the module that instantiates this one assumes it.
SampleWaitAssumption ==
    /\ IsFiniteSet(Writers)
    /\ MaxMsgs \in Nat /\ NumBufs \in Nat \ {0}
    /\ MaxInterrupts \in Nat /\ MaxTxErrors \in Nat

\* The data channels; the control channel carries no reply.
Channels == {1, 2}

VARIABLES
    loaded,     \* the module is loaded
    driver,     \* "down", "up", or "stale": with the callbacks of a module that is gone
    writer,     \* of each writer: where run_demo is, num_msgs and msg
    completion, \* reply_received.done
    last,       \* app.last_rx_no_msg
    requests,   \* of each channel: messages the remote side has not taken
    replies,    \* of each channel: echoes that were not received
    lostBufs,   \* of each channel: buffers that a failed tx leaves acquired
    interrupted,\* waits that a signal ended
    crossed     \* a writer started while another was at work

vars == <<loaded, driver, writer, completion, last, requests, replies, lostBufs,
          interrupted, crossed>>

Resting == [at |-> "idle", num |-> 0, msg |-> 0]

Empty == [c \in Channels |-> <<>>]

Init ==
    /\ loaded = FALSE /\ driver = "down"
    /\ writer = [w \in Writers |-> Resting]
    /\ completion = 0 /\ last = 0
    /\ requests = Empty /\ replies = Empty
    /\ lostBufs = [c \in Channels |-> 0]
    /\ interrupted = 0 /\ crossed = FALSE

\* The channels take turns, a message each.
ChannelOf(msg) == 1 + (msg % 2)

Working == {w \in Writers : writer[w].at # "idle"}

-----------------------------------------------------------------------------
(* The module *)

\* The driver is initialised again on -EAGAIN, until it succeeds, and left alone
\* if it is initialised already; then the memory of the control channel is
\* acquired and the sysfs file created.  If one of the two fails the module is
\* not loaded, and nobody frees the driver.
sample_mod_init ==
    /\ ~loaded
    /\ \/ loaded' = TRUE /\ driver' = IF driver = "down" THEN "up" ELSE driver
       \/ loaded' = FALSE /\ driver' = "stale"
    /\ UNCHANGED <<writer, completion, last, requests, replies, lostBufs,
                   interrupted, crossed>>

\* The removal of the sysfs file waits for its writers.  ipc_shm_free, and the
\* next initialisation of the queues, drop what is under way; the counters of
\* the module are new ones when it is loaded again.
sample_mod_exit ==
    /\ loaded /\ Working = {}
    /\ loaded' = FALSE /\ driver' = "down"
    /\ completion' = 0 /\ last' = 0
    /\ requests' = Empty /\ replies' = Empty
    /\ lostBufs' = [c \in Channels |-> 0]
    /\ interrupted' = 0 /\ crossed' = FALSE
    /\ UNCHANGED writer

-----------------------------------------------------------------------------
(* A write to the sysfs file *)

Leave(w) == writer' = [writer EXCEPT ![w] = Resting]

\* run_demo sends the control message and starts; an error of that message, or
\* the number 0, would end it at once and change nothing here.
ipc_sysfs_store(w, num) ==
    /\ loaded /\ writer[w].at = "idle"
    /\ writer' = [writer EXCEPT ![w] = [at |-> "send", num |-> num, msg |-> 0]]
    /\ crossed' = (crossed \/ Working # {})
    /\ UNCHANGED <<loaded, driver, completion, last, requests, replies, lostBufs,
                   interrupted>>

\* No buffer: -ENOMEM, and the demo ends.
NoBuffer(c) == Len(requests[c]) + lostBufs[c] >= NumBufs

SendNoBuffer(w) ==
    /\ writer[w].at = "send" /\ NoBuffer(ChannelOf(writer[w].msg))
    /\ Leave(w)
    /\ UNCHANGED <<loaded, driver, completion, last, requests, replies, lostBufs,
                   interrupted, crossed>>

\* ipc_shm_tx fails: the demo ends, and the buffer is not released.
SendFails(w) ==
    LET c == ChannelOf(writer[w].msg)
    IN  /\ writer[w].at = "send" /\ ~NoBuffer(c)
        /\ lostBufs[1] + lostBufs[2] < MaxTxErrors
        /\ lostBufs' = [lostBufs EXCEPT ![c] = @ + 1]
        /\ Leave(w)
        /\ UNCHANGED <<loaded, driver, completion, last, requests, replies, interrupted,
                       crossed>>

Send(w) ==
    LET c == ChannelOf(writer[w].msg)
    IN  /\ writer[w].at = "send" /\ ~NoBuffer(c)
        /\ requests' = [requests EXCEPT ![c] = Append(@, writer[w].msg)]
        /\ writer' = [writer EXCEPT ![w].at = "wait"]
        /\ UNCHANGED <<loaded, driver, completion, last, replies, lostBufs, interrupted,
                       crossed>>

\* Mutant: the wait goes on until the awaited number is there.
WakeOwn(w) ==
    /\ writer[w].at = "wait" /\ completion > 0 /\ last = writer[w].msg
    /\ completion' = completion - 1
    /\ writer' = [writer EXCEPT ![w].at = "check"]
    /\ UNCHANGED <<loaded, driver, last, requests, replies, lostBufs, interrupted, crossed>>

\* wait_for_completion_interruptible returns 0.
Wake(w) ==
    /\ writer[w].at = "wait" /\ completion > 0
    /\ completion' = completion - 1
    /\ writer' = [writer EXCEPT ![w].at = "check"]
    /\ UNCHANGED <<loaded, driver, last, requests, replies, lostBufs, interrupted, crossed>>

\* A reply that is not the awaited one, or the last message, ends the demo.
Check(w) ==
    /\ writer[w].at = "check"
    /\ IF last = writer[w].msg /\ writer[w].msg + 1 < writer[w].num
       THEN writer' = [writer EXCEPT ![w] =
                          [at |-> "send", num |-> @.num, msg |-> @.msg + 1]]
       ELSE Leave(w)
    /\ UNCHANGED <<loaded, driver, completion, last, requests, replies, lostBufs,
                   interrupted, crossed>>

\* -ERESTARTSYS: the demo ends, the reply is still to come.
Interrupt(w) ==
    /\ writer[w].at = "wait" /\ interrupted < MaxInterrupts
    /\ interrupted' = interrupted + 1
    /\ Leave(w)
    /\ UNCHANGED <<loaded, driver, completion, last, requests, replies, lostBufs, crossed>>

-----------------------------------------------------------------------------
(* The other side, and the Rx callback *)

\* The remote side takes a message, releases its buffer and sends it back.
Echo(c) ==
    /\ requests[c] # <<>>
    /\ requests' = [requests EXCEPT ![c] = Tail(@)]
    /\ replies' = [replies EXCEPT ![c] = Append(@, Head(requests[c]))]
    /\ UNCHANGED <<loaded, driver, writer, completion, last, lostBufs, interrupted,
                   crossed>>

\* Mutant: the callback signals only the reply that carries a new number.
data_chan_rx_cb_new(c) ==
    /\ loaded /\ driver = "up" /\ replies[c] # <<>>
    /\ last' = Head(replies[c])
    /\ replies' = [replies EXCEPT ![c] = Tail(@)]
    /\ completion' = IF last' = last THEN completion ELSE completion + 1
    /\ UNCHANGED <<loaded, driver, writer, requests, lostBufs, interrupted, crossed>>

\* Mutant: the callback signals before it stores the number.
data_chan_rx_cb_late(c) ==
    /\ loaded /\ driver = "up" /\ replies[c] # <<>>
    /\ replies' = [replies EXCEPT ![c] = Tail(@)]
    /\ completion' = completion + 1
    /\ last' \in {last, Head(replies[c])}
    /\ UNCHANGED <<loaded, driver, writer, requests, lostBufs, interrupted, crossed>>

\* The number is stored, the buffer released, and the completion signalled.
data_chan_rx_cb(c) ==
    /\ loaded /\ driver = "up" /\ replies[c] # <<>>
    /\ last' = Head(replies[c])
    /\ replies' = [replies EXCEPT ![c] = Tail(@)]
    /\ completion' = completion + 1
    /\ UNCHANGED <<loaded, driver, writer, requests, lostBufs, interrupted, crossed>>

-----------------------------------------------------------------------------
Write(w) == \E num \in 1..MaxMsgs : ipc_sysfs_store(w, num)

Run(w) ==
    SendNoBuffer(w) \/ SendFails(w) \/ Send(w) \/ Wake(w) \/ Check(w)

Transport == \E c \in Channels : Echo(c) \/ data_chan_rx_cb(c)

Next ==
    \/ sample_mod_init \/ sample_mod_exit
    \/ \E w \in Writers : Write(w) \/ Run(w) \/ Interrupt(w)
    \/ Transport

-----------------------------------------------------------------------------
(* Properties *)

UnderWay == Len(requests[1]) + Len(requests[2]) + Len(replies[1]) + Len(replies[2])

\* Every signal of the completion has its reply and every reply its message,
\* whoever waits for it: what is signalled or under way is what is waited for,
\* and one for each wait that a signal ended, which a later write then takes for
\* its own reply.
CompletionBalance ==
    completion + UnderWay =
        Cardinality({w \in Writers : writer[w].at = "wait"}) + interrupted

\* As long as no wait was interrupted and no two processes wrote at the same
\* time, a reply is the echo of the message that was sent last: run_demo does
\* not end with "last_rx_no_msg != msg_no".
EchoMatches ==
    interrupted = 0 /\ ~crossed =>
        \A w \in Writers : writer[w].at = "check" => last = writer[w].msg

\* A writer that is alone stops waiting, whatever replies the interrupted waits
\* and the failed sends before it left behind: an early one only wakes it early.
\* With several writers one may always be late for the completion.  Nobody
\* signals it if the driver was left initialised by a module that did not load.
WaitReturns ==
    \A w \in Writers :
        (writer[w].at = "wait" /\ ~crossed /\ driver = "up")
            ~> (writer[w].at # "wait" \/ crossed)
=============================================================================
