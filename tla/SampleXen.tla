------------------------------ MODULE SampleXen ------------------------------
(***************************************************************************)
(* The samples of the two Xen domains (src/sample_xen/dom0/sample.c and    *)
(* dom0less/sample.c, the same code): a write of a number to the sysfs     *)
(* file announces and sends that many messages and polls for as many       *)
(* replies; a read of the file polls until the announced messages have     *)
(* come, and replies to them.  Nothing is received outside of those calls. *)
(* Each domain makes one call at a time.                                   *)
(***************************************************************************)
EXTENDS Integers, FiniteSets

CONSTANTS
    MaxMsgs,    \* bound: the numbers written
    MaxPings,   \* bound: writes, in both domains
    NumBufs,    \* the buffers of a channel
    MaxTxErrors \* bound: calls of ipc_shm_tx and ipc_shm_unmanaged_tx that fail

\* Of the constants; the module that instantiates this one assumes it.
SampleXenAssumption ==
    /\ MaxMsgs \in Nat /\ MaxPings \in Nat /\ NumBufs \in Nat \ {0}
    /\ MaxTxErrors \in Nat

Domains == {0, 1}
Other(d) == 1 - d

\* The data channels.
Channels == {1, 2}

VARIABLES
    dom,        \* of each domain: where its call is, and its struct app
    incoming,   \* of each domain and channel: messages not yet received
    ctrl,       \* of each domain: the control message, and if it is unseen
    pings,      \* writes so far
    roles,      \* of each domain: the kinds of calls it has made
    lost,       \* of each domain and channel: buffers a failed tx leaves acquired
    txErrors    \* calls of ipc_shm_tx and ipc_shm_unmanaged_tx that have failed

vars == <<dom, incoming, ctrl, pings, roles, lost, txErrors>>

\* num is app.num_msgs, msg the messages the call has sent; tx, rx and expected
\* are num_tx_msg, num_rx_msg and expected_msgs; cursor is the channel that
\* ipc_shm_rx looks at, and again if it will go round once more.
Loaded == [at |-> "idle", num |-> 0, msg |-> 0, tx |-> 0, rx |-> 0,
           expected |-> 0, cursor |-> 0, again |-> FALSE]

Init ==
    /\ dom = [d \in Domains |-> Loaded]
    /\ incoming = [d \in Domains |-> [c \in Channels |-> 0]]
    /\ ctrl = [d \in Domains |-> [num |-> 0, unseen |-> FALSE]]
    /\ pings = 0
    /\ roles = [d \in Domains |-> {}]
    /\ lost = [d \in Domains |-> [c \in Channels |-> 0]]
    /\ txErrors = 0

\* A call of the driver that succeeds (ok) or fails.
Tx(ok) ==
    \/ ok /\ UNCHANGED txErrors
    \/ ~ok /\ txErrors < MaxTxErrors /\ txErrors' = txErrors + 1

\* The control message to the other domain; it replaces one not yet seen, in the
\* memory even if ipc_shm_unmanaged_tx then fails, not if the memory cannot be had.
send_ctrl_msg(d, num, ok) ==
    /\ Tx(ok)
    /\ \/ ctrl' = [ctrl EXCEPT ![Other(d)] = [num |-> num, unseen |-> ok \/ @.unseen]]
       \/ ~ok /\ UNCHANGED ctrl

-----------------------------------------------------------------------------
(* The calls *)

\* Without the control message run_demo_poll returns at once.
ipc_sysfs_store(d, num, ok) ==
    /\ dom[d].at = "idle" /\ pings < MaxPings
    /\ dom' = [dom EXCEPT ![d].at = IF ok THEN "ping" ELSE "idle", ![d].num = num,
                          ![d].msg = 0]
    /\ send_ctrl_msg(d, num, ok)
    /\ pings' = pings + 1
    /\ roles' = [roles EXCEPT ![d] = @ \cup {"write"}]
    /\ UNCHANGED <<incoming, lost>>

ipc_sysfs_show(d) ==
    /\ dom[d].at = "idle"
    /\ dom' = [dom EXCEPT ![d].at = "listen", ![d].rx = 0, ![d].expected = 0]
    /\ roles' = [roles EXCEPT ![d] = @ \cup {"read"}]
    /\ UNCHANGED <<incoming, ctrl, pings, lost, txErrors>>

ChannelOf(msg) == 1 + (msg % 2)

\* send_data_poll: tried until there is a buffer, without polling.  If ipc_shm_tx
\* fails the buffer is not released.
send_data_poll(d, ok) ==
    LET c == ChannelOf(dom[d].msg)
    IN  /\ incoming[Other(d)][c] + lost[d][c] < NumBufs
        /\ Tx(ok)
        /\ IF ok THEN /\ incoming' = [incoming EXCEPT ![Other(d)][c] = @ + 1]
                      /\ UNCHANGED lost
           ELSE /\ lost' = [lost EXCEPT ![d][c] = @ + 1]
                /\ UNCHANGED incoming

\* A message of run_demo_poll; the polling follows the last one.
Ping(d) ==
    /\ dom[d].at = "ping" /\ send_data_poll(d, TRUE)
    /\ dom' = [dom EXCEPT ![d].msg = @ + 1, ![d].tx = @ + 1,
                  ![d].at = IF dom[d].msg + 1 = dom[d].num THEN "await" ELSE @]
    /\ UNCHANGED <<ctrl, pings, roles>>

\* Mutant: the loop over the replies starts at 1.
ReplyShort(d) ==
    /\ dom[d].at = "reply" /\ send_data_poll(d, TRUE)
    /\ dom' = [dom EXCEPT ![d] =
                  IF @.msg + 2 >= @.expected
                  THEN [@ EXCEPT !.at = "idle", !.msg = 0, !.rx = 0]
                  ELSE [@ EXCEPT !.msg = @ + 1]]
    /\ UNCHANGED <<ctrl, pings, roles>>

\* A reply of ipc_sysfs_show, not counted in num_tx_msg; after the last one
\* num_rx_msg is reset, and the call returns.
Reply(d) ==
    /\ dom[d].at = "reply" /\ send_data_poll(d, TRUE)
    /\ dom' = [dom EXCEPT ![d] =
                  IF @.msg + 1 = @.expected
                  THEN [@ EXCEPT !.at = "idle", !.msg = 0, !.rx = 0]
                  ELSE [@ EXCEPT !.msg = dom[d].msg + 1]]
    /\ UNCHANGED <<ctrl, pings, roles>>

\* An error ends either call: of a write it is ignored and the messages sent so
\* far stay counted, of a read num_rx_msg is not reset.
SendFails(d) ==
    /\ dom[d].at \in {"ping", "reply"} /\ send_data_poll(d, FALSE)
    /\ dom' = [dom EXCEPT ![d].at = "idle", ![d].msg = 0]
    /\ UNCHANGED <<ctrl, pings, roles>>

-----------------------------------------------------------------------------
(* ipc_shm_poll_channels *)

Polling(d) == dom[d].at \in {"listen", "await"}

\* Channel 0: its callback stores the number; the channel then reports its
\* whole budget as used, so that ipc_shm_rx goes round again.
ctrl_chan_rx_cb(d) ==
    /\ Polling(d) /\ dom[d].cursor = 0
    /\ dom' = [dom EXCEPT ![d].cursor = 1, ![d].again = ctrl[d].unseen,
                  ![d].expected = IF ctrl[d].unseen THEN ctrl[d].num ELSE @]
    /\ ctrl' = [ctrl EXCEPT ![d].unseen = FALSE]
    /\ UNCHANGED <<incoming, pings, roles, lost, txErrors>>

\* A data channel: a callback for each message that is there, below the budget.
data_chan_rx_cb(d) ==
    LET c == dom[d].cursor
    IN  /\ Polling(d) /\ c \in Channels
        /\ dom' = [dom EXCEPT ![d].rx = @ + incoming[d][c],
                      ![d].cursor = IF c = 2 /\ dom[d].again THEN 0 ELSE @ + 1]
        /\ incoming' = [incoming EXCEPT ![d][c] = 0]
        /\ UNCHANGED <<ctrl, pings, roles, lost, txErrors>>

PollDone(d) == Polling(d) /\ dom[d].cursor = 3

PollAgain(d) == dom' = [dom EXCEPT ![d].cursor = 0]

\* Mutant: the read does not wait for the announced number of messages.
ShowAfterPollAny(d) ==
    /\ PollDone(d) /\ dom[d].at = "listen"
    /\ IF dom[d].rx > 0 /\ dom[d].expected > 0
       THEN /\ dom' = [dom EXCEPT ![d].at = "reply", ![d].msg = 0, ![d].cursor = 0]
            /\ \E ok \in BOOLEAN : send_ctrl_msg(d, dom[d].num, ok)
       ELSE PollAgain(d) /\ UNCHANGED <<ctrl, txErrors>>
    /\ UNCHANGED <<incoming, pings, roles, lost>>

\* The loop of ipc_sysfs_show: all the announced messages have come.  An error of
\* the control message is ignored.
ShowAfterPoll(d) ==
    /\ PollDone(d) /\ dom[d].at = "listen"
    /\ IF dom[d].rx = dom[d].expected /\ dom[d].expected # 0
       THEN /\ dom' = [dom EXCEPT ![d].at = "reply", ![d].msg = 0, ![d].cursor = 0]
            /\ \E ok \in BOOLEAN : send_ctrl_msg(d, dom[d].num, ok)
       ELSE PollAgain(d) /\ UNCHANGED <<ctrl, txErrors>>
    /\ UNCHANGED <<incoming, pings, roles, lost>>

\* The loop of run_demo_poll: as many messages received as sent.
DemoAfterPoll(d) ==
    /\ PollDone(d) /\ dom[d].at = "await"
    /\ IF dom[d].tx = dom[d].rx
       THEN dom' = [dom EXCEPT ![d].at = "idle", ![d].msg = 0, ![d].cursor = 0]
       ELSE PollAgain(d)
    /\ UNCHANGED <<incoming, ctrl, pings, roles, lost, txErrors>>

-----------------------------------------------------------------------------
Write(d) == \E num \in 1..MaxMsgs, ok \in BOOLEAN : ipc_sysfs_store(d, num, ok)

Go(d) ==
    \/ Ping(d) \/ Reply(d) \/ SendFails(d) \/ ctrl_chan_rx_cb(d) \/ data_chan_rx_cb(d)
    \/ ShowAfterPoll(d) \/ DemoAfterPoll(d)

Next == \E d \in Domains : Write(d) \/ ipc_sysfs_show(d) \/ Go(d)

-----------------------------------------------------------------------------
(* Properties *)

\* One domain writes the file, and the other reads it, and the driver has sent
\* what it was given.
Apart ==
    /\ txErrors = 0
    /\ \E d \in Domains : roles[d] \subseteq {"write"} /\ roles[Other(d)] \subseteq {"read"}

\* README.rst: a domain "replies after received all expected messages".  When one
\* domain only writes, the other only reads and nothing failed, the reader begins
\* to reply when the writer has sent and the reader has received every message of
\* the write, and the writer takes no other message for a reply: it returns
\* when the reader has sent as many replies as it was sent messages.
RepliesAfterAll ==
    Apart => \A d \in Domains :
        /\ dom[d].at = "reply" /\ dom[d].msg = 0 =>
              /\ dom[Other(d)].at = "await"
              /\ dom[d].expected = dom[Other(d)].num
              /\ incoming[d] = [c \in Channels |-> 0]
        /\ dom[d].at = "idle" => dom[d].tx = dom[d].rx

\* Under the same condition every write returns, however many messages it sends
\* for the buffers of a channel: run_demo_poll takes buffers and does not poll,
\* the reader polls and takes no buffers, and then the other way round.
PingReturns ==
    \A d \in Domains : (dom[d].at \in {"ping", "await"}) ~> (dom[d].at = "idle" \/ ~Apart)
==============================================================================
