------------------------------ MODULE MCSamples ------------------------------
(***************************************************************************)
(* The three kinds of sample programs in one run: a behaviour is one of    *)
(* the kernel sample, of the user-space sample with several instances, or  *)
(* of the samples of two Xen domains.                                      *)
(***************************************************************************)
EXTENDS Integers

CONSTANTS
    Writers, WaitMsgs, WaitBufs, MaxInterrupts, MaxTxErrors,
    Instances, Polled, UserMsgs, UserBufs, MaxSignals,
    XenMsgs, MaxPings, XenBufs

VARIABLES
    program,
    loaded, driver, writer, completion, last, requests, replies, lostBufs, interrupted,
    crossed,
    app, main, sema, link, answered, behind, signals, astray,
    dom, incoming, ctrl, pings, roles, lost, txErrors

W == INSTANCE SampleWait WITH MaxMsgs <- WaitMsgs, NumBufs <- WaitBufs
U == INSTANCE SampleUser WITH MaxMsgs <- UserMsgs, NumBufs <- UserBufs
X == INSTANCE SampleXen WITH MaxMsgs <- XenMsgs, NumBufs <- XenBufs

ASSUME MCSamplesAssumption ==
    W!SampleWaitAssumption /\ U!SampleUserAssumption /\ X!SampleXenAssumption

wait == <<loaded, driver, writer, completion, last, requests, replies, lostBufs,
          interrupted, crossed>>
user == <<app, main, sema, link, answered, behind, signals, astray>>
xen == <<dom, incoming, ctrl, pings, roles, lost, txErrors>>
vars == <<program, wait, user, xen>>

Init ==
    /\ program \in {"wait", "user", "xen"}
    /\ W!Init /\ U!Init /\ X!Init

\* A step A of one program; the others are not there.
OfWait(A) == program = "wait" /\ A /\ UNCHANGED <<program, user, xen>>
OfUser(A) == program = "user" /\ A /\ UNCHANGED <<program, wait, xen>>
OfXen(A) == program = "xen" /\ A /\ UNCHANGED <<program, wait, user>>

Next ==
    \/ OfWait(W!sample_mod_init) \/ OfWait(W!sample_mod_exit)
    \/ \E w \in Writers :
          \/ OfWait(W!Write(w)) \/ OfWait(W!SendNoBuffer(w)) \/ OfWait(W!SendFails(w))
          \/ OfWait(W!Send(w)) \/ OfWait(W!Wake(w)) \/ OfWait(W!Check(w))
          \/ OfWait(W!Interrupt(w))
    \/ \E c \in W!Channels : OfWait(W!Echo(c)) \/ OfWait(W!data_chan_rx_cb(c))
    \/ OfUser(U!Prompts) \/ OfUser(U!CallDemo) \/ OfUser(U!send_ctrl_msg)
    \/ OfUser(U!SendFails) \/ OfUser(U!send_data_msg) \/ OfUser(U!send_data_poll)
    \/ OfUser(U!Wait) \/ OfUser(U!PolledAll)
    \/ OfUser(U!SignalBeside) \/ OfUser(U!SignalWait) \/ OfUser(U!SignalScan)
    \/ \E i \in Instances :
          \/ OfUser(U!data_chan_rx_cb(i)) \/ OfUser(U!ctrl_chan_rx_cb(i))
          \/ OfUser(U!RemoteEcho(i))
    \/ \E d \in X!Domains :
          \/ OfXen(X!Write(d)) \/ OfXen(X!ipc_sysfs_show(d)) \/ OfXen(X!Ping(d))
          \/ OfXen(X!Reply(d)) \/ OfXen(X!SendFails(d)) \/ OfXen(X!ctrl_chan_rx_cb(d))
          \/ OfXen(X!data_chan_rx_cb(d)) \/ OfXen(X!ShowAfterPoll(d))
          \/ OfXen(X!DemoAfterPoll(d))

\* The threads of the programs run, the remote sides echo, interrupts are
\* served; nobody has to load a module, to type, or to send a signal.  In the
\* domain that did not write, somebody reads the file.
Fairness ==
    /\ \A w \in Writers : WF_vars(OfWait(W!Run(w)))
    /\ \A c \in W!Channels :
          WF_vars(OfWait(W!Echo(c))) /\ WF_vars(OfWait(W!data_chan_rx_cb(c)))
    /\ WF_vars(OfUser(U!Demo))
    /\ \A i \in Instances :
          WF_vars(OfUser(U!Receive(i))) /\ WF_vars(OfUser(U!RemoteEcho(i)))
    /\ \A d \in X!Domains :
          /\ WF_vars(OfXen(X!Go(d)))
          /\ WF_vars(OfXen(roles[d] \subseteq {"read"} /\ pings > 0 /\ X!ipc_sysfs_show(d)))

Spec == Init /\ [][Next]_vars /\ Fairness

-----------------------------------------------------------------------------
\* The kernel sample: a signal of the completion for each reply (SampleWait).
CompletionBalance == W!CompletionBalance

\* The kernel sample: a reply is the echo of the last message (SampleWait).
EchoMatches == W!EchoMatches

\* The user-space sample: a demo leaves nothing behind (SampleUser).
CleanPrompt == U!CleanPrompt

\* The user-space sample: a signal ends the program (SampleUser).
GracefulExit == U!GracefulExit

\* The Xen samples: all messages come before the first reply (SampleXen).
RepliesAfterAll == X!RepliesAfterAll

\* The Xen samples: every write of the file returns (SampleXen).
PingReturns == X!PingReturns

\* The kernel sample: a lone writer stops waiting (SampleWait).
WaitReturns == W!WaitReturns
==============================================================================
