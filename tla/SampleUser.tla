----------------------------- MODULE SampleUser -----------------------------
(***************************************************************************)
(* The user-space sample with several instances                            *)
(* (src/sample_multi_instance_user/sample_multi_instance.c): the main loop *)
(* asks for an instance and a number of messages, announces the number on  *)
(* the control channel, sends the messages and takes the echoes and a last *)
(* control message that answers the announcement.  The Rx callbacks post   *)
(* one semaphore, shared by all the instances; they run in the thread of   *)
(* an instance, or in ipc_shm_poll_channels for an instance without        *)
(* interrupts.  SIGINT sets app.num_msgs and app.instance to 0 at any      *)
(* time.  sa_flags is not initialised, and the thread that takes the       *)
(* signal is not fixed: it ends the sem_wait or scanf under way, or not.   *)
(* The remote sides, the user and the semaphore are external.              *)
(***************************************************************************)
EXTENDS Integers, FiniteSets

CONSTANTS
    Instances,      \* configured instances
    Polled,         \* the ones whose two interrupts are IPC_IRQ_NONE
    MaxMsgs,        \* bound: the numbers the user types
    NumBufs,        \* the buffers of a channel
    MaxSignals      \* bound: signals

\* Of the constants; the module that instantiates this one assumes it.
SampleUserAssumption ==
    /\ 0 \in Instances /\ Polled \subseteq Instances \ {0}
    /\ MaxMsgs \in Nat /\ NumBufs \in Nat \ {0} /\ MaxSignals \in Nat

VARIABLES
    app,        \* num_msgs and instance of the global app
    main,       \* where main is, and num_msgs, instance and msg of the demo
    sema,       \* the value of app.sema
    link,       \* of each instance: messages and replies under way
    answered,   \* of each polled instance: expected_msgs is not 0
    behind,     \* of each polled instance: tx_count - rx_count
    signals,    \* signals so far
    astray      \* a signal came where the program does not expect it

vars == <<app, main, sema, link, answered, behind, signals, astray>>

\* req and rep are the messages and echoes under way, due the announced
\* messages the remote side has not taken, ctrl its answer to them.
Quiet == [req |-> 0, rep |-> 0, due |-> 0, ctrl |-> FALSE]

Init ==
    /\ app = [num |-> 1, inst |-> 0]
    /\ main = [at |-> "inst", num |-> 0, inst |-> 0, msg |-> 0]
    /\ sema = 0
    /\ link = [i \in Instances |-> Quiet]
    /\ answered = [i \in Polled |-> FALSE]
    /\ behind = [i \in Polled |-> 0]
    /\ signals = 0 /\ astray = FALSE

Goto(at) == main' = [main EXCEPT !.at = at]

-----------------------------------------------------------------------------
(* The prompts *)

\* An instance that does not exist is asked for again.
ScanInstance(i) ==
    /\ main.at = "inst"
    /\ app' = [app EXCEPT !.inst = i]
    /\ Goto("count")
    /\ UNCHANGED <<sema, link, answered, behind, signals, astray>>

ScanCount(n) ==
    /\ main.at = "count"
    /\ app' = [app EXCEPT !.num = n]
    /\ Goto(IF n = 0 THEN "exit" ELSE "start")
    /\ UNCHANGED <<sema, link, answered, behind, signals, astray>>

\* The arguments of run_demo or run_demo_poll are read from app.
CallDemo ==
    /\ main.at = "start"
    /\ main' = [at |-> "announce", num |-> app.num, inst |-> app.inst, msg |-> 0]
    /\ UNCHANGED <<app, sema, link, answered, behind, signals, astray>>

-----------------------------------------------------------------------------
(* The demo *)

\* The while loop of main: a signal has set num_msgs to 0.
AfterDemo(num) == Goto(IF num = 0 THEN "exit" ELSE "inst")

\* The instance of the control message, and of the messages that follow:
\* run_demo reads app.instance again, run_demo_poll has its argument.
Target == IF main.inst \in Polled THEN main.inst ELSE app.inst

\* run_demo_poll has reset expected_msgs.  An error of ipc_shm_unmanaged_tx ends
\* the program.
send_ctrl_msg ==
    /\ main.at = "announce"
    /\ answered' = [i \in Polled |-> answered[i] /\ i # main.inst]
    /\ \/ /\ link' = [link EXCEPT ![Target].due = app.num]
          /\ IF main.num = 0 THEN AfterDemo(app.num) ELSE Goto("send")
       \/ Goto("exit") /\ UNCHANGED link
    /\ UNCHANGED <<app, sema, behind, signals, astray>>

NoBuffer == link[Target].req >= NumBufs

\* An error of ipc_shm_tx ends the program, as -ENOMEM without a buffer does;
\* send_data_poll waits for the buffer.
SendFails ==
    /\ main.at = "send" /\ (main.inst \in Polled => ~NoBuffer)
    /\ Goto("exit")
    /\ UNCHANGED <<app, sema, link, answered, behind, signals, astray>>

Sent(at) == main' = [main EXCEPT !.msg = @ + 1, !.at = at]

send_data_msg ==
    /\ main.at = "send" /\ main.inst \notin Polled /\ ~NoBuffer
    /\ link' = [link EXCEPT ![Target].req = @ + 1]
    /\ Sent("wait")
    /\ UNCHANGED <<app, sema, answered, behind, signals, astray>>

send_data_poll ==
    /\ main.at = "send" /\ main.inst \in Polled /\ ~NoBuffer
    /\ link' = [link EXCEPT ![Target].req = @ + 1]
    /\ behind' = [behind EXCEPT ![main.inst] = @ + 1]
    /\ Sent(IF main.msg + 1 = main.num THEN "poll" ELSE "send")
    /\ UNCHANGED <<app, sema, answered, signals, astray>>

\* After a sem_wait: of an echo, of the last control message, or of one of the
\* posts of the callbacks that ran in ipc_shm_poll_channels (msg counts them).
AfterWait(num) ==
    \/ /\ main.at = "wait"
       /\ Goto(IF main.msg = main.num THEN "last" ELSE "send")
    \/ /\ main.at = "last"
       /\ AfterDemo(num)
    \/ /\ main.at = "drain"
       /\ IF main.msg = 0 THEN AfterDemo(num) ELSE main' = [main EXCEPT !.msg = @ - 1]

Wait ==
    /\ sema > 0 /\ AfterWait(app.num)
    /\ sema' = sema - 1
    /\ UNCHANGED <<app, link, answered, behind, signals, astray>>

\* Mutant: the loop that takes back the posts takes one for each echo only.
PolledMessagesOnly ==
    /\ main.at = "poll"
    /\ behind[main.inst] = 0 /\ answered[main.inst]
    /\ main' = [main EXCEPT !.at = "drain", !.msg = main.num - 1]
    /\ UNCHANGED <<app, sema, link, answered, behind, signals, astray>>

\* The polling ends: num_msgs + 1 posts are taken.
PolledAll ==
    /\ main.at = "poll"
    /\ behind[main.inst] = 0 /\ answered[main.inst]
    /\ main' = [main EXCEPT !.at = "drain", !.msg = main.num]
    /\ UNCHANGED <<app, sema, link, answered, behind, signals, astray>>

-----------------------------------------------------------------------------
(* The Rx callbacks *)

Receiving(i) == i \in Polled => main.at = "poll" /\ main.inst = i

data_chan_rx_cb(i) ==
    /\ Receiving(i) /\ link[i].rep > 0
    /\ link' = [link EXCEPT ![i].rep = @ - 1]
    /\ behind' = [j \in Polled |-> IF j = i THEN behind[j] - 1 ELSE behind[j]]
    /\ sema' = sema + 1
    /\ UNCHANGED <<app, main, answered, signals, astray>>

\* Mutant: no post for the answer once a signal has asked for the end.
ctrl_chan_rx_cb_silent(i) ==
    /\ Receiving(i) /\ link[i].ctrl
    /\ link' = [link EXCEPT ![i].ctrl = FALSE]
    /\ answered' = [j \in Polled |-> answered[j] \/ j = i]
    /\ sema' = IF app.num = 0 THEN sema ELSE sema + 1
    /\ UNCHANGED <<app, main, behind, signals, astray>>

ctrl_chan_rx_cb(i) ==
    /\ Receiving(i) /\ link[i].ctrl
    /\ link' = [link EXCEPT ![i].ctrl = FALSE]
    /\ answered' = [j \in Polled |-> answered[j] \/ j = i]
    /\ sema' = sema + 1
    /\ UNCHANGED <<app, main, behind, signals, astray>>

\* The remote side echoes a message, and answers the last announced one.
RemoteEcho(i) ==
    /\ link[i].req > 0
    /\ link' = [link EXCEPT ![i] =
                   [req |-> @.req - 1, rep |-> @.rep + 1,
                    due |-> IF @.due > 0 THEN @.due - 1 ELSE 0,
                    ctrl |-> @.ctrl \/ @.due = 1]]
    /\ UNCHANGED <<app, main, sema, answered, behind, signals, astray>>

-----------------------------------------------------------------------------
(* The signal *)

int_handler ==
    /\ main.at # "exit" /\ signals < MaxSignals
    /\ signals' = signals + 1
    /\ app' = [num |-> 0, inst |-> 0]

\* The demo on another instance than 0 has messages left, which now go to
\* instance 0: the remote side of the first will not answer.
Diverts ==
    /\ main.at \in {"send", "wait"}
    /\ main.inst \notin Polled \cup {0} /\ main.msg < main.num

\* The handler runs beside the main thread, or between two of its calls.
SignalBeside ==
    /\ int_handler
    /\ astray' = (astray \/ Diverts \/ main.at \in {"inst", "count", "announce"})
    /\ UNCHANGED <<main, sema, link, answered, behind>>

\* The handler ends a sem_wait; its result and errno change nothing.  The
\* while loop of main sees the num_msgs of the handler.
SignalWait ==
    /\ int_handler /\ AfterWait(app'.num)
    /\ UNCHANGED <<sema, link, answered, behind, astray>>

\* The handler ends a scanf: at the first prompt the second one follows.
SignalScan ==
    /\ int_handler
    /\ \/ main.at = "inst" /\ Goto("count")
       \/ main.at = "count" /\ Goto("exit")
    /\ astray' = (astray \/ main.at = "inst")
    /\ UNCHANGED <<sema, link, answered, behind>>

-----------------------------------------------------------------------------
Prompts ==
    \/ \E i \in Instances : ScanInstance(i)
    \/ \E n \in 0..MaxMsgs : ScanCount(n)

Demo ==
    \/ CallDemo \/ send_ctrl_msg \/ SendFails \/ send_data_msg
    \/ send_data_poll \/ Wait \/ PolledAll

Receive(i) == data_chan_rx_cb(i) \/ ctrl_chan_rx_cb(i)

Signal == SignalBeside \/ SignalWait \/ SignalScan

Next ==
    \/ Prompts \/ Demo \/ Signal
    \/ \E i \in Instances : Receive(i) \/ RemoteEcho(i)

-----------------------------------------------------------------------------
(* Properties *)

\* When the program asks for the next instance, the last demo has left nothing
\* behind, whatever the signals: no post in the semaphore that all instances
\* share, which the next demo would take for its own echo, no reply under way.
CleanPrompt ==
    main.at = "inst" =>
        /\ sema = 0
        /\ \A i \in Instances : link[i] = Quiet
        /\ \A i \in Polled : behind[i] = 0

\* "interrupt signal handler for terminating the sample execution gracefully":
\* a signal during a demo ends the program, unless one came at a prompt, before
\* the announcement, or beside a demo on another instance than 0.
GracefulExit == (signals > 0 /\ ~astray) ~> (main.at = "exit" \/ astray)
=============================================================================
