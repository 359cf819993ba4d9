------------------------------ MODULE IpcFifo ------------------------------
(***************************************************************************)
(* What struct ipc_queue promises (src/ipc-queue.h): between two sides,    *)
(* one bounded first-in first-out queue in each direction.  fifo[s] holds  *)
(* what side s has pushed and its peer has not popped yet.  A push is one  *)
(* atomic step.  A pop observes the queue when it starts and answers with  *)
(* what it saw: -ENOBUFS only if the queue was empty then, the oldest      *)
(* element otherwise.  Neither ever answers -EINVAL.                       *)
(***************************************************************************)
EXTENDS Naturals, Sequences

CONSTANTS
    Elem,       \* the elements
    Capacity    \* how many of them a direction can hold

VARIABLES
    fifo,       \* fifo[s]: the elements on their way from s to its peer
    popSeen,    \* popSeen[s]: what the pop in progress on side s has seen
    pushRet,    \* pushRet[s]: result of the last push of side s
    popRet      \* popRet[s]: result of the last pop of side s

vars == <<fifo, popSeen, pushRet, popRet>>

Side == {0, 1}

Peer(s) == 1 - s

Init ==
    /\ fifo \in [Side -> Seq(Elem)]
    /\ \A s \in Side : Len(fifo[s]) <= Capacity
    /\ popSeen = [s \in Side |-> "nothing"]
    /\ pushRet = [s \in Side |-> "none"]
    /\ popRet = [s \in Side |-> "none"]

PushOk(s, e) ==
    /\ Len(fifo[s]) < Capacity
    /\ fifo' = [fifo EXCEPT ![s] = Append(@, e)]
    /\ pushRet' = [pushRet EXCEPT ![s] = "ok"]
    /\ UNCHANGED <<popSeen, popRet>>

PushFull(s) ==
    /\ Len(fifo[s]) = Capacity
    /\ pushRet' = [pushRet EXCEPT ![s] = "ENOMEM"]
    /\ UNCHANGED <<fifo, popSeen, popRet>>

PopStart(s) ==
    /\ popSeen[s] = "nothing"
    /\ popSeen' = [popSeen EXCEPT ![s] =
                     IF fifo[Peer(s)] = <<>> THEN "empty" ELSE "element"]
    /\ UNCHANGED <<fifo, pushRet, popRet>>

PopOk(s) ==
    /\ popSeen[s] = "element"
    /\ popRet' = [popRet EXCEPT ![s] = Head(fifo[Peer(s)])]
    /\ fifo' = [fifo EXCEPT ![Peer(s)] = Tail(@)]
    /\ popSeen' = [popSeen EXCEPT ![s] = "nothing"]
    /\ UNCHANGED pushRet

PopEmpty(s) ==
    /\ popSeen[s] = "empty"
    /\ popRet' = [popRet EXCEPT ![s] = "ENOBUFS"]
    /\ popSeen' = [popSeen EXCEPT ![s] = "nothing"]
    /\ UNCHANGED <<fifo, pushRet>>

Next ==
    \E s \in Side :
        \/ \E e \in Elem : PushOk(s, e)
        \/ PushFull(s)
        \/ PopStart(s)
        \/ PopOk(s)
        \/ PopEmpty(s)

Spec == Init /\ [][Next]_vars
=============================================================================
