---------------------------- MODULE BufferLedger ----------------------------
(***************************************************************************)
(* What buffer management promises (src/ipc-shm.h, and the comments on     *)
(* struct ipc_shm_pool in src/ipc-shm.c): a buffer of side s is free, or   *)
(* held by the application of s, or sent, or held by the application of    *)
(* the peer that received it; it goes round in this order and is never in  *)
(* two of these states.  Messages arrive in the order they were sent, with *)
(* the content they had when they were sent.                               *)
(***************************************************************************)
EXTENDS Naturals, Sequences

CONSTANTS
    Buf,        \* the buffers in the memory of a side
    Msg         \* what an application may write into a buffer

VARIABLES
    owner,      \* owner[s][b]: the state of buffer b of side s
    inFlight,   \* inFlight[s]: the buffers s sent, oldest first
    content     \* content[s][b]: what buffer b of side s holds

vars == <<owner, inFlight, content>>

Side == {0, 1}

Init ==
    /\ owner = [s \in Side |-> [b \in Buf |-> "free"]]
    /\ inFlight = [s \in Side |-> <<>>]
    /\ content \in [Side -> [Buf -> Msg]]

Acquire(s, b) ==
    /\ owner[s][b] = "free"
    /\ owner' = [owner EXCEPT ![s][b] = "acquired"]
    /\ UNCHANGED <<inFlight, content>>

Write(s, b, m) ==
    /\ owner[s][b] = "acquired"
    /\ content' = [content EXCEPT ![s][b] = m]
    /\ UNCHANGED <<owner, inFlight>>

Send(s, b) ==
    /\ owner[s][b] = "acquired"
    /\ owner' = [owner EXCEPT ![s][b] = "sent"]
    /\ inFlight' = [inFlight EXCEPT ![s] = Append(@, b)]
    /\ UNCHANGED content

Receive(s) ==
    /\ inFlight[s] # <<>>
    /\ owner' = [owner EXCEPT ![s][Head(inFlight[s])] = "received"]
    /\ inFlight' = [inFlight EXCEPT ![s] = Tail(@)]
    /\ UNCHANGED content

Release(s, b) ==
    /\ owner[s][b] = "received"
    /\ owner' = [owner EXCEPT ![s][b] = "free"]
    /\ UNCHANGED <<inFlight, content>>

Next ==
    \E s \in Side :
        \/ Receive(s)
        \/ \E b \in Buf :
              \/ Acquire(s, b) \/ Send(s, b) \/ Release(s, b)
              \/ \E m \in Msg : Write(s, b, m)

Spec == Init /\ [][Next]_vars
=============================================================================
