--------------------------- MODULE ManagedRestart ---------------------------
(***************************************************************************)
(* A managed channel one side of which restarts: its application forgets   *)
(* the buffers it held, and managed_channel_init runs again while the peer *)
(* stays up.  The effect of the handshake on each queue is the one that    *)
(* IpcQueueInit shows when it meets no call of the peer: the channel       *)
(* queues start empty; the pool rings that the restarted side pushes are   *)
(* emptied and filled again with all buffers of its peer; and the pool     *)
(* rings that it pops are taken to be full, with whatever descriptors they *)
(* were last filled with.                                                  *)
(***************************************************************************)
EXTENDS ManagedChannel

CONSTANTS
    Restarters,     \* the sides that may restart
    AllReturned     \* they restart only when no buffer is in use

ASSUME RestartAssumption ==
    Restarters \subseteq Side /\ AllReturned \in BOOLEAN

VARIABLE
    pushed      \* pushed[s][p]: the last NumBufs[p] descriptors pushed into
                \* the ring of pool p that s pops, oldest first

restartVars == <<vars, pushed>>

\* The descriptors ipc_buf_pool_init pushes for pool p.
AllBds(p) == [i \in 1..NumBufs[p] |-> [pool_id |-> p, buf_id |-> i - 1]]

RestartInit ==
    /\ Init
    /\ pushed = [s \in Side |-> [p \in Pool |-> AllBds(p)]]

\* A release that pushes a descriptor overwrites the oldest one of the ring.
Release(t, addr) ==
    LET s == Peer(t)
    IN  /\ ipc_shm_release_buf(t, addr)
        /\ pushed' = [pushed EXCEPT ![s] = [p \in Pool |->
              IF freeBds'[s][p] = freeBds[s][p] THEN @[p]
              ELSE Append(Tail(@[p]), freeBds'[s][p][Len(freeBds'[s][p])])]]

Quiescent == \A s \in Side, p \in Pool : Len(freeBds[s][p]) = NumBufs[p]

\* Mutant: the pool rings that s pops are taken to be empty, as the ring of a
\* channel is.
RestartEmpty(s) ==
    /\ s \in Restarters
    /\ AllReturned => Quiescent
    /\ chanBds' = [t \in Side |-> <<>>]
    /\ freeBds' = [freeBds EXCEPT ![s] = [p \in Pool |-> <<>>],
                                  ![Peer(s)] = [p \in Pool |-> AllBds(p)]]
    /\ pushed' = [pushed EXCEPT ![Peer(s)] = [p \in Pool |-> AllBds(p)]]
    /\ scan' = [scan EXCEPT ![s] = Idle]
    /\ acquired' = [acquired EXCEPT ![s] = {}]
    /\ received' = [received EXCEPT ![Peer(s)] = {}]
    /\ UNCHANGED <<content, txRet, releaseRet>>

\* Side s restarts: the application state of s is lost, the queues are
\* synchronised with the peer, and the pools s gives buffers back to filled.
Restart(s) ==
    /\ s \in Restarters
    /\ AllReturned => Quiescent
    /\ chanBds' = [t \in Side |-> <<>>]
    /\ freeBds' = [freeBds EXCEPT ![s] = pushed[s],
                                  ![Peer(s)] = [p \in Pool |-> AllBds(p)]]
    /\ pushed' = [pushed EXCEPT ![Peer(s)] = [p \in Pool |-> AllBds(p)]]
    /\ scan' = [scan EXCEPT ![s] = Idle]
    /\ acquired' = [acquired EXCEPT ![s] = {}]
    /\ received' = [received EXCEPT ![Peer(s)] = {}]
    /\ UNCHANGED <<content, txRet, releaseRet>>

RestartNext ==
    \E s \in Side :
        \/ /\ \/ \E size \in Sizes : AcquireCall(s, size)
              \/ AcquireSkip(s) \/ AcquireTake(s)
              \/ \E addr \in acquired[s] :
                    ipc_shm_tx(s, addr) \/ \E m \in Msg : AppWrite(s, addr, m)
              \/ ipc_channel_rx(s)
           /\ UNCHANGED pushed
        \/ \E addr \in received[Peer(s)] : Release(s, addr)
        \/ Restart(s)

RestartSpec == RestartInit /\ [][RestartNext]_restartVars
=============================================================================
