-------------------------- MODULE UnmanagedChannel --------------------------
(***************************************************************************)
(* An unmanaged channel of src/ipc-shm.c: unmanaged_channel_init, the      *)
(* unmanaged part of ipc_shm_free_channel, ipc_shm_unmanaged_tx and the    *)
(* unmanaged part of ipc_channel_rx.  Nothing but a counter tells the peer *)
(* that the memory was written: tx_count counts the transmissions of a     *)
(* side, and the peer keeps in its own memory, as remote_tx_count, the     *)
(* value it saw last.                                                      *)
(*                                                                         *)
(* The fields of struct ipc_channel_umem are indexed by the side whose     *)
(* memory holds them.  An action reads or writes at most one word that the *)
(* other side can change or see.  unseen is a history variable.            *)
(***************************************************************************)
EXTENDS Naturals

CONSTANTS
    CountMod,       \* where tx_count wraps around, 2^32 in the code
    MaxRestarts,    \* crashes and releases, both sides together
    Restarters,     \* the sides that may crash or be freed, and start again
    Overlap         \* what the peer may be doing while a side restarts

Side == {0, 1}

Peer(s) == 1 - s

ASSUME CountAssumption == CountMod \in Nat /\ CountMod > 1

ASSUME RestartAssumption ==
    /\ MaxRestarts \in Nat
    /\ Restarters \subseteq Side
    /\ Overlap \subseteq {"tx", "rx", "init"}

VARIABLES
    sentinel, tx_count, remote_tx_count,    \* struct ipc_channel_umem
    initPc,     \* where side s is in its life
    txPc,       \* the ipc_shm_unmanaged_tx call of a side
    rxPc,       \* the ipc_channel_rx call of a side
    rxCount,    \* its local variable remote_tx_count
    restarts,   \* crashes and releases so far
    unseen      \* unseen[s]: transmissions of s since its peer last looked

umem == <<sentinel, tx_count, remote_tx_count>>
calls == <<txPc, rxPc, rxCount>>
vars == <<umem, initPc, calls, restarts, unseen>>

\* The memory is cleared at a cold start.
Init ==
    /\ sentinel = [s \in Side |-> "NONE"]
    /\ tx_count = [s \in Side |-> 0]
    /\ remote_tx_count = [s \in Side |-> 0]
    /\ initPc = [s \in Side |-> "down"]
    /\ txPc = [s \in Side |-> "idle"]
    /\ rxPc = [s \in Side |-> "idle"]
    /\ rxCount = [s \in Side |-> 0]
    /\ restarts = 0
    /\ unseen = [s \in Side |-> 0]

Goto(s, from, to) ==
    /\ initPc[s] = from
    /\ initPc' = [initPc EXCEPT ![s] = to]

Initialising(s) == initPc[s] \in {"mark", "probe", "zeroTx", "zeroRx", "syncTx", "syncRx", "done"}

\* What Overlap excludes is not going on at the peer of s.
PeerQuiet(s) ==
    /\ "tx" \in Overlap \/ txPc[Peer(s)] = "idle"
    /\ "rx" \in Overlap \/ rxPc[Peer(s)] = "idle"

\* Side s may begin a call of this kind: its peer is not starting or stopping.
MayCall(s, kind) ==
    /\ initPc[s] = "up"
    /\ kind \in Overlap \/ initPc[Peer(s)] \in {"down", "up"}

-----------------------------------------------------------------------------
(* unmanaged_channel_init *)

\* -EAGAIN when the peer is initialising: the caller frees the channel.
InitCheck(s) ==
    /\ restarts > 0 /\ "init" \notin Overlap => ~Initialising(Peer(s))
    /\ \/ sentinel[Peer(s)] = "IN_PROGRESS" /\ Goto(s, "down", "free")
       \/ sentinel[Peer(s)] # "IN_PROGRESS" /\ Goto(s, "down", "mark")
    /\ UNCHANGED <<umem, calls, restarts, unseen>>

InitMark(s) ==
    /\ Goto(s, "mark", "probe")
    /\ restarts > 0 => PeerQuiet(s)
    /\ sentinel' = [sentinel EXCEPT ![s] = "IN_PROGRESS"]
    /\ UNCHANGED <<tx_count, remote_tx_count, calls, restarts, unseen>>

InitProbe(s) ==
    /\ \/ sentinel[Peer(s)] = "DONE" /\ Goto(s, "probe", "syncTx")
       \/ sentinel[Peer(s)] # "DONE" /\ Goto(s, "probe", "zeroTx")
    /\ UNCHANGED <<umem, calls, restarts, unseen>>

InitZeroTx(s) ==
    /\ Goto(s, "zeroTx", "zeroRx")
    /\ tx_count' = [tx_count EXCEPT ![s] = 0]
    /\ unseen' = [unseen EXCEPT ![s] = 0]
    /\ UNCHANGED <<sentinel, remote_tx_count, calls, restarts>>

InitZeroRx(s) ==
    /\ Goto(s, "zeroRx", "done")
    /\ remote_tx_count' = [remote_tx_count EXCEPT ![s] = 0]
    /\ UNCHANGED <<sentinel, tx_count, calls, restarts, unseen>>

\* The counters of the peer are taken over: nothing is unseen.
InitSyncTx(s) ==
    /\ Goto(s, "syncTx", "syncRx")
    /\ tx_count' = [tx_count EXCEPT ![s] = remote_tx_count[Peer(s)]]
    /\ unseen' = [unseen EXCEPT ![s] = 0]
    /\ UNCHANGED <<sentinel, remote_tx_count, calls, restarts>>

InitSyncRx(s) ==
    /\ Goto(s, "syncRx", "done")
    /\ remote_tx_count' = [remote_tx_count EXCEPT ![s] = tx_count[Peer(s)]]
    /\ unseen' = [unseen EXCEPT ![Peer(s)] = 0]
    /\ UNCHANGED <<sentinel, tx_count, calls, restarts>>

InitDone(s) ==
    /\ Goto(s, "done", "up")
    /\ sentinel' = [sentinel EXCEPT ![s] = "DONE"]
    /\ UNCHANGED <<tx_count, remote_tx_count, calls, restarts, unseen>>

-----------------------------------------------------------------------------
(* ipc_shm_free_channel, and a reset of the core *)

FreeBegin(s) ==
    /\ s \in Restarters /\ restarts < MaxRestarts
    /\ Goto(s, "up", "free")
    /\ txPc[s] = "idle" /\ rxPc[s] = "idle" /\ PeerQuiet(s)
    /\ restarts' = restarts + 1
    /\ UNCHANGED <<umem, calls, unseen>>

\* Mutant: a channel whose initialisation was given up is left as it is.
FreeSentinelDoneOnly(s) ==
    /\ Goto(s, "free", "freeTx")
    /\ sentinel' = [sentinel EXCEPT ![s] = IF @ = "DONE" THEN "NONE" ELSE @]
    /\ UNCHANGED <<tx_count, remote_tx_count, calls, restarts, unseen>>

FreeSentinel(s) ==
    /\ Goto(s, "free", "freeTx")
    /\ sentinel' = [sentinel EXCEPT ![s] = "NONE"]
    /\ UNCHANGED <<tx_count, remote_tx_count, calls, restarts, unseen>>

FreeTx(s) ==
    /\ Goto(s, "freeTx", "freeRx")
    /\ tx_count' = [tx_count EXCEPT ![s] = 0]
    /\ UNCHANGED <<sentinel, remote_tx_count, calls, restarts, unseen>>

FreeRx(s) ==
    /\ Goto(s, "freeRx", "down")
    /\ remote_tx_count' = [remote_tx_count EXCEPT ![s] = 0]
    /\ UNCHANGED <<sentinel, tx_count, calls, restarts, unseen>>

\* The core of side s is reset; the shared memory keeps what it holds.
Crash(s) ==
    /\ s \in Restarters /\ restarts < MaxRestarts /\ initPc[s] # "down"
    /\ restarts' = restarts + 1
    /\ initPc' = [initPc EXCEPT ![s] = "down"]
    /\ txPc' = [txPc EXCEPT ![s] = "idle"]
    /\ rxPc' = [rxPc EXCEPT ![s] = "idle"]
    /\ UNCHANGED <<umem, rxCount, unseen>>

-----------------------------------------------------------------------------
(* ipc_shm_unmanaged_tx *)

\* ipc_check_uchan_integrity
Integrity(s) == sentinel[s] = "DONE" /\ sentinel[Peer(s)] = "DONE"

\* Bound: the peer looks before CountMod transmissions have gone by; the code
\* cannot tell that many from none.
TxCheck(s) ==
    /\ MayCall(s, "tx") /\ txPc[s] = "idle" /\ Integrity(s)
    /\ unseen[s] < CountMod - 1
    /\ txPc' = [txPc EXCEPT ![s] = "checked"]
    /\ UNCHANGED <<umem, initPc, rxPc, rxCount, restarts, unseen>>

TxBump(s) ==
    /\ txPc[s] = "checked"
    /\ tx_count' = [tx_count EXCEPT ![s] = (@ + 1) % CountMod]
    /\ unseen' = [unseen EXCEPT ![s] = @ + 1]
    /\ txPc' = [txPc EXCEPT ![s] = "idle"]
    /\ UNCHANGED <<sentinel, remote_tx_count, initPc, rxPc, rxCount, restarts>>

-----------------------------------------------------------------------------
(* ipc_channel_rx *)

RxCheck(s) ==
    /\ MayCall(s, "rx") /\ rxPc[s] = "idle" /\ Integrity(s)
    /\ rxPc' = [rxPc EXCEPT ![s] = "checked"]
    /\ UNCHANGED <<umem, initPc, txPc, rxCount, restarts, unseen>>

\* The counter of the peer is read once; if it has changed there will be a
\* callback for everything transmitted up to now.
RxRead(s) ==
    LET changed == tx_count[Peer(s)] # remote_tx_count[s]
    IN  /\ rxPc[s] = "checked"
        /\ rxPc' = [rxPc EXCEPT ![s] = IF changed THEN "changed" ELSE "idle"]
        /\ rxCount' = [rxCount EXCEPT ![s] = tx_count[Peer(s)]]
        /\ unseen' = [unseen EXCEPT ![Peer(s)] = IF changed THEN 0 ELSE @]
        /\ UNCHANGED <<umem, initPc, txPc, restarts>>

\* Mutant: the counter of the peer is read a second time.
RxSaveAgain(s) ==
    /\ rxPc[s] = "changed"
    /\ remote_tx_count' = [remote_tx_count EXCEPT ![s] = tx_count[Peer(s)]]
    /\ rxPc' = [rxPc EXCEPT ![s] = "idle"]
    /\ UNCHANGED <<sentinel, tx_count, initPc, txPc, rxCount, restarts, unseen>>

\* The value that was read is saved, and the callback runs.
RxSave(s) ==
    /\ rxPc[s] = "changed"
    /\ remote_tx_count' = [remote_tx_count EXCEPT ![s] = rxCount[s]]
    /\ rxPc' = [rxPc EXCEPT ![s] = "idle"]
    /\ UNCHANGED <<sentinel, tx_count, initPc, txPc, rxCount, restarts, unseen>>

-----------------------------------------------------------------------------
InitStep(s) ==
    \/ InitCheck(s) \/ InitMark(s) \/ InitProbe(s) \/ InitZeroTx(s) \/ InitZeroRx(s)
    \/ InitSyncTx(s) \/ InitSyncRx(s) \/ InitDone(s)
    \/ FreeSentinel(s) \/ FreeTx(s) \/ FreeRx(s)

CallStep(s) == TxBump(s) \/ RxRead(s) \/ RxSave(s)

Next ==
    \E s \in Side :
        \/ InitStep(s) \/ CallStep(s)
        \/ FreeBegin(s) \/ Crash(s)
        \/ TxCheck(s) \/ RxCheck(s)

Spec == Init /\ [][Next]_vars

\* A side that has started goes on starting, trying again on -EAGAIN, and
\* calls under way go on; restarting and calling are up to the environment.
FairSpec == Spec /\ \A s \in Side : WF_vars(InitStep(s)) /\ WF_vars(CallStep(s))

-----------------------------------------------------------------------------
(* Properties *)

\* The words in memory and the positions of the calls keep to their values.
TypeOK ==
    /\ sentinel \in [Side -> {"NONE", "IN_PROGRESS", "DONE"}]
    /\ tx_count \in [Side -> 0..(CountMod - 1)]
    /\ remote_tx_count \in [Side -> 0..(CountMod - 1)]
    /\ initPc \in [Side -> {"down", "mark", "probe", "zeroTx", "zeroRx", "syncTx", "syncRx",
                            "done", "up", "free", "freeTx", "freeRx"}]
    /\ txPc \in [Side -> {"idle", "checked"}]
    /\ rxPc \in [Side -> {"idle", "checked", "changed"}]
    /\ rxCount \in [Side -> 0..(CountMod - 1)]
    /\ restarts \in 0..MaxRestarts
    /\ unseen \in [Side -> 0..CountMod]

\* The last value of its peer's counter that side s has taken notice of.
LastSeen(s) == IF rxPc[s] = "changed" THEN rxCount[s] ELSE remote_tx_count[s]

\* "tx_count is used by remote peer in Rx intr handler to determine if this
\* channel had a Tx operation": between two sides that are up, the counters
\* are as far apart as there were transmissions the receiver has not seen, so
\* none is missed and none is imagined, across wrap around and restarts.
CountsUnseen ==
    (\A s \in Side : initPc[s] = "up") =>
        \A s \in Side : tx_count[s] = (LastSeen(Peer(s)) + unseen[s]) % CountMod

\* The handshake ends: neither both sides giving way to each other with -EAGAIN
\* nor a crash in the middle of it keeps the channel from being initialised.
BothComeUp == <>[](\A s \in Side : initPc[s] = "up")
=============================================================================
