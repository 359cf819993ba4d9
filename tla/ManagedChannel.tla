--------------------------- MODULE ManagedChannel ---------------------------
(***************************************************************************)
(* A managed channel of src/ipc-shm.c between two sides that have both     *)
(* initialised it: ipc_shm_acquire_buf, ipc_shm_tx, ipc_channel_rx and     *)
(* ipc_shm_release_buf, and the applications that call them.               *)
(*                                                                         *)
(* The queues are the FIFOs that IpcQueue is proved to implement.  A       *)
(* buffer lies in the memory of the side that sends it, and each side      *)
(* maps that memory at an address of its own, so a buffer is known as an   *)
(* address to the applications and as a descriptor (pool and number) in    *)
(* the queues; the conversions between the two are those of the code.      *)
(*                                                                         *)
(* Every variable is indexed by the side that owns the memory.  The        *)
(* applications keep to the rules: they write and send only buffers they   *)
(* acquired, and release only buffers they received, once.                 *)
(***************************************************************************)
EXTENDS Integers, Sequences, FiniteSets

CONSTANTS
    NumPools,   \* chan->num_pools
    NumBufs,    \* pool->num_bufs, by pool
    BufSize,    \* pool->buf_size, by pool
    PoolOffset, \* where the buffers of a pool begin, from the start of the memory
    ShmSize,    \* ipc_shm_priv_data[instance].shm_size
    ShmAddr,    \* ShmAddr[s][t]: where side s maps the memory of side t
    Sizes,      \* the sizes the applications ask for
    Msg,        \* what an application may write into a buffer
    Senders     \* the sides whose application sends

Side == {0, 1}

Peer(s) == 1 - s

Pool == 0..(NumPools - 1)

\* The buffers of pool p lie in PoolOffset[p] .. PoolEnd(p) - 1.
PoolEnd(p) == PoolOffset[p] + NumBufs[p] * BufSize[p]

ASSUME PoolAssumption ==
    /\ NumPools \in Nat \ {0}
    /\ NumBufs \in [Pool -> Nat \ {0}]
    /\ BufSize \in [Pool -> Nat \ {0}]

ASSUME LayoutAssumption ==
    /\ PoolOffset \in [Pool -> Nat]
    /\ ShmSize \in Nat
    /\ ShmAddr \in [Side -> [Side -> Nat \ {0}]]
    /\ \A p, q \in Pool : p < q => PoolEnd(p) <= PoolOffset[q]
    /\ \A p \in Pool : PoolEnd(p) <= ShmSize

ASSUME AppAssumption == Sizes \subseteq Nat \ {0} /\ Senders \subseteq Side

EINVAL == -22

\* The buffers in the memory of a side, named by their descriptors; the size of
\* the data in a descriptor is part of what a buffer holds.
Buf == UNION {[pool_id : {p}, buf_id : 0..(NumBufs[p] - 1)] : p \in Pool}

VARIABLES
    freeBds,    \* freeBds[s][p]: ring of pool p that s pops, its peer pushes
    chanBds,    \* chanBds[s]: ring of the channel that s pushes, its peer pops
    scan,       \* scan[s]: the ipc_shm_acquire_buf call in progress on side s
    acquired,   \* acquired[s]: addresses the application of s holds to send
    received,   \* received[s]: addresses, as its peer maps them, of buffers of
                \* s that the application of the peer holds
    content,    \* content[s][b]: what buffer b of s holds
    txRet, releaseRet   \* what the last call answered

vars == <<freeBds, chanBds, scan, acquired, received, content, txRet, releaseRet>>

\* Mutant: the spare element of the queue is taken from the elements asked for.
TotalBufsSpare == Cardinality(Buf) - 1

\* The elements asked for by managed_channel_init for the channel queue: the
\* buffers of all pools, added up by ipc_get_total_buf_per_chan.
TotalBufs == Cardinality(Buf)

-----------------------------------------------------------------------------
(* Addresses and descriptors *)

\* Side t's address of buffer b of side s (local_pool_addr when t = s,
\* remote_pool_addr otherwise).
pool_addr(t, s, p) == ShmAddr[t][s] + PoolOffset[p]

BufAddr(t, s, bd) == pool_addr(t, s, bd.pool_id) + bd.buf_id * BufSize[bd.pool_id]

\* The test that ipc_shm_acquire_buf and ipc_channel_rx make on an address.
BufAddrValid(t, s, bd) ==
    /\ BufAddr(t, s, bd) >= ShmAddr[t][s]
    /\ BufAddr(t, s, bd) + BufSize[bd.pool_id] <= ShmAddr[t][s] + ShmSize

InPool(t, s, addr, p) ==
    /\ addr >= pool_addr(t, s, p)
    /\ addr < pool_addr(t, s, p) + NumBufs[p] * BufSize[p]

\* The first pool that addr lies in.
find_pool_for_buf(t, s, addr) ==
    IF \E p \in Pool : InPool(t, s, addr, p)
    THEN CHOOSE p \in Pool : /\ InPool(t, s, addr, p)
                             /\ \A q \in Pool : q < p => ~InPool(t, s, addr, q)
    ELSE EINVAL

AddrBd(t, s, addr, p) ==
    [pool_id |-> p, buf_id |-> (addr - pool_addr(t, s, p)) \div BufSize[p]]

\* The outcome of pushing a descriptor of pool p into a queue of n elements.
PushRet(p, queue, n) ==
    IF p = EINVAL THEN "EINVAL" ELSE IF Len(queue) < n THEN "ok" ELSE "ENOMEM"

-----------------------------------------------------------------------------
Idle == [size |-> 0, pool_id |-> 0]

\* Both sides have run managed_channel_init: all buffers are free.
Init ==
    /\ freeBds = [s \in Side |-> [p \in Pool |->
                    [i \in 1..NumBufs[p] |-> [pool_id |-> p, buf_id |-> i - 1]]]]
    /\ chanBds = [s \in Side |-> <<>>]
    /\ scan = [s \in Side |-> Idle]
    /\ acquired = [s \in Side |-> {}]
    /\ received = [s \in Side |-> {}]
    /\ content \in [Side -> [Buf -> Msg]]
    /\ txRet = [s \in Side |-> "none"]
    /\ releaseRet = [s \in Side |-> "none"]

\* ipc_shm_acquire_buf begins to go through the pools.
AcquireCall(s, size) ==
    /\ s \in Senders
    /\ scan[s] = Idle
    /\ scan' = [scan EXCEPT ![s] = [size |-> size, pool_id |-> 0]]
    /\ UNCHANGED <<freeBds, chanBds, acquired, received, content, txRet, releaseRet>>

\* The next pool has too small buffers or no free one: go on, or give up.
AcquireSkip(s) ==
    LET p == scan[s].pool_id
    IN  /\ scan[s].size > BufSize[p] \/ freeBds[s][p] = <<>>
        /\ scan[s] # Idle
        /\ scan' = [scan EXCEPT ![s] = IF p + 1 = NumPools THEN Idle
                                       ELSE [@ EXCEPT !.pool_id = p + 1]]
        /\ UNCHANGED <<freeBds, chanBds, acquired, received, content,
                       txRet, releaseRet>>

\* Mutant: the descriptor is read but not removed.
AcquirePeek(s) ==
    LET p == scan[s].pool_id
        bd == Head(freeBds[s][p])
    IN  /\ scan[s] # Idle
        /\ scan[s].size <= BufSize[p] /\ freeBds[s][p] # <<>>
        /\ scan' = [scan EXCEPT ![s] = Idle]
        /\ acquired' = [acquired EXCEPT ![s] =
              IF BufAddrValid(s, s, bd) THEN @ \cup {BufAddr(s, s, bd)} ELSE @]
        /\ UNCHANGED <<freeBds, chanBds, received, content, txRet, releaseRet>>

\* ipc_queue_pop got a descriptor: the call returns its address.
AcquireTake(s) ==
    LET p == scan[s].pool_id
        bd == Head(freeBds[s][p])
    IN  /\ scan[s] # Idle
        /\ scan[s].size <= BufSize[p] /\ freeBds[s][p] # <<>>
        /\ freeBds' = [freeBds EXCEPT ![s][p] = Tail(@)]
        /\ scan' = [scan EXCEPT ![s] = Idle]
        /\ acquired' = [acquired EXCEPT ![s] =
              IF BufAddrValid(s, s, bd) THEN @ \cup {BufAddr(s, s, bd)} ELSE @]
        /\ UNCHANGED <<chanBds, received, content, txRet, releaseRet>>

\* The application fills a buffer it has acquired.
AppWrite(s, addr, m) ==
    \E b \in Buf :
        /\ addr \in acquired[s]
        /\ addr = BufAddr(s, s, b)
        /\ content' = [content EXCEPT ![s][b] = m]
        /\ UNCHANGED <<freeBds, chanBds, scan, acquired, received, txRet, releaseRet>>

\* The address becomes a descriptor, which is pushed to the peer.
ipc_shm_tx(s, addr) ==
    LET p == find_pool_for_buf(s, s, addr)
        ret == PushRet(p, chanBds[s], TotalBufs)
    IN  /\ addr \in acquired[s]
        /\ chanBds' = [chanBds EXCEPT ![s] =
                         IF ret = "ok" THEN Append(@, AddrBd(s, s, addr, p)) ELSE @]
        /\ acquired' = [acquired EXCEPT ![s] =
                         IF ret = "ok" THEN @ \ {addr} ELSE @]
        /\ txRet' = [txRet EXCEPT ![s] = ret]
        /\ UNCHANGED <<freeBds, scan, received, content, releaseRet>>

\* One turn of the loop of ipc_channel_rx on the peer t of s: a descriptor is
\* popped and, if its address is valid, given to the callback.
ipc_channel_rx(t) ==
    LET s == Peer(t)
        bd == Head(chanBds[s])
    IN  /\ chanBds[s] # <<>>
        /\ chanBds' = [chanBds EXCEPT ![s] = Tail(@)]
        /\ received' = [received EXCEPT ![s] =
              IF BufAddrValid(t, s, bd) THEN @ \cup {BufAddr(t, s, bd)} ELSE @]
        /\ UNCHANGED <<freeBds, scan, acquired, content, txRet, releaseRet>>

\* The peer t of s gives a buffer of s back: its descriptor goes into the pool
\* that s acquires from.
ipc_shm_release_buf(t, addr) ==
    LET s == Peer(t)
        p == find_pool_for_buf(t, s, addr)
        ret == PushRet(p, freeBds[s][p], NumBufs[p])
    IN  /\ addr \in received[s]
        /\ freeBds' = [freeBds EXCEPT ![s][p] =
                         IF ret = "ok" THEN Append(@, AddrBd(t, s, addr, p)) ELSE @]
        /\ received' = [received EXCEPT ![s] =
                         IF ret = "ok" THEN @ \ {addr} ELSE @]
        /\ releaseRet' = [releaseRet EXCEPT ![t] = ret]
        /\ UNCHANGED <<chanBds, scan, acquired, content, txRet>>

Next ==
    \E s \in Side :
        \/ \E size \in Sizes : AcquireCall(s, size)
        \/ AcquireSkip(s) \/ AcquireTake(s)
        \/ \E addr \in acquired[s] :
              \/ \E m \in Msg : AppWrite(s, addr, m)
              \/ ipc_shm_tx(s, addr)
        \/ ipc_channel_rx(s)
        \/ \E addr \in received[Peer(s)] : ipc_shm_release_buf(s, addr)

Spec == Init /\ [][Next]_vars

-----------------------------------------------------------------------------
(* Properties *)

\* The addresses that side t may use for the buffers of side s.
Addr(t, s) == {BufAddr(t, s, b) : b \in Buf}

\* Every variable keeps the values its C type and the code give it: a queue
\* holds descriptors of buffers, an application addresses of buffers.
TypeOK ==
    /\ freeBds \in [Side -> [Pool -> Seq(Buf)]]
    /\ chanBds \in [Side -> Seq(Buf)]
    /\ scan \in [Side -> [size : Sizes \cup {0}, pool_id : Pool]]
    /\ acquired \in [Side -> SUBSET UNION {Addr(s, s) : s \in Side}]
    /\ received \in [Side -> SUBSET UNION {Addr(Peer(s), s) : s \in Side}]
    /\ content \in [Side -> [Buf -> Msg]]
    /\ txRet \in [Side -> {"none", "ok", "ENOMEM", "EINVAL"}]
    /\ releaseRet \in [Side -> {"none", "ok", "ENOMEM", "EINVAL"}]

\* The buffers of side s that are free, held to be sent, sent, received.
FreeBufs(s) == UNION {{freeBds[s][p][i] : i \in DOMAIN freeBds[s][p]} : p \in Pool}
AcquiredBufs(s) == {b \in Buf : BufAddr(s, s, b) \in acquired[s]}
SentBufs(s) == {chanBds[s][i] : i \in DOMAIN chanBds[s]}
ReceivedBufs(s) == {b \in Buf : BufAddr(Peer(s), s, b) \in received[s]}

\* No buffer is lost and none has two owners: at any time a buffer is in the
\* queue of its own pool, or in the channel queue, or held by one of the two
\* applications, and in a queue only once.
Conservation ==
    \A s \in Side :
        /\ FreeBufs(s) \cup AcquiredBufs(s) \cup SentBufs(s) \cup ReceivedBufs(s) = Buf
        /\ FreeBufs(s) \cap (AcquiredBufs(s) \cup SentBufs(s) \cup ReceivedBufs(s)) = {}
        /\ AcquiredBufs(s) \cap (SentBufs(s) \cup ReceivedBufs(s)) = {}
        /\ SentBufs(s) \cap ReceivedBufs(s) = {}
        /\ \A i, j \in DOMAIN chanBds[s] : chanBds[s][i] = chanBds[s][j] => i = j
        /\ \A p \in Pool :
              /\ \A i \in DOMAIN freeBds[s][p] : freeBds[s][p][i].pool_id = p
              /\ \A i, j \in DOMAIN freeBds[s][p] :
                    freeBds[s][p][i] = freeBds[s][p][j] => i = j

\* An application that keeps to the rules is never refused: the address of a
\* buffer it holds is recognised, and the queue the descriptor goes into has
\* room for it, although nothing checks how many buffers are on their way.
NeverRefused ==
    \A s \in Side : txRet[s] \in {"none", "ok"} /\ releaseRet[s] \in {"none", "ok"}

BufOwner == [s \in Side |-> [b \in Buf |->
                IF b \in FreeBufs(s) THEN "free"
                ELSE IF b \in AcquiredBufs(s) THEN "acquired"
                ELSE IF b \in SentBufs(s) THEN "sent" ELSE "received"]]

Ledger == INSTANCE BufferLedger WITH owner <- BufOwner, inFlight <- chanBds

\* A buffer goes round from free to acquired to sent to received to free; its
\* content changes only while the sender holds it; messages arrive in order.
ImplementsLedger == Ledger!Spec
=============================================================================
