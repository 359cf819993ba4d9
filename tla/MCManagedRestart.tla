-------------------------- MODULE MCManagedRestart --------------------------
(* Instances of ManagedChannel, with restarts, for TLC. *)
EXTENDS ManagedRestart

CONSTANTS
    m1, m2,
    FirstBufs   \* buffers of the first pool; the others have one each

MCNumBufs == [p \in Pool |-> IF p = 0 THEN FirstBufs ELSE 1]
MCBufSize == [p \in Pool |-> 3 + 2 * p]

\* ipc_queue_mem_size, with a ring header and descriptors of 2 units each.
MemSize(n) == 2 + (n + 1) * 2

\* The layout of managed_channel_init and ipc_buf_pool_init: the global data,
\* the channel queue, and for each pool its queue and then its buffers.
PoolBase[p \in 0..NumPools] ==
    IF p = 0 THEN 1 + MemSize(TotalBufs)
    ELSE PoolBase[p - 1] + MemSize(MCNumBufs[p - 1]) + MCNumBufs[p - 1] * MCBufSize[p - 1]

MCPoolOffset == [p \in Pool |-> PoolBase[p] + MemSize(MCNumBufs[p])]

MCShmAddr == [s \in Side |-> [t \in Side |-> IF s = t THEN 100 + 7 * s ELSE 300 + 11 * s]]
=============================================================================
