----------------------------- MODULE ShmLayout ------------------------------
(***************************************************************************)
(* How ipc_shm_init_instance lays an instance's channels out in its local  *)
(* shared memory, and which configurations it refuses (src/ipc-shm.c,      *)
(* src/ipc-queue.c).  Sizes and offsets are in bytes from the start of the *)
(* shared memory.  A configuration is the record of ShippedConfigs; a      *)
(* receive callback and the arrays are always given.                       *)
(***************************************************************************)
EXTENDS Integers, Sequences, Folds

PageSize == 4096

IPC_SHM_MAX_CHANNELS == 8
IPC_SHM_MAX_POOLS == 4
IPC_SHM_MAX_BUFS_PER_POOL == 4096
IPC_SHM_MAX_BUFS_PER_CHANNEL == 65534
IPC_SHM_MAX_UMNG_SIZE == 65535

SizeofGlobal == 8
SizeofUmem == 16
SizeofRing == 16
SizeofBd == 8

\* Bound: a product buf_size * num_bufs, of type uint32_t, does not wrap around.
MaxPoolBytes == 2^30

\* A loop over a sequence: step applied to the elements from the first to the last.
Loop(step(_, _), start, seq) ==
    MapThenFoldSet(LAMBDA x, r : step(r, x), start, LAMBDA k : seq[k],
                   LAMBDA S : CHOOSE k \in S : \A l \in S : l <= k, DOMAIN seq)

\* The queue has one element more than asked for, counted in 16 bits.
ipc_queue_mem_size(num) == SizeofRing + ((num + 1) % 2^16) * SizeofBd

\* The number of buffers of a managed channel; 0 if it is invalid.
ipc_get_total_buf_per_chan(pools) ==
    LET total == Loop(LAMBDA t, p : t + p.num_bufs, 0, pools)
        sorted == \A k \in 2..Len(pools) :
                      pools[k].buf_size >= pools[k - 1].buf_size
    IN  IF sorted /\ total <= IPC_SHM_MAX_BUFS_PER_CHANNEL THEN total ELSE 0

\* A layout under way: where the next item goes, what was placed, and the error.
Placed(off) == [off |-> off, areas |-> <<>>, err |-> "0"]

Place(lay, kind, size) ==
    [lay EXCEPT !.off = @ + size,
                !.areas = Append(@, [kind |-> kind, from |-> lay.off,
                                     to |-> lay.off + size])]

Refuse(lay, err) == [lay EXCEPT !.err = err]

pool_shm_size(p) == ipc_queue_mem_size(p.num_bufs) + p.buf_size * p.num_bufs

PoolFits(lay, p, shm_size) == lay.off + pool_shm_size(p) <= shm_size

ipc_buf_pool_init(lay, p, shm_size) ==
    CASE lay.err # "0" -> lay
      [] p.num_bufs > IPC_SHM_MAX_BUFS_PER_POOL \/ p.num_bufs = 0 ->
             Refuse(lay, "EINVAL")
      [] ~PoolFits(lay, p, shm_size) -> Refuse(lay, "ENOMEM")
      [] OTHER -> Place(lay, "pool", pool_shm_size(p))

managed_channel_init(lay, ch, shm_size) ==
    LET total == ipc_get_total_buf_per_chan(ch.pools)
        queued == Place(lay, "queue", ipc_queue_mem_size(total))
    IN  IF Len(ch.pools) > IPC_SHM_MAX_POOLS \/ total = 0
        THEN Refuse(lay, "EINVAL")
        ELSE IF queued.off > shm_size THEN Refuse(lay, "ENOMEM")
        ELSE Loop(LAMBDA l, p : ipc_buf_pool_init(l, p, shm_size), queued, ch.pools)

\* An unmanaged channel is not compared with the end of the memory.
unmanaged_channel_init(lay, ch) ==
    IF ch.size > IPC_SHM_MAX_UMNG_SIZE THEN Refuse(lay, "EINVAL")
    ELSE Place(lay, "unmanaged", SizeofUmem + ch.size)

ipc_shm_init_channels(lay, ch, shm_size) ==
    CASE lay.err # "0" -> lay
      [] ch.type = "MANAGED" -> managed_channel_init(lay, ch, shm_size)
      [] ch.type = "UNMANAGED" -> unmanaged_channel_init(lay, ch)

\* The channels one after the other, behind the global data.
Layout(cfg) ==
    Loop(LAMBDA lay, ch : ipc_shm_init_channels(lay, ch, cfg.shm_size),
         Placed(SizeofGlobal), cfg.channels)

ParamsValid(cfg) ==
    /\ cfg.local_shm_addr # 0 /\ cfg.remote_shm_addr # 0
    /\ Len(cfg.channels) \in 1..IPC_SHM_MAX_CHANNELS
=============================================================================
