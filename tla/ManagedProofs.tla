---------------------------- MODULE ManagedProofs ----------------------------
(***************************************************************************)
(* Proofs about a managed channel (ManagedChannel), for any number of      *)
(* pools, buffers and sizes, any place of the buffers in memory and of the *)
(* memory in the address spaces of the two sides; either side may restart  *)
(* while all buffers are free.                                             *)
(***************************************************************************)
EXTENDS ManagedRestart, FiniteSetTheorems, SequenceTheorems, TLAPS

\* Leaves are for Zenon unless they name another prover.
USE ZenonT(120)

-----------------------------------------------------------------------------
(* Sequences without repetitions *)

\* What ipc_queue_pop leaves in a ring.
LEMMA TailDistinct ==
    ASSUME NEW S, NEW q \in Seq(S), q # <<>>, IsInjective(q)
    PROVE  /\ Tail(q) \in Seq(S) /\ Len(Tail(q)) = Len(q) - 1
           /\ IsInjective(Tail(q))
           /\ Head(q) \in Range(q)
           /\ Range(Tail(q)) = Range(q) \ {Head(q)}
<1>1. /\ Len(q) \in Nat \ {0} /\ DOMAIN q = 1..Len(q) /\ Head(q) = q[1]
      /\ Tail(q) \in Seq(S) /\ Len(Tail(q)) = Len(q) - 1
      /\ DOMAIN Tail(q) = 1..(Len(q) - 1)
      /\ \A i \in 1..(Len(q) - 1) : Tail(q)[i] = q[i + 1]
    BY SMTT(60)
<1>2. IsInjective(Tail(q))
    BY <1>1, SMTT(60) DEF IsInjective
<1>3. Head(q) \in Range(q)
    BY <1>1, SMTT(60) DEF Range
<1>4. ASSUME NEW x \in Range(Tail(q)) PROVE x \in Range(q) \ {Head(q)}
  <2>1. PICK i \in 1..(Len(q) - 1) : x = Tail(q)[i]
      BY <1>1, <1>4 DEF Range
  <2>2. x = q[i + 1] /\ i + 1 \in DOMAIN q /\ i + 1 # 1
      BY <1>1, <2>1, SMTT(60)
  <2>3. QED
      BY <1>1, <2>2, SMTT(60) DEF Range, IsInjective
<1>5. ASSUME NEW x \in Range(q) \ {Head(q)} PROVE x \in Range(Tail(q))
  <2>1. PICK i \in 1..Len(q) : x = q[i]
      BY <1>1, <1>5 DEF Range
  <2>2. i - 1 \in DOMAIN Tail(q) /\ Tail(q)[i - 1] = x
      BY <1>1, <1>5, <2>1, SMTT(60)
  <2>3. QED
      BY <2>2 DEF Range
<1>6. QED
    BY <1>1, <1>2, <1>3, <1>4, <1>5

\* What ipc_queue_push makes of a ring.
LEMMA AppendDistinct ==
    ASSUME NEW S, NEW q \in Seq(S), NEW e \in S, IsInjective(q), e \notin Range(q)
    PROVE  /\ Append(q, e) \in Seq(S) /\ Len(Append(q, e)) = Len(q) + 1
           /\ IsInjective(Append(q, e))
           /\ Range(Append(q, e)) = Range(q) \cup {e}
<1>1. /\ Len(q) \in Nat /\ DOMAIN q = 1..Len(q)
      /\ Append(q, e) \in Seq(S) /\ Len(Append(q, e)) = Len(q) + 1
      /\ DOMAIN Append(q, e) = 1..(Len(q) + 1)
      /\ \A i \in 1..Len(q) : Append(q, e)[i] = q[i]
      /\ Append(q, e)[Len(q) + 1] = e
    BY SMTT(60)
<1>2. \A i \in 1..Len(q) : q[i] # e
    BY <1>1 DEF Range
<1>3. IsInjective(Append(q, e))
    BY <1>1, <1>2, SMTT(60) DEF IsInjective
<1>4. ASSUME NEW x \in Range(Append(q, e)) PROVE x \in Range(q) \cup {e}
    BY <1>1, <1>4, SMTT(60) DEF Range
<1>5. ASSUME NEW x \in Range(q) PROVE x \in Range(Append(q, e))
  <2>1. PICK i \in 1..Len(q) : x = q[i]
      BY <1>1, <1>5 DEF Range
  <2>2. i \in DOMAIN Append(q, e) /\ Append(q, e)[i] = x
      BY <1>1, <2>1, SMTT(60)
  <2>3. QED
      BY <2>2 DEF Range
<1>6. e \in Range(Append(q, e))
    BY <1>1, SMTT(60) DEF Range
<1>7. QED
    BY <1>1, <1>3, <1>4, <1>5, <1>6

\* A ring of distinct elements that misses one has room for it.
LEMMA DistinctBound ==
    ASSUME NEW S, IsFiniteSet(S), NEW q \in Seq(S), IsInjective(q),
           NEW e \in S, e \notin Range(q)
    PROVE  Len(q) < Cardinality(S)
<1>1. /\ Len(q) \in Nat /\ DOMAIN q = 1..Len(q) /\ q \in [1..Len(q) -> S]
      /\ \A i \in 1..Len(q) : q[i] # e
    BY SMTT(60) DEF Range
<1>2. q \in Injection(1..Len(q), S \ {e})
    BY <1>1 DEF Injection, IsInjective
<1>3. IsFiniteSet(S \ {e}) /\ Cardinality(S \ {e}) = Cardinality(S) - 1
    BY FS_RemoveElement
<1>4. Cardinality(1..Len(q)) = Len(q)
  <2>1. 1 \in Int /\ Len(q) \in Int
      BY <1>1, SMTT(60)
  <2>2. Cardinality(1..Len(q)) = IF 1 > Len(q) THEN 0 ELSE Len(q) - 1 + 1
      BY ONLY <2>1, FS_Interval
  <2>3. QED
      BY <1>1, <2>2, SMTT(60)
<1>5. Cardinality(S) \in Nat
    BY FS_CardinalityType
<1>6. QED
    BY <1>1, <1>2, <1>3, <1>4, <1>5, FS_Injection, SMTT(60)

-----------------------------------------------------------------------------
(* Addresses and descriptors *)

\* A buffer is named by its pool and its number in the pool.
LEMMA BufFacts ==
    ASSUME NEW b \in Buf
    PROVE  /\ b.pool_id \in Pool /\ b.pool_id \in Nat
           /\ b.buf_id \in Nat /\ b.buf_id < NumBufs[b.pool_id]
           /\ b = [pool_id |-> b.pool_id, buf_id |-> b.buf_id]
<1>1. PICK p \in Pool : b \in [pool_id : {p}, buf_id : 0..(NumBufs[p] - 1)]
    BY DEF Buf
<1>2. NumBufs[p] \in Nat
    BY PoolAssumption
<1>3. QED
    BY <1>1, <1>2, SMTT(60) DEF Pool

LEMMA BufMade ==
    ASSUME NEW p \in Pool, NEW k \in Nat, k < NumBufs[p]
    PROVE  [pool_id |-> p, buf_id |-> k] \in Buf
<1>1. k \in 0..(NumBufs[p] - 1)
    BY PoolAssumption, SMTT(60)
<1>2. [pool_id |-> p, buf_id |-> k] \in [pool_id : {p}, buf_id : 0..(NumBufs[p] - 1)]
    BY <1>1
<1>3. QED
    BY <1>2 DEF Buf

\* The arithmetic of a pool: buffer k of n begins and ends inside the pool, and
\* a division gives its number back.
LEMMA Scaling ==
    ASSUME NEW k \in Nat, NEW n \in Nat, NEW z \in Nat \ {0}, k < n
    PROVE  k * z \in Nat /\ k * z + z <= n * z /\ (k * z) \div z = k
<1>1. k * z \in Nat /\ n * z \in Nat
    BY SMTT(60)
<1>2. (k + 1) * z <= n * z
    BY SMTT(60)
<1>3. (k + 1) * z = k * z + z
    BY SMTT(60)
<1>4. (k * z) \div z = k
    BY SMTT(60)
<1>5. QED
    BY <1>1, <1>2, <1>3, <1>4

\* What ipc_shm_acquire_buf and ipc_channel_rx make of a descriptor passes their
\* test, and ipc_shm_tx and ipc_shm_release_buf make the descriptor of it again,
\* although each side has addresses of its own.
LEMMA Address ==
    ASSUME NEW t \in Side, NEW s \in Side, NEW b \in Buf
    PROVE  /\ BufAddrValid(t, s, b)
           /\ find_pool_for_buf(t, s, BufAddr(t, s, b)) = b.pool_id
           /\ AddrBd(t, s, BufAddr(t, s, b), b.pool_id) = b
<1> DEFINE p == b.pool_id
           k == b.buf_id
           m == ShmAddr[t][s]
           off == k * BufSize[p]
           a == BufAddr(t, s, b)
<1>1. /\ p \in Pool /\ k \in Nat /\ k < NumBufs[p]
      /\ b = [pool_id |-> p, buf_id |-> k]
    BY BufFacts
<1>2. /\ m \in Nat /\ ShmSize \in Nat
      /\ \A q \in Pool : /\ NumBufs[q] \in Nat /\ BufSize[q] \in Nat \ {0}
                         /\ PoolOffset[q] \in Nat
                         /\ NumBufs[q] * BufSize[q] \in Nat
    BY PoolAssumption, LayoutAssumption, SMTT(60) DEF Side
<1>3. off \in Nat /\ off + BufSize[p] <= NumBufs[p] * BufSize[p] /\ off \div BufSize[p] = k
    BY <1>1, <1>2, Scaling
<1>4. \A q \in Pool : pool_addr(t, s, q) = m + PoolOffset[q]
    BY DEF pool_addr
<1>5. a = m + PoolOffset[p] + off
    BY <1>1, <1>4 DEF BufAddr
<1> HIDE DEF p, k, m, off, a
<1>6. BufAddrValid(t, s, b)
  <2>1. PoolOffset[p] + NumBufs[p] * BufSize[p] <= ShmSize
      BY <1>1, LayoutAssumption DEF PoolEnd
  <2>2. a >= m /\ a + BufSize[p] <= m + ShmSize
      BY <1>1, <1>2, <1>3, <1>5, <2>1, SMTT(60)
  <2>3. QED
      BY <2>2 DEF BufAddrValid, a, p, m
<1>7. InPool(t, s, a, p)
    BY <1>1, <1>2, <1>3, <1>4, <1>5, SMTT(60) DEF InPool
<1>8. ASSUME NEW q \in Pool, q < p PROVE ~InPool(t, s, a, q)
  <2>1. PoolOffset[q] + NumBufs[q] * BufSize[q] <= PoolOffset[p]
      BY <1>1, <1>8, LayoutAssumption DEF PoolEnd
  <2>2. QED
      BY <1>1, <1>2, <1>3, <1>4, <1>5, <2>1, SMTT(60) DEF InPool
<1>9. find_pool_for_buf(t, s, a) = p
  <2> DEFINE First(q) == InPool(t, s, a, q) /\ \A r \in Pool : r < q => ~InPool(t, s, a, r)
  <2>1. First(p)
      BY <1>7, <1>8
  <2>2. ASSUME NEW q \in Pool, First(q) PROVE q = p
      BY <1>1, <1>7, <1>8, <2>2, SMTT(60) DEF Pool
  <2>3. find_pool_for_buf(t, s, a) = CHOOSE q \in Pool : First(q)
      BY <1>1, <1>7 DEF find_pool_for_buf
  <2> HIDE DEF First
  <2>4. QED
      BY <1>1, <2>1, <2>2, <2>3
<1>10. AddrBd(t, s, a, p) = b
  <2>1. a - pool_addr(t, s, p) = off
      BY <1>1, <1>2, <1>3, <1>4, <1>5, SMTT(60)
  <2>2. QED
      BY <1>1, <1>3, <2>1 DEF AddrBd
<1>11. QED
    BY <1>6, <1>9, <1>10 DEF a, p

\* Two buffers never share an address.
LEMMA AddressUnique ==
    ASSUME NEW t \in Side, NEW s \in Side, NEW b \in Buf, NEW c \in Buf,
           BufAddr(t, s, b) = BufAddr(t, s, c)
    PROVE  b = c
    BY Address, SMTT(60)

\* The buffers whose addresses, as side t maps the memory of s, are in A.
Held(t, s, A) == {b \in Buf : BufAddr(t, s, b) \in A}

-----------------------------------------------------------------------------
(* The pools of a side *)

PoolBufs(p) == {b \in Buf : b.pool_id = p}

\* ipc_buf_pool_init pushes every buffer of the pool once.
LEMMA AllBdsFacts ==
    ASSUME NEW p \in Pool
    PROVE  /\ AllBds(p) \in Seq(PoolBufs(p)) /\ Len(AllBds(p)) = NumBufs[p]
           /\ IsInjective(AllBds(p)) /\ Range(AllBds(p)) = PoolBufs(p)
           /\ IsFiniteSet(PoolBufs(p)) /\ Cardinality(PoolBufs(p)) = NumBufs[p]
<1> DEFINE n == NumBufs[p]
<1>1. n \in Nat
    BY PoolAssumption
<1>2. ASSUME NEW i \in 1..n
      PROVE  /\ AllBds(p)[i] = [pool_id |-> p, buf_id |-> i - 1]
             /\ AllBds(p)[i] \in PoolBufs(p)
  <2>1. AllBds(p)[i] = [pool_id |-> p, buf_id |-> i - 1]
      BY DEF AllBds
  <2>2. i - 1 \in Nat /\ i - 1 < n
      BY <1>1, SMTT(60)
  <2>3. [pool_id |-> p, buf_id |-> i - 1] \in Buf
      BY <2>2, BufMade
  <2>4. QED
      BY <2>1, <2>3, SMTT(60) DEF PoolBufs
<1>3. DOMAIN AllBds(p) = 1..n
    BY DEF AllBds
<1>4. AllBds(p) \in [1..n -> PoolBufs(p)]
    BY <1>2 DEF AllBds
<1>5. ASSUME NEW i \in 1..n, NEW j \in 1..n, AllBds(p)[i] = AllBds(p)[j] PROVE i = j
  <2>1. [pool_id |-> p, buf_id |-> i - 1].buf_id = [pool_id |-> p, buf_id |-> j - 1].buf_id
      BY <1>2, <1>5
  <2>2. QED
      BY <1>1, <2>1, SMTT(60)
<1>6. ASSUME NEW b \in PoolBufs(p) PROVE \E i \in 1..n : AllBds(p)[i] = b
  <2>1. /\ b.buf_id \in Nat /\ b.buf_id < n
        /\ b = [pool_id |-> p, buf_id |-> b.buf_id]
      BY BufFacts DEF PoolBufs
  <2>2. b.buf_id + 1 \in 1..n /\ (b.buf_id + 1) - 1 = b.buf_id
      BY <1>1, <2>1, SMTT(60)
  <2>3. QED
      BY <1>2, <2>1, <2>2
<1> HIDE DEF n
<1>7. AllBds(p) \in Bijection(1..n, PoolBufs(p))
    BY <1>3, <1>4, <1>5, <1>6 DEF Bijection, Injection, Surjection, IsInjective
<1>8. IsFiniteSet(PoolBufs(p)) /\ Cardinality(PoolBufs(p)) = n
    BY <1>1, <1>7, FS_NatBijection, FS_CountingElements DEF ExistsBijection
<1>9. AllBds(p) \in Seq(PoolBufs(p)) /\ Len(AllBds(p)) = n
    BY <1>1, <1>4, SMTT(60)
<1>10. Range(AllBds(p)) = PoolBufs(p)
    BY <1>2, <1>3, <1>6 DEF Range
<1>11. QED
    BY <1>3, <1>5, <1>8, <1>9, <1>10 DEF n, IsInjective

LEMMA BufFinite == IsFiniteSet(Buf)
<1> DEFINE T == {PoolBufs(p) : p \in Pool}
           f == [p \in Pool |-> PoolBufs(p)]
<1>1. f \in Surjection(Pool, T)
    BY DEF Surjection
<1>2. IsFiniteSet(Pool)
  <2>1. 0 \in Int /\ NumPools - 1 \in Int
      BY PoolAssumption, SMTT(60)
  <2>2. QED
      BY <2>1, FS_Interval DEF Pool
<1>3. IsFiniteSet(T)
    BY <1>1, <1>2, FS_Surjection
<1>4. \A S \in T : IsFiniteSet(S)
    BY AllBdsFacts
<1>5. Buf = UNION T
    BY BufFacts, SMTT(60) DEF PoolBufs
<1>6. QED
    BY <1>3, <1>4, <1>5, FS_UNION

\* The rings of the pools of a side hold buffers of their own pools, none twice.
Rings(f) ==
    /\ f \in [Pool -> Seq(Buf)]
    /\ \A p \in Pool : IsInjective(f[p]) /\ \A i \in DOMAIN f[p] : f[p][i].pool_id = p

RingBufs(f) == UNION {Range(f[p]) : p \in Pool}

LEMMA RingsMember ==
    ASSUME NEW f, Rings(f), NEW b
    PROVE  /\ b \in RingBufs(f) <=> b \in Buf /\ b \in Range(f[b.pool_id])
           /\ \A p \in Pool : b \in Range(f[p]) => b \in Buf /\ b.pool_id = p
<1>1. ASSUME NEW p \in Pool, b \in Range(f[p]) PROVE b \in Buf /\ b.pool_id = p
  <2>1. PICK i \in DOMAIN f[p] : b = f[p][i]
      BY <1>1 DEF Range
  <2>2. QED
      BY <2>1, SMTT(60) DEF Rings
<1>2. ASSUME b \in Buf, b \in Range(f[b.pool_id]) PROVE b \in RingBufs(f)
    BY <1>2, BufFacts DEF RingBufs
<1>3. ASSUME b \in RingBufs(f) PROVE b \in Buf /\ b \in Range(f[b.pool_id])
  <2>1. PICK p \in Pool : b \in Range(f[p])
      BY <1>3 DEF RingBufs
  <2>2. QED
      BY <1>1, <2>1
<1>4. QED
    BY <1>1, <1>2, <1>3

\* Taking the first buffer of a ring.
LEMMA RingsTake ==
    ASSUME NEW f, Rings(f), NEW p \in Pool, f[p] # <<>>
    PROVE  LET b == Head(f[p])
               g == [f EXCEPT ![p] = Tail(f[p])]
           IN  /\ b \in Buf /\ b.pool_id = p /\ b \in RingBufs(f)
               /\ Rings(g) /\ RingBufs(g) = RingBufs(f) \ {b}
<1> DEFINE b == Head(f[p])
           g == [f EXCEPT ![p] = Tail(f[p])]
<1>1. f \in [Pool -> Seq(Buf)] /\ f[p] \in Seq(Buf) /\ IsInjective(f[p])
    BY DEF Rings
<1>2. /\ Tail(f[p]) \in Seq(Buf) /\ IsInjective(Tail(f[p]))
      /\ b \in Range(f[p]) /\ Range(Tail(f[p])) = Range(f[p]) \ {b}
    BY <1>1, TailDistinct
<1>3. /\ g \in [Pool -> Seq(Buf)] /\ g[p] = Tail(f[p])
      /\ \A q \in Pool \ {p} : g[q] = f[q]
    BY <1>1, <1>2
<1> HIDE DEF b, g
<1>4. b \in Buf /\ b.pool_id = p /\ b \in RingBufs(f)
    BY <1>2, RingsMember
<1>5. Rings(g)
  <2>1. ASSUME NEW i \in DOMAIN g[p] PROVE g[p][i].pool_id = p
    <3>1. g[p][i] \in Range(f[p])
        BY <1>2, <1>3 DEF Range
    <3>2. QED
        BY <3>1, RingsMember
  <2>2. QED
      BY <1>2, <1>3, <2>1 DEF Rings
<1>6. ASSUME NEW x PROVE x \in RingBufs(g) <=> x \in RingBufs(f) \ {b}
  <2>0. /\ x \in RingBufs(f) <=> x \in Buf /\ x \in Range(f[x.pool_id])
        /\ x \in RingBufs(g) <=> x \in Buf /\ x \in Range(g[x.pool_id])
      BY <1>5, RingsMember
  <2>1. CASE x \in Buf /\ x.pool_id = p
      BY <1>2, <1>3, <1>4, <2>0, <2>1
  <2>2. CASE x \in Buf /\ x.pool_id # p
      BY <1>3, <1>4, <2>0, <2>2, BufFacts
  <2>3. CASE x \notin Buf
      BY <2>0, <2>3
  <2>4. QED
      BY <2>1, <2>2, <2>3
<1>7. QED
    BY <1>4, <1>5, <1>6 DEF b, g

\* Putting a buffer into the ring of its pool, which has room for it.
LEMMA RingsGive ==
    ASSUME NEW f, Rings(f), NEW b \in Buf, b \notin RingBufs(f)
    PROVE  LET p == b.pool_id
               g == [f EXCEPT ![p] = Append(f[p], b)]
           IN  /\ Len(f[p]) < NumBufs[p]
               /\ Rings(g) /\ RingBufs(g) = RingBufs(f) \cup {b}
<1> DEFINE p == b.pool_id
           g == [f EXCEPT ![p] = Append(f[p], b)]
<1>1. /\ f \in [Pool -> Seq(Buf)] /\ p \in Pool /\ f[p] \in Seq(Buf)
      /\ IsInjective(f[p]) /\ b \notin Range(f[p])
    BY RingsMember, BufFacts DEF Rings
<1>2. /\ Append(f[p], b) \in Seq(Buf) /\ IsInjective(Append(f[p], b))
      /\ Range(Append(f[p], b)) = Range(f[p]) \cup {b}
    BY <1>1, AppendDistinct, SMTT(60)
<1>3. /\ g \in [Pool -> Seq(Buf)] /\ g[p] = Append(f[p], b)
      /\ \A q \in Pool \ {p} : g[q] = f[q]
    BY <1>1, <1>2
<1>4. Len(f[p]) < NumBufs[p]
  <2>1. f[p] \in Seq(PoolBufs(p))
    <3>1. \A i \in 1..Len(f[p]) : f[p][i] \in PoolBufs(p)
        BY <1>1, SMTT(60) DEF Rings, PoolBufs
    <3>2. QED
        BY <1>1, <3>1, SMTT(60)
  <2>2. b \in PoolBufs(p)
      BY DEF PoolBufs
  <2>3. QED
      BY <1>1, <2>1, <2>2, AllBdsFacts, DistinctBound
<1> HIDE DEF p, g
<1>5. Rings(g)
  <2>1. ASSUME NEW i \in DOMAIN g[p] PROVE g[p][i].pool_id = p
    <3>1. g[p][i] \in Range(f[p]) \cup {b}
        BY <1>2, <1>3 DEF Range
    <3>2. QED
        BY <1>1, <3>1, RingsMember, SMTT(60) DEF p
  <2>2. QED
      BY <1>2, <1>3, <2>1 DEF Rings
<1>6. ASSUME NEW x PROVE x \in RingBufs(g) <=> x \in RingBufs(f) \cup {b}
  <2>0. /\ x \in RingBufs(f) <=> x \in Buf /\ x \in Range(f[x.pool_id])
        /\ x \in RingBufs(g) <=> x \in Buf /\ x \in Range(g[x.pool_id])
      BY <1>5, RingsMember
  <2>1. CASE x \in Buf /\ x.pool_id = p
      BY <1>2, <1>3, <2>0, <2>1
  <2>2. CASE x \in Buf /\ x.pool_id # p
      BY <1>3, <2>0, <2>2, BufFacts DEF p
  <2>3. CASE x \notin Buf
      BY <2>0, <2>3
  <2>4. QED
      BY <2>1, <2>2, <2>3
<1>7. QED
    BY <1>4, <1>5, <1>6 DEF p, g

\* Pools with all their buffers.
LEMMA RingsAll ==
    LET f == [p \in Pool |-> AllBds(p)]
    IN  Rings(f) /\ RingBufs(f) = Buf
<1> DEFINE f == [p \in Pool |-> AllBds(p)]
<1>1. ASSUME NEW p \in Pool
      PROVE  /\ f[p] \in Seq(Buf) /\ IsInjective(f[p]) /\ Range(f[p]) = PoolBufs(p)
             /\ \A i \in DOMAIN f[p] : f[p][i].pool_id = p
  <2>1. /\ f[p] = AllBds(p) /\ AllBds(p) \in Seq(PoolBufs(p))
        /\ IsInjective(f[p]) /\ Range(f[p]) = PoolBufs(p)
      BY AllBdsFacts
  <2>2. f[p] \in Seq(Buf)
    <3>1. PoolBufs(p) \subseteq Buf
        BY DEF PoolBufs
    <3>2. QED
        BY <2>1, <3>1, SeqMonotonic
  <2>3. \A i \in DOMAIN f[p] : f[p][i] \in PoolBufs(p)
      BY <2>1 DEF Range
  <2>4. QED
      BY <2>1, <2>2, <2>3 DEF PoolBufs
<1>2. f \in [Pool -> Seq(Buf)]
    BY <1>1
<1> HIDE DEF f
<1>3. Rings(f)
    BY <1>1, <1>2 DEF Rings
<1>4. RingBufs(f) = Buf
  <2>1. ASSUME NEW x \in Buf PROVE x \in RingBufs(f)
    <3>1. x.pool_id \in Pool /\ x \in PoolBufs(x.pool_id)
        BY BufFacts DEF PoolBufs
    <3>2. QED
        BY <1>1, <3>1 DEF RingBufs
  <2>2. ASSUME NEW x \in RingBufs(f) PROVE x \in Buf
      BY <1>3, RingsMember
  <2>3. QED
      BY <2>1, <2>2
<1>5. QED
    BY <1>3, <1>4 DEF f

\* Pools that are full have all buffers.
LEMMA RingsFull ==
    ASSUME NEW f, Rings(f), \A p \in Pool : Len(f[p]) = NumBufs[p]
    PROVE  RingBufs(f) = Buf
<1>1. ASSUME NEW b \in Buf, b \notin RingBufs(f) PROVE FALSE
  <2>1. b.pool_id \in Pool /\ Len(f[b.pool_id]) < NumBufs[b.pool_id]
      BY <1>1, RingsGive, BufFacts
  <2>2. QED
      BY <2>1, PoolAssumption, SMTT(60)
<1>2. ASSUME NEW b \in RingBufs(f) PROVE b \in Buf
    BY <1>2, RingsMember
<1>3. QED
    BY <1>1, <1>2

\* A ring holds the last of what was pushed into it, r.
Recent(f, r) ==
    /\ r \in [Pool -> Seq(Buf)]
    /\ \A p \in Pool :
          /\ Len(r[p]) = NumBufs[p] /\ Len(f[p]) <= NumBufs[p]
          /\ \A i \in 1..Len(f[p]) : f[p][i] = r[p][i + NumBufs[p] - Len(f[p])]

LEMMA RecentTake ==
    ASSUME NEW f \in [Pool -> Seq(Buf)], NEW r, Recent(f, r), NEW p \in Pool, f[p] # <<>>
    PROVE  Recent([f EXCEPT ![p] = Tail(f[p])], r)
<1> DEFINE g == [f EXCEPT ![p] = Tail(f[p])]
           n == NumBufs[p]
<1>1. n \in Nat /\ Len(f[p]) \in Nat \ {0}
    BY PoolAssumption, SMTT(60)
<1>2. /\ g[p] = Tail(f[p]) /\ Len(g[p]) = Len(f[p]) - 1
      /\ \A q \in Pool \ {p} : g[q] = f[q]
      /\ \A i \in 1..(Len(f[p]) - 1) : g[p][i] = f[p][i + 1]
    BY <1>1, SMTT(60)
<1> HIDE DEF g, n
<1>3. Len(g[p]) <= n
    BY <1>1, <1>2, SMTT(60) DEF Recent, n
<1>4. ASSUME NEW i \in 1..Len(g[p]) PROVE g[p][i] = r[p][i + n - Len(g[p])]
  <2>1. i + 1 \in 1..Len(f[p]) /\ (i + 1) + n - Len(f[p]) = i + n - Len(g[p])
      BY <1>1, <1>2, SMTT(60)
  <2>2. f[p][i + 1] = r[p][(i + 1) + n - Len(f[p])]
      BY <2>1 DEF Recent, n
  <2>3. QED
      BY <1>1, <1>2, <2>1, <2>2
<1>5. QED
    BY <1>2, <1>3, <1>4 DEF Recent, g, n

LEMMA RecentGive ==
    ASSUME NEW f \in [Pool -> Seq(Buf)], NEW r, Recent(f, r), NEW p \in Pool,
           NEW b \in Buf, Len(f[p]) < NumBufs[p]
    PROVE  Recent([f EXCEPT ![p] = Append(f[p], b)], [r EXCEPT ![p] = Append(Tail(r[p]), b)])
<1> DEFINE g == [f EXCEPT ![p] = Append(f[p], b)]
           w == [r EXCEPT ![p] = Append(Tail(r[p]), b)]
           n == NumBufs[p]
           l == Len(f[p])
<1>1. /\ n \in Nat \ {0} /\ l \in Nat /\ l < n
      /\ r \in [Pool -> Seq(Buf)] /\ r[p] \in Seq(Buf) /\ Len(r[p]) = n
    BY PoolAssumption, SMTT(60) DEF Recent
<1>2. /\ g[p] = Append(f[p], b) /\ Len(g[p]) = l + 1
      /\ \A q \in Pool \ {p} : g[q] = f[q] /\ w[q] = r[q]
      /\ \A i \in 1..l : g[p][i] = f[p][i]
      /\ g[p][l + 1] = b
    BY <1>1, SMTT(60)
<1>3. /\ Tail(r[p]) \in Seq(Buf) /\ Len(Tail(r[p])) = n - 1
      /\ \A i \in 1..(n - 1) : Tail(r[p])[i] = r[p][i + 1]
  <2>1. r[p] # <<>>
      BY <1>1
  <2>2. QED
      BY <1>1, <2>1, HeadTailProperties
<1>4. /\ w \in [Pool -> Seq(Buf)] /\ w[p] = Append(Tail(r[p]), b) /\ Len(w[p]) = n
      /\ \A i \in 1..(n - 1) : w[p][i] = r[p][i + 1]
      /\ w[p][n] = b
    BY <1>1, <1>3, SMTT(60)
<1> HIDE DEF g, w, n, l
<1>5. ASSUME NEW i \in 1..Len(g[p]) PROVE g[p][i] = w[p][i + n - Len(g[p])]
  <2>1. CASE i = l + 1
    <3>1. i + n - Len(g[p]) = n
        BY <1>1, <1>2, <2>1, SMTT(60)
    <3>2. QED
        BY <1>2, <1>4, <2>1, <3>1
  <2>2. CASE i \in 1..l
    <3>1. /\ i + n - Len(g[p]) \in 1..(n - 1)
          /\ i + n - Len(g[p]) + 1 = i + n - l
        BY <1>1, <1>2, <2>2, SMTT(60)
    <3>2. f[p][i] = r[p][i + n - l]
        BY <2>2 DEF Recent, n, l
    <3>3. QED
        BY <1>2, <1>4, <2>2, <3>1, <3>2
  <2>3. QED
      BY <1>1, <1>2, <2>1, <2>2, SMTT(60)
<1>6. ASSUME NEW q \in Pool \ {p}
      PROVE  /\ Len(w[q]) = NumBufs[q] /\ Len(g[q]) <= NumBufs[q]
             /\ \A i \in 1..Len(g[q]) : g[q][i] = w[q][i + NumBufs[q] - Len(g[q])]
    BY <1>2, SMTT(60) DEF Recent
<1>7. Len(w[p]) = n /\ Len(g[p]) <= n
    BY <1>1, <1>2, <1>4, SMTT(60)
<1>8. QED
    BY <1>4, <1>5, <1>6, <1>7 DEF Recent, g, w, n

\* A restart while all buffers are free finds the rings as they were.
LEMMA RecentFull ==
    ASSUME NEW f \in [Pool -> Seq(Buf)], NEW r, Recent(f, r),
           \A p \in Pool : Len(f[p]) = NumBufs[p]
    PROVE  r = f
<1>1. ASSUME NEW p \in Pool PROVE r[p] = f[p]
  <2>1. /\ r[p] \in Seq(Buf) /\ f[p] \in Seq(Buf) /\ NumBufs[p] \in Nat
        /\ Len(r[p]) = NumBufs[p] /\ Len(f[p]) = NumBufs[p]
      BY PoolAssumption DEF Recent
  <2>2. ASSUME NEW i \in 1..Len(f[p]) PROVE f[p][i] = r[p][i]
    <3>1. i + NumBufs[p] - Len(f[p]) = i
        BY <2>1, SMTT(60)
    <3>2. QED
        BY <3>1 DEF Recent
  <2>3. QED
      BY <2>1, <2>2, SeqEqual
<1>2. QED
    BY <1>1, SMTT(60) DEF Recent

-----------------------------------------------------------------------------
(* The buffers of a side *)

\* Every buffer is free (F), acquired (A), sent (S) or received (R).
Partition(F, A, S, R) ==
    /\ F \cup A \cup S \cup R = Buf
    /\ F \cap (A \cup S \cup R) = {}
    /\ A \cap (S \cup R) = {}
    /\ S \cap R = {}

Owner(F, A, S) == [b \in Buf |-> IF b \in F THEN "free"
                                 ELSE IF b \in A THEN "acquired"
                                 ELSE IF b \in S THEN "sent" ELSE "received"]

\* The invariant of the memory of side s: f, c, A, R and r are what freeBds,
\* chanBds, acquired, received and pushed hold for it.
Good(s, f, c, A, R, r) ==
    /\ Rings(f) /\ Recent(f, r)
    /\ c \in Seq(Buf) /\ IsInjective(c)
    /\ A \subseteq Addr(s, s) /\ R \subseteq Addr(Peer(s), s)
    /\ Partition(RingBufs(f), Held(s, s, A), Range(c), Held(Peer(s), s, R))

\* The state of the buffers of side s.
OwnerOf(s, f, c, A) == Owner(RingBufs(f), Held(s, s, A), Range(c))

\* Buffer b goes from one state to the next, and no other buffer moves.
Moved(old, new, b, from, to) == old[b] = from /\ new = [old EXCEPT ![b] = to]

\* ipc_shm_acquire_buf takes a free buffer.
LEMMA GoodTake ==
    ASSUME NEW s \in Side, NEW f, NEW c, NEW A, NEW R, NEW r, Good(s, f, c, A, R, r),
           NEW p \in Pool, f[p] # <<>>
    PROVE  LET b == Head(f[p])
               g == [f EXCEPT ![p] = Tail(f[p])]
               B == A \cup {BufAddr(s, s, b)}
           IN  /\ b \in Buf /\ BufAddrValid(s, s, b)
               /\ Good(s, g, c, B, R, r)
               /\ Moved(OwnerOf(s, f, c, A), OwnerOf(s, g, c, B), b, "free", "acquired")
<1> DEFINE b == Head(f[p])
           g == [f EXCEPT ![p] = Tail(f[p])]
           B == A \cup {BufAddr(s, s, b)}
<1>1. /\ b \in Buf /\ b \in RingBufs(f)
      /\ Rings(g) /\ RingBufs(g) = RingBufs(f) \ {b}
    BY RingsTake DEF Good
<1>2. Recent(g, r)
    BY RecentTake DEF Good, Rings
<1> HIDE DEF b, g
<1>3. Held(s, s, B) = Held(s, s, A) \cup {b}
    BY <1>1, AddressUnique DEF Held
<1>4. B \subseteq Addr(s, s)
    BY <1>1 DEF Good, Addr
<1> HIDE DEF B
<1>5. /\ Partition(RingBufs(g), Held(s, s, B), Range(c), Held(Peer(s), s, R))
      /\ Moved(OwnerOf(s, f, c, A), OwnerOf(s, g, c, B), b, "free", "acquired")
  <2> DEFINE F == RingBufs(f)
             H == Held(s, s, A)
             S == Range(c)
             T == Held(Peer(s), s, R)
  <2>1. Partition(F, H, S, T)
      BY DEF Good
  <2>2. b \in F /\ b \in Buf /\ RingBufs(g) = F \ {b} /\ Held(s, s, B) = H \cup {b}
      BY <1>1, <1>3
  <2>3. OwnerOf(s, f, c, A) = Owner(F, H, S) /\ OwnerOf(s, g, c, B) = Owner(F \ {b}, H \cup {b}, S)
      BY <2>2 DEF OwnerOf
  <2> HIDE DEF F, H, S, T
  <2>4. /\ Partition(F \ {b}, H \cup {b}, S, T)
        /\ Moved(Owner(F, H, S), Owner(F \ {b}, H \cup {b}, S), b, "free", "acquired")
      BY <2>1, <2>2 DEF Partition, Owner, Moved
  <2>5. QED
      BY <2>2, <2>3, <2>4 DEF S, T
<1>6. Good(s, g, c, B, R, r)
    BY <1>1, <1>2, <1>4, <1>5 DEF Good
<1>7. QED
    BY <1>1, <1>5, <1>6, Address DEF b, g, B

\* ipc_shm_tx is never refused, and sends the buffer of the address.
LEMMA GoodSend ==
    ASSUME NEW s \in Side, NEW f, NEW c, NEW A, NEW R, NEW r, Good(s, f, c, A, R, r),
           NEW a \in A
    PROVE  LET p == find_pool_for_buf(s, s, a)
               b == AddrBd(s, s, a, p)
               d == Append(c, b)
           IN  /\ p \in Pool /\ b \in Buf /\ a = BufAddr(s, s, b)
               /\ Len(c) < TotalBufs
               /\ Good(s, f, d, A \ {a}, R, r)
               /\ Moved(OwnerOf(s, f, c, A), OwnerOf(s, f, d, A \ {a}), b, "acquired", "sent")
<1>1. PICK b \in Buf : a = BufAddr(s, s, b)
    BY DEF Good, Addr
<1> DEFINE p == find_pool_for_buf(s, s, a)
           d == Append(c, b)
           B == A \ {a}
<1>2. p = b.pool_id /\ AddrBd(s, s, a, p) = b
    BY <1>1, Address, SMTT(60)
<1>3. b \in Held(s, s, A) /\ Held(s, s, B) = Held(s, s, A) \ {b}
    BY <1>1, AddressUnique DEF Held
<1>4. c \in Seq(Buf) /\ IsInjective(c) /\ b \notin Range(c)
    BY <1>3 DEF Good, Partition
<1>5. p \in Pool /\ Len(c) < TotalBufs
  <2>1. p \in Pool
      BY <1>2, BufFacts
  <2>2. Len(c) < TotalBufs
      BY <1>4, BufFinite, DistinctBound DEF TotalBufs
  <2>3. QED
      BY <2>1, <2>2
<1>6. d \in Seq(Buf) /\ IsInjective(d) /\ Range(d) = Range(c) \cup {b}
    BY <1>4, AppendDistinct, SMTT(60)
<1> HIDE DEF p, d, B
<1>7. /\ Partition(RingBufs(f), Held(s, s, B), Range(d), Held(Peer(s), s, R))
      /\ Moved(OwnerOf(s, f, c, A), OwnerOf(s, f, d, B), b, "acquired", "sent")
  <2> DEFINE F == RingBufs(f)
             H == Held(s, s, A)
             S == Range(c)
             T == Held(Peer(s), s, R)
  <2>1. Partition(F, H, S, T)
      BY DEF Good
  <2>2. b \in H /\ b \in Buf /\ Held(s, s, B) = H \ {b} /\ Range(d) = S \cup {b}
      BY <1>3, <1>6
  <2>3. OwnerOf(s, f, c, A) = Owner(F, H, S) /\ OwnerOf(s, f, d, B) = Owner(F, H \ {b}, S \cup {b})
      BY <2>2 DEF OwnerOf
  <2> HIDE DEF F, H, S, T
  <2>4. /\ Partition(F, H \ {b}, S \cup {b}, T)
        /\ Moved(Owner(F, H, S), Owner(F, H \ {b}, S \cup {b}), b, "acquired", "sent")
      BY <2>1, <2>2 DEF Partition, Owner, Moved
  <2>5. QED
      BY <2>2, <2>3, <2>4 DEF F, T
<1>8. B \subseteq Addr(s, s)
    BY DEF Good, B
<1>9. Good(s, f, d, B, R, r)
    BY <1>6, <1>7, <1>8 DEF Good
<1>10. QED
    BY <1>1, <1>2, <1>5, <1>7, <1>9 DEF p, d, B

\* ipc_channel_rx hands the oldest buffer of the channel queue to the callback.
LEMMA GoodReceive ==
    ASSUME NEW s \in Side, NEW f, NEW c, NEW A, NEW R, NEW r, Good(s, f, c, A, R, r),
           c # <<>>
    PROVE  LET b == Head(c)
               S == R \cup {BufAddr(Peer(s), s, b)}
           IN  /\ b \in Buf /\ BufAddrValid(Peer(s), s, b)
               /\ Good(s, f, Tail(c), A, S, r)
               /\ Moved(OwnerOf(s, f, c, A), OwnerOf(s, f, Tail(c), A), b, "sent", "received")
<1> DEFINE b == Head(c)
           d == Tail(c)
           Q == R \cup {BufAddr(Peer(s), s, b)}
<1>1. c \in Seq(Buf) /\ IsInjective(c) /\ Peer(s) \in Side
    BY SMTT(60) DEF Good, Side, Peer
<1>2. d \in Seq(Buf) /\ IsInjective(d) /\ b \in Range(c) /\ Range(d) = Range(c) \ {b}
    BY <1>1, TailDistinct
<1>3. b \in Buf
    BY <1>1, SMTT(60)
<1> HIDE DEF b, d
<1>4. Held(Peer(s), s, Q) = Held(Peer(s), s, R) \cup {b}
    BY <1>1, <1>3, AddressUnique DEF Held
<1>5. Q \subseteq Addr(Peer(s), s)
    BY <1>3 DEF Good, Addr
<1> HIDE DEF Q
<1>6. /\ Partition(RingBufs(f), Held(s, s, A), Range(d), Held(Peer(s), s, Q))
      /\ Moved(OwnerOf(s, f, c, A), OwnerOf(s, f, d, A), b, "sent", "received")
  <2> DEFINE F == RingBufs(f)
             H == Held(s, s, A)
             S == Range(c)
             T == Held(Peer(s), s, R)
  <2>1. Partition(F, H, S, T)
      BY DEF Good
  <2>2. b \in S /\ b \in Buf /\ Held(Peer(s), s, Q) = T \cup {b} /\ Range(d) = S \ {b}
      BY <1>2, <1>3, <1>4
  <2>3. OwnerOf(s, f, c, A) = Owner(F, H, S) /\ OwnerOf(s, f, d, A) = Owner(F, H, S \ {b})
      BY <2>2 DEF OwnerOf
  <2> HIDE DEF F, H, S, T
  <2>4. /\ Partition(F, H, S \ {b}, T \cup {b})
        /\ Moved(Owner(F, H, S), Owner(F, H, S \ {b}), b, "sent", "received")
      BY <2>1, <2>2 DEF Partition, Owner, Moved
  <2>5. QED
      BY <2>2, <2>3, <2>4 DEF F, H
<1>7. Good(s, f, d, A, Q, r)
    BY <1>2, <1>5, <1>6 DEF Good
<1>8. QED
    BY <1>1, <1>3, <1>6, <1>7, Address DEF b, d, Q

\* What was pushed last, r, when the rings become g.
Pushes(f, g, r) == [q \in Pool |-> IF g[q] = f[q] THEN r[q]
                                   ELSE Append(Tail(r[q]), g[q][Len(g[q])])]

\* ipc_shm_release_buf is never refused, and frees the buffer of the address.
LEMMA GoodRelease ==
    ASSUME NEW s \in Side, NEW f, NEW c, NEW A, NEW R, NEW r, Good(s, f, c, A, R, r),
           NEW a \in R
    PROVE  LET p == find_pool_for_buf(Peer(s), s, a)
               b == AddrBd(Peer(s), s, a, p)
               g == [f EXCEPT ![p] = Append(f[p], b)]
               w == Pushes(f, g, r)
           IN  /\ p \in Pool /\ b \in Buf /\ a = BufAddr(Peer(s), s, b)
               /\ Len(f[p]) < NumBufs[p]
               /\ Good(s, g, c, A, R \ {a}, w)
               /\ Moved(OwnerOf(s, f, c, A), OwnerOf(s, g, c, A), b, "received", "free")
<1>0. Peer(s) \in Side
    BY SMTT(60) DEF Peer, Side
<1> DEFINE p == find_pool_for_buf(Peer(s), s, a)
           b == AddrBd(Peer(s), s, a, p)
           g == [f EXCEPT ![p] = Append(f[p], b)]
           w == Pushes(f, g, r)
           Q == R \ {a}
<1>1. b \in Buf /\ a = BufAddr(Peer(s), s, b) /\ p = b.pool_id
  <2>1. PICK e \in Buf : a = BufAddr(Peer(s), s, e)
      BY DEF Good, Addr
  <2>2. QED
      BY <1>0, <2>1, Address, SMTT(60)
<1> HIDE DEF b
<1>2. p \in Pool
    BY <1>1, BufFacts
<1>3. /\ b \in Held(Peer(s), s, R)
      /\ Held(Peer(s), s, Q) = Held(Peer(s), s, R) \ {b}
    BY <1>0, <1>1, AddressUnique DEF Held
<1>4. Rings(f) /\ Recent(f, r) /\ b \notin RingBufs(f) /\ f \in [Pool -> Seq(Buf)]
    BY <1>3 DEF Good, Partition, Rings
<1>5. /\ Len(f[p]) < NumBufs[p]
      /\ Rings(g) /\ RingBufs(g) = RingBufs(f) \cup {b}
    BY <1>1, <1>4, RingsGive
<1>6. Recent(g, w)
  <2>1. Recent(g, [r EXCEPT ![p] = Append(Tail(r[p]), b)])
      BY <1>1, <1>2, <1>4, <1>5, RecentGive
  <2>2. g[p] = Append(f[p], b) /\ f[p] \in Seq(Buf)
      BY <1>2, <1>4
  <2>3. \A q \in Pool \ {p} : g[q] = f[q]
      BY <1>4
  <2>4. r \in [Pool -> Seq(Buf)]
      BY <1>4 DEF Recent
  <2> HIDE DEF g, p
  <2>5. g[p] # f[p] /\ g[p][Len(g[p])] = b
      BY <1>1, <2>2, SMTT(60)
  <2>6. w = [r EXCEPT ![p] = Append(Tail(r[p]), b)]
    <3>1. w[p] = Append(Tail(r[p]), b)
        BY <1>2, <2>5 DEF Pushes
    <3>2. \A q \in Pool \ {p} : w[q] = r[q]
        BY <2>3 DEF Pushes
    <3>3. w = [q \in Pool |-> w[q]]
        BY DEF Pushes
    <3> HIDE DEF w
    <3>4. QED
        BY <1>2, <2>4, <3>1, <3>2, <3>3
  <2>7. QED
      BY <2>1, <2>6
<1> HIDE DEF p, g, w, Q
<1>7. /\ Partition(RingBufs(g), Held(s, s, A), Range(c), Held(Peer(s), s, Q))
      /\ Moved(OwnerOf(s, f, c, A), OwnerOf(s, g, c, A), b, "received", "free")
  <2> DEFINE F == RingBufs(f)
             H == Held(s, s, A)
             S == Range(c)
             T == Held(Peer(s), s, R)
  <2>1. Partition(F, H, S, T)
      BY DEF Good
  <2>2. b \in T /\ b \in Buf /\ Held(Peer(s), s, Q) = T \ {b} /\ RingBufs(g) = F \cup {b}
      BY <1>1, <1>3, <1>5
  <2>3. OwnerOf(s, f, c, A) = Owner(F, H, S) /\ OwnerOf(s, g, c, A) = Owner(F \cup {b}, H, S)
      BY <2>2 DEF OwnerOf
  <2> HIDE DEF F, H, S, T
  <2>4. /\ Partition(F \cup {b}, H, S, T \ {b})
        /\ Moved(Owner(F, H, S), Owner(F \cup {b}, H, S), b, "received", "free")
      BY <2>1, <2>2 DEF Partition, Owner, Moved
  <2>5. QED
      BY <2>2, <2>3, <2>4 DEF H, S
<1>8. Q \subseteq Addr(Peer(s), s)
    BY DEF Good, Q
<1>9. Good(s, g, c, A, Q, w)
    BY <1>5, <1>6, <1>7, <1>8 DEF Good
<1>10. QED
    BY <1>1, <1>2, <1>5, <1>7, <1>9 DEF p, b, g, w, Q

\* After initialisation all buffers are free.
LEMMA GoodAll ==
    ASSUME NEW s \in Side
    PROVE  LET f == [p \in Pool |-> AllBds(p)]
           IN  /\ Good(s, f, <<>>, {}, {}, f)
               /\ OwnerOf(s, f, <<>>, {}) = [b \in Buf |-> "free"]
<1> DEFINE f == [p \in Pool |-> AllBds(p)]
<1>1. Rings(f) /\ RingBufs(f) = Buf
    BY RingsAll
<1>2. \A p \in Pool : f[p] = AllBds(p) /\ Len(f[p]) = NumBufs[p] /\ NumBufs[p] \in Nat
    BY AllBdsFacts, PoolAssumption
<1> HIDE DEF f
<1>3. Recent(f, f)
    BY <1>1, <1>2, SMTT(60) DEF Recent, Rings
<1>4. Held(s, s, {}) = {} /\ Held(Peer(s), s, {}) = {}
    BY DEF Held
<1>5. <<>> \in Seq(Buf) /\ IsInjective(<<>>) /\ Range(<<>>) = {}
    BY SMTT(60) DEF IsInjective, Range
<1>6. Partition(Buf, {}, {}, {})
    BY DEF Partition
<1>7. Good(s, f, <<>>, {}, {}, f)
    BY <1>1, <1>3, <1>4, <1>5, <1>6 DEF Good
<1>8. OwnerOf(s, f, <<>>, {}) = [b \in Buf |-> "free"]
    BY <1>1 DEF OwnerOf, Owner
<1>9. QED
    BY <1>7, <1>8 DEF f

\* A side whose pools are full has no buffer in use.
LEMMA GoodFull ==
    ASSUME NEW s \in Side, NEW f, NEW c, NEW A, NEW R, NEW r, Good(s, f, c, A, R, r),
           \A p \in Pool : Len(f[p]) = NumBufs[p]
    PROVE  /\ r = f /\ c = <<>> /\ A = {} /\ R = {}
           /\ OwnerOf(s, f, c, A) = [b \in Buf |-> "free"]
<1>1. r = f
    BY RecentFull DEF Good, Rings
<1>2. RingBufs(f) = Buf
    BY RingsFull DEF Good
<1>3. Held(s, s, A) = {} /\ Held(Peer(s), s, R) = {} /\ Range(c) = {}
    BY <1>2 DEF Good, Partition
<1>4. c = <<>>
    BY <1>3, SMTT(60) DEF Good, Range
<1>5. A = {} /\ R = {}
    BY <1>3 DEF Good, Held, Addr
<1>6. OwnerOf(s, f, c, A) = [b \in Buf |-> "free"]
    BY <1>2 DEF OwnerOf, Owner
<1>7. QED
    BY <1>1, <1>4, <1>5, <1>6

-----------------------------------------------------------------------------
(* The invariant *)

SideInv(s) == Good(s, freeBds[s], chanBds[s], acquired[s], received[s], pushed[s])

PushedType == pushed \in [Side -> [Pool -> Seq(Buf)]]

\* Stronger than Conservation: what a side holds are addresses of its buffers,
\* as it maps them, and a ring holds the last descriptors pushed into it.
IndInv ==
    /\ TypeOK /\ PushedType
    /\ \A s \in Side : SideInv(s)
    /\ NeverRefused

LEMMA ConservationFollows == IndInv => Conservation
<1> SUFFICES ASSUME IndInv, NEW s \in Side
             PROVE  /\ Partition(FreeBufs(s), AcquiredBufs(s), SentBufs(s), ReceivedBufs(s))
                    /\ IsInjective(chanBds[s]) /\ Rings(freeBds[s])
    BY DEF Conservation, Partition, Rings, IsInjective
<1>1. Good(s, freeBds[s], chanBds[s], acquired[s], received[s], pushed[s])
    BY DEF IndInv, SideInv
<1>2. /\ FreeBufs(s) = RingBufs(freeBds[s]) /\ SentBufs(s) = Range(chanBds[s])
      /\ AcquiredBufs(s) = Held(s, s, acquired[s])
      /\ ReceivedBufs(s) = Held(Peer(s), s, received[s])
    BY DEF FreeBufs, RingBufs, Range, SentBufs, AcquiredBufs, ReceivedBufs, Held
<1>3. QED
    BY <1>1, <1>2 DEF Good

\* A step changes what belongs to the memory of side s.
Becomes(s, f, c, A, R, r) ==
    /\ freeBds' = [freeBds EXCEPT ![s] = f]
    /\ chanBds' = [chanBds EXCEPT ![s] = c]
    /\ acquired' = [acquired EXCEPT ![s] = A]
    /\ received' = [received EXCEPT ![s] = R]
    /\ pushed' = [pushed EXCEPT ![s] = r]

SideTypes ==
    /\ freeBds \in [Side -> [Pool -> Seq(Buf)]]
    /\ chanBds \in [Side -> Seq(Buf)]
    /\ acquired \in [Side -> SUBSET UNION {Addr(s, s) : s \in Side}]
    /\ received \in [Side -> SUBSET UNION {Addr(Peer(s), s) : s \in Side}]
    /\ PushedType

LEMMA OwnerIs ==
    BufOwner = [s \in Side |-> OwnerOf(s, freeBds[s], chanBds[s], acquired[s])]
    BY DEF BufOwner, OwnerOf, Owner, FreeBufs, RingBufs, Range, SentBufs, AcquiredBufs, Held

LEMMA OwnerNext ==
    BufOwner' = [s \in Side |-> OwnerOf(s, freeBds'[s], chanBds'[s], acquired'[s])]
    BY DEF BufOwner, OwnerOf, Owner, FreeBufs, RingBufs, Range, SentBufs, AcquiredBufs, Held

LEMMA OwnerSame ==
    ASSUME UNCHANGED <<freeBds, chanBds, acquired>>
    PROVE  BufOwner' = BufOwner
<1>1. freeBds' = freeBds /\ chanBds' = chanBds /\ acquired' = acquired
    OBVIOUS
<1>2. QED
    BY <1>1, OwnerIs, OwnerNext

LEMMA OneSide ==
    ASSUME SideTypes, \A u \in Side : SideInv(u), NEW s \in Side,
           NEW f, NEW c, NEW A, NEW R, NEW r,
           Good(s, f, c, A, R, r), Becomes(s, f, c, A, R, r)
    PROVE  /\ SideTypes' /\ \A u \in Side : SideInv(u)'
           /\ BufOwner' = [BufOwner EXCEPT ![s] = OwnerOf(s, f, c, A)]
<1>1. /\ freeBds'[s] = f /\ chanBds'[s] = c /\ acquired'[s] = A /\ received'[s] = R
      /\ pushed'[s] = r
    BY DEF SideTypes, PushedType, Becomes
<1>2. ASSUME NEW u \in Side, u # s
      PROVE  /\ freeBds'[u] = freeBds[u] /\ chanBds'[u] = chanBds[u]
             /\ acquired'[u] = acquired[u] /\ received'[u] = received[u]
             /\ pushed'[u] = pushed[u]
    BY <1>2 DEF SideTypes, PushedType, Becomes
<1>3. ASSUME NEW u \in Side PROVE SideInv(u)'
    BY <1>1, <1>2 DEF SideInv
<1>4. SideTypes'
  <2>1. /\ f \in [Pool -> Seq(Buf)] /\ c \in Seq(Buf) /\ r \in [Pool -> Seq(Buf)]
        /\ A \subseteq Addr(s, s) /\ R \subseteq Addr(Peer(s), s)
      BY DEF Good, Rings, Recent
  <2>2. freeBds' \in [Side -> [Pool -> Seq(Buf)]] /\ chanBds' \in [Side -> Seq(Buf)]
      BY <2>1 DEF SideTypes, Becomes
  <2>3. PushedType'
      BY <2>1 DEF SideTypes, Becomes, PushedType
  <2>4. /\ A \in SUBSET UNION {Addr(u, u) : u \in Side}
        /\ R \in SUBSET UNION {Addr(Peer(u), u) : u \in Side}
      BY <2>1
  <2>5. /\ acquired' \in [Side -> SUBSET UNION {Addr(u, u) : u \in Side}]
        /\ received' \in [Side -> SUBSET UNION {Addr(Peer(u), u) : u \in Side}]
      BY <2>4 DEF SideTypes, Becomes
  <2>6. QED
      BY <2>2, <2>3, <2>5 DEF SideTypes
<1>5. BufOwner' = [BufOwner EXCEPT ![s] = OwnerOf(s, f, c, A)]
  <2>1. ASSUME NEW u \in Side
        PROVE  OwnerOf(u, freeBds'[u], chanBds'[u], acquired'[u])
                 = IF u = s THEN OwnerOf(s, f, c, A)
                   ELSE OwnerOf(u, freeBds[u], chanBds[u], acquired[u])
      BY <1>1, <1>2
  <2>2. QED
      BY <2>1, OwnerIs, OwnerNext
<1>6. QED
    BY <1>3, <1>4, <1>5

RestTypes ==
    /\ scan \in [Side -> [size : Sizes \cup {0}, pool_id : Pool]]
    /\ content \in [Side -> [Buf -> Msg]]
    /\ txRet \in [Side -> {"none", "ok", "ENOMEM", "EINVAL"}]
    /\ releaseRet \in [Side -> {"none", "ok", "ENOMEM", "EINVAL"}]

LEMMA Parts ==
    IndInv <=> SideTypes /\ RestTypes /\ (\A s \in Side : SideInv(s)) /\ NeverRefused
    BY DEF IndInv, TypeOK, SideTypes, RestTypes

LEMMA IdleType == Idle \in [size : Sizes \cup {0}, pool_id : Pool]
<1>1. 0 \in Pool
    BY PoolAssumption, SMTT(60) DEF Pool
<1>2. QED
    BY <1>1 DEF Idle

-----------------------------------------------------------------------------
(* The steps: each keeps the invariant and is a step of BufferLedger *)

\* ipc_shm_acquire_buf, which changes no buffer before it has found one, and
\* the application, which writes only into buffers it holds.
LEMMA QuietStep ==
    ASSUME IndInv, NEW s \in Side,
           \/ \E size \in Sizes : AcquireCall(s, size)
           \/ AcquireSkip(s)
           \/ \E a \in acquired[s], m \in Msg : AppWrite(s, a, m),
           UNCHANGED pushed
    PROVE  IndInv' /\ [Ledger!Next]_(Ledger!vars)
<1>1. SideTypes /\ RestTypes /\ (\A u \in Side : SideInv(u)) /\ NeverRefused
    BY Parts
<1>2. UNCHANGED <<freeBds, chanBds, acquired, received, pushed, txRet, releaseRet>>
    BY DEF AcquireCall, AcquireSkip, AppWrite
<1>3. SideTypes' /\ (\A u \in Side : SideInv(u)') /\ NeverRefused' /\ BufOwner' = BufOwner
  <2>1. SideTypes'
      BY <1>1, <1>2 DEF SideTypes, PushedType
  <2>2. (\A u \in Side : SideInv(u)') /\ NeverRefused'
      BY <1>1, <1>2 DEF SideInv, NeverRefused
  <2>3. BufOwner' = BufOwner
      BY <1>2, OwnerSame
  <2>4. QED
      BY <2>1, <2>2, <2>3
<1>4. CASE \E size \in Sizes : AcquireCall(s, size)
  <2>1. scan' \in [Side -> [size : Sizes \cup {0}, pool_id : Pool]] /\ UNCHANGED content
    <3>1. PICK n \in Sizes : AcquireCall(s, n)
        BY <1>4
    <3>2. [size |-> n, pool_id |-> 0] \in [size : Sizes \cup {0}, pool_id : Pool]
        BY PoolAssumption, SMTT(60) DEF Pool
    <3>3. scan' = [scan EXCEPT ![s] = [size |-> n, pool_id |-> 0]] /\ UNCHANGED content
        BY <3>1 DEF AcquireCall
    <3>4. QED
        BY <1>1, <3>2, <3>3 DEF RestTypes
  <2>2. RestTypes'
      BY <1>1, <1>2, <2>1 DEF RestTypes
  <2>3. QED
      BY <1>2, <1>3, <2>1, <2>2 DEF IndInv, TypeOK, SideTypes, RestTypes,
         Ledger!vars
<1>5. CASE AcquireSkip(s)
  <2>1. scan' \in [Side -> [size : Sizes \cup {0}, pool_id : Pool]] /\ UNCHANGED content
    <3> DEFINE p == scan[s].pool_id
    <3>1. scan[s] \in [size : Sizes \cup {0}, pool_id : Pool] /\ p \in Pool
        BY <1>1 DEF RestTypes
    <3>2. p + 1 # NumPools => p + 1 \in Pool
      <4> HIDE DEF p
      <4>1. NumPools \in Nat
          BY PoolAssumption
      <4>2. QED
          BY <3>1, <4>1, SMTT(60) DEF Pool
    <3>3. scan' = [scan EXCEPT ![s] = IF p + 1 = NumPools THEN Idle
                                      ELSE [scan[s] EXCEPT !.pool_id = p + 1]]
        BY <1>5 DEF AcquireSkip
    <3>4. p + 1 # NumPools =>
              [scan[s] EXCEPT !.pool_id = p + 1] \in [size : Sizes \cup {0}, pool_id : Pool]
        BY <3>1, <3>2
    <3>5. QED
        BY <1>1, <1>5, <3>3, <3>4, IdleType, SMTT(60) DEF AcquireSkip, RestTypes
  <2>2. RestTypes'
      BY <1>1, <1>2, <2>1 DEF RestTypes
  <2>3. QED
      BY <1>2, <1>3, <2>1, <2>2 DEF IndInv, TypeOK, SideTypes, RestTypes,
         Ledger!vars
<1>6. CASE \E a \in acquired[s], m \in Msg : AppWrite(s, a, m)
  <2>1. PICK a \in acquired[s], m \in Msg : AppWrite(s, a, m)
      BY <1>6
  <2>2. PICK b \in Buf : a = BufAddr(s, s, b) /\ content' = [content EXCEPT ![s][b] = m]
      BY <2>1 DEF AppWrite
  <2>3. RestTypes'
      BY <1>1, <1>2, <2>1, <2>2 DEF RestTypes, AppWrite
  <2>4. BufOwner[s][b] = "acquired"
    <3>1. b \in AcquiredBufs(s)
        BY <2>2 DEF AcquiredBufs
    <3>2. b \notin FreeBufs(s)
        BY <3>1, ConservationFollows DEF Conservation
    <3>3. QED
        BY <3>1, <3>2 DEF BufOwner
  <2>5. Ledger!Write(s, b, m)
      BY <1>2, <1>3, <2>2, <2>4 DEF Ledger!Write
  <2>6. Ledger!Next
      BY <2>5 DEF Ledger!Next, Ledger!Side, Side
  <2>7. QED
      BY <1>3, <2>3, <2>6 DEF IndInv, TypeOK, SideTypes, RestTypes
<1>7. QED
    BY <1>4, <1>5, <1>6

\* ipc_shm_acquire_buf finds a buffer.
LEMMA TakeStep ==
    ASSUME IndInv, NEW s \in Side, AcquireTake(s), UNCHANGED pushed
    PROVE  IndInv' /\ Ledger!Next
<1>1. SideTypes /\ RestTypes /\ (\A u \in Side : SideInv(u)) /\ NeverRefused
    BY Parts
<1> DEFINE p == scan[s].pool_id
           b == Head(freeBds[s][p])
           f == [freeBds[s] EXCEPT ![p] = Tail(freeBds[s][p])]
           A == acquired[s] \cup {BufAddr(s, s, b)}
<1>2. p \in Pool /\ freeBds[s][p] # <<>>
    BY <1>1 DEF RestTypes, AcquireTake
<1>3. Good(s, freeBds[s], chanBds[s], acquired[s], received[s], pushed[s])
    BY <1>1 DEF SideInv
<1>4. /\ b \in Buf /\ BufAddrValid(s, s, b)
      /\ Good(s, f, chanBds[s], A, received[s], pushed[s])
      /\ Moved(OwnerOf(s, freeBds[s], chanBds[s], acquired[s]),
               OwnerOf(s, f, chanBds[s], A), b, "free", "acquired")
    BY <1>2, <1>3, GoodTake
<1>5. Becomes(s, f, chanBds[s], A, received[s], pushed[s])
    BY <1>1, <1>2, <1>4 DEF SideTypes, PushedType, AcquireTake, Becomes
<1> HIDE DEF b, f, A
<1>6. /\ SideTypes' /\ \A u \in Side : SideInv(u)'
      /\ BufOwner' = [BufOwner EXCEPT ![s] = OwnerOf(s, f, chanBds[s], A)]
    BY <1>1, <1>4, <1>5, OneSide
<1>7. RestTypes' /\ NeverRefused'
    BY <1>1, IdleType DEF RestTypes, NeverRefused, AcquireTake
<1>8. IndInv'
    BY <1>6, <1>7 DEF IndInv, TypeOK, SideTypes, RestTypes
<1>9. Ledger!Acquire(s, b)
  <2>1. BufOwner[s] = OwnerOf(s, freeBds[s], chanBds[s], acquired[s])
      BY OwnerIs
  <2>2. BufOwner[s][b] = "free" /\ BufOwner' = [BufOwner EXCEPT ![s][b] = "acquired"]
      BY <1>4, <1>6, <2>1 DEF Moved
  <2>3. QED
      BY <2>2 DEF Ledger!Acquire, AcquireTake
<1>10. QED
    BY <1>4, <1>8, <1>9 DEF Ledger!Next, Ledger!Side, Side

LEMMA SendStep ==
    ASSUME IndInv, NEW s \in Side, NEW a \in acquired[s], ipc_shm_tx(s, a),
           UNCHANGED pushed
    PROVE  IndInv' /\ Ledger!Next
<1>1. SideTypes /\ RestTypes /\ (\A u \in Side : SideInv(u)) /\ NeverRefused
    BY Parts
<1> DEFINE p == find_pool_for_buf(s, s, a)
           b == AddrBd(s, s, a, p)
           c == Append(chanBds[s], b)
           A == acquired[s] \ {a}
<1>2. Good(s, freeBds[s], chanBds[s], acquired[s], received[s], pushed[s])
    BY <1>1 DEF SideInv
<1>3. /\ b \in Buf /\ PushRet(p, chanBds[s], TotalBufs) = "ok"
      /\ Good(s, freeBds[s], c, A, received[s], pushed[s])
      /\ Moved(OwnerOf(s, freeBds[s], chanBds[s], acquired[s]),
               OwnerOf(s, freeBds[s], c, A), b, "acquired", "sent")
  <2>1. p \in Pool /\ b \in Buf
      BY <1>2, GoodSend
  <2>2. Len(chanBds[s]) < TotalBufs
      BY <1>2, GoodSend
  <2>3. Good(s, freeBds[s], c, A, received[s], pushed[s])
      BY <1>2, GoodSend
  <2>4. Moved(OwnerOf(s, freeBds[s], chanBds[s], acquired[s]),
              OwnerOf(s, freeBds[s], c, A), b, "acquired", "sent")
      BY <1>2, GoodSend
  <2> HIDE DEF p
  <2>5. p # EINVAL
      BY <2>1, PoolAssumption, SMTT(60) DEF Pool, EINVAL
  <2>6. PushRet(p, chanBds[s], TotalBufs) = "ok"
      BY <2>2, <2>5 DEF PushRet
  <2>7. QED
      BY <2>1, <2>3, <2>4, <2>6
<1>4. /\ chanBds' = [chanBds EXCEPT ![s] = c] /\ acquired' = [acquired EXCEPT ![s] = A]
      /\ txRet' = [txRet EXCEPT ![s] = "ok"]
      /\ UNCHANGED <<freeBds, scan, received, content, releaseRet>>
    BY <1>3 DEF ipc_shm_tx
<1> HIDE DEF p, b, A
<1>5. Becomes(s, freeBds[s], c, A, received[s], pushed[s])
    BY <1>1, <1>4 DEF SideTypes, PushedType, Becomes
<1>6. /\ SideTypes' /\ \A u \in Side : SideInv(u)'
      /\ BufOwner' = [BufOwner EXCEPT ![s] = OwnerOf(s, freeBds[s], c, A)]
    BY <1>1, <1>3, <1>5, OneSide
<1>7. RestTypes' /\ NeverRefused'
    BY <1>1, <1>4 DEF RestTypes, NeverRefused
<1>8. IndInv'
    BY <1>6, <1>7 DEF IndInv, TypeOK, SideTypes, RestTypes
<1>9. Ledger!Send(s, b)
  <2>1. BufOwner[s] = OwnerOf(s, freeBds[s], chanBds[s], acquired[s])
      BY OwnerIs
  <2>2. BufOwner[s][b] = "acquired" /\ BufOwner' = [BufOwner EXCEPT ![s][b] = "sent"]
      BY <1>3, <1>6, <2>1 DEF Moved
  <2>3. QED
      BY <1>4, <2>2 DEF Ledger!Send
<1>10. QED
    BY <1>3, <1>8, <1>9 DEF Ledger!Next, Ledger!Side, Side

LEMMA ReceiveStep ==
    ASSUME IndInv, NEW t \in Side, ipc_channel_rx(t), UNCHANGED pushed
    PROVE  IndInv' /\ Ledger!Next
<1>1. SideTypes /\ RestTypes /\ (\A u \in Side : SideInv(u)) /\ NeverRefused
    BY Parts
<1> DEFINE s == Peer(t)
           b == Head(chanBds[s])
           R == received[s] \cup {BufAddr(Peer(s), s, b)}
<1>2. s \in Side /\ Peer(s) = t /\ chanBds[s] # <<>>
    BY SMTT(60) DEF Side, Peer, ipc_channel_rx
<1>3. Good(s, freeBds[s], chanBds[s], acquired[s], received[s], pushed[s])
    BY <1>1, <1>2 DEF SideInv
<1> HIDE DEF s
<1>4. /\ b \in Buf /\ BufAddrValid(t, s, b)
      /\ Good(s, freeBds[s], Tail(chanBds[s]), acquired[s], R, pushed[s])
      /\ Moved(OwnerOf(s, freeBds[s], chanBds[s], acquired[s]),
               OwnerOf(s, freeBds[s], Tail(chanBds[s]), acquired[s]), b, "sent", "received")
    BY <1>2, <1>3, GoodReceive
<1>5. /\ chanBds' = [chanBds EXCEPT ![s] = Tail(chanBds[s])]
      /\ received' = [received EXCEPT ![s] = R]
      /\ UNCHANGED <<freeBds, scan, acquired, content, txRet, releaseRet>>
    BY <1>2, <1>4 DEF ipc_channel_rx, s
<1> HIDE DEF b, R
<1>6. Becomes(s, freeBds[s], Tail(chanBds[s]), acquired[s], R, pushed[s])
    BY <1>1, <1>5 DEF SideTypes, PushedType, Becomes
<1>7. /\ SideTypes' /\ \A u \in Side : SideInv(u)'
      /\ BufOwner' = [BufOwner EXCEPT ![s] =
                          OwnerOf(s, freeBds[s], Tail(chanBds[s]), acquired[s])]
    BY <1>1, <1>2, <1>4, <1>6, OneSide
<1>8. RestTypes' /\ NeverRefused'
    BY <1>1, <1>5 DEF RestTypes, NeverRefused
<1>9. IndInv'
    BY <1>7, <1>8 DEF IndInv, TypeOK, SideTypes, RestTypes
<1>10. Ledger!Receive(s)
  <2>1. BufOwner[s] = OwnerOf(s, freeBds[s], chanBds[s], acquired[s])
      BY <1>2, OwnerIs
  <2>2. BufOwner' = [BufOwner EXCEPT ![s][b] = "received"]
      BY <1>4, <1>7, <2>1 DEF Moved
  <2>3. QED
      BY <1>2, <1>5, <2>2 DEF Ledger!Receive, b
<1>11. QED
    BY <1>2, <1>9, <1>10 DEF Ledger!Next, Ledger!Side, Side

LEMMA ReleaseStep ==
    ASSUME IndInv, NEW t \in Side, NEW a \in received[Peer(t)], Release(t, a)
    PROVE  IndInv' /\ Ledger!Next
<1>1. SideTypes /\ RestTypes /\ (\A u \in Side : SideInv(u)) /\ NeverRefused
    BY Parts
<1> DEFINE s == Peer(t)
           p == find_pool_for_buf(Peer(s), s, a)
           b == AddrBd(Peer(s), s, a, p)
           f == [freeBds[s] EXCEPT ![p] = Append(freeBds[s][p], b)]
           R == received[s] \ {a}
           r == Pushes(freeBds[s], f, pushed[s])
<1>2. s \in Side /\ Peer(s) = t
    BY SMTT(60) DEF Side, Peer
<1>3. Good(s, freeBds[s], chanBds[s], acquired[s], received[s], pushed[s])
    BY <1>1, <1>2 DEF SideInv
<1>4. a \in received[s]
    OBVIOUS
<1> HIDE DEF s
<1>5. /\ p \in Pool /\ b \in Buf
      /\ PushRet(p, freeBds[s][p], NumBufs[p]) = "ok"
      /\ Good(s, f, chanBds[s], acquired[s], R, r)
      /\ Moved(OwnerOf(s, freeBds[s], chanBds[s], acquired[s]),
               OwnerOf(s, f, chanBds[s], acquired[s]), b, "received", "free")
  <2>1. p \in Pool /\ b \in Buf
      BY <1>2, <1>3, <1>4, GoodRelease
  <2>2. Len(freeBds[s][p]) < NumBufs[p]
      BY <1>2, <1>3, <1>4, GoodRelease
  <2>3. Good(s, f, chanBds[s], acquired[s], R, r)
      BY <1>2, <1>3, <1>4, GoodRelease
  <2>4. Moved(OwnerOf(s, freeBds[s], chanBds[s], acquired[s]),
              OwnerOf(s, f, chanBds[s], acquired[s]), b, "received", "free")
      BY <1>2, <1>3, <1>4, GoodRelease
  <2> HIDE DEF p
  <2>5. p # EINVAL
      BY <2>1, PoolAssumption, SMTT(60) DEF Pool, EINVAL
  <2>6. PushRet(p, freeBds[s][p], NumBufs[p]) = "ok"
      BY <2>2, <2>5 DEF PushRet
  <2>7. QED
      BY <2>1, <2>3, <2>4, <2>6
<1>6. /\ freeBds' = [freeBds EXCEPT ![s] = f] /\ received' = [received EXCEPT ![s] = R]
      /\ releaseRet' = [releaseRet EXCEPT ![t] = "ok"]
      /\ UNCHANGED <<chanBds, scan, acquired, content, txRet>>
    BY <1>2, <1>5 DEF Release, ipc_shm_release_buf, s
<1>7. pushed' = [pushed EXCEPT ![s] = r]
  <2>1. freeBds'[s] = f
      BY <1>1, <1>2, <1>6 DEF SideTypes
  <2>2. pushed' = [pushed EXCEPT ![s] = Pushes(freeBds[s], freeBds'[s], pushed[s])]
      BY DEF Release, Pushes, s
  <2>3. QED
      BY <2>1, <2>2
<1> HIDE DEF p, b, f, R, r
<1>8. Becomes(s, f, chanBds[s], acquired[s], R, r)
    BY <1>1, <1>6, <1>7 DEF SideTypes, PushedType, Becomes
<1>9. /\ SideTypes' /\ \A u \in Side : SideInv(u)'
      /\ BufOwner' = [BufOwner EXCEPT ![s] = OwnerOf(s, f, chanBds[s], acquired[s])]
    BY <1>1, <1>2, <1>5, <1>8, OneSide
<1>10. RestTypes' /\ NeverRefused'
    BY <1>1, <1>6 DEF RestTypes, NeverRefused
<1>11. IndInv'
    BY <1>9, <1>10 DEF IndInv, TypeOK, SideTypes, RestTypes
<1>12. Ledger!Release(s, b)
  <2>1. BufOwner[s] = OwnerOf(s, freeBds[s], chanBds[s], acquired[s])
      BY <1>2, OwnerIs
  <2>2. BufOwner[s][b] = "received" /\ BufOwner' = [BufOwner EXCEPT ![s][b] = "free"]
      BY <1>5, <1>9, <2>1 DEF Moved
  <2>3. QED
      BY <1>6, <2>2 DEF Ledger!Release
<1>13. QED
    BY <1>2, <1>5, <1>11, <1>12 DEF Ledger!Next, Ledger!Side, Side

\* Side s restarts while every buffer is free: its peer's pools are filled again.
LEMMA RestartStep ==
    ASSUME IndInv, AllReturned, NEW s \in Side, Restart(s)
    PROVE  IndInv' /\ UNCHANGED Ledger!vars
<1>1. SideTypes /\ RestTypes /\ (\A u \in Side : SideInv(u)) /\ NeverRefused
    BY Parts
<1> DEFINE all == [p \in Pool |-> AllBds(p)]
<1>2. ASSUME NEW u \in Side
      PROVE  /\ Good(u, freeBds[u], <<>>, {}, {}, freeBds[u])
             /\ pushed[u] = freeBds[u] /\ chanBds[u] = <<>>
             /\ acquired[u] = {} /\ received[u] = {}
             /\ OwnerOf(u, freeBds[u], <<>>, {}) = [b \in Buf |-> "free"]
  <2>1. Good(u, freeBds[u], chanBds[u], acquired[u], received[u], pushed[u])
      BY <1>1 DEF SideInv
  <2>2. \A p \in Pool : Len(freeBds[u][p]) = NumBufs[p]
      BY DEF Restart, Quiescent
  <2>3. /\ pushed[u] = freeBds[u] /\ chanBds[u] = <<>>
        /\ acquired[u] = {} /\ received[u] = {}
        /\ OwnerOf(u, freeBds[u], chanBds[u], acquired[u]) = [b \in Buf |-> "free"]
      BY <2>1, <2>2, GoodFull, SMTT(60)
  <2>4. QED
      BY <2>1, <2>3
<1>3. /\ Peer(s) \in Side /\ Peer(s) # s /\ \A u \in Side : u = s \/ u = Peer(s)
    BY SMTT(60) DEF Side, Peer
<1>4. /\ Good(Peer(s), all, <<>>, {}, {}, all)
      /\ OwnerOf(Peer(s), all, <<>>, {}) = [b \in Buf |-> "free"]
    BY <1>3, GoodAll
<1>5. all \in [Pool -> Seq(Buf)]
    BY <1>4 DEF Good, Rings
<1>6. /\ freeBds' = [freeBds EXCEPT ![s] = pushed[s], ![Peer(s)] = all]
      /\ pushed' = [pushed EXCEPT ![Peer(s)] = all]
      /\ chanBds' = [u \in Side |-> <<>>]
      /\ acquired' = [acquired EXCEPT ![s] = {}]
      /\ received' = [received EXCEPT ![Peer(s)] = {}]
      /\ scan' = [scan EXCEPT ![s] = Idle]
      /\ UNCHANGED <<content, txRet, releaseRet>>
    BY DEF Restart
<1> HIDE DEF all
<1>7. /\ freeBds'[s] = freeBds[s] /\ pushed'[s] = freeBds[s]
      /\ freeBds'[Peer(s)] = all /\ pushed'[Peer(s)] = all
      /\ \A u \in Side : chanBds'[u] = <<>> /\ acquired'[u] = {} /\ received'[u] = {}
    BY <1>1, <1>2, <1>3, <1>6 DEF SideTypes, PushedType
<1>8. ASSUME NEW u \in Side
      PROVE  /\ SideInv(u)'
             /\ OwnerOf(u, freeBds'[u], chanBds'[u], acquired'[u]) = [b \in Buf |-> "free"]
  <2>1. CASE u = s
      BY <1>2, <1>7, <2>1 DEF SideInv
  <2>2. CASE u = Peer(s)
      BY <1>4, <1>7, <2>2 DEF SideInv
  <2>3. QED
      BY <1>3, <2>1, <2>2
<1>9. SideTypes'
  <2>1. /\ freeBds' \in [Side -> [Pool -> Seq(Buf)]] /\ PushedType'
        /\ chanBds' \in [Side -> Seq(Buf)]
      BY <1>1, <1>2, <1>3, <1>5, <1>6 DEF SideTypes, PushedType
  <2>2. /\ acquired' \in [Side -> SUBSET UNION {Addr(u, u) : u \in Side}]
        /\ received' \in [Side -> SUBSET UNION {Addr(Peer(u), u) : u \in Side}]
      BY <1>1, <1>3, <1>6 DEF SideTypes
  <2>3. QED
      BY <2>1, <2>2 DEF SideTypes
<1>10. RestTypes' /\ NeverRefused'
    BY <1>1, <1>6, IdleType DEF RestTypes, NeverRefused
<1>11. IndInv'
    BY <1>8, <1>9, <1>10 DEF IndInv, TypeOK, SideTypes, RestTypes
<1>12. BufOwner' = BufOwner /\ chanBds' = chanBds /\ content' = content
  <2>1. BufOwner = [u \in Side |-> [b \in Buf |-> "free"]]
      BY <1>2, OwnerIs
  <2>2. BufOwner' = [u \in Side |-> [b \in Buf |-> "free"]]
      BY <1>8, OwnerNext
  <2>3. chanBds' = chanBds
      BY <1>1, <1>2, <1>6 DEF SideTypes
  <2>4. QED
      BY <1>6, <2>1, <2>2, <2>3
<1>13. QED
    BY <1>11, <1>12 DEF Ledger!vars

-----------------------------------------------------------------------------
(* The theorems *)

LEMMA Starts == RestartInit => IndInv /\ Ledger!Init
<1> SUFFICES ASSUME RestartInit PROVE IndInv /\ Ledger!Init
    OBVIOUS
<1> DEFINE all == [p \in Pool |-> AllBds(p)]
<1>1. /\ freeBds = [s \in Side |-> all] /\ pushed = [s \in Side |-> all]
      /\ chanBds = [s \in Side |-> <<>>] /\ acquired = [s \in Side |-> {}]
      /\ received = [s \in Side |-> {}] /\ content \in [Side -> [Buf -> Msg]]
      /\ scan = [s \in Side |-> Idle]
      /\ txRet = [s \in Side |-> "none"] /\ releaseRet = [s \in Side |-> "none"]
    BY DEF RestartInit, Init, AllBds
<1>2. \A s \in Side : /\ Good(s, all, <<>>, {}, {}, all)
                      /\ OwnerOf(s, all, <<>>, {}) = [b \in Buf |-> "free"]
    BY GoodAll
<1>3. all \in [Pool -> Seq(Buf)]
    BY <1>2 DEF Good, Rings, Side
<1> HIDE DEF all
<1>4. \A s \in Side : SideInv(s)
    BY <1>1, <1>2 DEF SideInv
<1>5. SideTypes /\ RestTypes /\ NeverRefused
    BY <1>1, <1>3, IdleType, SMTT(60) DEF SideTypes, PushedType, RestTypes, NeverRefused
<1>6. BufOwner = [s \in Side |-> [b \in Buf |-> "free"]]
    BY <1>1, <1>2, OwnerIs
<1>7. QED
    BY <1>1, <1>4, <1>5, <1>6, Parts DEF Ledger!Init, Ledger!Side, Side

LEMMA Steps ==
    ASSUME AllReturned
    PROVE  IndInv /\ [RestartNext]_restartVars => IndInv' /\ [Ledger!Next]_(Ledger!vars)
<1> SUFFICES ASSUME IndInv, [RestartNext]_restartVars
             PROVE  IndInv' /\ [Ledger!Next]_(Ledger!vars)
    OBVIOUS
<1>1. CASE UNCHANGED restartVars
  <2>1. IndInv'
      BY <1>1 DEF restartVars, vars, IndInv, TypeOK, PushedType, SideInv, NeverRefused
  <2>2. UNCHANGED Ledger!vars
      BY <1>1, OwnerSame DEF restartVars, vars, Ledger!vars
  <2>3. QED
      BY <2>1, <2>2
<1>2. CASE RestartNext
  <2>1. PICK s \in Side :
            \/ /\ \/ \E size \in Sizes : AcquireCall(s, size)
                  \/ AcquireSkip(s) \/ AcquireTake(s)
                  \/ \E a \in acquired[s] :
                        ipc_shm_tx(s, a) \/ \E m \in Msg : AppWrite(s, a, m)
                  \/ ipc_channel_rx(s)
               /\ UNCHANGED pushed
            \/ \E a \in received[Peer(s)] : Release(s, a)
            \/ Restart(s)
      BY <1>2 DEF RestartNext
  <2>2. CASE UNCHANGED pushed /\ \/ \E size \in Sizes : AcquireCall(s, size)
                                 \/ AcquireSkip(s)
                                 \/ \E a \in acquired[s], m \in Msg : AppWrite(s, a, m)
      BY <2>2, QuietStep
  <2>3. CASE UNCHANGED pushed /\ AcquireTake(s)
      BY <2>3, TakeStep
  <2>4. CASE UNCHANGED pushed /\ \E a \in acquired[s] : ipc_shm_tx(s, a)
      BY <2>4, SendStep
  <2>5. CASE UNCHANGED pushed /\ ipc_channel_rx(s)
      BY <2>5, ReceiveStep
  <2>6. CASE \E a \in received[Peer(s)] : Release(s, a)
      BY <2>6, ReleaseStep
  <2>7. CASE Restart(s)
      BY <2>7, RestartStep
  <2>8. QED
      BY <2>1, <2>2, <2>3, <2>4, <2>5, <2>6, <2>7
<1>3. QED
    BY <1>1, <1>2

\* Whatever the sides acquire, send, receive and release, and also when one of
\* them restarts while all buffers are free, no buffer is lost and none has two
\* owners (ipc_shm_acquire_buf, ipc_shm_tx, ipc_channel_rx, ipc_shm_release_buf).
THEOREM Conserved ==
    ASSUME AllReturned
    PROVE  RestartSpec => []Conservation
<1>1. RestartInit => IndInv
    BY Starts
<1>2. IndInv /\ [RestartNext]_restartVars => IndInv'
    BY Steps
<1>3. QED
    BY <1>1, <1>2, ConservationFollows, PTL DEF RestartSpec

\* Under the same conditions ipc_shm_tx and ipc_shm_release_buf never fail for
\* the address of a buffer that the application holds.
THEOREM Accepted ==
    ASSUME AllReturned
    PROVE  RestartSpec => []NeverRefused
<1>1. RestartInit => IndInv
    BY Starts
<1>2. IndInv /\ [RestartNext]_restartVars => IndInv'
    BY Steps
<1>3. IndInv => NeverRefused
    BY DEF IndInv
<1>4. QED
    BY <1>1, <1>2, <1>3, PTL DEF RestartSpec

\* Under the same conditions a managed channel implements BufferLedger: buffers
\* go round from free to acquired, sent and received, in the order sent, and
\* their content changes only while the sender holds them.
THEOREM Implements ==
    ASSUME AllReturned
    PROVE  RestartSpec => ImplementsLedger
<1>1. RestartInit => IndInv /\ Ledger!Init
    BY Starts
<1>2. IndInv /\ [RestartNext]_restartVars => IndInv' /\ [Ledger!Next]_(Ledger!vars)
    BY Steps
<1>3. QED
    BY <1>1, <1>2, PTL DEF RestartSpec, ImplementsLedger, Ledger!Spec
=============================================================================
