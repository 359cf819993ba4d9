---------------------------- MODULE MCKernelIrq -----------------------------
(* Boards of KernelIrq for TLC. *)
EXTENDS KernelIrq, ShippedConfigs, Functions

ShippedOn(layer, hw, cfgs) ==
    [os |-> layer, hw |-> hw, cfgs |-> cfgs, faults |-> {}, shipped |-> TRUE]

\* What the kernel samples are built with, and the configurations of the Xen
\* samples in either domain.
ShippedBoards ==
    {ShippedOn("kernel", "s32gen1", c) :
        c \in {sample_s32g2, sample_s32r45, sample_multi_s32g2, sample_multi_s32r45}}
      \cup {ShippedOn("kernel", "s32g3xx", c) : c \in {sample_s32g3, sample_multi_s32g3}}
      \cup {ShippedOn("kernel", "s32r47", c) : c \in {sample_s32r47, sample_multi_s32r47}}
      \cup {ShippedOn("xen", "xen", c) : c \in {dom0_s32g2, dom0_s32g3, dom0_s32r45,
                                     dom0less_s32g2, dom0less_s32g3, dom0less_s32r45}}

\* Four instances: 0 and 1 share interrupt 1, instance 2 has one of its own,
\* instance 3 is polled.  Instances 1 and 2 meet every fault between them, but
\* request_irq does not fail where the interrupt is shared.
SharedBoard ==
    [os |-> "kernel", hw |-> "s32gen1", shipped |-> FALSE,
     cfgs |-> [k \in 1..4 |->
         Shipped(\h34000 + 32 * k, \h34010 + 32 * k, 65536, -1,
                 CASE k < 3 -> 1 [] k = 3 -> 2 [] OTHER -> -1,
                 0..3, Core("M7", 0))],
     faults |-> ({"locked", "region", "irq_number", "channels"} \X {1})
                  \cup ({"map", "request_irq", "channels"} \X {2})]

\* Three polled instances of the Xen driver; the second meets every fault.
XenBoard ==
    [os |-> "xen", hw |-> "xen", shipped |-> FALSE,
     cfgs |-> [k \in 1..3 |->
         Shipped(\h84500 + 32 * k, \h84510 + 32 * k, 65536, -1, -1, {}, DefaultCore)],
     faults |-> Fault \X {1}]

\* Where the channels of the samples end.
SampleEnd == Layout(sample_s32g2[1]).off

Edge(c0, c1, hw) ==
    [os |-> "kernel", hw |-> hw, shipped |-> FALSE, cfgs |-> <<c0, c1>>, faults |-> {}]

\* Configurations at the limits: memory that is used to the last byte, or one
\* byte short and next to another instance's; windows that overlap; an unmanaged
\* channel at the end; pools in the wrong order, too many or empty; interrupts,
\* cores and masks that a back end refuses.
EdgeBoards ==
    LET good == Shipped(\h34100, \h34200, 65536, 2, 1, 0..3, Core("M7", 0))
        next == [good EXCEPT !.local_shm_addr = \h34100 + 11,
                             !.remote_shm_addr = \h34200 + 11,
                             !.rx_irq = 0, !.shm_size = SampleEnd]
        exact == [good EXCEPT !.shm_size = SampleEnd]
        Channels2(c, chans) == [c EXCEPT !.channels = chans]
        Pools(c, pools) ==
            Channels2(c, <<[type |-> "MANAGED", pools |-> pools]>>)
        pool == [num_bufs |-> 5, buf_size |-> 32]
        bad ==
            {[good EXCEPT !.shm_size = SampleEnd - 1],
             [good EXCEPT !.shm_size = 8192],
             [good EXCEPT !.remote_shm_addr = \h34108],
             [good EXCEPT !.remote_shm_addr = 0],
             Channels2(good, <<>>),
             Channels2(good, [c \in 1..9 |-> [type |-> "UNMANAGED", size |-> 8]]),
             Channels2(good, <<[type |-> "UNMANAGED", size |-> 65536]>>),
             Channels2([good EXCEPT !.shm_size = 4096],
                       <<[type |-> "UNMANAGED", size |-> 8192]>>),
             Pools(good, <<pool, [pool EXCEPT !.buf_size = 16]>>),
             Pools(good, <<pool, [pool EXCEPT !.num_bufs = 0]>>),
             Pools(good, <<[pool EXCEPT !.num_bufs = 4097, !.buf_size = 8]>>),
             Pools(good, [p \in 1..5 |-> pool]),
             [good EXCEPT !.tx_irq = 1],
             [good EXCEPT !.rx_irq = 3],
             [good EXCEPT !.trusted = {1, 2}],
             [good EXCEPT !.trusted = 0..4],
             [good EXCEPT !.local_core = Core("A53", 2), !.remote_core = Core("A53", 2)],
             [good EXCEPT !.remote_core = Core("A53", 1)],
             [good EXCEPT !.remote_core = Core("BBE32", 1), !.rx_irq = 0]}
    IN  {Edge(b, next, hw) : b \in bad \cup {good, exact}, hw \in {"s32gen1"}}
          \cup {Edge([good EXCEPT !.remote_core = Core("KQ8", 0), !.rx_irq = r], next, "s32r47") :
                    r \in {1, 2}}
          \cup {Edge([good EXCEPT !.local_core = Core("A53", 7), !.trusted = t, !.rx_irq = 11],
                     next, "s32g3xx") : t \in {0..7, 0..3}}

AllBoards == ShippedBoards \cup {SharedBoard, XenBoard} \cup EdgeBoards

-----------------------------------------------------------------------------
(* Facts about the shipped configurations as such. *)

\* The user-space samples have the configurations of the kernel samples.
ASSUME UserAsKernel ==
    /\ sample_user_s32g2 = sample_s32g2 /\ sample_user_s32g3 = sample_s32g3
    /\ sample_user_s32r45 = sample_s32r45 /\ sample_user_s32r47 = sample_s32r47
    /\ sample_multi_user_s32g2 = sample_multi_s32g2
    /\ sample_multi_user_s32g3 = sample_multi_s32g3
    /\ sample_multi_user_s32r45 = sample_multi_s32r45
    /\ sample_multi_user_s32r47 = sample_multi_s32r47

\* The two Xen domains have each other's memory, in the same layout.
ASSUME DomainsMirror ==
    \A p \in {<<dom0_s32g2, dom0less_s32g2>>, <<dom0_s32g3, dom0less_s32g3>>,
              <<dom0_s32r45, dom0less_s32r45>>} :
        LET a == p[1][1]
            b == p[2][1]
        IN  /\ a.local_shm_addr = b.remote_shm_addr
            /\ b.local_shm_addr = a.remote_shm_addr
            /\ a.shm_size = b.shm_size /\ Layout(a) = Layout(b)

\* The layouts of the boards are inside the memory.
ASSUME LayoutsFit == LayoutsInside

\* No two interrupts of a platform use the same register.
ASSUME RegistersDiffer ==
    /\ IsInjective(Msi_s32gen1) /\ IsInjective(Spi_s32gen1)
    /\ IsInjective(Msi_s32g3xx) /\ IsInjective(Spi_s32g3xx)
=============================================================================
