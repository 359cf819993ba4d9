--------------------------- MODULE ShippedConfigs ---------------------------
(***************************************************************************)
(* The configurations that come with the samples, one definition for each  *)
(* generated file: the sequence of the instances, each with its channels.  *)
(* Addresses are in pages of 4 KiB, sizes in bytes; a mask of cores is the *)
(* set of its bits.  The callbacks, which all are given, are left out.     *)
(***************************************************************************)
EXTENDS Integers, Sequences

\* ipcf_shm_cfg_channels: the control channel, and two data channels with the
\* same three pools.
SamplePools == <<[num_bufs |-> 5, buf_size |-> 32],
                 [num_bufs |-> 5, buf_size |-> 256],
                 [num_bufs |-> 5, buf_size |-> 4096]>>

SampleChannels == <<[type |-> "UNMANAGED", size |-> 64],
                    [type |-> "MANAGED", pools |-> SamplePools],
                    [type |-> "MANAGED", pools |-> SamplePools]>>

DefaultCore == [type |-> "DEFAULT", index |-> 0]

Core(type, index) == [type |-> type, index |-> index]

\* An instance with the channels of the samples; the local core is the default.
Shipped(local, remote, size, tx, rx, trusted, remote_core) ==
    [local_shm_addr |-> local, remote_shm_addr |-> remote, shm_size |-> size,
     tx_irq |-> tx, rx_irq |-> rx, local_core |-> DefaultCore,
     trusted |-> trusted, remote_core |-> remote_core,
     channels |-> SampleChannels]

-----------------------------------------------------------------------------
(* sample and sample_user *)

sample_s32g2 ==
    <<Shipped(\h34100, \h34200, 16 * 65536, 2, 1, 0..3, Core("M7", 0))>>

sample_s32g3 ==
    <<Shipped(\h34100, \h34200, 16 * 65536, 2, 1, 0..7, Core("M7", 0))>>

sample_s32r45 ==
    <<Shipped(\h34100, \h34200, 16 * 65536, 2, 1, 0..3, Core("M7", 0))>>

sample_s32r47 ==
    <<Shipped(\h34000, \h34080, 65536, 0, 1, 0..3, Core("M7", 0))>>

sample_user_s32g2 ==
    <<Shipped(\h34100, \h34200, 16 * 65536, 2, 1, 0..3, Core("M7", 0))>>

sample_user_s32g3 ==
    <<Shipped(\h34100, \h34200, 16 * 65536, 2, 1, 0..7, Core("M7", 0))>>

sample_user_s32r45 ==
    <<Shipped(\h34100, \h34200, 16 * 65536, 2, 1, 0..3, Core("M7", 0))>>

sample_user_s32r47 ==
    <<Shipped(\h34000, \h34080, 65536, 0, 1, 0..3, Core("M7", 0))>>

-----------------------------------------------------------------------------
(* sample_multi_instance and sample_multi_instance_user *)

sample_multi_s32g2 ==
    <<Shipped(\h34100, \h34200, 65536, 2, 1, 0..3, Core("M7", 0)),
      Shipped(\h34080, \h340C0, 65536, -1, 0, 0..3, Core("M7", 1)),
      Shipped(\h34090, \h340D0, 65536, -1, -1, 0..3, Core("M7", 2))>>

sample_multi_s32g3 ==
    <<Shipped(\h34080, \h340A0, 65536, 2, 1, 0..7, Core("M7", 0)),
      Shipped(\h340C0, \h340E0, 65536, -1, 0, 0..7, Core("M7", 1)),
      Shipped(\h34110, \h34120, 65536, -1, -1, 0..7, Core("M7", 2))>>

sample_multi_s32r45 ==
    <<Shipped(\h34100, \h34200, 65536, 2, 1, 0..3, Core("M7", 0)),
      Shipped(\h34080, \h340C0, 65536, -1, 0, 0..3, Core("M7", 1)),
      Shipped(\h34090, \h340D0, 65536, -1, -1, 0..3, Core("M7", 2))>>

sample_multi_s32r47 ==
    <<Shipped(\h34000, \h34080, 65536, 0, 1, 0..3, Core("M7", 0)),
      Shipped(\h34010, \h34090, 65536, -1, 2, 0..3, Core("M7", 1)),
      Shipped(\h34020, \h340A0, 65536, -1, -1, 0..3, Core("M7", 2))>>

sample_multi_user_s32g2 ==
    <<Shipped(\h34100, \h34200, 65536, 2, 1, 0..3, Core("M7", 0)),
      Shipped(\h34080, \h340C0, 65536, -1, 0, 0..3, Core("M7", 1)),
      Shipped(\h34090, \h340D0, 65536, -1, -1, 0..3, Core("M7", 2))>>

sample_multi_user_s32g3 ==
    <<Shipped(\h34080, \h340A0, 65536, 2, 1, 0..7, Core("M7", 0)),
      Shipped(\h340C0, \h340E0, 65536, -1, 0, 0..7, Core("M7", 1)),
      Shipped(\h34110, \h34120, 65536, -1, -1, 0..7, Core("M7", 2))>>

sample_multi_user_s32r45 ==
    <<Shipped(\h34100, \h34200, 65536, 2, 1, 0..3, Core("M7", 0)),
      Shipped(\h34080, \h340C0, 65536, -1, 0, 0..3, Core("M7", 1)),
      Shipped(\h34090, \h340D0, 65536, -1, -1, 0..3, Core("M7", 2))>>

sample_multi_user_s32r47 ==
    <<Shipped(\h34000, \h34080, 65536, 0, 1, 0..3, Core("M7", 0)),
      Shipped(\h34010, \h34090, 65536, -1, 2, 0..3, Core("M7", 1)),
      Shipped(\h34020, \h340A0, 65536, -1, -1, 0..3, Core("M7", 2))>>

-----------------------------------------------------------------------------
(* sample_xen: no interrupt; the cores are left at zero, the default. *)

dom0_s32g2 == <<Shipped(\h84500, \h84510, 65536, -1, -1, {}, DefaultCore)>>

dom0_s32g3 == <<Shipped(\h84500, \h84510, 65536, -1, -1, {}, DefaultCore)>>

dom0_s32r45 == <<Shipped(\h84500, \h84510, 65536, -1, -1, {}, DefaultCore)>>

dom0less_s32g2 == <<Shipped(\h84510, \h84500, 65536, -1, -1, {}, DefaultCore)>>

dom0less_s32g3 == <<Shipped(\h84510, \h84500, 65536, -1, -1, {}, DefaultCore)>>

dom0less_s32r45 == <<Shipped(\h84510, \h84500, 65536, -1, -1, {}, DefaultCore)>>
=============================================================================
