----------------------------- MODULE HwBackends -----------------------------
(***************************************************************************)
(* What the interrupt back ends make of a configuration: the core numbers, *)
(* the checks of _ipc_hw_init, and the MSCM registers that an interrupt    *)
(* uses (src/hw/s32gen1 for S32G2 and S32R45, src/hw/s32g3xx,              *)
(* src/hw/s32r47).  A mask of cores is the set of its bits.  cpx is what   *)
(* CPXNUM reads: the number of the core that executes the call.            *)
(***************************************************************************)
EXTENDS Integers, Sequences

IPC_IRQ_NONE == -1

\* No such core on this platform.
NoCore == -1

\* The number of core c by the platform's table of types and indexes.
CoreNumber(c, table, default) ==
    CASE c.type = "DEFAULT" -> default
      [] c.type \in DOMAIN table /\ c.index \in 0..(Len(table[c.type]) - 1) ->
             table[c.type][c.index + 1]
      [] OTHER -> NoCore

\* The checks on cores that all platforms make.
CoresValid(local, remote, trusted, a53, cpx) ==
    /\ local # NoCore
    /\ trusted # {} /\ trusted \subseteq a53 /\ local \in trusted
    /\ remote \notin {NoCore, cpx, local}

\* Mutant: a configuration without interrupts is refused.
IrqsDifferAlways(cfg) == cfg.tx_irq # cfg.rx_irq

IrqsDiffer(cfg) ==
    cfg.tx_irq # IPC_IRQ_NONE => cfg.tx_irq # cfg.rx_irq

-----------------------------------------------------------------------------
(* hw/s32gen1 *)

Local_s32gen1(c) == CoreNumber(c, [A53 |-> <<0, 1, 2, 3>>], 0)

Remote_s32gen1(c) ==
    CoreNumber(c, [A53 |-> <<0, 1, 2, 3>>, M7 |-> <<4, 5, 6>>], 4)

\* For each interrupt the index of its MSCM interrupt, and of its routing register.
Msi_s32gen1 == <<0, 1, 2>>

Spi_s32gen1 == <<1, 2, 3>>

Init_s32gen1(cfg, cpx) ==
    /\ CoresValid(Local_s32gen1(cfg.local_core), Remote_s32gen1(cfg.remote_core),
                  cfg.trusted, 0..3, cpx)
    /\ IrqsDiffer(cfg)
    /\ {cfg.tx_irq, cfg.rx_irq} \subseteq {IPC_IRQ_NONE} \cup 0..2

-----------------------------------------------------------------------------
(* hw/s32g3xx: the cores A53_4 to A53_7 come after the M7 cores. *)

A53_s32g3xx == <<0, 1, 2, 3, 8, 9, 10, 11>>

Local_s32g3xx(c) == CoreNumber(c, [A53 |-> A53_s32g3xx], 0)

Remote_s32g3xx(c) ==
    CoreNumber(c, [A53 |-> A53_s32g3xx, M7 |-> <<4, 5, 6, 7>>], 4)

\* The bits of a mask are indexes; bits above 7 are dropped.
Trusted_s32g3xx(mask) == {A53_s32g3xx[b + 1] : b \in mask \cap 0..7}

Msi_s32g3xx == <<0, 1, 2, 5, 6, 7, 8, 9, 10, 11, 12, 13>>

Spi_s32g3xx == <<1, 2, 3, 22, 23, 68, 69, 164, 165, 166, 167, 168>>

Init_s32g3xx(cfg, cpx) ==
    /\ CoresValid(Local_s32g3xx(cfg.local_core), Remote_s32g3xx(cfg.remote_core),
                  Trusted_s32g3xx(cfg.trusted), 0..3 \cup 8..11, cpx)
    /\ IrqsDiffer(cfg)
    /\ {cfg.tx_irq, cfg.rx_irq} \subseteq {IPC_IRQ_NONE} \cup 0..11

-----------------------------------------------------------------------------
(* hw/s32r47: the registers are indexed by the interrupt itself. *)

Local_s32r47(c) == CoreNumber(c, [A53 |-> <<0, 1, 2, 3>>], 0)

Remote_s32r47(c) ==
    CoreNumber(c, [A53 |-> <<0, 1, 2, 3>>, M7 |-> <<4, 5, 6>>,
                   BBE32 |-> <<7, 8>>, KQ8 |-> <<9, 10>>], 4)

\* Interrupts from a DSP core are 0 and 1.
Init_s32r47(cfg, cpx) ==
    LET remote == Remote_s32r47(cfg.remote_core)
    IN  /\ CoresValid(Local_s32r47(cfg.local_core), remote, cfg.trusted, 0..3, cpx)
        /\ IrqsDiffer(cfg)
        /\ {cfg.tx_irq, cfg.rx_irq} \subseteq {IPC_IRQ_NONE} \cup 0..10
        /\ remote \in 7..10 => cfg.rx_irq \in {IPC_IRQ_NONE, 0, 1}

-----------------------------------------------------------------------------
(* The back end of a build.  The Xen driver has stubs. *)

HwAccepts(hw, cfg, cpx) ==
    CASE hw = "s32gen1" -> Init_s32gen1(cfg, cpx)
      [] hw = "s32g3xx" -> Init_s32g3xx(cfg, cpx)
      [] hw = "s32r47" -> Init_s32r47(cfg, cpx)
      [] hw = "xen" -> TRUE

\* The registers IRSPRC[n] that ipc_hw_irq_enable and ipc_hw_irq_disable write:
\* one, or none without Rx interrupt.
Routing(hw, cfg) ==
    LET Of(spi) == {spi[n + 1] : n \in {cfg.rx_irq} \cap 0..(Len(spi) - 1)}
    IN  CASE hw = "s32gen1" -> Of(Spi_s32gen1)
          [] hw = "s32g3xx" -> Of(Spi_s32g3xx)
          [] hw = "s32r47" -> {cfg.rx_irq} \cap 0..10
          [] hw = "xen" -> {}
=============================================================================
