----------------------------- MODULE MCIpcQueue -----------------------------
(* Instances of IpcQueue for TLC. *)
EXTENDS IpcQueue

CONSTANTS e1, e2, e3
=============================================================================
