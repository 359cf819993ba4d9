--------------------------- MODULE MCIpcQueueInit ---------------------------
(* Instances of IpcQueueInit for TLC. *)
EXTENDS IpcQueueInit

CONSTANTS b0, b1

\* Buffer descriptors 0 and 1; a channel queue carries the same two.
MCBd(i) == IF i = 0 THEN b0 ELSE b1
=============================================================================
