------------------------------ MODULE MCRxPath ------------------------------
(* Instances of RxPath for TLC. *)
EXTENDS RxPath

CONSTANT LastChans      \* channels of the last instance; the others have one

MCNumChans == [i \in Instance |-> IF i + 1 = NumInstances THEN LastChans ELSE 1]

\* Each instance has a line of its own; none has one.
OwnLine == [i \in Instance |-> i]
NoLine == [i \in Instance |-> -1]

NoneUnmanaged == {}
LastUnmanaged == {<<NumInstances - 1, LastChans - 1>>}
=============================================================================
