------------------------ MODULE MCDistributedTaskLock ------------------------
(* Two activations on one host and one on another. *)
EXTENDS DistributedTaskLock

CONSTANTS a1, a2, b1, hostA, hostB

MCExec == {a1, a2, b1}
MCHosts == {hostA, hostB}
MCHostOf == [e \in MCExec |-> IF e = b1 THEN hostB ELSE hostA]

=============================================================================
