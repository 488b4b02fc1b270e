--------------------------- MODULE MCRuntimeOwner ---------------------------
(* Instances of RuntimeOwner for TLC. *)
EXTENDS RuntimeOwner, TLC

CONSTANTS p1, p2

ProcSymmetry == Permutations({p1, p2})

=============================================================================
