---------------------------- MODULE MCController ----------------------------
(* Small instances of Controller for TLC. *)
EXTENDS Controller, TLC

\* Requests are interchangeable: only their identity is compared.
RequestSymmetry == Permutations(Requests)

=============================================================================
