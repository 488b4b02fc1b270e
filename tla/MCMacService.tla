---------------------------- MODULE MCMacService -----------------------------
(* A small instance of MacService for TLC. *)
EXTENDS MacService
=============================================================================
