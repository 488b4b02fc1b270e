-------------------------- MODULE MCDiagnosticGate --------------------------
(* The instance of DiagnosticGate for TLC: leases shorter and longer than    *)
(* what is left of the one they meet.                                        *)
EXTENDS DiagnosticGate
MCDurations == {1, 2, 4}
=============================================================================
