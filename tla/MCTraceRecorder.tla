-------------------------- MODULE MCTraceRecorder --------------------------
(* The instances of TraceRecorder for TLC.                                   *)
EXTENDS TraceRecorder
=============================================================================
