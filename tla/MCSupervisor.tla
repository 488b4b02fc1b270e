---------------------------- MODULE MCSupervisor ----------------------------
(* The instance of ServerService and its Supervisor for TLC: one caller of   *)
(* Stop beside the process's own goroutines (waitLoop, Ready and the context *)
(* watcher, which calls Stop too), under both hosts.                         *)
EXTENDS ServerService
=============================================================================
