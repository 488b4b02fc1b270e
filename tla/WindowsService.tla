--------------------------- MODULE WindowsService ----------------------------
(***************************************************************************)
(* The Windows service (cmd/overseas-agent/main_windows.go) and its named  *)
(* pipe (internal/agent/pipe_windows.go, local_dispatch.go), up to the     *)
(* controller, which is Controller.tla's reduced to what its callers see:  *)
(* a state, one transition at a time, a Disconnect that cancels a Connect. *)
(*                                                                         *)
(* A connection carries one request.  Each caller has at most one request  *)
(* on the server; a caller that stopped waiting leaves it running there.   *)
(***************************************************************************)
EXTENDS Integers, FiniteSets

CONSTANTS
  Callers,      \* callers of the pipe
  MaxFailures  \* bound: failures of any kind in one behaviour

ASSUME MaxFailuresAssumption == MaxFailures \in Nat

VARIABLES
  svc,      \* Execute
  ctl,      \* the controller: its status and its transition
  reqs,     \* the requests the server has accepted
  calls,    \* the requests as their callers see them
  failures  \* failures so far

svcVars == <<svc, ctl, reqs, calls, failures>>

States == {"prepared", "connecting", "connected", "restoring", "failed_safe"}
Errors == {"unavailable", "invalid"}
Idle(state) == [state |-> state, op |-> "none", who |-> "none", cancelled |-> FALSE]

ServiceTypeOK ==
  /\ svc \in {"down", "recover", "running", "stop", "disconnect", "exit"}
  /\ ctl \in [state : States, op : {"none", "connect", "disconnect"},
              who : Callers \cup {"none", "main", "monitor"}, cancelled : BOOLEAN]
  /\ reqs \in [Callers -> {"none", "connect", "disconnect", "status"}]
  /\ calls \in [Callers -> {"none", "connect", "disconnect", "status"} \cup States \cup Errors]
  /\ failures \in 0..MaxFailures

ServiceInit == /\ svc = "down"
               /\ ctl = Idle("prepared")
               /\ reqs = [c \in Callers |-> "none"]
               /\ calls = [c \in Callers |-> "none"]
               /\ failures = 0

Failure == failures < MaxFailures /\ failures' = failures + 1

Waiting(c) == calls[c] \in {"connect", "disconnect", "status"}

\* The process is gone: so is the pipe, and every caller reads an error.
processEnds ==
  /\ svc' = "down"
  /\ ctl' = Idle("prepared")
  /\ reqs' = [c \in Callers |-> "none"]
  /\ calls' = [c \in Callers |-> IF Waiting(c) THEN "unavailable" ELSE calls[c]]

-----------------------------------------------------------------------------
(* Execute *)

\* The service control manager starts the service; its configuration is read.
StartService ==
  /\ svc = "down" /\ svc' = "recover"
  /\ UNCHANGED <<ctl, reqs, calls, failures>>

\* controller.Recover, while StartPending is pumped; then the pipe listens and
\* the preparation starts in the background.
Recover ==
  /\ svc = "recover"
  /\ \/ svc' = "running" /\ ctl' = Idle("prepared") /\ UNCHANGED <<reqs, calls, failures>>
     \/ processEnds /\ Failure

\* svc.Stop or svc.Shutdown: stop closes the listener, and accepted requests
\* are not joined.  Or the pipe stopped by itself.
StopRequested ==
  /\ svc = "running"
  /\ \/ svc' = "stop" /\ UNCHANGED failures
     \/ svc' = "disconnect" /\ Failure
  /\ UNCHANGED <<ctl, reqs, calls>>

\* stopBackgroundPreparation cancels the preparation and waits for it.
StopBackgroundPreparation ==
  /\ svc = "stop" /\ svc' = "disconnect"
  /\ UNCHANGED <<ctl, reqs, calls, failures>>

\* disconnectWithTimeout, whatever its outcome, ends Execute and the process.
ProcessExits == svc = "exit" /\ processEnds /\ UNCHANGED failures

ServiceDies == svc # "down" /\ Failure /\ processEnds

-----------------------------------------------------------------------------
(* clientapi.Client.request and PipeServer.serveConnection *)

\* The caller dials, under its own deadline, and writes its request: refused
\* at once when nobody listens.
requests(c, action) ==
  calls' = [calls EXCEPT ![c] = IF svc = "running" THEN action ELSE "unavailable"]

\* The listener accepts the connection; a goroutine reads and decodes its one
\* frame, or closes it.
Accept(c) ==
  /\ Waiting(c) /\ reqs[c] = "none" /\ svc = "running"
  /\ \/ reqs' = [reqs EXCEPT ![c] = calls[c]] /\ UNCHANGED <<calls, failures>>
     \/ calls' = [calls EXCEPT ![c] = "unavailable"] /\ Failure /\ UNCHANGED reqs
  /\ UNCHANGED <<svc, ctl>>

\* A connection nobody accepts any more is broken when the listener closes.
Refuse(c) ==
  /\ Waiting(c) /\ reqs[c] = "none" /\ svc # "running"
  /\ calls' = [calls EXCEPT ![c] = "unavailable"]
  /\ UNCHANGED <<svc, ctl, reqs, failures>>

\* The response is written: the caller that still waits takes it, if its shape,
\* its identifier, its state and its code are the approved ones.
answers(c, state) ==
  /\ reqs' = [reqs EXCEPT ![c] = "none"]
  /\ \/ calls' = [calls EXCEPT ![c] = IF Waiting(c) THEN state ELSE @] /\ UNCHANGED failures
     \/ Waiting(c) /\ calls' = [calls EXCEPT ![c] = "invalid"] /\ Failure

\* The caller's deadline: the server goes on with the request.
TimesOut(c) ==
  /\ Waiting(c) /\ Failure
  /\ calls' = [calls EXCEPT ![c] = "unavailable"]
  /\ UNCHANGED <<svc, ctl, reqs>>

-----------------------------------------------------------------------------
(* dispatch to the controller *)

StatusAnswers(c) ==
  /\ reqs[c] = "status" /\ answers(c, ctl.state)
  /\ UNCHANGED <<svc, ctl>>

\* Connect answers at once, or takes the transition.
ConnectBegins(c) ==
  /\ reqs[c] = "connect" /\ ctl.op = "none"
  /\ IF ctl.state \in {"connected", "failed_safe"}
       THEN answers(c, ctl.state) /\ UNCHANGED ctl
       ELSE /\ ctl' = [state |-> "connecting", op |-> "connect", who |-> c, cancelled |-> FALSE]
            /\ UNCHANGED <<reqs, calls, failures>>
  /\ UNCHANGED svc

\* The transition ends.  Its caller is answered, and so is every Connect that
\* joined it; other waiters look again.
finishes(state) ==
  LET done == {c \in Callers : c = ctl.who \/ (ctl.op = "connect" /\ reqs[c] = "connect")}
  IN /\ ctl' = Idle(state)
     /\ svc' = IF ctl.who = "main" THEN "exit" ELSE svc
     /\ reqs' = [c \in Callers |-> IF c \in done THEN "none" ELSE reqs[c]]
     /\ calls' = [c \in Callers |-> IF c \in done /\ Waiting(c) THEN state ELSE calls[c]]

ConnectEnds ==
  /\ ctl.op = "connect"
  /\ \/ ~ctl.cancelled /\ finishes("connected") /\ UNCHANGED failures
     \/ ctl.cancelled /\ finishes("prepared") /\ UNCHANGED failures
     \/ finishes("prepared") /\ Failure
     \/ finishes("failed_safe") /\ Failure

\* Disconnect cancels a Connect and waits for it, or takes the transition.
disconnectBegins(who) ==
  IF ctl.op = "none"
    THEN ctl' = [state |-> "restoring", op |-> "disconnect", who |-> who, cancelled |-> FALSE]
    ELSE ctl.op = "connect" /\ ~ctl.cancelled /\ ctl' = [ctl EXCEPT !.cancelled = TRUE]

DisconnectBegins(c) ==
  /\ reqs[c] = "disconnect" /\ ctl.who # c /\ disconnectBegins(c)
  /\ UNCHANGED <<svc, reqs, calls, failures>>

\* The service's own, at its end.
StopDisconnects ==
  /\ svc = "disconnect" /\ ctl.who # "main" /\ disconnectBegins("main")
  /\ UNCHANGED <<svc, reqs, calls, failures>>

\* The runtime monitor ends a connection.
MonitorDisconnects ==
  /\ ctl.state = "connected" /\ ctl.op = "none" /\ Failure /\ disconnectBegins("monitor")
  /\ UNCHANGED <<svc, reqs, calls>>

DisconnectEnds ==
  /\ ctl.op = "disconnect"
  /\ \/ finishes("prepared") /\ UNCHANGED failures
     \/ finishes("failed_safe") /\ Failure

-----------------------------------------------------------------------------

executeStep == Recover \/ StopBackgroundPreparation \/ StopDisconnects \/ ProcessExits
requestStep(c) == Accept(c) \/ Refuse(c) \/ StatusAnswers(c) \/ ConnectBegins(c)
                  \/ DisconnectBegins(c)
controllerStep == ConnectEnds \/ DisconnectEnds

serviceStep == \/ StartService \/ executeStep \/ StopRequested \/ ServiceDies
               \/ \E c \in Callers : requestStep(c) \/ TimesOut(c)
               \/ controllerStep \/ MonitorDisconnects

=============================================================================
