----------------------------- MODULE Controller -----------------------------
(***************************************************************************)
(* internal/agent/controller.go: the connection controller of the Regen    *)
(* Access service.  Goroutines serving requests (Connect, Disconnect,      *)
(* Recover) and, per connected generation, one runtime monitor goroutine   *)
(* share the Controller's fields under one mutex; the exclusive right to   *)
(* change the machine is the `transition' field, and every loop of the     *)
(* code waits on the transition's done channel.  One TLA+ step is one      *)
(* critical section of c.mu or one call of an injected dependency.         *)
(*                                                                         *)
(* The NetworkManager, the ProcessSupervisor and the checks before the     *)
(* first mutation are modelled by the outcomes their Go interfaces allow.  *)
(***************************************************************************)
EXTENDS Naturals, FiniteSets

CONSTANTS
  Requests,             \* goroutines that serve requests
  MaxGen,               \* bound on c.generation
  MonitorStartMayFail   \* may NetworkManager.StartMonitor return an error?

\* A generation number never names a request.
ASSUME RequestsAssumption == Requests \cap Nat = {}
ASSUME MaxGenAssumption == MaxGen \in Nat
ASSUME MonitorStartAssumption == MonitorStartMayFail \in BOOLEAN

Gens   == 1..MaxGen          \* also names the monitor goroutine of a generation
Thread == Requests \cup Gens
Ops    == {"Connect", "Disconnect", "Recover"}

VARIABLES
  \* fields of Controller
  state,           \* status.State
  errorCode,       \* status.ErrorCode, abstracted to its cause
  generation,
  transition,      \* the active transition, or NoTransition
  hasSnapshot,
  processStarted,
  processInstance, \* generation whose core it is, 0 for nil
  monitor,         \* monitorCancel and monitorDone: their generation, 0 for nil
  reconciled,
  diagnostic,      \* is diagnosticStage non-empty?
  lineQuality,
  connectedAt,     \* is connectedAt set?
  \* goroutines
  pc, op,
  gen,             \* generation a request's transition took
  args,            \* arguments of restoreTransaction and the error code of its cause
  awaited,         \* the transition whose done channel a request waits on
  stopping,        \* the monitor handle a goroutine took in stopLifecycleMonitor
  ctxDone,         \* the request's operation context is cancelled or expired
  monitorCanceled, \* generations whose monitor context is cancelled
  monitorClosed,   \* generations whose monitorDone channel is closed
  orphaned,        \* generations whose StartMonitor failed: nobody closes done
  \* the machine
  alive,           \* generations whose core process tree is not empty
  exited,          \* generations whose instance delivered on Done()
  net,             \* product-owned network state
  serving,         \* the service accepted requests after its first Recover
  unproven,        \* the last attempt to restore or reconcile failed
  platform         \* whose NetworkManager this service is built with

controller == <<state, errorCode, generation, transition, hasSnapshot,
                processStarted, processInstance, monitor, reconciled,
                diagnostic, lineQuality, connectedAt>>
goroutines == <<pc, op, gen, args, awaited, stopping, ctxDone,
                monitorCanceled, monitorClosed, orphaned>>
machine    == <<alive, exited, net, serving, unproven, platform>>
vars       == <<controller, goroutines, machine>>

-----------------------------------------------------------------------------
(* Types *)

States == {"disconnected", "prepared", "connecting", "connected",
           "restoring", "failed_safe"}
Codes  == {"none", "attempt", "canceled", "readiness_lost", "automatic_restore"}

\* good, slow and failed are told apart in module LineProbe only.
Qualities == {"unknown", "measured"}

\* What the product has changed on the machine: nothing, a captured snapshot
\* only, or protection, routes or DNS.
NetStates == {"clean", "captured", "altered"}

\* The two implementations of NetworkManager.  Only the macOS one proves that
\* it left nothing before it reports success (module DarwinNetwork); only the
\* Windows one has a Residue method.
Platforms == {"macos", "windows"}

NoTransition == [kind |-> "none", gen |-> 0, owner |-> 0]
Transitions  == [kind : {"connect", "disconnect", "restore"},
                 gen : Gens, owner : Thread] \cup {NoTransition}

NoArgs  == [started |-> FALSE, instance |-> 0, has |-> FALSE,
            code |-> "none"]
ArgsSet == [started : BOOLEAN, instance : 0..MaxGen, has : BOOLEAN,
            code : Codes]

RestorePcs == {"stopmonitor", "waitmonitor", "stopcore", "restore", "residue",
               "restored", "unsafe"}
ConnectPcs == {"begin", "precheck", "prepare", "capture", "protect", "render",
               "start", "ready", "tun", "routes", "connected", "rejected"}
\* The control points at which a goroutine owns the transition.
OwnerPcs   == RestorePcs \cup ConnectPcs \cup {"read"}
RequestPcs == OwnerPcs \cup {"idle", "enter", "join", "wait", "startmonitor"}
MonitorPcs == RestorePcs \cup {"off", "watch", "auto", "closing", "ended"}

FieldsOK ==
  /\ state \in States /\ errorCode \in Codes
  /\ generation \in 0..MaxGen /\ transition \in Transitions
  /\ processInstance \in 0..MaxGen /\ monitor \in 0..MaxGen
  /\ lineQuality \in Qualities
FlagsOK ==
  /\ hasSnapshot \in BOOLEAN /\ processStarted \in BOOLEAN
  /\ reconciled \in BOOLEAN /\ diagnostic \in BOOLEAN
  /\ connectedAt \in BOOLEAN /\ serving \in BOOLEAN /\ unproven \in BOOLEAN
  /\ ctxDone \in [Requests -> BOOLEAN]
PcsOK ==
  /\ pc \in [Thread -> RequestPcs \cup MonitorPcs]
  /\ \A r \in Requests : pc[r] \in RequestPcs
  /\ \A g \in Gens : pc[g] \in MonitorPcs
LocalsOK ==
  /\ op \in [Requests -> Ops] /\ gen \in [Requests -> 0..MaxGen]
  /\ awaited \in [Requests -> Transitions] /\ stopping \in [Thread -> 0..MaxGen]
ArgsOK == args \in [Thread -> ArgsSet]
SetsOK ==
  /\ monitorCanceled \subseteq Gens /\ monitorClosed \subseteq Gens
  /\ orphaned \subseteq Gens /\ alive \subseteq Gens /\ exited \subseteq Gens
  /\ net \in NetStates /\ platform \in Platforms

TypeOK == FieldsOK /\ FlagsOK /\ PcsOK /\ LocalsOK /\ ArgsOK /\ SetsOK

-----------------------------------------------------------------------------
(* NewController: a fresh service process.  The network may still carry    *)
(* what an earlier process left; its core died with it (the job object is  *)
(* killed on close, and the macOS service reaps an owned core first).      *)

NewController ==
  /\ state = "disconnected" /\ errorCode = "none" /\ generation = 0
  /\ transition = NoTransition
  /\ hasSnapshot = FALSE /\ processStarted = FALSE /\ processInstance = 0
  /\ monitor = 0 /\ reconciled = FALSE /\ diagnostic = FALSE
  /\ lineQuality = "unknown" /\ connectedAt = FALSE

Init ==
  /\ NewController
  /\ pc = [t \in Thread |-> IF t \in Requests THEN "idle" ELSE "off"]
  /\ op = [r \in Requests |-> "Recover"] /\ gen = [r \in Requests |-> 0]
  /\ args = [t \in Thread |-> NoArgs]
  /\ awaited = [r \in Requests |-> NoTransition]
  /\ stopping = [t \in Thread |-> 0] /\ ctxDone = [r \in Requests |-> FALSE]
  /\ monitorCanceled = {} /\ monitorClosed = {} /\ orphaned = {}
  /\ alive = {} /\ exited = {}
  /\ net \in NetStates /\ serving = FALSE /\ unproven = FALSE
  /\ platform \in Platforms

\* The service process dies at any moment and is started again.
Crash ==
  /\ state' = "disconnected" /\ errorCode' = "none" /\ generation' = 0
  /\ transition' = NoTransition
  /\ hasSnapshot' = FALSE /\ processStarted' = FALSE /\ processInstance' = 0
  /\ monitor' = 0 /\ reconciled' = FALSE /\ diagnostic' = FALSE
  /\ lineQuality' = "unknown" /\ connectedAt' = FALSE
  /\ pc' = [t \in Thread |-> IF t \in Requests THEN "idle" ELSE "off"]
  /\ op' = [r \in Requests |-> "Recover"] /\ gen' = [r \in Requests |-> 0]
  /\ args' = [t \in Thread |-> NoArgs]
  /\ awaited' = [r \in Requests |-> NoTransition]
  /\ stopping' = [t \in Thread |-> 0] /\ ctxDone' = [r \in Requests |-> FALSE]
  /\ monitorCanceled' = {} /\ monitorClosed' = {} /\ orphaned' = {}
  /\ alive' = {} /\ exited' = {}
  /\ serving' = FALSE /\ unproven' = FALSE /\ UNCHANGED <<net, platform>>

-----------------------------------------------------------------------------
(* Requests *)

Idle == transition = NoTransition
Goto(t, to) == pc' = [pc EXCEPT ![t] = to]

\* The locals of a request end with it.
Forget(r) ==
  /\ op' = [op EXCEPT ![r] = "Recover"] /\ gen' = [gen EXCEPT ![r] = 0]
  /\ args' = [args EXCEPT ![r] = NoArgs]
  /\ awaited' = [awaited EXCEPT ![r] = NoTransition]
  /\ ctxDone' = [ctxDone EXCEPT ![r] = FALSE]
KeepMonitors == UNCHANGED <<stopping, monitorCanceled, monitorClosed, orphaned>>
Answer(r) == Goto(r, "idle") /\ Forget(r) /\ KeepMonitors

\* A request arrives.  The first one is the service's own Recover, alone.
\* At most MaxGen generations are used up.
Request(r, o) ==
  /\ pc[r] = "idle"
  /\ serving \/ (o = "Recover" /\ state = "disconnected"
                 /\ \A q \in Requests : pc[q] = "idle")
  /\ generation + Cardinality({q \in Requests : pc[q] \notin {"idle", "startmonitor"}}) < MaxGen
  /\ Goto(r, "enter")
  /\ op' = [op EXCEPT ![r] = o]
  /\ UNCHANGED <<controller, gen, args, awaited, ctxDone, machine>>
  /\ KeepMonitors

\* The request's deadline passes or its caller goes away.
Expire(r) ==
  /\ pc[r] \notin {"idle", "startmonitor"} /\ ~ctxDone[r]
  /\ ctxDone' = [ctxDone EXCEPT ![r] = TRUE]
  /\ UNCHANGED <<controller, pc, op, gen, args, awaited, machine>>
  /\ KeepMonitors

\* Connect on a connected or failed_safe machine answers the status as it is.
ConnectReturns(r) ==
  /\ pc[r] = "enter" /\ op[r] = "Connect" /\ Idle
  /\ state \in {"connected", "failed_safe"}
  /\ Answer(r) /\ UNCHANGED <<controller, machine>>

\* A second Connect joins the first; behind any other transition it waits.
ConnectWaits(r) ==
  /\ pc[r] = "enter" /\ op[r] = "Connect" /\ ~Idle
  /\ Goto(r, IF transition.kind = "connect" THEN "join" ELSE "wait")
  /\ awaited' = [awaited EXCEPT ![r] = transition]
  /\ UNCHANGED <<controller, op, gen, args, ctxDone, machine>>
  /\ KeepMonitors

\* Connect takes the transition under a new generation.
beginConnect(r) ==
  /\ generation' = generation + 1
  /\ transition' = [kind |-> "connect", gen |-> generation + 1, owner |-> r]
  /\ state' = "connecting" /\ errorCode' = "none"
  /\ lineQuality' = "unknown" /\ connectedAt' = FALSE /\ diagnostic' = FALSE
  /\ gen' = [gen EXCEPT ![r] = generation + 1]
  /\ Goto(r, "begin")
  /\ UNCHANGED <<hasSnapshot, processStarted, processInstance, monitor,
                 reconciled, op, args, awaited, ctxDone, machine>>
  /\ KeepMonitors

ConnectTakes(r) ==
  /\ pc[r] = "enter" /\ op[r] = "Connect" /\ Idle /\ generation < MaxGen
  /\ state \notin {"connected", "failed_safe"}
  /\ beginConnect(r)

\* Disconnect and Recover cancel a running Connect and wait for any transition.
DisconnectWaits(r) ==
  /\ pc[r] = "enter" /\ op[r] # "Connect" /\ ~Idle
  /\ Goto(r, "wait")
  /\ awaited' = [awaited EXCEPT ![r] = transition]
  /\ ctxDone' = IF transition.kind = "connect"
                THEN [ctxDone EXCEPT ![transition.owner] = TRUE]
                ELSE ctxDone
  /\ UNCHANGED <<controller, op, gen, args, machine>>
  /\ KeepMonitors

RecoverReturns(r) ==
  /\ pc[r] = "enter" /\ op[r] = "Recover" /\ Idle
  /\ reconciled /\ ~hasSnapshot /\ ~processStarted
  /\ Answer(r) /\ UNCHANGED <<controller, machine>>

\* Disconnect and Recover take the transition under a new generation.
beginDisconnect(r) ==
  /\ generation' = generation + 1
  /\ transition' = [kind |-> "disconnect", gen |-> generation + 1, owner |-> r]
  /\ state' = "restoring" /\ errorCode' = "none"
  /\ lineQuality' = "unknown" /\ connectedAt' = FALSE
  /\ gen' = [gen EXCEPT ![r] = generation + 1]
  /\ Goto(r, "read")
  /\ UNCHANGED <<hasSnapshot, processStarted, processInstance, monitor,
                 reconciled, diagnostic, op, args, awaited, ctxDone, machine>>
  /\ KeepMonitors

DisconnectBargesIn(r) ==
  pc[r] = "enter" /\ op[r] # "Connect" /\ generation < MaxGen /\ beginDisconnect(r)

DisconnectTakes(r) ==
  /\ pc[r] = "enter" /\ op[r] # "Connect" /\ Idle /\ generation < MaxGen
  /\ ~(op[r] = "Recover" /\ reconciled /\ ~hasSnapshot /\ ~processStarted)
  /\ beginDisconnect(r)

\* waitContext returns because the awaited transition closed its done channel.
\* A joined Connect answers the status of that moment; the others try again.
JoinedConnectReturns(r) ==
  /\ pc[r] = "join" /\ transition # awaited[r]
  /\ Answer(r) /\ UNCHANGED <<controller, machine>>

TryAgain(r) ==
  /\ pc[r] = "wait" /\ transition # awaited[r]
  /\ Goto(r, "enter")
  /\ awaited' = [awaited EXCEPT ![r] = NoTransition]
  /\ UNCHANGED <<controller, op, gen, args, ctxDone, machine>>
  /\ KeepMonitors

\* waitContext returns because the request's context ended: canceledStatus.
GiveUp(r) ==
  /\ pc[r] \in {"join", "wait"} /\ ctxDone[r]
  /\ Answer(r) /\ UNCHANGED <<controller, machine>>

-----------------------------------------------------------------------------
(* runConnect *)

\* Leave runConnect through restoreAfterFailure with these arguments.
FailWith(r, started, instance, has, code) ==
  /\ Goto(r, "stopmonitor")
  /\ args' = [args EXCEPT ![r] = [started |-> started, instance |-> instance,
                                  has |-> has, code |-> code]]
  /\ diagnostic' = TRUE

codeForContext(r) == IF ctxDone[r] THEN "canceled" ELSE "attempt"

KeepController == UNCHANGED <<state, errorCode, generation, transition,
                              processStarted, processInstance, monitor,
                              reconciled, lineQuality, connectedAt>>
KeepGoroutines == UNCHANGED <<op, gen, awaited, ctxDone>> /\ KeepMonitors

\* preChecks: the machine was not touched, nothing is restored.
Reject(r, code) ==
  /\ Goto(r, "rejected")
  /\ args' = [args EXCEPT ![r] = [started |-> FALSE, instance |-> 0,
                                  has |-> FALSE, code |-> code]]
  /\ diagnostic' = TRUE

\* The first statement of runConnect looks at the context.
runConnectBegin(r) ==
  /\ pc[r] = "begin"
  /\ IF ctxDone[r]
     THEN Reject(r, "canceled")
     ELSE Goto(r, "precheck") /\ UNCHANGED <<args, diagnostic>>
  /\ KeepController /\ KeepGoroutines /\ UNCHANGED <<hasSnapshot, machine>>

\* A core that may still run sends the request to restoration; otherwise the
\* policy, the core binary and the credential are checked.
runConnectPrecheck(r) ==
  /\ pc[r] = "precheck"
  /\ IF processStarted
     THEN FailWith(r, TRUE, processInstance, FALSE, "attempt")
     ELSE \/ Goto(r, "prepare") /\ UNCHANGED <<args, diagnostic>>
          \/ Reject(r, "attempt")
  /\ KeepController /\ KeepGoroutines /\ UNCHANGED <<hasSnapshot, machine>>

Prepare(r) ==
  /\ pc[r] = "prepare"
  /\ \/ Goto(r, "capture") /\ UNCHANGED <<args, diagnostic>>
     \/ FailWith(r, FALSE, 0, FALSE, codeForContext(r))
  /\ KeepController /\ KeepGoroutines /\ UNCHANGED <<hasSnapshot, machine>>

\* Capture persists the snapshot before it returns it, so its failure can
\* leave the persisted copy behind.  It undoes nothing.
Capture(r) ==
  /\ pc[r] = "capture"
  /\ \/ /\ Goto(r, "protect") /\ hasSnapshot' = TRUE
        /\ net' = IF net = "altered" THEN net ELSE "captured"
        /\ UNCHANGED <<args, diagnostic>>
     \/ /\ FailWith(r, FALSE, 0, FALSE, codeForContext(r))
        /\ net' \in {net} \cup (IF net = "altered" THEN {} ELSE {"captured"})
        /\ UNCHANGED hasSnapshot
  /\ KeepController /\ KeepGoroutines
  /\ UNCHANGED <<alive, exited, serving, unproven, platform>>

EnableProtection(r) ==
  /\ pc[r] = "protect"
  /\ \/ Goto(r, "render") /\ UNCHANGED <<args, diagnostic>>
     \/ FailWith(r, FALSE, 0, TRUE, codeForContext(r))
  /\ net' \in {net, "altered"}
  /\ KeepController /\ KeepGoroutines
  /\ UNCHANGED <<hasSnapshot, alive, exited, serving, unproven, platform>>

RenderConfig(r) ==
  /\ pc[r] = "render"
  /\ \/ Goto(r, "start") /\ UNCHANGED <<args, diagnostic>>
     \/ FailWith(r, FALSE, 0, TRUE, "attempt")
  /\ KeepController /\ KeepGoroutines /\ UNCHANGED <<hasSnapshot, machine>>

StartCoreAssumesNone(r) ==
  /\ pc[r] = "start"
  /\ \/ Goto(r, "ready") /\ UNCHANGED <<args, diagnostic>>
     \/ FailWith(r, FALSE, 0, TRUE, codeForContext(r))
  /\ alive' = alive \cup {gen[r]}
  /\ KeepController /\ KeepGoroutines
  /\ UNCHANGED <<hasSnapshot, exited, net, serving, unproven, platform>>

\* ProcessSupervisor.Start: a running core, a failure that is proven to have
\* left none, or a failed start whose process tree may still exist.
StartCore(r) ==
  /\ pc[r] = "start"
  /\ \/ /\ Goto(r, "ready") /\ alive' = alive \cup {gen[r]}
        /\ UNCHANGED <<args, diagnostic>>
     \/ /\ FailWith(r, FALSE, 0, TRUE, codeForContext(r))
        /\ UNCHANGED alive
     \/ /\ FailWith(r, TRUE, gen[r], TRUE, codeForContext(r))
        /\ alive' = alive \cup {gen[r]}
  /\ KeepController /\ KeepGoroutines
  /\ UNCHANGED <<hasSnapshot, exited, net, serving, unproven, platform>>

Ready(r) ==
  /\ pc[r] = "ready"
  /\ \/ Goto(r, "tun") /\ UNCHANGED <<args, diagnostic>>
     \/ FailWith(r, TRUE, gen[r], TRUE, codeForContext(r))
  /\ KeepController /\ KeepGoroutines /\ UNCHANGED <<hasSnapshot, machine>>

WaitTUNReady(r) ==
  /\ pc[r] = "tun"
  /\ \/ Goto(r, "routes") /\ UNCHANGED <<args, diagnostic>>
     \/ FailWith(r, TRUE, gen[r], TRUE, codeForContext(r))
  /\ KeepController /\ KeepGoroutines /\ UNCHANGED <<hasSnapshot, machine>>

\* Routes and DNS may be half switched when ActivateTUNRoutes fails.
ActivateTUNRoutes(r) ==
  /\ pc[r] = "routes"
  /\ \/ /\ Goto(r, "connected") /\ net' = "altered"
        /\ UNCHANGED <<args, diagnostic>>
     \/ /\ FailWith(r, TRUE, gen[r], TRUE, codeForContext(r))
        /\ net' \in {net, "altered"}
  /\ KeepController /\ KeepGoroutines
  /\ UNCHANGED <<hasSnapshot, alive, exited, serving, unproven, platform>>

-----------------------------------------------------------------------------
(* restoreTransaction, run by whichever goroutine owns the transition *)

\* stopLifecycleMonitor: take the monitor handle, cancel it, wait for it.
stopLifecycleMonitor(t) ==
  /\ pc[t] = "stopmonitor"
  /\ monitor' = 0
  /\ IF monitor = 0
     THEN Goto(t, "stopcore") /\ UNCHANGED <<stopping, monitorCanceled>>
     ELSE /\ monitorCanceled' = monitorCanceled \cup {monitor}
          /\ stopping' = [stopping EXCEPT ![t] = monitor]
          /\ Goto(t, "waitmonitor")
  /\ UNCHANGED <<state, errorCode, generation, transition, hasSnapshot,
                 processStarted, processInstance, reconciled, diagnostic,
                 lineQuality, connectedAt, op, gen, args, awaited, ctxDone,
                 monitorClosed, orphaned, machine>>

waitMonitorDone(t) ==
  /\ pc[t] = "waitmonitor" /\ stopping[t] \in monitorClosed
  /\ Goto(t, "stopcore")
  /\ stopping' = [stopping EXCEPT ![t] = 0]
  /\ UNCHANGED <<controller, op, gen, args, awaited, ctxDone, monitorCanceled,
                 monitorClosed, orphaned, machine>>

stopWithoutProof(t) ==
  /\ pc[t] = "stopcore"
  /\ Goto(t, "restore")
  /\ IF args[t].started /\ args[t].instance # 0
     THEN /\ alive' \in {alive, alive \ {args[t].instance}}
          /\ exited' = exited \cup {args[t].instance}
     ELSE UNCHANGED <<alive, exited>>
  /\ UNCHANGED <<controller, args, net, serving, unproven, platform>>
  /\ KeepGoroutines

\* stopInstance: the network is left alone unless the whole process tree is
\* proven gone.
stopInstance(t) ==
  /\ pc[t] = "stopcore"
  /\ IF args[t].started /\ args[t].instance # 0
     THEN \/ /\ Goto(t, "restore")
             /\ alive' = alive \ {args[t].instance}
             /\ exited' = exited \cup {args[t].instance}
             /\ UNCHANGED diagnostic
          \/ /\ Goto(t, "unsafe") /\ diagnostic' = TRUE
             /\ UNCHANGED <<alive, exited>>
     ELSE Goto(t, "restore") /\ UNCHANGED <<alive, exited, diagnostic>>
  /\ UNCHANGED <<state, errorCode, generation, transition, hasSnapshot,
                 processStarted, processInstance, monitor, reconciled,
                 lineQuality, connectedAt, args, net, serving, unproven, platform>>
  /\ KeepGoroutines

\* Mutant: the error of Restore or Reconcile is not looked at.
restoreErrorIgnored(t) ==
  /\ pc[t] = "restore" /\ Goto(t, "residue")
  /\ net' \in {net, "clean"}
  /\ UNCHANGED <<controller, args, alive, exited, serving, unproven, platform>>
  /\ KeepGoroutines

\* NetworkManager.Restore with a snapshot, Reconcile without one.  A failure may
\* come after the last change was undone.  The macOS manager reports success
\* only over a machine it left clean; the Windows one also when it had nothing
\* to go by or left resolvers behind.
restoreNetwork(t) ==
  /\ pc[t] = "restore"
  /\ \/ /\ Goto(t, "residue") /\ UNCHANGED <<diagnostic, unproven>>
        /\ net' \in {"clean"} \cup (IF platform = "macos" THEN {} ELSE {net})
     \/ /\ Goto(t, "unsafe") /\ diagnostic' = TRUE /\ unproven' = TRUE
        /\ net' \in {net, "clean"}
  /\ UNCHANGED <<state, errorCode, generation, transition, hasSnapshot,
                 processStarted, processInstance, monitor, reconciled,
                 lineQuality, connectedAt, args, alive, exited, serving, platform>>
  /\ KeepGoroutines

\* The check after a successful restoration, only if the manager has one: the
\* macOS manager has none, and the Windows one looks for the TUN and for
\* nothing else, so that its answer says nothing about net.
verifyResidue(t) ==
  /\ pc[t] = "residue"
  /\ \/ Goto(t, "restored") /\ unproven' = FALSE /\ UNCHANGED diagnostic
     \/ /\ platform = "windows"
        /\ Goto(t, "unsafe") /\ diagnostic' = TRUE /\ unproven' = TRUE
  /\ UNCHANGED <<state, errorCode, generation, transition, hasSnapshot,
                 processStarted, processInstance, monitor, reconciled,
                 lineQuality, connectedAt, args, alive, exited, net, serving,
                 platform>>
  /\ KeepGoroutines

-----------------------------------------------------------------------------
(* Ends of the transitions *)

\* Connect's last critical section: publish the outcome, hand the monitor
\* handle to the controller, release the transition.
finishConnect(r) ==
  /\ op[r] = "Connect" /\ pc[r] \in {"connected", "rejected", "restored", "unsafe"}
  /\ transition' = NoTransition
  /\ IF generation = gen[r]
     THEN LET up == pc[r] = "connected"
              unsafe == pc[r] = "unsafe" IN
          /\ state' = IF up THEN "connected"
                      ELSE IF unsafe THEN "failed_safe" ELSE "prepared"
          /\ errorCode' = IF up THEN "none"
                          ELSE IF unsafe THEN "automatic_restore" ELSE args[r].code
          /\ connectedAt' = (up \/ connectedAt)
          /\ processStarted' = (up \/ (unsafe /\ args[r].started /\ args[r].instance # 0))
          /\ processInstance' = IF up THEN gen[r] ELSE IF unsafe THEN args[r].instance ELSE 0
          /\ hasSnapshot' = (up \/ (unsafe /\ args[r].has))
          /\ reconciled' = (reconciled \/ pc[r] = "restored")
          /\ monitor' = IF up THEN gen[r] ELSE monitor
          /\ IF up THEN Goto(r, "startmonitor") /\ KeepGoroutines /\ UNCHANGED args
             ELSE Answer(r)
     ELSE /\ Answer(r)
          /\ UNCHANGED <<state, errorCode, connectedAt, processStarted,
                         processInstance, hasSnapshot, reconciled, monitor>>
  /\ UNCHANGED <<generation, diagnostic, lineQuality, machine>>

monitorStartIgnored(r) ==
  /\ pc[r] = "startmonitor"
  /\ \/ pc' = [pc EXCEPT ![r] = "idle", ![gen[r]] = "watch"] /\ UNCHANGED diagnostic
     \/ Goto(r, "idle") /\ diagnostic' = TRUE
  /\ UNCHANGED <<state, errorCode, generation, transition, hasSnapshot,
                 processStarted, processInstance, monitor, reconciled,
                 lineQuality, connectedAt, machine>>
  /\ Forget(r) /\ KeepMonitors

\* startRuntimeMonitor, after the mutex and the transition are released.
\* If StartMonitor fails, a goroutine is left to run automaticRestore and
\* nobody will close monitorDone.
startRuntimeMonitor(r) ==
  /\ pc[r] = "startmonitor"
  /\ \/ /\ pc' = [pc EXCEPT ![r] = "idle", ![gen[r]] = "watch"]
        /\ UNCHANGED <<orphaned, diagnostic>>
     \/ /\ MonitorStartMayFail
        /\ pc' = [pc EXCEPT ![r] = "idle", ![gen[r]] = "auto"]
        /\ orphaned' = orphaned \cup {gen[r]} /\ diagnostic' = TRUE
  /\ UNCHANGED <<state, errorCode, generation, transition, hasSnapshot,
                 processStarted, processInstance, monitor, reconciled,
                 lineQuality, connectedAt, stopping, monitorCanceled,
                 monitorClosed, machine>>
  /\ Forget(r)

\* runDisconnect: nothing to do on a reconciled machine that owns nothing.
runDisconnect(r) ==
  /\ pc[r] = "read"
  /\ IF ~hasSnapshot /\ ~processStarted /\ reconciled
     THEN Goto(r, "restored") /\ UNCHANGED args
     ELSE /\ Goto(r, "stopmonitor")
          /\ args' = [args EXCEPT ![r] =
                [started |-> processStarted, instance |-> processInstance,
                 has |-> hasSnapshot, code |-> "none"]]
  /\ KeepController /\ KeepGoroutines
  /\ UNCHANGED <<hasSnapshot, diagnostic, machine>>

\* Disconnect's last critical section.  The service starts to serve requests
\* when its first Recover answers prepared.
finishDisconnect(r) ==
  /\ op[r] # "Connect" /\ pc[r] \in {"restored", "unsafe"}
  /\ transition' = NoTransition
  /\ Answer(r)
  /\ IF generation = gen[r]
     THEN IF pc[r] = "restored"
          THEN /\ state' = "prepared" /\ errorCode' = "none"
               /\ hasSnapshot' = FALSE /\ processStarted' = FALSE
               /\ processInstance' = 0 /\ reconciled' = TRUE /\ diagnostic' = FALSE
          ELSE /\ state' = "failed_safe" /\ errorCode' = "automatic_restore"
               /\ UNCHANGED <<hasSnapshot, processStarted, processInstance,
                              reconciled, diagnostic>>
     ELSE UNCHANGED <<state, errorCode, hasSnapshot, processStarted,
                      processInstance, reconciled, diagnostic>>
  /\ serving' = (serving \/ pc[r] = "restored")
  /\ UNCHANGED <<generation, monitor, lineQuality, connectedAt,
                 alive, exited, net, unproven, platform>>

-----------------------------------------------------------------------------
(* The runtime monitor of a generation *)

exitIgnored(g) ==
  /\ pc[g] = "watch" /\ g \in exited
  /\ Goto(g, "closing")
  /\ UNCHANGED <<controller, args, machine>> /\ KeepGoroutines

\* monitorLifecycle: the core's Done channel delivers.
monitorSeesExit(g) ==
  /\ pc[g] = "watch" /\ g \in exited
  /\ Goto(g, "auto")
  /\ UNCHANGED <<controller, args, machine>> /\ KeepGoroutines

\* The network monitor reports drift, or closes its channel after its context
\* ended and wins the select against ctx.Done().
monitorSeesFailure(g) ==
  /\ pc[g] = "watch"
  /\ Goto(g, "auto")
  /\ UNCHANGED <<controller, args, machine>> /\ KeepGoroutines

monitorSeesCancel(g) ==
  /\ pc[g] = "watch" /\ g \in monitorCanceled
  /\ Goto(g, "closing")
  /\ UNCHANGED <<controller, args, machine>> /\ KeepGoroutines

\* automaticRestore of a generation that is no longer the connected one is
\* dropped.
automaticRestoreStale(g) ==
  /\ pc[g] = "auto"
  /\ generation # g \/ state # "connected" \/ ~Idle
  /\ Goto(g, "closing")
  /\ UNCHANGED <<controller, args, machine>> /\ KeepGoroutines

automaticRestoreTakes(g) ==
  /\ pc[g] = "auto" /\ generation = g /\ state = "connected" /\ Idle
  /\ transition' = [kind |-> "restore", gen |-> g, owner |-> g]
  /\ state' = "restoring" /\ errorCode' = "none"
  /\ lineQuality' = "unknown" /\ connectedAt' = FALSE /\ diagnostic' = TRUE
  /\ monitorCanceled' = monitorCanceled \cup ({monitor} \ {0})
  /\ monitor' = 0
  /\ args' = [args EXCEPT ![g] =
        [started |-> processStarted, instance |-> processInstance,
         has |-> hasSnapshot, code |-> "readiness_lost"]]
  /\ Goto(g, "stopmonitor")
  /\ UNCHANGED <<generation, hasSnapshot, processStarted, processInstance,
                 reconciled, op, gen, awaited, stopping, ctxDone,
                 monitorClosed, orphaned, machine>>

finishAutomaticRestore(g) ==
  /\ pc[g] \in {"restored", "unsafe"}
  /\ transition' = NoTransition
  /\ Goto(g, "closing")
  /\ args' = [args EXCEPT ![g] = NoArgs]
  /\ IF generation = g
     THEN IF pc[g] = "restored"
          THEN /\ state' = "prepared" /\ errorCode' = args[g].code
               /\ hasSnapshot' = FALSE /\ processStarted' = FALSE
               /\ processInstance' = 0 /\ reconciled' = TRUE
          ELSE /\ state' = "failed_safe" /\ errorCode' = "automatic_restore"
               /\ UNCHANGED <<hasSnapshot, processStarted, processInstance, reconciled>>
     ELSE UNCHANGED <<state, errorCode, hasSnapshot, processStarted,
                      processInstance, reconciled>>
  /\ UNCHANGED <<generation, monitor, diagnostic, lineQuality, connectedAt,
                 machine>>
  /\ KeepGoroutines

returnWithoutClose(g) ==
  /\ pc[g] = "closing"
  /\ Goto(g, "ended")
  /\ UNCHANGED <<controller, args, machine>> /\ KeepGoroutines

\* The deferred close(done) of monitorLifecycle; the goroutine spawned for a
\* failed StartMonitor closes nothing.
monitorReturns(g) ==
  /\ pc[g] = "closing"
  /\ Goto(g, "ended")
  /\ monitorClosed' = IF g \in orphaned THEN monitorClosed ELSE monitorClosed \cup {g}
  /\ UNCHANGED <<controller, op, gen, args, awaited, stopping, ctxDone,
                 monitorCanceled, orphaned, machine>>

-----------------------------------------------------------------------------
(* Environment *)

\* The core's root process exits and Done delivers; descendants may survive.
CoreExits(g) ==
  /\ g \in alive /\ g \notin exited
  /\ exited' = exited \cup {g}
  /\ alive' \in {alive, alive \ {g}}
  /\ UNCHANGED <<controller, goroutines, net, serving, unproven, platform>>

\* A probe result for generation g; any other generation is refused.
UpdateLineQuality(g, quality) ==
  /\ generation = g /\ state = "connected"
  /\ lineQuality' = quality
  /\ UNCHANGED <<state, errorCode, generation, transition, hasSnapshot,
                 processStarted, processInstance, monitor, reconciled,
                 diagnostic, connectedAt, goroutines, machine>>

-----------------------------------------------------------------------------

restoreStep(t) ==
  \/ stopLifecycleMonitor(t) \/ waitMonitorDone(t) \/ stopInstance(t)
  \/ restoreNetwork(t) \/ verifyResidue(t)

requestStep(r) ==
  \/ ConnectReturns(r) \/ ConnectWaits(r) \/ ConnectTakes(r)
  \/ DisconnectWaits(r) \/ RecoverReturns(r) \/ DisconnectTakes(r)
  \/ JoinedConnectReturns(r) \/ TryAgain(r) \/ GiveUp(r)
  \/ runConnectBegin(r) \/ runConnectPrecheck(r) \/ Prepare(r) \/ Capture(r)
  \/ EnableProtection(r) \/ RenderConfig(r) \/ StartCore(r) \/ Ready(r)
  \/ WaitTUNReady(r) \/ ActivateTUNRoutes(r)
  \/ finishConnect(r) \/ startRuntimeMonitor(r)
  \/ runDisconnect(r) \/ finishDisconnect(r)
  \/ restoreStep(r)

monitorStep(g) ==
  \/ monitorSeesExit(g) \/ monitorSeesCancel(g)
  \/ automaticRestoreStale(g) \/ automaticRestoreTakes(g)
  \/ finishAutomaticRestore(g) \/ monitorReturns(g)
  \/ restoreStep(g)

Next ==
  \/ \E r \in Requests : requestStep(r)
  \/ \E g \in Gens : monitorStep(g)
  \/ \E r \in Requests, o \in Ops : Request(r, o)
  \/ \E r \in Requests : Expire(r)
  \/ \E g \in Gens : monitorSeesFailure(g)
  \/ \E g \in Gens : CoreExits(g)
  \/ \E g \in Gens, q \in Qualities : UpdateLineQuality(g, q)
  \/ Crash

Spec == Init /\ [][Next]_vars

\* Every goroutine runs: the dependencies return (each call is bounded by a
\* deadline of its own) and the Go scheduler is fair.  Requests, timeouts,
\* core exits, drift and crashes are never forced to happen.
Fairness == /\ \A r \in Requests : WF_vars(requestStep(r))
            /\ \A g \in Gens : WF_vars(monitorStep(g))

FairSpec == Spec /\ Fairness

-----------------------------------------------------------------------------
(* Properties *)

\* restoreTransaction, automaticRestore and both commits: a machine reported
\* prepared (or not yet connected in this process) and with no transition has
\* no core, no owned snapshot or process and no monitor handle.  Where Restore
\* and Reconcile prove what they report, on macOS, a prepared one carries no
\* product protection, routes or DNS either; on Windows resolvers can remain.
ReleasedOwnsNothing ==
  Idle /\ state \in {"disconnected", "prepared"} =>
    /\ alive = {} /\ ~processStarted /\ ~hasSnapshot /\ monitor = 0
    /\ state = "prepared" /\ platform = "macos" => net # "altered"

\* Connect's commit and startRuntimeMonitor: while connected, the controller
\* owns this generation's core and a snapshot to restore, and a goroutine
\* watches the generation, is about to, or has already decided to restore it.
ConnectedIsGuarded ==
  Idle /\ state = "connected" =>
    /\ processStarted /\ processInstance = generation /\ hasSnapshot
    /\ net = "altered" /\ monitor = generation
    /\ \/ pc[generation] \in {"watch", "auto"}
       \/ \E r \in Requests : pc[r] = "startmonitor" /\ gen[r] = generation

\* process.Start is reached only when no earlier core can run, and no core
\* survives outside a transition unless the controller can still stop it.
CoreIsOwned ==
  /\ \A g, h \in alive : g = h
  /\ Idle => \A g \in alive : processStarted /\ processInstance = g

\* The transition slot: at most one goroutine changes the machine at a time,
\* and exactly while the slot is taken under the current generation.
OneOwner ==
  /\ \A t, u \in Thread : pc[t] \in OwnerPcs /\ pc[u] \in OwnerPcs => t = u
  /\ \A t \in Thread : pc[t] \in OwnerPcs =>
        transition.owner = t /\ transition.gen = generation
  /\ Idle \/ \E t \in Thread : pc[t] \in OwnerPcs

\* The guard of restoreTransaction: product network state is taken back only
\* when no core process is left.
RestoredOnlyWithoutCore == [][net # "clean" /\ net' = "clean" => alive = {}]_vars

\* Connect and Disconnect answer: no request waits for ever on a transition
\* or on a monitor ("普通网络立即恢复", README.md).
RequestsReturn == \A r \in Requests : pc[r] # "idle" ~> pc[r] = "idle"

\* monitorLifecycle: a connected generation whose core exited does not stay
\* connected.
LostCoreIsNoticed ==
  \A g \in Gens : (g \in exited /\ state = "connected" /\ generation = g)
                   ~> ~(state = "connected" /\ generation = g)

\* restoreAfterFailure and Recover promise that prepared follows a proven
\* restoration and that a failed reconciliation is retried: no machine is
\* reported prepared when the last attempt to restore it failed.
PreparedIsProven == Idle /\ state = "prepared" => ~unproven

\* The life cycle of one machine that clients rely on.
Lifecycle == INSTANCE AccessLifecycle
  WITH phase <- state, core <- (alive # {}), altered <- (net = "altered"),
       exact <- (platform = "macos")

\* Every step of the goroutines is a step of the life cycle or invisible in it.
ImplementsLifecycle == Lifecycle!Spec

=============================================================================
