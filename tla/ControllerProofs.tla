-------------------------- MODULE ControllerProofs --------------------------
(***************************************************************************)
(* Theorems about Controller, for any set of requests and any MaxGen.      *)
(*                                                                         *)
(* The safety invariants are not inductive by themselves: what a finished  *)
(* transition leaves behind depends on what its owner knew at every        *)
(* control point.  IInv adds that knowledge: Slot says who owns the        *)
(* transition, Phase relates the owner's control point to the published    *)
(* state, Connecting and Restoring say what may exist on the machine at    *)
(* each control point of the two procedures, and AtRest what may exist     *)
(* between transitions.  On top of it, Uncanceled says whose monitor may   *)
(* be cancelled, from which a connected machine stays watched, and the     *)
(* refinement of AccessLifecycle goes through step by step.                *)
(***************************************************************************)
EXTENDS Controller, TLAPS

\* A request that owns, or has just released, a transition knows its generation.
GenOK == \A r \in Requests :
           pc[r] \in OwnerPcs \cup {"startmonitor"} => gen[r] \in Gens

Slot ==
  /\ \A t \in Thread : pc[t] \in OwnerPcs =>
       transition.owner = t /\ transition.gen = generation
  /\ transition # NoTransition => pc[transition.owner] \in OwnerPcs
  /\ \A r \in Requests : pc[r] \in OwnerPcs => gen[r] = generation
  /\ \A g \in Gens : pc[g] \in RestorePcs => generation = g

\* The monitor of a generation has not started before its Connect is over.
Fresh ==
  /\ \A g \in Gens : g > generation => pc[g] = "off"
  /\ \A r \in Requests : pc[r] \in OwnerPcs \cup {"startmonitor"} =>
       gen[r] <= generation /\ pc[gen[r]] = "off"
  /\ \A r, q \in Requests :
       pc[r] = "startmonitor" /\ pc[q] \in OwnerPcs \cup {"startmonitor"} /\ r # q
         => gen[r] # gen[q]

Phase ==
  /\ \A r \in Requests :
       /\ pc[r] \in ConnectPcs => op[r] = "Connect"
       /\ pc[r] = "read" => op[r] # "Connect"
       /\ pc[r] \in OwnerPcs => state = IF op[r] = "Connect" THEN "connecting" ELSE "restoring"
       /\ op[r] # "Recover" => serving
  /\ \A g \in Gens : pc[g] \in RestorePcs => state = "restoring"
  /\ Idle => state \notin {"connecting", "restoring"}
  /\ state = "disconnected" => ~serving

\* A change of the network that only a proven restoration takes back.
Owed == platform = "macos" /\ net = "altered"
USE DEF Owed

\* What the controller's fields say about the machine when nobody is at work.
Settled ==
  /\ alive \subseteq {processInstance} /\ (alive # {} => processStarted)
  /\ Owed /\ reconciled => hasSnapshot
  /\ monitor # 0 => processStarted

AtRest ==
  /\ Idle => Settled
  /\ \A r \in Requests : pc[r] = "read" => Settled
  /\ Idle /\ state \in {"disconnected", "prepared"} => ~processStarted /\ ~hasSnapshot
  /\ Idle /\ state = "prepared" => ~Owed

Untouched == {"begin", "precheck", "prepare", "capture", "rejected"}

Connecting == \A r \in Requests : pc[r] \in ConnectPcs =>
  /\ ~processStarted /\ monitor = 0
  /\ pc[r] \in Untouched => ~Owed
  /\ pc[r] \in Untouched \cup {"protect", "render", "start"} => alive = {}
  /\ alive \subseteq {gen[r]}

Restoring == \A t \in Thread : pc[t] \in RestorePcs =>
  /\ alive \subseteq {args[t].instance} /\ (alive # {} => args[t].started)
  /\ pc[t] \in {"restore", "residue", "restored"} => alive = {}
  /\ pc[t] # "stopmonitor" \/ (t \in Requests /\ op[t] = "Connect") => monitor = 0
  /\ pc[t] \in {"residue", "restored"} => ~Owed
  /\ pc[t] # "restored" /\ ~args[t].has /\ Owed => ~reconciled
  /\ pc[t] # "restored" /\ (t \in Gens \/ op[t] # "Connect") =>
       /\ args[t].started = processStarted
       /\ args[t].instance = processInstance
       /\ args[t].has = hasSnapshot

IInv == TypeOK /\ GenOK /\ Slot /\ Fresh /\ Phase /\ AtRest /\ Connecting /\ Restoring

-----------------------------------------------------------------------------
(* Type correctness *)

\* No request is a generation number.
LEMMA Disjoint == \A r \in Requests : r \notin Nat
BY RequestsAssumption

\* What a function is after an EXCEPT at two different arguments.
LEMMA TwoUpdates ==
  ASSUME NEW S, NEW T, NEW f \in [S -> T], NEW a \in S, NEW b \in S, a # b,
         NEW x, NEW y, NEW h, h = [f EXCEPT ![a] = x, ![b] = y]
  PROVE  h[a] = x /\ h[b] = y /\ \A u \in S \ {a, b} : h[u] = f[u]
OBVIOUS

\* The transitions that begin and end a transition are of the type.
LEMMA TransitionForms ==
  /\ NoTransition \in Transitions
  /\ \A k \in {"connect", "disconnect", "restore"}, g \in Gens, t \in Thread :
       [kind |-> k, gen |-> g, owner |-> t] \in Transitions
BY DEF Transitions

\* Every argument record of restoreTransaction is of the type.
LEMMA ArgsForms ==
  /\ NoArgs \in ArgsSet
  /\ \A s, h \in BOOLEAN, i \in 0..MaxGen, c \in Codes :
       [started |-> s, instance |-> i, has |-> h, code |-> c] \in ArgsSet
BY MaxGenAssumption DEF ArgsSet, NoArgs, Codes

\* The error codes that the steps of runConnect publish.
LEMMA CodeForms ==
  /\ {"none", "attempt", "canceled", "readiness_lost"} \subseteq Codes
  /\ \A r \in Requests : codeForContext(r) \in Codes
BY DEF Codes, codeForContext

\* No instance is a value of its type.
LEMMA ZeroGen == 0 \in 0..MaxGen
BY MaxGenAssumption

\* Storing the arguments of a restoration keeps their type.
LEMMA StoreArgs ==
  ASSUME ArgsOK, NEW t \in Thread, NEW s \in BOOLEAN, NEW i \in 0..MaxGen,
         NEW h \in BOOLEAN, NEW c \in Codes,
         args' = [args EXCEPT ![t] = [started |-> s, instance |-> i,
                                      has |-> h, code |-> c]]
  PROVE  ArgsOK'
<1> DEFINE a == [started |-> s, instance |-> i, has |-> h, code |-> c]
<1>1. a \in ArgsSet BY ArgsForms
<1>2. args' = [args EXCEPT ![t] = a] OBVIOUS
<1> HIDE DEF a
<1> QED BY <1>1, <1>2 DEF ArgsOK

\* restoreAfterFailure stores arguments of the type.
LEMMA FailArgs ==
  ASSUME ArgsOK, NEW r \in Requests, NEW s \in BOOLEAN, NEW i \in 0..MaxGen,
         NEW h \in BOOLEAN, NEW c \in Codes, FailWith(r, s, i, h, c)
  PROVE  ArgsOK'
BY StoreArgs DEF FailWith, Thread

\* A refused Connect stores arguments of the type.
LEMMA RejectArgs ==
  ASSUME ArgsOK, NEW r \in Requests, NEW c \in Codes, Reject(r, c)
  PROVE  ArgsOK'
BY ZeroGen, StoreArgs DEF Reject, Thread

\* A fresh service has its types.
LEMMA InitType == Init => TypeOK /\ GenOK
<1> SUFFICES ASSUME Init PROVE TypeOK /\ GenOK OBVIOUS
<1> USE MaxGenAssumption DEF Init, NewController
<1>1. FieldsOK BY TransitionForms DEF FieldsOK, States, Codes, Qualities
<1>2. PcsOK BY Disjoint DEF PcsOK, RequestPcs, MonitorPcs, Thread, Gens
<1>3. LocalsOK BY TransitionForms DEF LocalsOK, Ops
<1>7. ArgsOK BY ArgsForms DEF ArgsOK
<1>4. SetsOK BY DEF SetsOK
<1>6. FlagsOK BY DEF FlagsOK
<1>5. GenOK BY DEF GenOK, OwnerPcs, RestorePcs, ConnectPcs, Thread
<1> QED BY <1>1, <1>2, <1>3, <1>4, <1>5, <1>6, <1>7 DEF TypeOK

\* A restarted service has its types.
LEMMA CrashType == TypeOK /\ Crash => TypeOK' /\ GenOK'
<1> SUFFICES ASSUME TypeOK, Crash PROVE TypeOK' /\ GenOK' OBVIOUS
<1> USE MaxGenAssumption DEF Crash, TypeOK
<1>1. FieldsOK' BY TransitionForms DEF FieldsOK, States, Codes, Qualities
<1>2. PcsOK' BY Disjoint DEF PcsOK, RequestPcs, MonitorPcs, Thread, Gens
<1>3. LocalsOK' BY TransitionForms DEF LocalsOK, Ops
<1>7. ArgsOK' BY ArgsForms DEF ArgsOK
<1>4. SetsOK' BY DEF SetsOK
<1>6. FlagsOK' BY DEF FlagsOK
<1>5. GenOK' BY DEF GenOK, OwnerPcs, RestorePcs, ConnectPcs, Thread
<1> QED BY <1>1, <1>2, <1>3, <1>4, <1>5, <1>6, <1>7

\* Every step keeps the controller's fields in their types.
LEMMA FieldsStep ==
  ASSUME TypeOK, GenOK, [Next]_vars PROVE FieldsOK'
<1> USE MaxGenAssumption, TransitionForms DEF TypeOK, FieldsOK, GenOK, OwnerPcs, RestorePcs, ConnectPcs, States, Codes, Qualities, Gens, Thread,
        Answer, Forget, Goto, KeepMonitors, KeepController, KeepGoroutines, FailWith, Reject, codeForContext, controller, goroutines, machine
<1>1. ASSUME NEW t \in Thread, restoreStep(t) PROVE FieldsOK'
  <2>1. CASE stopLifecycleMonitor(t) BY <2>1 DEF stopLifecycleMonitor
  <2>2. CASE waitMonitorDone(t) BY <2>2 DEF waitMonitorDone
  <2>3. CASE stopInstance(t) BY <2>3 DEF stopInstance
  <2>4. CASE restoreNetwork(t) BY <2>4 DEF restoreNetwork
  <2>5. CASE verifyResidue(t) BY <2>5 DEF verifyResidue
  <2> QED BY <1>1, <2>1, <2>2, <2>3, <2>4, <2>5 DEF restoreStep
<1>2. ASSUME NEW r \in Requests, requestStep(r) PROVE FieldsOK'
  <2>1. CASE ConnectReturns(r) BY <2>1 DEF ConnectReturns
  <2>2. CASE ConnectWaits(r) BY <2>2 DEF ConnectWaits
  <2>3. CASE ConnectTakes(r) BY <2>3 DEF ConnectTakes, beginConnect
  <2>4. CASE DisconnectWaits(r) BY <2>4 DEF DisconnectWaits
  <2>5. CASE RecoverReturns(r) BY <2>5 DEF RecoverReturns
  <2>6. CASE DisconnectTakes(r) BY <2>6 DEF DisconnectTakes, beginDisconnect
  <2>7. CASE JoinedConnectReturns(r) BY <2>7 DEF JoinedConnectReturns
  <2>8. CASE TryAgain(r) BY <2>8 DEF TryAgain
  <2>9. CASE GiveUp(r) BY <2>9 DEF GiveUp
  <2>10. CASE runConnectBegin(r) BY <2>10 DEF runConnectBegin
  <2>11. CASE runConnectPrecheck(r) BY <2>11 DEF runConnectPrecheck
  <2>12. CASE Prepare(r) BY <2>12 DEF Prepare
  <2>13. CASE Capture(r) BY <2>13 DEF Capture
  <2>14. CASE EnableProtection(r) BY <2>14 DEF EnableProtection
  <2>15. CASE RenderConfig(r) BY <2>15 DEF RenderConfig
  <2>16. CASE StartCore(r) BY <2>16 DEF StartCore
  <2>17. CASE Ready(r) BY <2>17 DEF Ready
  <2>18. CASE WaitTUNReady(r) BY <2>18 DEF WaitTUNReady
  <2>19. CASE ActivateTUNRoutes(r) BY <2>19 DEF ActivateTUNRoutes
  <2>20. CASE finishConnect(r) BY <2>20, <1>2 DEF finishConnect, LocalsOK, ArgsOK, ArgsSet
  <2>21. CASE startRuntimeMonitor(r) BY <2>21 DEF startRuntimeMonitor
  <2>22. CASE runDisconnect(r) BY <2>22 DEF runDisconnect
  <2>23. CASE finishDisconnect(r) BY <2>23 DEF finishDisconnect
  <2> QED BY <1>1, <1>2, <2>1, <2>2, <2>3, <2>4, <2>5, <2>6, <2>7, <2>8, <2>9, <2>10, <2>11, <2>12, <2>13, <2>14, <2>15, <2>16, <2>17, <2>18, <2>19, <2>20, <2>21, <2>22, <2>23 DEF requestStep, Thread
<1>3. ASSUME NEW g \in Gens, monitorStep(g) PROVE FieldsOK'
  <2>1. CASE monitorSeesExit(g) BY <2>1 DEF monitorSeesExit
  <2>2. CASE monitorSeesCancel(g) BY <2>2 DEF monitorSeesCancel
  <2>3. CASE automaticRestoreStale(g) BY <2>3 DEF automaticRestoreStale
  <2>4. CASE automaticRestoreTakes(g) BY <2>4 DEF automaticRestoreTakes
  <2>5. CASE finishAutomaticRestore(g) BY <2>5, <1>3 DEF finishAutomaticRestore, ArgsOK, ArgsSet
  <2>6. CASE monitorReturns(g) BY <2>6 DEF monitorReturns
  <2> QED BY <1>1, <1>3, <2>1, <2>2, <2>3, <2>4, <2>5, <2>6 DEF monitorStep, Thread
<1>4. ASSUME NEW r \in Requests, NEW o \in Ops, Request(r, o) PROVE FieldsOK'
  BY <1>4 DEF Request
<1>5. ASSUME NEW r \in Requests, Expire(r) PROVE FieldsOK'
  BY <1>5 DEF Expire
<1>6. ASSUME NEW g \in Gens, monitorSeesFailure(g) PROVE FieldsOK'
  BY <1>6 DEF monitorSeesFailure
<1>7. ASSUME NEW g \in Gens, CoreExits(g) PROVE FieldsOK'
  BY <1>7 DEF CoreExits
<1>8. ASSUME NEW g \in Gens, NEW q \in Qualities, UpdateLineQuality(g, q) PROVE FieldsOK'
  BY <1>8 DEF UpdateLineQuality
<1>9. CASE Crash BY <1>9, CrashType DEF TypeOK
<1>10. CASE UNCHANGED vars BY <1>10 DEF vars
<1> QED BY <1>2, <1>3, <1>4, <1>5, <1>6, <1>7, <1>8, <1>9, <1>10 DEF Next

\* Every step keeps the flags Boolean.
LEMMA FlagsStep ==
  ASSUME TypeOK, GenOK, [Next]_vars PROVE FlagsOK'
<1> USE DEF TypeOK, FlagsOK,
        Answer, Forget, Goto, KeepMonitors, KeepController, KeepGoroutines, FailWith, Reject, codeForContext, controller, goroutines, machine
<1>1. ASSUME NEW t \in Thread, restoreStep(t) PROVE FlagsOK'
  <2>1. CASE stopLifecycleMonitor(t) BY <2>1 DEF stopLifecycleMonitor
  <2>2. CASE waitMonitorDone(t) BY <2>2 DEF waitMonitorDone
  <2>3. CASE stopInstance(t) BY <2>3 DEF stopInstance
  <2>4. CASE restoreNetwork(t) BY <2>4 DEF restoreNetwork
  <2>5. CASE verifyResidue(t) BY <2>5 DEF verifyResidue
  <2> QED BY <1>1, <2>1, <2>2, <2>3, <2>4, <2>5 DEF restoreStep
<1>2. ASSUME NEW r \in Requests, requestStep(r) PROVE FlagsOK'
  <2>1. CASE ConnectReturns(r) BY <2>1 DEF ConnectReturns
  <2>2. CASE ConnectWaits(r) BY <2>2 DEF ConnectWaits
  <2>3. CASE ConnectTakes(r) BY <2>3 DEF ConnectTakes, beginConnect
  <2>4. CASE DisconnectWaits(r) BY <2>4 DEF DisconnectWaits
  <2>5. CASE RecoverReturns(r) BY <2>5 DEF RecoverReturns
  <2>6. CASE DisconnectTakes(r) BY <2>6 DEF DisconnectTakes, beginDisconnect
  <2>7. CASE JoinedConnectReturns(r) BY <2>7 DEF JoinedConnectReturns
  <2>8. CASE TryAgain(r) BY <2>8 DEF TryAgain
  <2>9. CASE GiveUp(r) BY <2>9 DEF GiveUp
  <2>10. CASE runConnectBegin(r) BY <2>10 DEF runConnectBegin
  <2>11. CASE runConnectPrecheck(r) BY <2>11 DEF runConnectPrecheck
  <2>12. CASE Prepare(r) BY <2>12 DEF Prepare
  <2>13. CASE Capture(r) BY <2>13 DEF Capture
  <2>14. CASE EnableProtection(r) BY <2>14 DEF EnableProtection
  <2>15. CASE RenderConfig(r) BY <2>15 DEF RenderConfig
  <2>16. CASE StartCore(r) BY <2>16 DEF StartCore
  <2>17. CASE Ready(r) BY <2>17 DEF Ready
  <2>18. CASE WaitTUNReady(r) BY <2>18 DEF WaitTUNReady
  <2>19. CASE ActivateTUNRoutes(r) BY <2>19 DEF ActivateTUNRoutes
  <2>20. CASE finishConnect(r) BY <2>20 DEF finishConnect
  <2>21. CASE startRuntimeMonitor(r) BY <2>21 DEF startRuntimeMonitor
  <2>22. CASE runDisconnect(r) BY <2>22 DEF runDisconnect
  <2>23. CASE finishDisconnect(r) BY <2>23 DEF finishDisconnect
  <2> QED BY <1>1, <1>2, <2>1, <2>2, <2>3, <2>4, <2>5, <2>6, <2>7, <2>8, <2>9, <2>10, <2>11, <2>12, <2>13, <2>14, <2>15, <2>16, <2>17, <2>18, <2>19, <2>20, <2>21, <2>22, <2>23 DEF requestStep, Thread
<1>3. ASSUME NEW g \in Gens, monitorStep(g) PROVE FlagsOK'
  <2>1. CASE monitorSeesExit(g) BY <2>1 DEF monitorSeesExit
  <2>2. CASE monitorSeesCancel(g) BY <2>2 DEF monitorSeesCancel
  <2>3. CASE automaticRestoreStale(g) BY <2>3 DEF automaticRestoreStale
  <2>4. CASE automaticRestoreTakes(g) BY <2>4 DEF automaticRestoreTakes
  <2>5. CASE finishAutomaticRestore(g) BY <2>5 DEF finishAutomaticRestore
  <2>6. CASE monitorReturns(g) BY <2>6 DEF monitorReturns
  <2> QED BY <1>1, <1>3, <2>1, <2>2, <2>3, <2>4, <2>5, <2>6 DEF monitorStep, Thread
<1>4. ASSUME NEW r \in Requests, NEW o \in Ops, Request(r, o) PROVE FlagsOK'
  BY <1>4 DEF Request
<1>5. ASSUME NEW r \in Requests, Expire(r) PROVE FlagsOK'
  BY <1>5 DEF Expire
<1>6. ASSUME NEW g \in Gens, monitorSeesFailure(g) PROVE FlagsOK'
  BY <1>6 DEF monitorSeesFailure
<1>7. ASSUME NEW g \in Gens, CoreExits(g) PROVE FlagsOK'
  BY <1>7 DEF CoreExits
<1>8. ASSUME NEW g \in Gens, NEW q \in Qualities, UpdateLineQuality(g, q) PROVE FlagsOK'
  BY <1>8 DEF UpdateLineQuality
<1>9. CASE Crash BY <1>9, CrashType DEF TypeOK
<1>10. CASE UNCHANGED vars BY <1>10 DEF vars
<1> QED BY <1>2, <1>3, <1>4, <1>5, <1>6, <1>7, <1>8, <1>9, <1>10 DEF Next

\* Every goroutine stays at its own control points.
LEMMA PcsStep ==
  ASSUME TypeOK, GenOK, [Next]_vars PROVE PcsOK'
<1> USE Disjoint, MaxGenAssumption DEF TypeOK, PcsOK, RequestPcs, MonitorPcs, OwnerPcs, RestorePcs, ConnectPcs, Thread, Gens,
        Answer, Forget, Goto, KeepMonitors, KeepController, KeepGoroutines, FailWith, Reject, codeForContext, controller, goroutines, machine
<1>1. ASSUME NEW t \in Thread, restoreStep(t) PROVE PcsOK'
  <2>1. CASE stopLifecycleMonitor(t) BY <2>1 DEF stopLifecycleMonitor
  <2>2. CASE waitMonitorDone(t) BY <2>2 DEF waitMonitorDone
  <2>3. CASE stopInstance(t) BY <2>3 DEF stopInstance
  <2>4. CASE restoreNetwork(t) BY <2>4 DEF restoreNetwork
  <2>5. CASE verifyResidue(t) BY <2>5 DEF verifyResidue
  <2> QED BY <1>1, <2>1, <2>2, <2>3, <2>4, <2>5 DEF restoreStep
<1>2. ASSUME NEW r \in Requests, requestStep(r) PROVE PcsOK'
  <2>1. CASE ConnectReturns(r) BY <2>1 DEF ConnectReturns
  <2>2. CASE ConnectWaits(r) BY <2>2 DEF ConnectWaits
  <2>3. CASE ConnectTakes(r) BY <2>3 DEF ConnectTakes, beginConnect
  <2>4. CASE DisconnectWaits(r) BY <2>4 DEF DisconnectWaits
  <2>5. CASE RecoverReturns(r) BY <2>5 DEF RecoverReturns
  <2>6. CASE DisconnectTakes(r) BY <2>6 DEF DisconnectTakes, beginDisconnect
  <2>7. CASE JoinedConnectReturns(r) BY <2>7 DEF JoinedConnectReturns
  <2>8. CASE TryAgain(r) BY <2>8 DEF TryAgain
  <2>9. CASE GiveUp(r) BY <2>9 DEF GiveUp
  <2>10. CASE runConnectBegin(r) BY <2>10 DEF runConnectBegin
  <2>11. CASE runConnectPrecheck(r) BY <2>11 DEF runConnectPrecheck
  <2>12. CASE Prepare(r) BY <2>12 DEF Prepare
  <2>13. CASE Capture(r) BY <2>13 DEF Capture
  <2>14. CASE EnableProtection(r) BY <2>14 DEF EnableProtection
  <2>15. CASE RenderConfig(r) BY <2>15 DEF RenderConfig
  <2>16. CASE StartCore(r) BY <2>16 DEF StartCore
  <2>17. CASE Ready(r) BY <2>17 DEF Ready
  <2>18. CASE WaitTUNReady(r) BY <2>18 DEF WaitTUNReady
  <2>19. CASE ActivateTUNRoutes(r) BY <2>19 DEF ActivateTUNRoutes
  <2>20. CASE finishConnect(r) BY <2>20 DEF finishConnect
  <2>21. CASE startRuntimeMonitor(r) BY <2>21 DEF startRuntimeMonitor, GenOK
  <2>22. CASE runDisconnect(r) BY <2>22 DEF runDisconnect
  <2>23. CASE finishDisconnect(r) BY <2>23 DEF finishDisconnect
  <2> QED BY <1>1, <1>2, <2>1, <2>2, <2>3, <2>4, <2>5, <2>6, <2>7, <2>8, <2>9, <2>10, <2>11, <2>12, <2>13, <2>14, <2>15, <2>16, <2>17, <2>18, <2>19, <2>20, <2>21, <2>22, <2>23 DEF requestStep, Thread
<1>3. ASSUME NEW g \in Gens, monitorStep(g) PROVE PcsOK'
  <2>1. CASE monitorSeesExit(g) BY <2>1 DEF monitorSeesExit
  <2>2. CASE monitorSeesCancel(g) BY <2>2 DEF monitorSeesCancel
  <2>3. CASE automaticRestoreStale(g) BY <2>3 DEF automaticRestoreStale
  <2>4. CASE automaticRestoreTakes(g) BY <2>4 DEF automaticRestoreTakes
  <2>5. CASE finishAutomaticRestore(g) BY <2>5 DEF finishAutomaticRestore
  <2>6. CASE monitorReturns(g) BY <2>6 DEF monitorReturns
  <2> QED BY <1>1, <1>3, <2>1, <2>2, <2>3, <2>4, <2>5, <2>6 DEF monitorStep, Thread
<1>4. ASSUME NEW r \in Requests, NEW o \in Ops, Request(r, o) PROVE PcsOK'
  BY <1>4 DEF Request
<1>5. ASSUME NEW r \in Requests, Expire(r) PROVE PcsOK'
  BY <1>5 DEF Expire
<1>6. ASSUME NEW g \in Gens, monitorSeesFailure(g) PROVE PcsOK'
  BY <1>6 DEF monitorSeesFailure
<1>7. ASSUME NEW g \in Gens, CoreExits(g) PROVE PcsOK'
  BY <1>7 DEF CoreExits
<1>8. ASSUME NEW g \in Gens, NEW q \in Qualities, UpdateLineQuality(g, q) PROVE PcsOK'
  BY <1>8 DEF UpdateLineQuality
<1>9. CASE Crash BY <1>9, CrashType DEF TypeOK
<1>10. CASE UNCHANGED vars BY <1>10 DEF vars
<1> QED BY <1>2, <1>3, <1>4, <1>5, <1>6, <1>7, <1>8, <1>9, <1>10 DEF Next

\* Every step keeps the locals of the goroutines in their types.
LEMMA LocalsStep ==
  ASSUME TypeOK, GenOK, [Next]_vars PROVE LocalsOK'
<1> USE MaxGenAssumption, TransitionForms DEF TypeOK, FieldsOK, LocalsOK, Gens, Thread, Ops,
        Answer, Forget, Goto, KeepMonitors, KeepController, KeepGoroutines, FailWith, Reject, codeForContext, controller, goroutines, machine
<1>1. ASSUME NEW t \in Thread, restoreStep(t) PROVE LocalsOK'
  <2>1. CASE stopLifecycleMonitor(t) BY <2>1 DEF stopLifecycleMonitor
  <2>2. CASE waitMonitorDone(t) BY <2>2 DEF waitMonitorDone
  <2>3. CASE stopInstance(t) BY <2>3 DEF stopInstance
  <2>4. CASE restoreNetwork(t) BY <2>4 DEF restoreNetwork
  <2>5. CASE verifyResidue(t) BY <2>5 DEF verifyResidue
  <2> QED BY <1>1, <2>1, <2>2, <2>3, <2>4, <2>5 DEF restoreStep
<1>2. ASSUME NEW r \in Requests, requestStep(r) PROVE LocalsOK'
  <2>1. CASE ConnectReturns(r) BY <2>1 DEF ConnectReturns
  <2>2. CASE ConnectWaits(r) BY <2>2 DEF ConnectWaits
  <2>3. CASE ConnectTakes(r) BY <2>3 DEF ConnectTakes, beginConnect
  <2>4. CASE DisconnectWaits(r) BY <2>4 DEF DisconnectWaits
  <2>5. CASE RecoverReturns(r) BY <2>5 DEF RecoverReturns
  <2>6. CASE DisconnectTakes(r) BY <2>6 DEF DisconnectTakes, beginDisconnect
  <2>7. CASE JoinedConnectReturns(r) BY <2>7 DEF JoinedConnectReturns
  <2>8. CASE TryAgain(r) BY <2>8 DEF TryAgain
  <2>9. CASE GiveUp(r) BY <2>9 DEF GiveUp
  <2>10. CASE runConnectBegin(r) BY <2>10 DEF runConnectBegin
  <2>11. CASE runConnectPrecheck(r) BY <2>11 DEF runConnectPrecheck
  <2>12. CASE Prepare(r) BY <2>12 DEF Prepare
  <2>13. CASE Capture(r) BY <2>13 DEF Capture
  <2>14. CASE EnableProtection(r) BY <2>14 DEF EnableProtection
  <2>15. CASE RenderConfig(r) BY <2>15 DEF RenderConfig
  <2>16. CASE StartCore(r) BY <2>16 DEF StartCore
  <2>17. CASE Ready(r) BY <2>17 DEF Ready
  <2>18. CASE WaitTUNReady(r) BY <2>18 DEF WaitTUNReady
  <2>19. CASE ActivateTUNRoutes(r) BY <2>19 DEF ActivateTUNRoutes
  <2>20. CASE finishConnect(r) BY <2>20 DEF finishConnect
  <2>21. CASE startRuntimeMonitor(r) BY <2>21 DEF startRuntimeMonitor
  <2>22. CASE runDisconnect(r) BY <2>22 DEF runDisconnect
  <2>23. CASE finishDisconnect(r) BY <2>23 DEF finishDisconnect
  <2> QED BY <1>1, <1>2, <2>1, <2>2, <2>3, <2>4, <2>5, <2>6, <2>7, <2>8, <2>9, <2>10, <2>11, <2>12, <2>13, <2>14, <2>15, <2>16, <2>17, <2>18, <2>19, <2>20, <2>21, <2>22, <2>23 DEF requestStep, Thread
<1>3. ASSUME NEW g \in Gens, monitorStep(g) PROVE LocalsOK'
  <2>1. CASE monitorSeesExit(g) BY <2>1 DEF monitorSeesExit
  <2>2. CASE monitorSeesCancel(g) BY <2>2 DEF monitorSeesCancel
  <2>3. CASE automaticRestoreStale(g) BY <2>3 DEF automaticRestoreStale
  <2>4. CASE automaticRestoreTakes(g) BY <2>4 DEF automaticRestoreTakes
  <2>5. CASE finishAutomaticRestore(g) BY <2>5 DEF finishAutomaticRestore
  <2>6. CASE monitorReturns(g) BY <2>6 DEF monitorReturns
  <2> QED BY <1>1, <1>3, <2>1, <2>2, <2>3, <2>4, <2>5, <2>6 DEF monitorStep, Thread
<1>4. ASSUME NEW r \in Requests, NEW o \in Ops, Request(r, o) PROVE LocalsOK'
  BY <1>4 DEF Request
<1>5. ASSUME NEW r \in Requests, Expire(r) PROVE LocalsOK'
  BY <1>5 DEF Expire
<1>6. ASSUME NEW g \in Gens, monitorSeesFailure(g) PROVE LocalsOK'
  BY <1>6 DEF monitorSeesFailure
<1>7. ASSUME NEW g \in Gens, CoreExits(g) PROVE LocalsOK'
  BY <1>7 DEF CoreExits
<1>8. ASSUME NEW g \in Gens, NEW q \in Qualities, UpdateLineQuality(g, q) PROVE LocalsOK'
  BY <1>8 DEF UpdateLineQuality
<1>9. CASE Crash BY <1>9, CrashType DEF TypeOK
<1>10. CASE UNCHANGED vars BY <1>10 DEF vars
<1> QED BY <1>2, <1>3, <1>4, <1>5, <1>6, <1>7, <1>8, <1>9, <1>10 DEF Next

\* Every step keeps the arguments of restoreTransaction in their type.
LEMMA ArgsStep ==
  ASSUME TypeOK, GenOK, [Next]_vars PROVE ArgsOK'
<1> USE MaxGenAssumption, ArgsForms DEF TypeOK, ArgsOK, Thread,
        Answer, Forget, Goto, KeepMonitors, KeepController, KeepGoroutines, controller, goroutines, machine
<1>1. ASSUME NEW t \in Thread, restoreStep(t) PROVE ArgsOK'
  <2>1. CASE stopLifecycleMonitor(t) BY <2>1 DEF stopLifecycleMonitor
  <2>2. CASE waitMonitorDone(t) BY <2>2 DEF waitMonitorDone
  <2>3. CASE stopInstance(t) BY <2>3 DEF stopInstance
  <2>4. CASE restoreNetwork(t) BY <2>4 DEF restoreNetwork
  <2>5. CASE verifyResidue(t) BY <2>5 DEF verifyResidue
  <2> QED BY <1>1, <2>1, <2>2, <2>3, <2>4, <2>5 DEF restoreStep
<1>2. ASSUME NEW r \in Requests, requestStep(r) PROVE ArgsOK'
  <2>1. CASE ConnectReturns(r) BY <2>1 DEF ConnectReturns
  <2>2. CASE ConnectWaits(r) BY <2>2 DEF ConnectWaits
  <2>3. CASE ConnectTakes(r) BY <2>3 DEF ConnectTakes, beginConnect
  <2>4. CASE DisconnectWaits(r) BY <2>4 DEF DisconnectWaits
  <2>5. CASE RecoverReturns(r) BY <2>5 DEF RecoverReturns
  <2>6. CASE DisconnectTakes(r) BY <2>6 DEF DisconnectTakes, beginDisconnect
  <2>7. CASE JoinedConnectReturns(r) BY <2>7 DEF JoinedConnectReturns
  <2>8. CASE TryAgain(r) BY <2>8 DEF TryAgain
  <2>9. CASE GiveUp(r) BY <2>9 DEF GiveUp
  <2>10. CASE runConnectBegin(r) BY <2>10, RejectArgs, CodeForms DEF runConnectBegin
  <2>11. CASE runConnectPrecheck(r) BY <2>11, RejectArgs, FailArgs, CodeForms DEF runConnectPrecheck, FieldsOK
  <2>12. CASE Prepare(r) BY <2>12, <1>2, ZeroGen, FailArgs, CodeForms DEF Prepare, LocalsOK
  <2>13. CASE Capture(r) BY <2>13, <1>2, ZeroGen, FailArgs, CodeForms DEF Capture, LocalsOK
  <2>14. CASE EnableProtection(r) BY <2>14, <1>2, ZeroGen, FailArgs, CodeForms DEF EnableProtection, LocalsOK
  <2>15. CASE RenderConfig(r) BY <2>15, <1>2, ZeroGen, FailArgs, CodeForms DEF RenderConfig, LocalsOK
  <2>16. CASE StartCore(r) BY <2>16, <1>2, ZeroGen, FailArgs, CodeForms DEF StartCore, LocalsOK
  <2>17. CASE Ready(r) BY <2>17, <1>2, ZeroGen, FailArgs, CodeForms DEF Ready, LocalsOK
  <2>18. CASE WaitTUNReady(r) BY <2>18, <1>2, ZeroGen, FailArgs, CodeForms DEF WaitTUNReady, LocalsOK
  <2>19. CASE ActivateTUNRoutes(r) BY <2>19, <1>2, ZeroGen, FailArgs, CodeForms DEF ActivateTUNRoutes, LocalsOK
  <2>20. CASE finishConnect(r) BY <2>20 DEF finishConnect
  <2>21. CASE startRuntimeMonitor(r) BY <2>21 DEF startRuntimeMonitor
  <2>22. CASE runDisconnect(r)
    <3>1. CASE UNCHANGED args BY <3>1
    <3>2. CASE args' = [args EXCEPT ![r] = [started |-> processStarted,
                 instance |-> processInstance, has |-> hasSnapshot, code |-> "none"]]
      BY <1>2, <3>2, StoreArgs, CodeForms DEF FieldsOK, FlagsOK
    <3> QED BY <2>22, <3>1, <3>2 DEF runDisconnect
  <2>23. CASE finishDisconnect(r) BY <2>23 DEF finishDisconnect
  <2> QED BY <1>1, <1>2, <2>1, <2>2, <2>3, <2>4, <2>5, <2>6, <2>7, <2>8, <2>9, <2>10, <2>11, <2>12, <2>13, <2>14, <2>15, <2>16, <2>17, <2>18, <2>19, <2>20, <2>21, <2>22, <2>23 DEF requestStep, Thread
<1>3. ASSUME NEW g \in Gens, monitorStep(g) PROVE ArgsOK'
  <2>1. CASE monitorSeesExit(g) BY <2>1 DEF monitorSeesExit
  <2>2. CASE monitorSeesCancel(g) BY <2>2 DEF monitorSeesCancel
  <2>3. CASE automaticRestoreStale(g) BY <2>3 DEF automaticRestoreStale
  <2>4. CASE automaticRestoreTakes(g) BY <2>4, <1>3, StoreArgs, CodeForms DEF automaticRestoreTakes, FieldsOK, FlagsOK
  <2>5. CASE finishAutomaticRestore(g) BY <2>5 DEF finishAutomaticRestore
  <2>6. CASE monitorReturns(g) BY <2>6 DEF monitorReturns
  <2> QED BY <1>1, <1>3, <2>1, <2>2, <2>3, <2>4, <2>5, <2>6 DEF monitorStep, Thread
<1>4. ASSUME NEW r \in Requests, NEW o \in Ops, Request(r, o) PROVE ArgsOK'
  BY <1>4 DEF Request
<1>5. ASSUME NEW r \in Requests, Expire(r) PROVE ArgsOK'
  BY <1>5 DEF Expire
<1>6. ASSUME NEW g \in Gens, monitorSeesFailure(g) PROVE ArgsOK'
  BY <1>6 DEF monitorSeesFailure
<1>7. ASSUME NEW g \in Gens, CoreExits(g) PROVE ArgsOK'
  BY <1>7 DEF CoreExits
<1>8. ASSUME NEW g \in Gens, NEW q \in Qualities, UpdateLineQuality(g, q) PROVE ArgsOK'
  BY <1>8 DEF UpdateLineQuality
<1>9. CASE Crash BY <1>9, CrashType DEF TypeOK
<1>10. CASE UNCHANGED vars BY <1>10 DEF vars
<1> QED BY <1>2, <1>3, <1>4, <1>5, <1>6, <1>7, <1>8, <1>9, <1>10 DEF Next

\* Every step keeps the sets of generations and the network state in their types.
LEMMA SetsStep ==
  ASSUME TypeOK, GenOK, [Next]_vars PROVE SetsOK'
<1> USE MaxGenAssumption DEF TypeOK, SetsOK, NetStates, Gens,
        Answer, Forget, Goto, KeepMonitors, KeepController, KeepGoroutines, FailWith, Reject, codeForContext, controller, goroutines, machine
<1>1. ASSUME NEW t \in Thread, restoreStep(t) PROVE SetsOK'
  <2>1. CASE stopLifecycleMonitor(t) 
    <3>1. monitor # 0 => monitor \in Gens BY DEF FieldsOK
    <3> QED BY <2>1, <3>1 DEF stopLifecycleMonitor
  <2>2. CASE waitMonitorDone(t) BY <2>2 DEF waitMonitorDone
  <2>3. CASE stopInstance(t) 
    <3>1. args[t].instance # 0 => args[t].instance \in Gens BY <1>1 DEF ArgsOK, ArgsSet
    <3> QED BY <2>3, <3>1 DEF stopInstance
  <2>4. CASE restoreNetwork(t) BY <2>4 DEF restoreNetwork
  <2>5. CASE verifyResidue(t) BY <2>5 DEF verifyResidue
  <2> QED BY <1>1, <2>1, <2>2, <2>3, <2>4, <2>5 DEF restoreStep
<1>2. ASSUME NEW r \in Requests, requestStep(r) PROVE SetsOK'
  <2>1. CASE ConnectReturns(r) BY <2>1 DEF ConnectReturns
  <2>2. CASE ConnectWaits(r) BY <2>2 DEF ConnectWaits
  <2>3. CASE ConnectTakes(r) BY <2>3 DEF ConnectTakes, beginConnect
  <2>4. CASE DisconnectWaits(r) BY <2>4 DEF DisconnectWaits
  <2>5. CASE RecoverReturns(r) BY <2>5 DEF RecoverReturns
  <2>6. CASE DisconnectTakes(r) BY <2>6 DEF DisconnectTakes, beginDisconnect
  <2>7. CASE JoinedConnectReturns(r) BY <2>7 DEF JoinedConnectReturns
  <2>8. CASE TryAgain(r) BY <2>8 DEF TryAgain
  <2>9. CASE GiveUp(r) BY <2>9 DEF GiveUp
  <2>10. CASE runConnectBegin(r) BY <2>10 DEF runConnectBegin
  <2>11. CASE runConnectPrecheck(r) BY <2>11 DEF runConnectPrecheck
  <2>12. CASE Prepare(r) BY <2>12 DEF Prepare
  <2>13. CASE Capture(r) BY <2>13 DEF Capture
  <2>14. CASE EnableProtection(r) BY <2>14 DEF EnableProtection
  <2>15. CASE RenderConfig(r) BY <2>15 DEF RenderConfig
  <2>16. CASE StartCore(r) 
    <3>1. gen[r] \in Gens BY <2>16, <1>2 DEF StartCore, GenOK, OwnerPcs, ConnectPcs
    <3> QED BY <2>16, <3>1 DEF StartCore
  <2>17. CASE Ready(r) BY <2>17 DEF Ready
  <2>18. CASE WaitTUNReady(r) BY <2>18 DEF WaitTUNReady
  <2>19. CASE ActivateTUNRoutes(r) BY <2>19 DEF ActivateTUNRoutes
  <2>20. CASE finishConnect(r) BY <2>20 DEF finishConnect
  <2>21. CASE startRuntimeMonitor(r) 
    <3>1. gen[r] \in Gens BY <2>21, <1>2 DEF startRuntimeMonitor, GenOK
    <3> QED BY <2>21, <3>1 DEF startRuntimeMonitor
  <2>22. CASE runDisconnect(r) BY <2>22 DEF runDisconnect
  <2>23. CASE finishDisconnect(r) BY <2>23 DEF finishDisconnect
  <2> QED BY <1>1, <1>2, <2>1, <2>2, <2>3, <2>4, <2>5, <2>6, <2>7, <2>8, <2>9, <2>10, <2>11, <2>12, <2>13, <2>14, <2>15, <2>16, <2>17, <2>18, <2>19, <2>20, <2>21, <2>22, <2>23 DEF requestStep, Thread
<1>3. ASSUME NEW g \in Gens, monitorStep(g) PROVE SetsOK'
  <2>1. CASE monitorSeesExit(g) BY <2>1 DEF monitorSeesExit
  <2>2. CASE monitorSeesCancel(g) BY <2>2 DEF monitorSeesCancel
  <2>3. CASE automaticRestoreStale(g) BY <2>3 DEF automaticRestoreStale
  <2>4. CASE automaticRestoreTakes(g) BY <2>4 DEF automaticRestoreTakes, FieldsOK
  <2>5. CASE finishAutomaticRestore(g) BY <2>5 DEF finishAutomaticRestore
  <2>6. CASE monitorReturns(g) BY <2>6 DEF monitorReturns
  <2> QED BY <1>1, <1>3, <2>1, <2>2, <2>3, <2>4, <2>5, <2>6 DEF monitorStep, Thread
<1>4. ASSUME NEW r \in Requests, NEW o \in Ops, Request(r, o) PROVE SetsOK'
  BY <1>4 DEF Request
<1>5. ASSUME NEW r \in Requests, Expire(r) PROVE SetsOK'
  BY <1>5 DEF Expire
<1>6. ASSUME NEW g \in Gens, monitorSeesFailure(g) PROVE SetsOK'
  BY <1>6 DEF monitorSeesFailure
<1>7. ASSUME NEW g \in Gens, CoreExits(g) PROVE SetsOK'
  BY <1>7 DEF CoreExits
<1>8. ASSUME NEW g \in Gens, NEW q \in Qualities, UpdateLineQuality(g, q) PROVE SetsOK'
  BY <1>8 DEF UpdateLineQuality
<1>9. CASE Crash BY <1>9, CrashType DEF TypeOK
<1>10. CASE UNCHANGED vars BY <1>10 DEF vars
<1> QED BY <1>2, <1>3, <1>4, <1>5, <1>6, <1>7, <1>8, <1>9, <1>10 DEF Next

\* Every step keeps GenOK.
LEMMA GenStep ==
  ASSUME TypeOK, GenOK, [Next]_vars PROVE GenOK'
<1> USE Disjoint, MaxGenAssumption DEF TypeOK, GenOK, PcsOK, LocalsOK, OwnerPcs, RestorePcs, ConnectPcs, Thread, Gens,
        Answer, Forget, Goto, KeepMonitors, KeepController, KeepGoroutines, FailWith, Reject, codeForContext, controller, goroutines, machine
<1>1. ASSUME NEW t \in Thread, restoreStep(t) PROVE GenOK'
  <2>1. CASE stopLifecycleMonitor(t) BY <2>1 DEF stopLifecycleMonitor
  <2>2. CASE waitMonitorDone(t) BY <2>2 DEF waitMonitorDone
  <2>3. CASE stopInstance(t) BY <2>3 DEF stopInstance
  <2>4. CASE restoreNetwork(t) BY <2>4 DEF restoreNetwork
  <2>5. CASE verifyResidue(t) BY <2>5 DEF verifyResidue
  <2> QED BY <1>1, <2>1, <2>2, <2>3, <2>4, <2>5 DEF restoreStep
<1>2. ASSUME NEW r \in Requests, requestStep(r) PROVE GenOK'
  <2>1. CASE ConnectReturns(r) BY <2>1 DEF ConnectReturns
  <2>2. CASE ConnectWaits(r) BY <2>2 DEF ConnectWaits
  <2>3. CASE ConnectTakes(r) BY <2>3 DEF ConnectTakes, beginConnect, FieldsOK
  <2>4. CASE DisconnectWaits(r) BY <2>4 DEF DisconnectWaits
  <2>5. CASE RecoverReturns(r) BY <2>5 DEF RecoverReturns
  <2>6. CASE DisconnectTakes(r) BY <2>6 DEF DisconnectTakes, beginDisconnect, FieldsOK
  <2>7. CASE JoinedConnectReturns(r) BY <2>7 DEF JoinedConnectReturns
  <2>8. CASE TryAgain(r) BY <2>8 DEF TryAgain
  <2>9. CASE GiveUp(r) BY <2>9 DEF GiveUp
  <2>10. CASE runConnectBegin(r) BY <2>10 DEF runConnectBegin
  <2>11. CASE runConnectPrecheck(r) BY <2>11 DEF runConnectPrecheck
  <2>12. CASE Prepare(r) BY <2>12 DEF Prepare
  <2>13. CASE Capture(r) BY <2>13 DEF Capture
  <2>14. CASE EnableProtection(r) BY <2>14 DEF EnableProtection
  <2>15. CASE RenderConfig(r) BY <2>15 DEF RenderConfig
  <2>16. CASE StartCore(r) BY <2>16 DEF StartCore
  <2>17. CASE Ready(r) BY <2>17 DEF Ready
  <2>18. CASE WaitTUNReady(r) BY <2>18 DEF WaitTUNReady
  <2>19. CASE ActivateTUNRoutes(r) BY <2>19 DEF ActivateTUNRoutes
  <2>20. CASE finishConnect(r) BY <2>20 DEF finishConnect
  <2>21. CASE startRuntimeMonitor(r) BY <2>21 DEF startRuntimeMonitor
  <2>22. CASE runDisconnect(r) BY <2>22 DEF runDisconnect
  <2>23. CASE finishDisconnect(r) BY <2>23 DEF finishDisconnect
  <2> QED BY <1>1, <1>2, <2>1, <2>2, <2>3, <2>4, <2>5, <2>6, <2>7, <2>8, <2>9, <2>10, <2>11, <2>12, <2>13, <2>14, <2>15, <2>16, <2>17, <2>18, <2>19, <2>20, <2>21, <2>22, <2>23 DEF requestStep, Thread
<1>3. ASSUME NEW g \in Gens, monitorStep(g) PROVE GenOK'
  <2>1. CASE monitorSeesExit(g) BY <2>1 DEF monitorSeesExit
  <2>2. CASE monitorSeesCancel(g) BY <2>2 DEF monitorSeesCancel
  <2>3. CASE automaticRestoreStale(g) BY <2>3 DEF automaticRestoreStale
  <2>4. CASE automaticRestoreTakes(g) BY <2>4 DEF automaticRestoreTakes
  <2>5. CASE finishAutomaticRestore(g) BY <2>5 DEF finishAutomaticRestore
  <2>6. CASE monitorReturns(g) BY <2>6 DEF monitorReturns
  <2> QED BY <1>1, <1>3, <2>1, <2>2, <2>3, <2>4, <2>5, <2>6 DEF monitorStep, Thread
<1>4. ASSUME NEW r \in Requests, NEW o \in Ops, Request(r, o) PROVE GenOK'
  BY <1>4 DEF Request
<1>5. ASSUME NEW r \in Requests, Expire(r) PROVE GenOK'
  BY <1>5 DEF Expire
<1>6. ASSUME NEW g \in Gens, monitorSeesFailure(g) PROVE GenOK'
  BY <1>6 DEF monitorSeesFailure
<1>7. ASSUME NEW g \in Gens, CoreExits(g) PROVE GenOK'
  BY <1>7 DEF CoreExits
<1>8. ASSUME NEW g \in Gens, NEW q \in Qualities, UpdateLineQuality(g, q) PROVE GenOK'
  BY <1>8 DEF UpdateLineQuality
<1>9. CASE Crash BY <1>9, CrashType
<1>10. CASE UNCHANGED vars BY <1>10 DEF vars
<1> QED BY <1>2, <1>3, <1>4, <1>5, <1>6, <1>7, <1>8, <1>9, <1>10 DEF Next

\* In every reachable state the variables have their types (the fields of
\* Controller, the locals of its goroutines and the machine).
THEOREM TypeCorrect == Spec => []TypeOK
<1>1. Init => TypeOK /\ GenOK BY InitType
<1>2. TypeOK /\ GenOK /\ [Next]_vars => (TypeOK /\ GenOK)'
  BY FieldsStep, FlagsStep, PcsStep, LocalsStep, ArgsStep, SetsStep, GenStep DEF TypeOK
<1> QED BY <1>1, <1>2, PTL DEF Spec

-----------------------------------------------------------------------------
(* The inductive invariant *)

\* Every step keeps Slot.
LEMMA SlotStep ==
  ASSUME IInv, [Next]_vars PROVE Slot'
<1> USE Disjoint, MaxGenAssumption DEF IInv, TypeOK, FieldsOK, GenOK, Slot, PcsOK, RequestPcs, MonitorPcs, OwnerPcs, RestorePcs, ConnectPcs, Thread, Gens, LocalsOK, Idle, NoTransition,
        Answer, Forget, Goto, KeepMonitors, KeepController, KeepGoroutines, controller, goroutines, machine, FailWith, Reject
<1>1. ASSUME NEW t \in Thread, restoreStep(t) PROVE Slot'
  <2>1. CASE stopLifecycleMonitor(t) BY <2>1 DEF stopLifecycleMonitor
  <2>2. CASE waitMonitorDone(t) BY <2>2 DEF waitMonitorDone
  <2>3. CASE stopInstance(t) BY <2>3 DEF stopInstance
  <2>4. CASE restoreNetwork(t) BY <2>4 DEF restoreNetwork
  <2>5. CASE verifyResidue(t) BY <2>5 DEF verifyResidue
  <2> QED BY <1>1, <2>1, <2>2, <2>3, <2>4, <2>5 DEF restoreStep
<1>2. ASSUME NEW r \in Requests, requestStep(r) PROVE Slot'
  <2>1. CASE ConnectReturns(r) BY <2>1 DEF ConnectReturns
  <2>2. CASE ConnectWaits(r) BY <2>2 DEF ConnectWaits
  <2>3. CASE ConnectTakes(r) BY <2>3 DEF ConnectTakes, beginConnect
  <2>4. CASE DisconnectWaits(r) BY <2>4 DEF DisconnectWaits
  <2>5. CASE RecoverReturns(r) BY <2>5 DEF RecoverReturns
  <2>6. CASE DisconnectTakes(r) BY <2>6 DEF DisconnectTakes, beginDisconnect
  <2>7. CASE JoinedConnectReturns(r) BY <2>7 DEF JoinedConnectReturns
  <2>8. CASE TryAgain(r) BY <2>8 DEF TryAgain
  <2>9. CASE GiveUp(r) BY <2>9 DEF GiveUp
  <2>10. CASE runConnectBegin(r) BY <2>10 DEF runConnectBegin
  <2>11. CASE runConnectPrecheck(r) BY <2>11 DEF runConnectPrecheck
  <2>12. CASE Prepare(r) BY <2>12 DEF Prepare
  <2>13. CASE Capture(r) BY <2>13 DEF Capture
  <2>14. CASE EnableProtection(r) BY <2>14 DEF EnableProtection
  <2>15. CASE RenderConfig(r) BY <2>15 DEF RenderConfig
  <2>16. CASE StartCore(r) BY <2>16 DEF StartCore
  <2>17. CASE Ready(r) BY <2>17 DEF Ready
  <2>18. CASE WaitTUNReady(r) BY <2>18 DEF WaitTUNReady
  <2>19. CASE ActivateTUNRoutes(r) BY <2>19 DEF ActivateTUNRoutes
  <2>20. CASE finishConnect(r) BY <2>20 DEF finishConnect
  <2>21. CASE startRuntimeMonitor(r) 
    <3>1. gen[r] \in Gens /\ pc[gen[r]] = "off" /\ pc[r] = "startmonitor" BY <2>21 DEF startRuntimeMonitor, Fresh
    <3>2. /\ pc'[r] = "idle" /\ pc'[gen[r]] \in {"watch", "auto"}
          /\ \A u \in Thread \ {r, gen[r]} : pc'[u] = pc[u]
      <4>1. PICK x \in {"watch", "auto"} : pc' = [pc EXCEPT ![r] = "idle", ![gen[r]] = x]
        BY <2>21 DEF startRuntimeMonitor
      <4>2. gen[r] \in Thread /\ r # gen[r] BY <3>1
      <4> QED BY <4>1, <4>2, TwoUpdates
    <3>3. \A u \in Thread : pc'[u] \in OwnerPcs <=> pc[u] \in OwnerPcs BY <3>1, <3>2
    <3>4. UNCHANGED <<transition, generation>> /\ gen' = [gen EXCEPT ![r] = 0]
      BY <2>21 DEF startRuntimeMonitor
    <3>5. transition # NoTransition => transition.owner \in Thread BY DEF Transitions
    <3> QED BY <3>1, <3>2, <3>3, <3>4, <3>5
  <2>22. CASE runDisconnect(r) BY <2>22 DEF runDisconnect
  <2>23. CASE finishDisconnect(r) BY <2>23 DEF finishDisconnect
  <2> QED BY <1>1, <1>2, <2>1, <2>2, <2>3, <2>4, <2>5, <2>6, <2>7, <2>8, <2>9, <2>10, <2>11, <2>12, <2>13, <2>14, <2>15, <2>16, <2>17, <2>18, <2>19, <2>20, <2>21, <2>22, <2>23 DEF requestStep, Thread
<1>3. ASSUME NEW g \in Gens, monitorStep(g) PROVE Slot'
  <2>1. CASE monitorSeesExit(g) BY <2>1 DEF monitorSeesExit
  <2>2. CASE monitorSeesCancel(g) BY <2>2 DEF monitorSeesCancel
  <2>3. CASE automaticRestoreStale(g) BY <2>3 DEF automaticRestoreStale
  <2>4. CASE automaticRestoreTakes(g) BY <2>4 DEF automaticRestoreTakes
  <2>5. CASE finishAutomaticRestore(g) BY <2>5 DEF finishAutomaticRestore
  <2>6. CASE monitorReturns(g) BY <2>6 DEF monitorReturns
  <2> QED BY <1>1, <1>3, <2>1, <2>2, <2>3, <2>4, <2>5, <2>6 DEF monitorStep, Thread
<1>4. ASSUME NEW r \in Requests, NEW o \in Ops, Request(r, o) PROVE Slot'
  BY <1>4 DEF Request
<1>5. ASSUME NEW r \in Requests, Expire(r) PROVE Slot'
  BY <1>5 DEF Expire
<1>6. ASSUME NEW g \in Gens, monitorSeesFailure(g) PROVE Slot'
  BY <1>6 DEF monitorSeesFailure
<1>7. ASSUME NEW g \in Gens, CoreExits(g) PROVE Slot'
  BY <1>7 DEF CoreExits
<1>8. ASSUME NEW g \in Gens, NEW q \in Qualities, UpdateLineQuality(g, q) PROVE Slot'
  BY <1>8 DEF UpdateLineQuality
<1>9. CASE Crash BY <1>9 DEF Crash
<1>10. CASE UNCHANGED vars BY <1>10 DEF vars
<1> QED BY <1>2, <1>3, <1>4, <1>5, <1>6, <1>7, <1>8, <1>9, <1>10 DEF Next

\* Every step keeps Fresh.
LEMMA FreshStep ==
  ASSUME IInv, [Next]_vars PROVE Fresh'
<1> USE Disjoint, MaxGenAssumption DEF IInv, TypeOK, FieldsOK, GenOK, Slot, Fresh, PcsOK, RequestPcs, MonitorPcs, OwnerPcs, RestorePcs, ConnectPcs, Thread, Gens, LocalsOK, Idle, NoTransition,
        Answer, Forget, Goto, KeepMonitors, KeepController, KeepGoroutines, controller, goroutines, machine, FailWith, Reject
<1>1. ASSUME NEW t \in Thread, restoreStep(t) PROVE Fresh'
  <2>1. CASE stopLifecycleMonitor(t) BY <2>1 DEF stopLifecycleMonitor
  <2>2. CASE waitMonitorDone(t) BY <2>2 DEF waitMonitorDone
  <2>3. CASE stopInstance(t) BY <2>3 DEF stopInstance
  <2>4. CASE restoreNetwork(t) BY <2>4 DEF restoreNetwork
  <2>5. CASE verifyResidue(t) BY <2>5 DEF verifyResidue
  <2> QED BY <1>1, <2>1, <2>2, <2>3, <2>4, <2>5 DEF restoreStep
<1>2. ASSUME NEW r \in Requests, requestStep(r) PROVE Fresh'
  <2>1. CASE ConnectReturns(r) BY <2>1 DEF ConnectReturns
  <2>2. CASE ConnectWaits(r) BY <2>2 DEF ConnectWaits
  <2>3. CASE ConnectTakes(r) BY <2>3 DEF ConnectTakes, beginConnect
  <2>4. CASE DisconnectWaits(r) BY <2>4 DEF DisconnectWaits
  <2>5. CASE RecoverReturns(r) BY <2>5 DEF RecoverReturns
  <2>6. CASE DisconnectTakes(r) BY <2>6 DEF DisconnectTakes, beginDisconnect
  <2>7. CASE JoinedConnectReturns(r) BY <2>7 DEF JoinedConnectReturns
  <2>8. CASE TryAgain(r) BY <2>8 DEF TryAgain
  <2>9. CASE GiveUp(r) BY <2>9 DEF GiveUp
  <2>10. CASE runConnectBegin(r) BY <2>10 DEF runConnectBegin
  <2>11. CASE runConnectPrecheck(r) BY <2>11 DEF runConnectPrecheck
  <2>12. CASE Prepare(r) BY <2>12 DEF Prepare
  <2>13. CASE Capture(r) BY <2>13 DEF Capture
  <2>14. CASE EnableProtection(r) BY <2>14 DEF EnableProtection
  <2>15. CASE RenderConfig(r) BY <2>15 DEF RenderConfig
  <2>16. CASE StartCore(r) BY <2>16 DEF StartCore
  <2>17. CASE Ready(r) BY <2>17 DEF Ready
  <2>18. CASE WaitTUNReady(r) BY <2>18 DEF WaitTUNReady
  <2>19. CASE ActivateTUNRoutes(r) BY <2>19 DEF ActivateTUNRoutes
  <2>20. CASE finishConnect(r) 
    <3>1. pc[r] \in OwnerPcs /\ gen[r] = generation BY <2>20 DEF finishConnect
    <3>2. \/ pc' = [pc EXCEPT ![r] = "startmonitor"] /\ gen' = gen
          \/ pc' = [pc EXCEPT ![r] = "idle"] /\ gen' = [gen EXCEPT ![r] = 0]
      BY <2>20, <3>1 DEF finishConnect
    <3>3. generation' = generation BY <2>20 DEF finishConnect
    <3>4. CASE pc' = [pc EXCEPT ![r] = "startmonitor"] /\ gen' = gen
      BY <3>1, <3>3, <3>4
    <3>5. CASE pc' = [pc EXCEPT ![r] = "idle"] /\ gen' = [gen EXCEPT ![r] = 0]
      BY <3>1, <3>3, <3>5
    <3> QED BY <3>2, <3>4, <3>5
  <2>21. CASE startRuntimeMonitor(r) BY <2>21 DEF startRuntimeMonitor
  <2>22. CASE runDisconnect(r) BY <2>22 DEF runDisconnect
  <2>23. CASE finishDisconnect(r) BY <2>23 DEF finishDisconnect
  <2> QED BY <1>1, <1>2, <2>1, <2>2, <2>3, <2>4, <2>5, <2>6, <2>7, <2>8, <2>9, <2>10, <2>11, <2>12, <2>13, <2>14, <2>15, <2>16, <2>17, <2>18, <2>19, <2>20, <2>21, <2>22, <2>23 DEF requestStep, Thread
<1>3. ASSUME NEW g \in Gens, monitorStep(g) PROVE Fresh'
  <2>1. CASE monitorSeesExit(g) BY <2>1 DEF monitorSeesExit
  <2>2. CASE monitorSeesCancel(g) BY <2>2 DEF monitorSeesCancel
  <2>3. CASE automaticRestoreStale(g) BY <2>3 DEF automaticRestoreStale
  <2>4. CASE automaticRestoreTakes(g) BY <2>4 DEF automaticRestoreTakes
  <2>5. CASE finishAutomaticRestore(g) BY <2>5 DEF finishAutomaticRestore
  <2>6. CASE monitorReturns(g) BY <2>6 DEF monitorReturns
  <2> QED BY <1>1, <1>3, <2>1, <2>2, <2>3, <2>4, <2>5, <2>6 DEF monitorStep, Thread
<1>4. ASSUME NEW r \in Requests, NEW o \in Ops, Request(r, o) PROVE Fresh'
  BY <1>4 DEF Request
<1>5. ASSUME NEW r \in Requests, Expire(r) PROVE Fresh'
  BY <1>5 DEF Expire
<1>6. ASSUME NEW g \in Gens, monitorSeesFailure(g) PROVE Fresh'
  BY <1>6 DEF monitorSeesFailure
<1>7. ASSUME NEW g \in Gens, CoreExits(g) PROVE Fresh'
  BY <1>7 DEF CoreExits
<1>8. ASSUME NEW g \in Gens, NEW q \in Qualities, UpdateLineQuality(g, q) PROVE Fresh'
  BY <1>8 DEF UpdateLineQuality
<1>9. CASE Crash BY <1>9 DEF Crash
<1>10. CASE UNCHANGED vars BY <1>10 DEF vars
<1> QED BY <1>2, <1>3, <1>4, <1>5, <1>6, <1>7, <1>8, <1>9, <1>10 DEF Next

\* Every step keeps Phase.
LEMMA PhaseStep ==
  ASSUME IInv, [Next]_vars PROVE Phase'
<1> USE Disjoint, MaxGenAssumption DEF IInv, TypeOK, FieldsOK, GenOK, Slot, Phase, PcsOK, RequestPcs, MonitorPcs, OwnerPcs, RestorePcs, ConnectPcs, Thread, Gens, LocalsOK, Idle, NoTransition,
        Answer, Forget, Goto, KeepMonitors, KeepController, KeepGoroutines, controller, goroutines, machine, FailWith, Reject
<1>1. ASSUME NEW t \in Thread, restoreStep(t) PROVE Phase'
  <2>1. CASE stopLifecycleMonitor(t) BY <2>1 DEF stopLifecycleMonitor
  <2>2. CASE waitMonitorDone(t) BY <2>2 DEF waitMonitorDone
  <2>3. CASE stopInstance(t) BY <2>3 DEF stopInstance
  <2>4. CASE restoreNetwork(t) BY <2>4 DEF restoreNetwork
  <2>5. CASE verifyResidue(t) BY <2>5 DEF verifyResidue
  <2> QED BY <1>1, <2>1, <2>2, <2>3, <2>4, <2>5 DEF restoreStep
<1>2. ASSUME NEW r \in Requests, requestStep(r) PROVE Phase'
  <2>1. CASE ConnectReturns(r) BY <2>1 DEF ConnectReturns
  <2>2. CASE ConnectWaits(r) BY <2>2 DEF ConnectWaits
  <2>3. CASE ConnectTakes(r) BY <2>3 DEF ConnectTakes, beginConnect
  <2>4. CASE DisconnectWaits(r) BY <2>4 DEF DisconnectWaits
  <2>5. CASE RecoverReturns(r) BY <2>5 DEF RecoverReturns
  <2>6. CASE DisconnectTakes(r) BY <2>6 DEF DisconnectTakes, beginDisconnect
  <2>7. CASE JoinedConnectReturns(r) BY <2>7 DEF JoinedConnectReturns
  <2>8. CASE TryAgain(r) BY <2>8 DEF TryAgain
  <2>9. CASE GiveUp(r) BY <2>9 DEF GiveUp
  <2>10. CASE runConnectBegin(r) BY <2>10 DEF runConnectBegin
  <2>11. CASE runConnectPrecheck(r) BY <2>11 DEF runConnectPrecheck
  <2>12. CASE Prepare(r) BY <2>12 DEF Prepare
  <2>13. CASE Capture(r) BY <2>13 DEF Capture
  <2>14. CASE EnableProtection(r) BY <2>14 DEF EnableProtection
  <2>15. CASE RenderConfig(r) BY <2>15 DEF RenderConfig
  <2>16. CASE StartCore(r) BY <2>16 DEF StartCore
  <2>17. CASE Ready(r) BY <2>17 DEF Ready
  <2>18. CASE WaitTUNReady(r) BY <2>18 DEF WaitTUNReady
  <2>19. CASE ActivateTUNRoutes(r) BY <2>19 DEF ActivateTUNRoutes
  <2>20. CASE finishConnect(r) BY <2>20 DEF finishConnect
  <2>21. CASE startRuntimeMonitor(r) BY <2>21 DEF startRuntimeMonitor
  <2>22. CASE runDisconnect(r) BY <2>22 DEF runDisconnect
  <2>23. CASE finishDisconnect(r) 
    <3>1. pc[r] \in {"restored", "unsafe"} /\ gen[r] = generation BY <2>23 DEF finishDisconnect
    <3>2. pc' = [pc EXCEPT ![r] = "idle"] /\ op' = [op EXCEPT ![r] = "Recover"] /\ transition' = NoTransition
      BY <2>23 DEF finishDisconnect
    <3>3. /\ state' = IF pc[r] = "restored" THEN "prepared" ELSE "failed_safe"
          /\ serving' = (serving \/ pc[r] = "restored")
      BY <2>23, <3>1 DEF finishDisconnect
    <3> HIDE DEF GenOK, LocalsOK
    <3>4. pc[r] = "restored" \/ pc[r] = "unsafe" BY <3>1
    <3>5. \A t \in Thread : pc'[t] \notin OwnerPcs BY <3>1, <3>2
    <3>6. \A q \in Requests : op'[q] # "Recover" => serving' BY <3>2, <3>3 DEF LocalsOK
    <3> QED BY <3>2, <3>3, <3>4, <3>5, <3>6 DEF LocalsOK
  <2> QED BY <1>1, <1>2, <2>1, <2>2, <2>3, <2>4, <2>5, <2>6, <2>7, <2>8, <2>9, <2>10, <2>11, <2>12, <2>13, <2>14, <2>15, <2>16, <2>17, <2>18, <2>19, <2>20, <2>21, <2>22, <2>23 DEF requestStep, Thread
<1>3. ASSUME NEW g \in Gens, monitorStep(g) PROVE Phase'
  <2>1. CASE monitorSeesExit(g) BY <2>1 DEF monitorSeesExit
  <2>2. CASE monitorSeesCancel(g) BY <2>2 DEF monitorSeesCancel
  <2>3. CASE automaticRestoreStale(g) BY <2>3 DEF automaticRestoreStale
  <2>4. CASE automaticRestoreTakes(g) BY <2>4 DEF automaticRestoreTakes
  <2>5. CASE finishAutomaticRestore(g) BY <2>5 DEF finishAutomaticRestore
  <2>6. CASE monitorReturns(g) BY <2>6 DEF monitorReturns
  <2> QED BY <1>1, <1>3, <2>1, <2>2, <2>3, <2>4, <2>5, <2>6 DEF monitorStep, Thread
<1>4. ASSUME NEW r \in Requests, NEW o \in Ops, Request(r, o) PROVE Phase'
  BY <1>4 DEF Request
<1>5. ASSUME NEW r \in Requests, Expire(r) PROVE Phase'
  BY <1>5 DEF Expire
<1>6. ASSUME NEW g \in Gens, monitorSeesFailure(g) PROVE Phase'
  BY <1>6 DEF monitorSeesFailure
<1>7. ASSUME NEW g \in Gens, CoreExits(g) PROVE Phase'
  BY <1>7 DEF CoreExits
<1>8. ASSUME NEW g \in Gens, NEW q \in Qualities, UpdateLineQuality(g, q) PROVE Phase'
  BY <1>8 DEF UpdateLineQuality
<1>9. CASE Crash BY <1>9 DEF Crash
<1>10. CASE UNCHANGED vars BY <1>10 DEF vars
<1> QED BY <1>2, <1>3, <1>4, <1>5, <1>6, <1>7, <1>8, <1>9, <1>10 DEF Next

\* Every step keeps Connecting.
LEMMA ConnectingStep ==
  ASSUME IInv, [Next]_vars PROVE Connecting'
<1> USE Disjoint, MaxGenAssumption DEF IInv, TypeOK, FieldsOK, GenOK, Slot, Phase, Connecting, Untouched, PcsOK, RequestPcs, MonitorPcs, OwnerPcs, RestorePcs, ConnectPcs, Thread, Gens, LocalsOK, Idle, NoTransition,
        Answer, Forget, Goto, KeepMonitors, KeepController, KeepGoroutines, controller, goroutines, machine, FailWith, Reject
<1>1. ASSUME NEW t \in Thread, restoreStep(t) PROVE Connecting'
  <2>1. CASE stopLifecycleMonitor(t) BY <2>1 DEF stopLifecycleMonitor
  <2>2. CASE waitMonitorDone(t) BY <2>2 DEF waitMonitorDone
  <2>3. CASE stopInstance(t) BY <2>3 DEF stopInstance
  <2>4. CASE restoreNetwork(t) BY <2>4 DEF restoreNetwork
  <2>5. CASE verifyResidue(t) BY <2>5 DEF verifyResidue
  <2> QED BY <1>1, <2>1, <2>2, <2>3, <2>4, <2>5 DEF restoreStep
<1>2. ASSUME NEW r \in Requests, requestStep(r) PROVE Connecting'
  <2>1. CASE ConnectReturns(r) BY <2>1 DEF ConnectReturns
  <2>2. CASE ConnectWaits(r) BY <2>2 DEF ConnectWaits
  <2>3. CASE ConnectTakes(r) 
    <3>1. state = "prepared" BY <2>3 DEF ConnectTakes, FlagsOK, States
    <3>2. ~processStarted /\ ~Owed /\ alive = {} /\ monitor = 0
      BY <2>3, <3>1 DEF ConnectTakes, AtRest, Settled
    <3> QED BY <2>3, <3>2 DEF ConnectTakes, beginConnect
  <2>4. CASE DisconnectWaits(r) BY <2>4 DEF DisconnectWaits
  <2>5. CASE RecoverReturns(r) BY <2>5 DEF RecoverReturns
  <2>6. CASE DisconnectTakes(r) BY <2>6 DEF DisconnectTakes, beginDisconnect
  <2>7. CASE JoinedConnectReturns(r) BY <2>7 DEF JoinedConnectReturns
  <2>8. CASE TryAgain(r) BY <2>8 DEF TryAgain
  <2>9. CASE GiveUp(r) BY <2>9 DEF GiveUp
  <2>10. CASE runConnectBegin(r) BY <2>10 DEF runConnectBegin
  <2>11. CASE runConnectPrecheck(r) BY <2>11 DEF runConnectPrecheck
  <2>12. CASE Prepare(r) BY <2>12 DEF Prepare
  <2>13. CASE Capture(r) BY <2>13 DEF Capture
  <2>14. CASE EnableProtection(r) BY <2>14 DEF EnableProtection
  <2>15. CASE RenderConfig(r) BY <2>15 DEF RenderConfig
  <2>16. CASE StartCore(r) BY <2>16 DEF StartCore
  <2>17. CASE Ready(r) BY <2>17 DEF Ready
  <2>18. CASE WaitTUNReady(r) BY <2>18 DEF WaitTUNReady
  <2>19. CASE ActivateTUNRoutes(r) BY <2>19 DEF ActivateTUNRoutes
  <2>20. CASE finishConnect(r) BY <2>20 DEF finishConnect
  <2>21. CASE startRuntimeMonitor(r) BY <2>21 DEF startRuntimeMonitor
  <2>22. CASE runDisconnect(r) BY <2>22 DEF runDisconnect
  <2>23. CASE finishDisconnect(r) BY <2>23 DEF finishDisconnect
  <2> QED BY <1>1, <1>2, <2>1, <2>2, <2>3, <2>4, <2>5, <2>6, <2>7, <2>8, <2>9, <2>10, <2>11, <2>12, <2>13, <2>14, <2>15, <2>16, <2>17, <2>18, <2>19, <2>20, <2>21, <2>22, <2>23 DEF requestStep, Thread
<1>3. ASSUME NEW g \in Gens, monitorStep(g) PROVE Connecting'
  <2>1. CASE monitorSeesExit(g) BY <2>1 DEF monitorSeesExit
  <2>2. CASE monitorSeesCancel(g) BY <2>2 DEF monitorSeesCancel
  <2>3. CASE automaticRestoreStale(g) BY <2>3 DEF automaticRestoreStale
  <2>4. CASE automaticRestoreTakes(g) BY <2>4 DEF automaticRestoreTakes
  <2>5. CASE finishAutomaticRestore(g) BY <2>5 DEF finishAutomaticRestore
  <2>6. CASE monitorReturns(g) BY <2>6 DEF monitorReturns
  <2> QED BY <1>1, <1>3, <2>1, <2>2, <2>3, <2>4, <2>5, <2>6 DEF monitorStep, Thread
<1>4. ASSUME NEW r \in Requests, NEW o \in Ops, Request(r, o) PROVE Connecting'
  BY <1>4 DEF Request
<1>5. ASSUME NEW r \in Requests, Expire(r) PROVE Connecting'
  BY <1>5 DEF Expire
<1>6. ASSUME NEW g \in Gens, monitorSeesFailure(g) PROVE Connecting'
  BY <1>6 DEF monitorSeesFailure
<1>7. ASSUME NEW g \in Gens, CoreExits(g) PROVE Connecting'
  BY <1>7 DEF CoreExits
<1>8. ASSUME NEW g \in Gens, NEW q \in Qualities, UpdateLineQuality(g, q) PROVE Connecting'
  BY <1>8 DEF UpdateLineQuality
<1>9. CASE Crash BY <1>9 DEF Crash
<1>10. CASE UNCHANGED vars BY <1>10 DEF vars
<1> QED BY <1>2, <1>3, <1>4, <1>5, <1>6, <1>7, <1>8, <1>9, <1>10 DEF Next

\* Every step keeps AtRest.
LEMMA AtRestStep ==
  ASSUME IInv, [Next]_vars PROVE AtRest'
<1> USE Disjoint, MaxGenAssumption DEF IInv, TypeOK, Slot, AtRest, Settled, PcsOK, RequestPcs, MonitorPcs, OwnerPcs, RestorePcs, ConnectPcs, Thread, Gens, Idle, NoTransition,
        Answer, Forget, Goto, KeepMonitors, KeepController, KeepGoroutines, controller, goroutines, machine, FailWith, Reject
<1>1. ASSUME NEW t \in Thread, restoreStep(t) PROVE AtRest'
  <2>1. CASE stopLifecycleMonitor(t) BY <2>1 DEF stopLifecycleMonitor
  <2>2. CASE waitMonitorDone(t) BY <2>2 DEF waitMonitorDone
  <2>3. CASE stopInstance(t) BY <2>3 DEF stopInstance
  <2>4. CASE restoreNetwork(t) BY <2>4 DEF restoreNetwork
  <2>5. CASE verifyResidue(t) BY <2>5 DEF verifyResidue
  <2> QED BY <1>1, <2>1, <2>2, <2>3, <2>4, <2>5 DEF restoreStep
<1>2. ASSUME NEW r \in Requests, requestStep(r) PROVE AtRest'
  <2>1. CASE ConnectReturns(r) BY <2>1 DEF ConnectReturns
  <2>2. CASE ConnectWaits(r) BY <2>2 DEF ConnectWaits
  <2>3. CASE ConnectTakes(r) BY <2>3 DEF ConnectTakes, beginConnect
  <2>4. CASE DisconnectWaits(r) BY <2>4 DEF DisconnectWaits
  <2>5. CASE RecoverReturns(r) BY <2>5 DEF RecoverReturns
  <2>6. CASE DisconnectTakes(r) BY <2>6 DEF DisconnectTakes, beginDisconnect
  <2>7. CASE JoinedConnectReturns(r) BY <2>7 DEF JoinedConnectReturns
  <2>8. CASE TryAgain(r) BY <2>8 DEF TryAgain
  <2>9. CASE GiveUp(r) BY <2>9 DEF GiveUp
  <2>10. CASE runConnectBegin(r) BY <2>10 DEF runConnectBegin
  <2>11. CASE runConnectPrecheck(r) BY <2>11 DEF runConnectPrecheck
  <2>12. CASE Prepare(r) BY <2>12 DEF Prepare
  <2>13. CASE Capture(r) BY <2>13 DEF Capture
  <2>14. CASE EnableProtection(r) BY <2>14 DEF EnableProtection
  <2>15. CASE RenderConfig(r) BY <2>15 DEF RenderConfig
  <2>16. CASE StartCore(r) BY <2>16 DEF StartCore
  <2>17. CASE Ready(r) BY <2>17 DEF Ready
  <2>18. CASE WaitTUNReady(r) BY <2>18 DEF WaitTUNReady
  <2>19. CASE ActivateTUNRoutes(r) BY <2>19 DEF ActivateTUNRoutes
  <2>20. CASE finishConnect(r) 
    <3>1. /\ op[r] = "Connect" /\ gen[r] = generation /\ pc' = [pc EXCEPT ![r] = pc'[r]]
          /\ pc[r] \in {"connected", "rejected", "restored", "unsafe"}
          /\ pc'[r] \in {"idle", "startmonitor"} /\ UNCHANGED <<alive, net, platform>>
      BY <2>20 DEF finishConnect
    <3>2. \A q \in Requests : pc'[q] # "read" BY <3>1
    <3>3. CASE pc[r] = "connected"
      <4>1. /\ state' = "connected" /\ processStarted' /\ hasSnapshot' /\ monitor' = gen[r]
            /\ processInstance' = gen[r]
        BY <2>20, <3>1, <3>3 DEF finishConnect
      <4> QED BY <3>1, <3>2, <3>3, <4>1 DEF Connecting
    <3>4. CASE pc[r] = "unsafe"
      <4>1. /\ state' = "failed_safe" /\ monitor' = monitor /\ processInstance' = args[r].instance
            /\ (reconciled' <=> reconciled) /\ (hasSnapshot' <=> args[r].has)
            /\ (processStarted' <=> args[r].started /\ args[r].instance # 0)
        BY <2>20, <3>1, <3>4 DEF finishConnect
      <4>2. /\ monitor = 0 /\ alive \subseteq {args[r].instance} /\ (alive # {} => args[r].started)
            /\ (Owed /\ ~args[r].has => ~reconciled) /\ (0 \notin alive)
        BY <3>1, <3>4 DEF Restoring, SetsOK
      <4> QED BY <3>1, <3>2, <4>1, <4>2
    <3>5. CASE pc[r] \in {"rejected", "restored"}
      <4>1. state' = "prepared" /\ monitor' = monitor /\ ~processStarted' /\ ~hasSnapshot'
        BY <2>20, <3>1, <3>5 DEF finishConnect
      <4>2. monitor = 0 /\ alive = {} /\ ~Owed
        BY <3>1, <3>5 DEF Restoring, Connecting, Untouched
      <4> QED BY <3>1, <3>2, <4>1, <4>2
    <3> QED BY <3>1, <3>3, <3>4, <3>5
  <2>21. CASE startRuntimeMonitor(r) BY <2>21 DEF startRuntimeMonitor
  <2>22. CASE runDisconnect(r) BY <2>22 DEF runDisconnect
  <2>23. CASE finishDisconnect(r) 
    <3>1. /\ op[r] # "Connect" /\ gen[r] = generation /\ pc' = [pc EXCEPT ![r] = "idle"]
          /\ pc[r] \in {"restored", "unsafe"} /\ UNCHANGED <<alive, net, monitor, platform>>
      BY <2>23 DEF finishDisconnect
    <3>2. \A q \in Requests : pc'[q] # "read" BY <3>1
    <3>3. CASE pc[r] = "restored"
      <4>1. state' = "prepared" /\ ~processStarted' /\ ~hasSnapshot'
        BY <2>23, <3>1, <3>3 DEF finishDisconnect
      <4>2. monitor = 0 /\ alive = {} /\ ~Owed BY <3>1, <3>3 DEF Restoring
      <4> QED BY <3>1, <3>2, <4>1, <4>2
    <3>4. CASE pc[r] = "unsafe"
      <4>1. /\ state' = "failed_safe"
            /\ UNCHANGED <<processStarted, hasSnapshot, processInstance, reconciled>>
        BY <2>23, <3>1, <3>4 DEF finishDisconnect
      <4>2. /\ monitor = 0 /\ alive \subseteq {processInstance} /\ (alive # {} => processStarted)
            /\ (Owed /\ ~hasSnapshot => ~reconciled)
        BY <3>1, <3>4 DEF Restoring
      <4> QED BY <3>1, <3>2, <4>1, <4>2
    <3> QED BY <3>1, <3>3, <3>4
  <2> QED BY <1>1, <1>2, <2>1, <2>2, <2>3, <2>4, <2>5, <2>6, <2>7, <2>8, <2>9, <2>10, <2>11, <2>12, <2>13, <2>14, <2>15, <2>16, <2>17, <2>18, <2>19, <2>20, <2>21, <2>22, <2>23 DEF requestStep, Thread
<1>3. ASSUME NEW g \in Gens, monitorStep(g) PROVE AtRest'
  <2>1. CASE monitorSeesExit(g) BY <2>1 DEF monitorSeesExit
  <2>2. CASE monitorSeesCancel(g) BY <2>2 DEF monitorSeesCancel
  <2>3. CASE automaticRestoreStale(g) BY <2>3 DEF automaticRestoreStale
  <2>4. CASE automaticRestoreTakes(g) BY <2>4 DEF automaticRestoreTakes
  <2>5. CASE finishAutomaticRestore(g) 
    <3>1. /\ generation = g /\ pc' = [pc EXCEPT ![g] = "closing"]
          /\ pc[g] \in {"restored", "unsafe"} /\ UNCHANGED <<alive, net, monitor, platform>>
      BY <2>5 DEF finishAutomaticRestore
    <3>2. \A q \in Requests : pc'[q] # "read" BY <3>1
    <3>3. CASE pc[g] = "restored"
      <4>1. state' = "prepared" /\ ~processStarted' /\ ~hasSnapshot'
        BY <2>5, <3>1, <3>3 DEF finishAutomaticRestore
      <4>2. monitor = 0 /\ alive = {} /\ ~Owed BY <3>1, <3>3 DEF Restoring
      <4> QED BY <3>1, <3>2, <4>1, <4>2
    <3>4. CASE pc[g] = "unsafe"
      <4>1. /\ state' = "failed_safe"
            /\ UNCHANGED <<processStarted, hasSnapshot, processInstance, reconciled>>
        BY <2>5, <3>1, <3>4 DEF finishAutomaticRestore
      <4>2. /\ monitor = 0 /\ alive \subseteq {processInstance} /\ (alive # {} => processStarted)
            /\ (Owed /\ ~hasSnapshot => ~reconciled)
        BY <3>1, <3>4 DEF Restoring
      <4> QED BY <3>1, <3>2, <4>1, <4>2
    <3> QED BY <3>1, <3>3, <3>4
  <2>6. CASE monitorReturns(g) BY <2>6 DEF monitorReturns
  <2> QED BY <1>1, <1>3, <2>1, <2>2, <2>3, <2>4, <2>5, <2>6 DEF monitorStep, Thread
<1>4. ASSUME NEW r \in Requests, NEW o \in Ops, Request(r, o) PROVE AtRest'
  BY <1>4 DEF Request
<1>5. ASSUME NEW r \in Requests, Expire(r) PROVE AtRest'
  BY <1>5 DEF Expire
<1>6. ASSUME NEW g \in Gens, monitorSeesFailure(g) PROVE AtRest'
  BY <1>6 DEF monitorSeesFailure
<1>7. ASSUME NEW g \in Gens, CoreExits(g) PROVE AtRest'
  BY <1>7 DEF CoreExits
<1>8. ASSUME NEW g \in Gens, NEW q \in Qualities, UpdateLineQuality(g, q) PROVE AtRest'
  BY <1>8 DEF UpdateLineQuality
<1>9. CASE Crash BY <1>9 DEF Crash
<1>10. CASE UNCHANGED vars BY <1>10 DEF vars
<1> QED BY <1>2, <1>3, <1>4, <1>5, <1>6, <1>7, <1>8, <1>9, <1>10 DEF Next

\* A Connect that fails hands restoreTransaction what may exist by then.
LEMMA FailRestoring ==
  ASSUME IInv, NEW r \in Requests, pc[r] \in ConnectPcs, NEW s, NEW i, NEW h, NEW c,
         FailWith(r, s, i, h, c), UNCHANGED <<op, monitor, reconciled>>,
         alive' \subseteq {i}, alive' # {} => s,
         Owed' /\ ~h => ~reconciled
  PROVE  Restoring'
<1> USE Disjoint DEF IInv, TypeOK, PcsOK, Thread, Gens
<1>1. pc' = [pc EXCEPT ![r] = "stopmonitor"] BY DEF FailWith, Goto
<1>2. \A t \in Thread : pc'[t] \in RestorePcs => t = r
  BY <1>1 DEF Slot, OwnerPcs
<1>3. args'[r].started = s /\ args'[r].instance = i /\ args'[r].has = h
  BY DEF FailWith, ArgsOK
<1>4. op'[r] = "Connect" /\ monitor' = 0 /\ r \notin Gens BY DEF Phase, Connecting
<1>5. pc'[r] = "stopmonitor" BY <1>1
<1> HIDE DEF IInv, TypeOK, PcsOK
<1> QED BY <1>2, <1>3, <1>4, <1>5 DEF Restoring

\* Every step keeps Restoring.
LEMMA RestoringStep ==
  ASSUME IInv, [Next]_vars PROVE Restoring'
<1> USE Disjoint, MaxGenAssumption DEF IInv, TypeOK, Slot, Restoring, PcsOK, RequestPcs, MonitorPcs, OwnerPcs, RestorePcs, ConnectPcs, Thread, Gens, LocalsOK, ArgsOK, ArgsSet, Idle, NoTransition,
        Answer, Forget, Goto, KeepMonitors, KeepController, KeepGoroutines, controller, goroutines, machine
<1>1. ASSUME NEW t \in Thread, restoreStep(t) PROVE Restoring'
  <2>1. CASE stopLifecycleMonitor(t) BY <2>1 DEF stopLifecycleMonitor
  <2>2. CASE waitMonitorDone(t) BY <2>2 DEF waitMonitorDone
  <2>3. CASE stopInstance(t) 
    <3>1. pc[t] = "stopcore" /\ UNCHANGED <<args, op, net, monitor, reconciled, processStarted, processInstance, hasSnapshot, platform>>
      BY <2>3 DEF stopInstance
    <3>2. \/ pc' = [pc EXCEPT ![t] = "unsafe"] /\ alive' = alive
          \/ pc' = [pc EXCEPT ![t] = "restore"] /\ alive' = {}
      <4>1. args[t].instance = 0 => alive = {} BY <3>1 DEF SetsOK
      <4>2. ~args[t].started => alive = {} BY <3>1
      <4> QED BY <2>3, <3>1, <4>1, <4>2 DEF stopInstance
    <3> QED BY <3>1, <3>2
  <2>4. CASE restoreNetwork(t) BY <2>4 DEF restoreNetwork
  <2>5. CASE verifyResidue(t) BY <2>5 DEF verifyResidue
  <2> QED BY <1>1, <2>1, <2>2, <2>3, <2>4, <2>5 DEF restoreStep
<1>2. ASSUME NEW r \in Requests, requestStep(r) PROVE Restoring'
  <2>1. CASE ConnectReturns(r) BY <2>1 DEF ConnectReturns
  <2>2. CASE ConnectWaits(r) BY <2>2 DEF ConnectWaits
  <2>3. CASE ConnectTakes(r) BY <2>3 DEF ConnectTakes, beginConnect
  <2>4. CASE DisconnectWaits(r) BY <2>4 DEF DisconnectWaits
  <2>5. CASE RecoverReturns(r) BY <2>5 DEF RecoverReturns
  <2>6. CASE DisconnectTakes(r) BY <2>6 DEF DisconnectTakes, beginDisconnect
  <2>7. CASE JoinedConnectReturns(r) BY <2>7 DEF JoinedConnectReturns
  <2>8. CASE TryAgain(r) BY <2>8 DEF TryAgain
  <2>9. CASE GiveUp(r) BY <2>9 DEF GiveUp
  <2>10. CASE runConnectBegin(r) BY <2>10 DEF runConnectBegin, Reject
  <2>11. CASE runConnectPrecheck(r) 
    <3>1. pc[r] = "precheck" BY <2>11 DEF runConnectPrecheck
    <3>2. ~processStarted BY <3>1 DEF Connecting
    <3> QED BY <2>11, <3>1, <3>2 DEF runConnectPrecheck, Reject
  <2>12. CASE Prepare(r) 
    <3>1. pc[r] = "prepare" BY <2>12 DEF Prepare
    <3>2. alive = {} /\ ~Owed BY <3>1 DEF Connecting, Untouched
    <3>3. CASE pc' = [pc EXCEPT ![r] = "capture"] BY <3>1, <3>3
    <3> QED BY <2>12, <3>1, <3>2, <3>3, FailRestoring DEF Prepare
  <2>13. CASE Capture(r) 
    <3>1. pc[r] = "capture" BY <2>13 DEF Capture
    <3>2. alive = {} /\ ~Owed BY <3>1 DEF Connecting, Untouched
    <3>3. CASE pc' = [pc EXCEPT ![r] = "protect"] BY <3>1, <3>3
    <3> QED BY <2>13, <3>1, <3>2, <3>3, FailRestoring DEF Capture
  <2>14. CASE EnableProtection(r) 
    <3>1. pc[r] = "protect" BY <2>14 DEF EnableProtection
    <3>2. alive = {} BY <3>1 DEF Connecting, Untouched
    <3>3. CASE pc' = [pc EXCEPT ![r] = "render"] BY <3>1, <3>3
    <3> QED BY <2>14, <3>1, <3>2, <3>3, FailRestoring DEF EnableProtection
  <2>15. CASE RenderConfig(r) 
    <3>1. pc[r] = "render" BY <2>15 DEF RenderConfig
    <3>2. alive = {} BY <3>1 DEF Connecting, Untouched
    <3>3. CASE pc' = [pc EXCEPT ![r] = "start"] BY <3>1, <3>3
    <3> QED BY <2>15, <3>1, <3>2, <3>3, FailRestoring DEF RenderConfig
  <2>16. CASE StartCore(r) 
    <3>1. pc[r] = "start" BY <2>16 DEF StartCore
    <3>2. alive = {} BY <3>1 DEF Connecting, Untouched
    <3>3. CASE pc' = [pc EXCEPT ![r] = "ready"] BY <3>1, <3>3
    <3> QED BY <2>16, <3>1, <3>2, <3>3, FailRestoring DEF StartCore
  <2>17. CASE Ready(r) 
    <3>1. pc[r] = "ready" BY <2>17 DEF Ready
    <3>2. alive \subseteq {gen[r]} BY <3>1 DEF Connecting, Untouched
    <3>3. CASE pc' = [pc EXCEPT ![r] = "tun"] BY <3>1, <3>3
    <3> QED BY <2>17, <3>1, <3>2, <3>3, FailRestoring DEF Ready
  <2>18. CASE WaitTUNReady(r) 
    <3>1. pc[r] = "tun" BY <2>18 DEF WaitTUNReady
    <3>2. alive \subseteq {gen[r]} BY <3>1 DEF Connecting, Untouched
    <3>3. CASE pc' = [pc EXCEPT ![r] = "routes"] BY <3>1, <3>3
    <3> QED BY <2>18, <3>1, <3>2, <3>3, FailRestoring DEF WaitTUNReady
  <2>19. CASE ActivateTUNRoutes(r) 
    <3>1. pc[r] = "routes" BY <2>19 DEF ActivateTUNRoutes
    <3>2. alive \subseteq {gen[r]} BY <3>1 DEF Connecting, Untouched
    <3>3. CASE pc' = [pc EXCEPT ![r] = "connected"] BY <3>1, <3>3
    <3> QED BY <2>19, <3>1, <3>2, <3>3, FailRestoring DEF ActivateTUNRoutes
  <2>20. CASE finishConnect(r) BY <2>20 DEF finishConnect
  <2>21. CASE startRuntimeMonitor(r) BY <2>21 DEF startRuntimeMonitor
  <2>22. CASE runDisconnect(r) 
    <3>1. pc[r] = "read" /\ op[r] # "Connect" /\ Settled BY <2>22 DEF runDisconnect, Phase, AtRest
    <3>2. UNCHANGED <<op, alive, net, monitor, reconciled, processStarted, processInstance, hasSnapshot, platform>>
      BY <2>22 DEF runDisconnect
    <3>3. CASE pc' = [pc EXCEPT ![r] = "restored"] /\ ~hasSnapshot /\ ~processStarted /\ reconciled
      <4>1. alive = {} /\ ~Owed /\ monitor = 0 BY <3>1, <3>3 DEF Settled
      <4> QED BY <3>1, <3>2, <3>3, <4>1
    <3>4. CASE /\ pc' = [pc EXCEPT ![r] = "stopmonitor"]
               /\ args' = [args EXCEPT ![r] = [started |-> processStarted,
                     instance |-> processInstance, has |-> hasSnapshot, code |-> "none"]]
      <4>1. args'[r].started = processStarted /\ args'[r].instance = processInstance /\ args'[r].has = hasSnapshot
        BY <3>4
      <4> QED BY <3>1, <3>2, <3>4, <4>1 DEF Settled
    <3> QED BY <2>22, <3>1, <3>3, <3>4 DEF runDisconnect
  <2>23. CASE finishDisconnect(r) BY <2>23 DEF finishDisconnect
  <2> QED BY <1>1, <1>2, <2>1, <2>2, <2>3, <2>4, <2>5, <2>6, <2>7, <2>8, <2>9, <2>10, <2>11, <2>12, <2>13, <2>14, <2>15, <2>16, <2>17, <2>18, <2>19, <2>20, <2>21, <2>22, <2>23 DEF requestStep, Thread
<1>3. ASSUME NEW g \in Gens, monitorStep(g) PROVE Restoring'
  <2>1. CASE monitorSeesExit(g) BY <2>1 DEF monitorSeesExit
  <2>2. CASE monitorSeesCancel(g) BY <2>2 DEF monitorSeesCancel
  <2>3. CASE automaticRestoreStale(g) BY <2>3 DEF automaticRestoreStale
  <2>4. CASE automaticRestoreTakes(g) 
    <3>1. pc[g] = "auto" /\ Settled BY <2>4 DEF automaticRestoreTakes, AtRest
    <3>2. /\ pc' = [pc EXCEPT ![g] = "stopmonitor"] /\ monitor' = 0
          /\ UNCHANGED <<op, alive, net, reconciled, processStarted, processInstance, hasSnapshot, platform>>
      BY <2>4 DEF automaticRestoreTakes
    <3>3. args'[g].started = processStarted /\ args'[g].instance = processInstance /\ args'[g].has = hasSnapshot
      BY <2>4 DEF automaticRestoreTakes
    <3>4. \A t \in Thread : pc'[t] \in RestorePcs => t = g BY <2>4, <3>2 DEF automaticRestoreTakes
    <3> QED BY <3>1, <3>2, <3>3, <3>4 DEF Settled
  <2>5. CASE finishAutomaticRestore(g) BY <2>5 DEF finishAutomaticRestore
  <2>6. CASE monitorReturns(g) BY <2>6 DEF monitorReturns
  <2> QED BY <1>1, <1>3, <2>1, <2>2, <2>3, <2>4, <2>5, <2>6 DEF monitorStep, Thread
<1>4. ASSUME NEW r \in Requests, NEW o \in Ops, Request(r, o) PROVE Restoring'
  BY <1>4 DEF Request
<1>5. ASSUME NEW r \in Requests, Expire(r) PROVE Restoring'
  BY <1>5 DEF Expire
<1>6. ASSUME NEW g \in Gens, monitorSeesFailure(g) PROVE Restoring'
  BY <1>6 DEF monitorSeesFailure
<1>7. ASSUME NEW g \in Gens, CoreExits(g) PROVE Restoring'
  BY <1>7 DEF CoreExits
<1>8. ASSUME NEW g \in Gens, NEW q \in Qualities, UpdateLineQuality(g, q) PROVE Restoring'
  BY <1>8 DEF UpdateLineQuality
<1>9. CASE Crash BY <1>9 DEF Crash
<1>10. CASE UNCHANGED vars BY <1>10 DEF vars
<1> QED BY <1>2, <1>3, <1>4, <1>5, <1>6, <1>7, <1>8, <1>9, <1>10 DEF Next

\* IInv holds in every reachable state.
LEMMA Inductive == Spec => []IInv
<1>1. Init => IInv
  <2> SUFFICES ASSUME Init PROVE IInv OBVIOUS
  <2>1. TypeOK /\ GenOK BY InitType
  <2>2. \A t \in Thread : pc[t] \in {"idle", "off"} BY DEF Init
  <2>3. Slot /\ Connecting /\ Restoring
    BY <2>2, Disjoint DEF Init, NewController, Slot, Connecting, Restoring, OwnerPcs, RestorePcs, ConnectPcs, Thread
  <2>4. Fresh BY <2>2, Disjoint DEF Init, Fresh, OwnerPcs, RestorePcs, ConnectPcs, Thread, Gens
  <2>5. Phase BY <2>2 DEF Init, NewController, Phase, OwnerPcs, RestorePcs, ConnectPcs, Thread
  <2>6. AtRest BY <2>2 DEF Init, NewController, AtRest, Settled, Thread
  <2> QED BY <2>1, <2>3, <2>4, <2>5, <2>6 DEF IInv
<1>2. IInv /\ [Next]_vars => IInv'
  <2> SUFFICES ASSUME IInv, [Next]_vars PROVE IInv' OBVIOUS
  <2>1. TypeOK' /\ GenOK'
    BY FieldsStep, FlagsStep, PcsStep, LocalsStep, ArgsStep, SetsStep, GenStep DEF IInv, TypeOK
  <2> QED BY <2>1, SlotStep, FreshStep, PhaseStep, AtRestStep, ConnectingStep, RestoringStep DEF IInv
<1> QED BY <1>1, <1>2, PTL DEF Spec

-----------------------------------------------------------------------------
(* Safety *)

\* The transition slot is exclusive: at most one goroutine is inside a
\* transition, and one is exactly while c.transition is set.
THEOREM ExclusiveTransition == Spec => []OneOwner
<1>1. IInv => OneOwner
  <2> SUFFICES ASSUME IInv PROVE OneOwner OBVIOUS
  <2>1. Idle \/ transition.owner \in Thread BY DEF IInv, TypeOK, FieldsOK, Transitions, Idle
  <2> QED BY <2>1 DEF IInv, Slot, OneOwner, Idle
<1> QED BY <1>1, Inductive, PTL

\* A machine reported prepared, or not yet used by this process, has no core,
\* no owned process, snapshot or monitor, and on macOS a prepared one no product
\* protection, routes or DNS.
THEOREM PreparedIsReleased == Spec => []ReleasedOwnsNothing
<1>1. IInv => ReleasedOwnsNothing
  BY DEF IInv, AtRest, Settled, ReleasedOwnsNothing
<1> QED BY <1>1, Inductive, PTL

\* At most one core runs, and outside a transition the controller can stop it.
THEOREM OneOwnedCore == Spec => []CoreIsOwned
<1>1. IInv => CoreIsOwned
  <2> SUFFICES ASSUME IInv PROVE CoreIsOwned OBVIOUS
  <2>1. CASE Idle BY <2>1 DEF IInv, AtRest, Settled, CoreIsOwned
  <2>2. CASE ~Idle
    <3>1. transition.owner \in Thread /\ pc[transition.owner] \in OwnerPcs
      BY <2>2 DEF IInv, TypeOK, FieldsOK, Transitions, Idle, Slot
    <3> DEFINE t == transition.owner
    <3>2. CASE pc[t] \in RestorePcs BY <2>2, <3>1, <3>2 DEF IInv, Restoring, CoreIsOwned
    <3>3. CASE pc[t] \in ConnectPcs \cup {"read"}
      <4>1. t \in Requests
        BY <3>1, <3>3 DEF IInv, TypeOK, PcsOK, MonitorPcs, RestorePcs, ConnectPcs, Thread
      <4> QED BY <2>2, <3>3, <4>1 DEF IInv, Connecting, AtRest, Settled, CoreIsOwned
    <3> QED BY <3>1, <3>2, <3>3 DEF OwnerPcs
  <2> QED BY <2>1, <2>2
<1> QED BY <1>1, Inductive, PTL

\* One step of RestoredOnlyWithoutCore.
TakesBackSafely == net # "clean" /\ net' = "clean" => alive = {}

\* Only restoreTransaction takes product network state back, after the core is gone.
LEMMA TakeBackStep ==
  ASSUME IInv, [Next]_vars PROVE TakesBackSafely
<1> USE DEF TakesBackSafely,
        Answer, Forget, Goto, KeepMonitors, KeepController, KeepGoroutines, controller, goroutines, machine
<1>1. ASSUME NEW t \in Thread, restoreStep(t) PROVE TakesBackSafely
  <2>1. CASE stopLifecycleMonitor(t) BY <2>1 DEF stopLifecycleMonitor
  <2>2. CASE waitMonitorDone(t) BY <2>2 DEF waitMonitorDone
  <2>3. CASE stopInstance(t) BY <2>3 DEF stopInstance
  <2>4. CASE restoreNetwork(t) BY <2>4, <1>1 DEF restoreNetwork, IInv, Restoring, RestorePcs
  <2>5. CASE verifyResidue(t) BY <2>5 DEF verifyResidue
  <2> QED BY <1>1, <2>1, <2>2, <2>3, <2>4, <2>5 DEF restoreStep
<1>2. ASSUME NEW r \in Requests, requestStep(r) PROVE TakesBackSafely
  <2>1. CASE ConnectReturns(r) BY <2>1 DEF ConnectReturns
  <2>2. CASE ConnectWaits(r) BY <2>2 DEF ConnectWaits
  <2>3. CASE ConnectTakes(r) BY <2>3 DEF ConnectTakes, beginConnect
  <2>4. CASE DisconnectWaits(r) BY <2>4 DEF DisconnectWaits
  <2>5. CASE RecoverReturns(r) BY <2>5 DEF RecoverReturns
  <2>6. CASE DisconnectTakes(r) BY <2>6 DEF DisconnectTakes, beginDisconnect
  <2>7. CASE JoinedConnectReturns(r) BY <2>7 DEF JoinedConnectReturns
  <2>8. CASE TryAgain(r) BY <2>8 DEF TryAgain
  <2>9. CASE GiveUp(r) BY <2>9 DEF GiveUp
  <2>10. CASE runConnectBegin(r) BY <2>10 DEF runConnectBegin
  <2>11. CASE runConnectPrecheck(r) BY <2>11 DEF runConnectPrecheck
  <2>12. CASE Prepare(r) BY <2>12 DEF Prepare
  <2>13. CASE Capture(r) BY <2>13 DEF Capture
  <2>14. CASE EnableProtection(r) BY <2>14 DEF EnableProtection
  <2>15. CASE RenderConfig(r) BY <2>15 DEF RenderConfig
  <2>16. CASE StartCore(r) BY <2>16 DEF StartCore
  <2>17. CASE Ready(r) BY <2>17 DEF Ready
  <2>18. CASE WaitTUNReady(r) BY <2>18 DEF WaitTUNReady
  <2>19. CASE ActivateTUNRoutes(r) BY <2>19 DEF ActivateTUNRoutes
  <2>20. CASE finishConnect(r) BY <2>20 DEF finishConnect
  <2>21. CASE startRuntimeMonitor(r) BY <2>21 DEF startRuntimeMonitor
  <2>22. CASE runDisconnect(r) BY <2>22 DEF runDisconnect
  <2>23. CASE finishDisconnect(r) BY <2>23 DEF finishDisconnect
  <2> QED BY <1>1, <1>2, <2>1, <2>2, <2>3, <2>4, <2>5, <2>6, <2>7, <2>8, <2>9, <2>10, <2>11, <2>12, <2>13, <2>14, <2>15, <2>16, <2>17, <2>18, <2>19, <2>20, <2>21, <2>22, <2>23 DEF requestStep, Thread
<1>3. ASSUME NEW g \in Gens, monitorStep(g) PROVE TakesBackSafely
  <2>1. CASE monitorSeesExit(g) BY <2>1 DEF monitorSeesExit
  <2>2. CASE monitorSeesCancel(g) BY <2>2 DEF monitorSeesCancel
  <2>3. CASE automaticRestoreStale(g) BY <2>3 DEF automaticRestoreStale
  <2>4. CASE automaticRestoreTakes(g) BY <2>4 DEF automaticRestoreTakes
  <2>5. CASE finishAutomaticRestore(g) BY <2>5 DEF finishAutomaticRestore
  <2>6. CASE monitorReturns(g) BY <2>6 DEF monitorReturns
  <2> QED BY <1>1, <1>3, <2>1, <2>2, <2>3, <2>4, <2>5, <2>6 DEF monitorStep, Thread
<1>4. ASSUME NEW r \in Requests, NEW o \in Ops, Request(r, o) PROVE TakesBackSafely
  BY <1>4 DEF Request
<1>5. ASSUME NEW r \in Requests, Expire(r) PROVE TakesBackSafely
  BY <1>5 DEF Expire
<1>6. ASSUME NEW g \in Gens, monitorSeesFailure(g) PROVE TakesBackSafely
  BY <1>6 DEF monitorSeesFailure
<1>7. ASSUME NEW g \in Gens, CoreExits(g) PROVE TakesBackSafely
  BY <1>7 DEF CoreExits
<1>8. ASSUME NEW g \in Gens, NEW q \in Qualities, UpdateLineQuality(g, q) PROVE TakesBackSafely
  BY <1>8 DEF UpdateLineQuality
<1>9. CASE Crash BY <1>9 DEF Crash
<1>10. CASE UNCHANGED vars BY <1>10 DEF vars
<1> QED BY <1>2, <1>3, <1>4, <1>5, <1>6, <1>7, <1>8, <1>9, <1>10 DEF Next

\* Product network state is taken back only when no core process is left.
THEOREM NoRestoreBesideCore == Spec => RestoredOnlyWithoutCore
<1>1. IInv /\ [Next]_vars => [TakesBackSafely]_vars BY TakeBackStep
<1> QED BY <1>1, Inductive, PTL DEF Spec, RestoredOnlyWithoutCore, TakesBackSafely

-----------------------------------------------------------------------------
(* Somebody watches a connected machine *)

\* A monitor is cancelled only by the transition that ends its generation.
Uncanceled ==
  /\ \A g \in monitorCanceled : g <= generation
  /\ monitor <= generation
  /\ \A r \in Requests : pc[r] \in ConnectPcs => gen[r] \notin monitorCanceled
  /\ Idle /\ state = "connected" => generation \in Gens \ monitorCanceled

\* A Connect about to commit has switched the network.
Connects == \A r \in Requests : pc[r] = "connected" => net = "altered"

Guarded == Connects /\ ConnectedIsGuarded

\* Every step keeps Uncanceled.
LEMMA UncanceledStep ==
  ASSUME IInv, Uncanceled, [Next]_vars PROVE Uncanceled'
<1> USE Disjoint, MaxGenAssumption DEF IInv, TypeOK, Slot, Uncanceled, FieldsOK, PcsOK, SetsOK, RequestPcs, MonitorPcs, OwnerPcs, RestorePcs, ConnectPcs, Thread, Gens, LocalsOK, Idle, NoTransition,
        Answer, Forget, Goto, KeepMonitors, KeepController, KeepGoroutines, FailWith, Reject, controller, goroutines, machine
<1>1. ASSUME NEW t \in Thread, restoreStep(t) PROVE Uncanceled'
  <2>1. CASE stopLifecycleMonitor(t)
    <3>1. /\ pc[t] = "stopmonitor" /\ pc' = [pc EXCEPT ![t] = pc'[t]]
          /\ pc'[t] \in {"stopcore", "waitmonitor"} /\ monitor' = 0
          /\ UNCHANGED <<state, generation, transition, gen>>
      BY <2>1 DEF stopLifecycleMonitor
    <3>2. monitorCanceled' \subseteq monitorCanceled \cup {monitor}
      BY <2>1 DEF stopLifecycleMonitor
    <3>3. transition.owner = t /\ t # 0 BY <1>1, <3>1
    <3>4. \A r \in Requests : pc'[r] \notin ConnectPcs BY <1>1, <3>1, <3>3
    <3>5. \A g \in monitorCanceled' : g <= generation BY <3>2
    <3>6. 0 <= generation OBVIOUS
    <3> QED BY <3>1, <3>3, <3>4, <3>5, <3>6
  <2>2. CASE waitMonitorDone(t) BY <2>2 DEF waitMonitorDone
  <2>3. CASE stopInstance(t) BY <2>3 DEF stopInstance
  <2>4. CASE restoreNetwork(t) BY <2>4 DEF restoreNetwork
  <2>5. CASE verifyResidue(t) BY <2>5 DEF verifyResidue
  <2> QED BY <1>1, <2>1, <2>2, <2>3, <2>4, <2>5 DEF restoreStep
<1>2. ASSUME NEW r \in Requests, requestStep(r) PROVE Uncanceled'
  <2>1. CASE ConnectReturns(r) BY <2>1 DEF ConnectReturns
  <2>2. CASE ConnectWaits(r) BY <2>2 DEF ConnectWaits
  <2>3. CASE ConnectTakes(r) BY <2>3 DEF ConnectTakes, beginConnect
  <2>4. CASE DisconnectWaits(r) BY <2>4 DEF DisconnectWaits
  <2>5. CASE RecoverReturns(r) BY <2>5 DEF RecoverReturns
  <2>6. CASE DisconnectTakes(r) BY <2>6 DEF DisconnectTakes, beginDisconnect
  <2>7. CASE JoinedConnectReturns(r) BY <2>7 DEF JoinedConnectReturns
  <2>8. CASE TryAgain(r) BY <2>8 DEF TryAgain
  <2>9. CASE GiveUp(r) BY <2>9 DEF GiveUp
  <2>10. CASE runConnectBegin(r) BY <2>10 DEF runConnectBegin
  <2>11. CASE runConnectPrecheck(r) BY <2>11 DEF runConnectPrecheck
  <2>12. CASE Prepare(r) BY <2>12 DEF Prepare
  <2>13. CASE Capture(r) BY <2>13 DEF Capture
  <2>14. CASE EnableProtection(r) BY <2>14 DEF EnableProtection
  <2>15. CASE RenderConfig(r) BY <2>15 DEF RenderConfig
  <2>16. CASE StartCore(r) BY <2>16 DEF StartCore
  <2>17. CASE Ready(r) BY <2>17 DEF Ready
  <2>18. CASE WaitTUNReady(r) BY <2>18 DEF WaitTUNReady
  <2>19. CASE ActivateTUNRoutes(r) BY <2>19 DEF ActivateTUNRoutes
  <2>20. CASE finishConnect(r)
    <3>1. /\ gen[r] = generation /\ pc' = [pc EXCEPT ![r] = pc'[r]]
          /\ pc[r] \in {"connected", "rejected", "restored", "unsafe"}
          /\ pc'[r] \in {"idle", "startmonitor"}
          /\ UNCHANGED <<generation, monitorCanceled>>
      BY <2>20 DEF finishConnect
    <3>2. \A q \in Requests : pc'[q] \notin ConnectPcs BY <1>2, <3>1
    <3>3. monitor' \in {monitor, generation} BY <2>20, <3>1 DEF finishConnect
    <3>4. state' = "connected" => pc[r] = "connected" BY <2>20, <3>1 DEF finishConnect
    <3>5. generation \in Gens BY <1>2, <3>1 DEF GenOK
    <3> QED BY <3>1, <3>2, <3>3, <3>4, <3>5
  <2>21. CASE startRuntimeMonitor(r) BY <2>21 DEF startRuntimeMonitor
  <2>22. CASE runDisconnect(r) BY <2>22 DEF runDisconnect
  <2>23. CASE finishDisconnect(r) BY <2>23 DEF finishDisconnect
  <2> QED BY <1>1, <1>2, <2>1, <2>2, <2>3, <2>4, <2>5, <2>6, <2>7, <2>8, <2>9, <2>10, <2>11, <2>12, <2>13, <2>14, <2>15, <2>16, <2>17, <2>18, <2>19, <2>20, <2>21, <2>22, <2>23 DEF requestStep, Thread
<1>3. ASSUME NEW g \in Gens, monitorStep(g) PROVE Uncanceled'
  <2>1. CASE monitorSeesExit(g) BY <2>1 DEF monitorSeesExit
  <2>2. CASE monitorSeesCancel(g) BY <2>2 DEF monitorSeesCancel
  <2>3. CASE automaticRestoreStale(g) BY <2>3 DEF automaticRestoreStale
  <2>4. CASE automaticRestoreTakes(g) BY <2>4 DEF automaticRestoreTakes
  <2>5. CASE finishAutomaticRestore(g) BY <2>5 DEF finishAutomaticRestore
  <2>6. CASE monitorReturns(g) BY <2>6 DEF monitorReturns
  <2> QED BY <1>1, <1>3, <2>1, <2>2, <2>3, <2>4, <2>5, <2>6 DEF monitorStep, Thread
<1>4. ASSUME NEW r \in Requests, NEW o \in Ops, Request(r, o) PROVE Uncanceled'
  BY <1>4 DEF Request
<1>5. ASSUME NEW r \in Requests, Expire(r) PROVE Uncanceled'
  BY <1>5 DEF Expire
<1>6. ASSUME NEW g \in Gens, monitorSeesFailure(g) PROVE Uncanceled'
  BY <1>6 DEF monitorSeesFailure
<1>7. ASSUME NEW g \in Gens, CoreExits(g) PROVE Uncanceled'
  BY <1>7 DEF CoreExits
<1>8. ASSUME NEW g \in Gens, NEW q \in Qualities, UpdateLineQuality(g, q) PROVE Uncanceled'
  BY <1>8 DEF UpdateLineQuality
<1>9. CASE Crash BY <1>9 DEF Crash
<1>10. CASE UNCHANGED vars BY <1>10 DEF vars
<1> QED BY <1>2, <1>3, <1>4, <1>5, <1>6, <1>7, <1>8, <1>9, <1>10 DEF Next

\* Every step keeps Guarded.
LEMMA GuardedStep ==
  ASSUME IInv, Uncanceled, Guarded, [Next]_vars PROVE Guarded'
<1> USE Disjoint, MaxGenAssumption DEF IInv, TypeOK, Slot, Guarded, Connects, ConnectedIsGuarded, FieldsOK, PcsOK, RequestPcs, MonitorPcs, OwnerPcs, RestorePcs, ConnectPcs, Thread, Gens, LocalsOK, Idle, NoTransition,
        Answer, Forget, Goto, KeepMonitors, KeepController, KeepGoroutines, FailWith, Reject, controller, goroutines, machine
<1>1. ASSUME NEW t \in Thread, restoreStep(t) PROVE Guarded'
  <2>1. CASE stopLifecycleMonitor(t) BY <2>1 DEF stopLifecycleMonitor
  <2>2. CASE waitMonitorDone(t) BY <2>2 DEF waitMonitorDone
  <2>3. CASE stopInstance(t) BY <2>3 DEF stopInstance
  <2>4. CASE restoreNetwork(t) BY <2>4 DEF restoreNetwork
  <2>5. CASE verifyResidue(t) BY <2>5 DEF verifyResidue
  <2> QED BY <1>1, <2>1, <2>2, <2>3, <2>4, <2>5 DEF restoreStep
<1>2. ASSUME NEW r \in Requests, requestStep(r) PROVE Guarded'
  <2>1. CASE ConnectReturns(r) BY <2>1 DEF ConnectReturns
  <2>2. CASE ConnectWaits(r) BY <2>2 DEF ConnectWaits
  <2>3. CASE ConnectTakes(r) BY <2>3 DEF ConnectTakes, beginConnect
  <2>4. CASE DisconnectWaits(r) BY <2>4 DEF DisconnectWaits
  <2>5. CASE RecoverReturns(r) BY <2>5 DEF RecoverReturns
  <2>6. CASE DisconnectTakes(r) BY <2>6 DEF DisconnectTakes, beginDisconnect
  <2>7. CASE JoinedConnectReturns(r) BY <2>7 DEF JoinedConnectReturns
  <2>8. CASE TryAgain(r) BY <2>8 DEF TryAgain
  <2>9. CASE GiveUp(r) BY <2>9 DEF GiveUp
  <2>10. CASE runConnectBegin(r) BY <2>10 DEF runConnectBegin
  <2>11. CASE runConnectPrecheck(r) BY <2>11 DEF runConnectPrecheck
  <2>12. CASE Prepare(r) BY <2>12 DEF Prepare
  <2>13. CASE Capture(r) BY <2>13 DEF Capture
  <2>14. CASE EnableProtection(r) BY <2>14 DEF EnableProtection
  <2>15. CASE RenderConfig(r) BY <2>15 DEF RenderConfig
  <2>16. CASE StartCore(r) BY <2>16 DEF StartCore
  <2>17. CASE Ready(r) BY <2>17 DEF Ready
  <2>18. CASE WaitTUNReady(r) BY <2>18 DEF WaitTUNReady
  <2>19. CASE ActivateTUNRoutes(r) BY <2>19 DEF ActivateTUNRoutes
  <2>20. CASE finishConnect(r)
    <3>1. /\ gen[r] = generation /\ pc' = [pc EXCEPT ![r] = pc'[r]]
          /\ pc[r] \in {"connected", "rejected", "restored", "unsafe"}
          /\ UNCHANGED <<generation, net>>
      BY <2>20 DEF finishConnect
    <3>2. \A q \in Requests : pc'[q] # "connected"
      BY <1>2, <2>20, <3>1 DEF finishConnect
    <3>3. CASE pc[r] = "connected"
      <4>1. processStarted' /\ hasSnapshot' BY <2>20, <3>1, <3>3 DEF finishConnect
      <4>2. /\ processInstance' = generation /\ monitor' = generation
            /\ pc'[r] = "startmonitor" /\ gen'[r] = gen[r]
        BY <2>20, <3>1, <3>3 DEF finishConnect
      <4> QED BY <3>1, <3>2, <3>3, <4>1, <4>2
    <3>4. CASE pc[r] # "connected"
      <4>1. state' \in {"failed_safe", "prepared"} BY <2>20, <3>1, <3>4 DEF finishConnect
      <4> QED BY <3>2, <4>1
    <3> QED BY <3>3, <3>4
  <2>21. CASE startRuntimeMonitor(r)
    <3>1. /\ pc[r] = "startmonitor" /\ gen' = [gen EXCEPT ![r] = 0]
          /\ UNCHANGED <<state, generation, transition, hasSnapshot, processStarted,
                         processInstance, monitor, net>>
      BY <2>21 DEF startRuntimeMonitor
    <3>2. gen[r] \in Gens /\ gen[r] \in Thread /\ r \in Thread /\ r # gen[r]
      BY <1>2, <3>1 DEF GenOK
    <3>3. PICK w \in {"watch", "auto"} : pc' = [pc EXCEPT ![r] = "idle", ![gen[r]] = w]
      BY <2>21 DEF startRuntimeMonitor
    <3>4. pc'[r] = "idle" /\ pc'[gen[r]] = w /\ \A u \in Thread \ {r, gen[r]} : pc'[u] = pc[u]
      BY <3>2, <3>3, TwoUpdates
    <3>5. Connects' BY <3>1, <3>2, <3>4
    <3>6. ASSUME Idle', state' = "connected" PROVE ConnectedIsGuarded'
      <4>1. \A q \in Requests : q # r => pc'[q] = pc[q] /\ gen'[q] = gen[q]
        BY <3>1, <3>2, <3>4
      <4>2. CASE gen[r] = generation BY <3>1, <3>3, <3>4, <3>6, <4>2
      <4>3. CASE gen[r] # generation /\ pc[generation] \in {"watch", "auto"}
        <5>1. generation \in Gens BY <3>6, <3>1 DEF Uncanceled
        <5> QED BY <3>1, <3>4, <3>6, <4>3, <5>1
      <4>4. CASE \E q \in Requests : q # r /\ pc[q] = "startmonitor" /\ gen[q] = generation
        BY <3>1, <3>6, <4>1, <4>4
      <4> QED BY <3>1, <3>6, <4>2, <4>3, <4>4
    <3> QED BY <3>5, <3>6
  <2>22. CASE runDisconnect(r) BY <2>22 DEF runDisconnect
  <2>23. CASE finishDisconnect(r) BY <2>23 DEF finishDisconnect
  <2> QED BY <1>1, <1>2, <2>1, <2>2, <2>3, <2>4, <2>5, <2>6, <2>7, <2>8, <2>9, <2>10, <2>11, <2>12, <2>13, <2>14, <2>15, <2>16, <2>17, <2>18, <2>19, <2>20, <2>21, <2>22, <2>23 DEF requestStep, Thread
<1>3. ASSUME NEW g \in Gens, monitorStep(g) PROVE Guarded'
  <2>1. CASE monitorSeesExit(g) BY <2>1 DEF monitorSeesExit
  <2>2. CASE monitorSeesCancel(g)
    <3>1. /\ pc[g] = "watch" /\ g \in monitorCanceled /\ pc' = [pc EXCEPT ![g] = "closing"]
          /\ UNCHANGED <<controller, net, gen>>
      BY <2>2 DEF monitorSeesCancel
    <3>2. Idle /\ state = "connected" => generation # g BY <3>1 DEF Uncanceled
    <3>3. \A q \in Requests : pc'[q] = pc[q] BY <3>1, <1>3
    <3> QED BY <3>1, <3>2, <3>3
  <2>3. CASE automaticRestoreStale(g) BY <2>3 DEF automaticRestoreStale
  <2>4. CASE automaticRestoreTakes(g) BY <2>4 DEF automaticRestoreTakes
  <2>5. CASE finishAutomaticRestore(g) BY <2>5 DEF finishAutomaticRestore
  <2>6. CASE monitorReturns(g) BY <2>6 DEF monitorReturns
  <2> QED BY <1>1, <1>3, <2>1, <2>2, <2>3, <2>4, <2>5, <2>6 DEF monitorStep, Thread
<1>4. ASSUME NEW r \in Requests, NEW o \in Ops, Request(r, o) PROVE Guarded'
  BY <1>4 DEF Request
<1>5. ASSUME NEW r \in Requests, Expire(r) PROVE Guarded'
  BY <1>5 DEF Expire
<1>6. ASSUME NEW g \in Gens, monitorSeesFailure(g) PROVE Guarded'
  BY <1>6 DEF monitorSeesFailure
<1>7. ASSUME NEW g \in Gens, CoreExits(g) PROVE Guarded'
  BY <1>7 DEF CoreExits
<1>8. ASSUME NEW g \in Gens, NEW q \in Qualities, UpdateLineQuality(g, q) PROVE Guarded'
  BY <1>8 DEF UpdateLineQuality
<1>9. CASE Crash BY <1>9 DEF Crash
<1>10. CASE UNCHANGED vars BY <1>10 DEF vars
<1> QED BY <1>2, <1>3, <1>4, <1>5, <1>6, <1>7, <1>8, <1>9, <1>10 DEF Next

\* Both hold in every reachable state.
LEMMA WatchInvariant == Spec => [](Uncanceled /\ Guarded)
<1>1. Init => Uncanceled /\ Guarded
  BY Disjoint DEF Init, NewController, Uncanceled, Guarded, Connects, ConnectedIsGuarded, ConnectPcs, Thread
<1>2. IInv /\ Uncanceled /\ Guarded /\ [Next]_vars => Uncanceled' /\ Guarded'
  BY UncanceledStep, GuardedStep
<1> QED BY <1>1, <1>2, Inductive, PTL DEF Spec

\* While connected the controller owns this generation's core, its snapshot
\* and its monitor handle, and a goroutine watches, is about to, or restores.
THEOREM ConnectedIsWatched == Spec => []ConnectedIsGuarded
<1>1. Guarded => ConnectedIsGuarded BY DEF Guarded
<1> QED BY <1>1, WatchInvariant, PTL

-----------------------------------------------------------------------------
(* The life cycle clients rely on *)

\* A step of the controller as the life cycle sees it.
LifeStep == [Lifecycle!Next]_(Lifecycle!vars)

\* A Connect that has not failed publishes connecting.
LEMMA ConnectingState ==
  ASSUME IInv, NEW r \in Requests, pc[r] \in ConnectPcs PROVE state = "connecting"
BY DEF IInv, Phase, OwnerPcs

\* A core that ends, or some of its processes, is visible at most as its loss.
LEMMA LoseCoreStep ==
  ASSUME UNCHANGED <<state, net, platform>>, alive' \subseteq alive PROVE LifeStep
<1>1. CASE alive # {} /\ alive' = {}
  BY <1>1 DEF LifeStep, Lifecycle!vars, Lifecycle!Next, Lifecycle!LoseCore
<1>2. CASE (alive # {}) = (alive' # {}) BY <1>2 DEF LifeStep, Lifecycle!vars
<1> QED BY <1>1, <1>2

\* A restoration begins from a settled state.
LEMMA BeginRestoreStep ==
  ASSUME IInv, Idle, state' = "restoring", UNCHANGED <<alive, net, platform>> PROVE LifeStep
<1>1. state \in {"disconnected", "prepared", "connected", "failed_safe"}
  BY DEF IInv, TypeOK, FieldsOK, States, Phase
<1> QED BY <1>1 DEF LifeStep, Lifecycle!vars, Lifecycle!Next, Lifecycle!BeginRestore

\* A restoration ends prepared only over a machine that is owed nothing.
LEMMA FinishStep ==
  ASSUME IInv, NEW t \in Thread, pc[t] \in {"restored", "unsafe"}, state = "restoring",
         state' = IF pc[t] = "restored" THEN "prepared" ELSE "failed_safe",
         UNCHANGED <<alive, net, platform>>
  PROVE  LifeStep
<1> USE DEF LifeStep, Lifecycle!vars, Lifecycle!Next
<1>1. CASE pc[t] = "restored"
  <2>1. alive = {} /\ ~Owed BY <1>1 DEF IInv, Restoring, RestorePcs
  <2> QED BY <1>1, <2>1 DEF Lifecycle!Prepared
<1>2. CASE pc[t] = "unsafe" BY <1>2 DEF Lifecycle!FailSafe
<1> QED BY <1>1, <1>2

\* Every step is a step of the life cycle or invisible in it.
LEMMA LifecycleStep ==
  ASSUME IInv, Connects, [Next]_vars PROVE LifeStep
<1> USE DEF LifeStep, Lifecycle!vars,
        Answer, Forget, Goto, KeepMonitors, KeepController, KeepGoroutines, controller, goroutines, machine
<1>1. ASSUME NEW t \in Thread, restoreStep(t) PROVE LifeStep
  <2>1. CASE stopLifecycleMonitor(t) BY <2>1 DEF stopLifecycleMonitor
  <2>2. CASE waitMonitorDone(t) BY <2>2 DEF waitMonitorDone
  <2>3. CASE stopInstance(t)
    <3>1. UNCHANGED <<state, net, platform>> /\ alive' \subseteq alive BY <2>3 DEF stopInstance
    <3> QED BY <3>1, LoseCoreStep
  <2>4. CASE restoreNetwork(t)
    <3>1. pc[t] = "restore" /\ UNCHANGED <<state, alive, platform>> /\ net' \in {net, "clean"}
      BY <2>4 DEF restoreNetwork
    <3>2. alive = {} BY <1>1, <3>1 DEF IInv, Restoring, RestorePcs
    <3>3. state \in {"connecting", "restoring"}
      BY <1>1, <3>1 DEF IInv, Phase, OwnerPcs, RestorePcs, Thread
    <3> QED BY <3>1, <3>2, <3>3 DEF Lifecycle!Next, Lifecycle!Undo
  <2>5. CASE verifyResidue(t) BY <2>5 DEF verifyResidue
  <2> QED BY <1>1, <2>1, <2>2, <2>3, <2>4, <2>5 DEF restoreStep
<1>2. ASSUME NEW r \in Requests, requestStep(r) PROVE LifeStep
  <2>1. CASE ConnectReturns(r) BY <2>1 DEF ConnectReturns
  <2>2. CASE ConnectWaits(r) BY <2>2 DEF ConnectWaits
  <2>3. CASE ConnectTakes(r)
    <3>1. /\ Idle /\ op[r] = "Connect" /\ state \notin {"connected", "failed_safe"}
          /\ state' = "connecting" /\ UNCHANGED <<alive, net, platform>>
      BY <2>3 DEF ConnectTakes, beginConnect
    <3>2. state = "prepared" BY <1>2, <3>1 DEF IInv, TypeOK, FieldsOK, States, Phase
    <3>3. alive = {} /\ ~Owed BY <3>1, <3>2 DEF IInv, AtRest, Settled
    <3> QED BY <3>1, <3>2, <3>3 DEF Lifecycle!Next, Lifecycle!BeginConnect
  <2>4. CASE DisconnectWaits(r) BY <2>4 DEF DisconnectWaits
  <2>5. CASE RecoverReturns(r) BY <2>5 DEF RecoverReturns
  <2>6. CASE DisconnectTakes(r)
    <3>1. Idle /\ state' = "restoring" /\ UNCHANGED <<alive, net, platform>>
      BY <2>6 DEF DisconnectTakes, beginDisconnect
    <3> QED BY <3>1, BeginRestoreStep
  <2>7. CASE JoinedConnectReturns(r) BY <2>7 DEF JoinedConnectReturns
  <2>8. CASE TryAgain(r) BY <2>8 DEF TryAgain
  <2>9. CASE GiveUp(r) BY <2>9 DEF GiveUp
  <2>10. CASE runConnectBegin(r) BY <2>10 DEF runConnectBegin
  <2>11. CASE runConnectPrecheck(r) BY <2>11 DEF runConnectPrecheck
  <2>12. CASE Prepare(r) BY <2>12 DEF Prepare
  <2>13. CASE Capture(r)
    <3>1. UNCHANGED <<state, alive, platform>> /\ (net = "altered" <=> net' = "altered")
      BY <2>13 DEF Capture
    <3> QED BY <3>1
  <2>14. CASE EnableProtection(r)
    <3>1. pc[r] = "protect" /\ UNCHANGED <<state, alive, platform>> /\ net' \in {net, "altered"}
      BY <2>14 DEF EnableProtection
    <3> QED BY <1>2, <3>1, ConnectingState DEF ConnectPcs, Lifecycle!Next, Lifecycle!Alter
  <2>15. CASE RenderConfig(r) BY <2>15 DEF RenderConfig
  <2>16. CASE StartCore(r)
    <3>1. pc[r] = "start" /\ UNCHANGED <<state, net, platform>> /\ alive' \in {alive, alive \cup {gen[r]}}
      BY <2>16 DEF StartCore
    <3>2. alive = {} BY <1>2, <3>1 DEF IInv, Connecting, ConnectPcs, Untouched
    <3>3. state = "connecting" BY <1>2, <3>1, ConnectingState DEF ConnectPcs
    <3> QED BY <3>1, <3>2, <3>3 DEF Lifecycle!Next, Lifecycle!StartCore
  <2>17. CASE Ready(r) BY <2>17 DEF Ready
  <2>18. CASE WaitTUNReady(r) BY <2>18 DEF WaitTUNReady
  <2>19. CASE ActivateTUNRoutes(r)
    <3>1. pc[r] = "routes" /\ UNCHANGED <<state, alive, platform>> /\ net' \in {net, "altered"}
      BY <2>19 DEF ActivateTUNRoutes
    <3> QED BY <1>2, <3>1, ConnectingState DEF ConnectPcs, Lifecycle!Next, Lifecycle!Alter
  <2>20. CASE finishConnect(r)
    <3>1. /\ op[r] = "Connect" /\ pc[r] \in {"connected", "rejected", "restored", "unsafe"}
          /\ UNCHANGED <<alive, net, platform>>
      BY <2>20 DEF finishConnect
    <3>2. pc[r] \in OwnerPcs BY <3>1 DEF OwnerPcs, ConnectPcs, RestorePcs
    <3>3. gen[r] = generation /\ state = "connecting" BY <1>2, <3>1, <3>2 DEF IInv, Slot, Phase
    <3>4. CASE pc[r] = "connected"
      <4>1. state' = "connected" BY <2>20, <3>3, <3>4 DEF finishConnect
      <4>2. net = "altered" BY <1>2, <3>4 DEF Connects
      <4> QED BY <3>1, <3>3, <4>1, <4>2 DEF Lifecycle!Next, Lifecycle!Connected
    <3>5. CASE pc[r] = "unsafe"
      <4>1. state' = "failed_safe" BY <2>20, <3>3, <3>5 DEF finishConnect
      <4> QED BY <3>1, <3>3, <4>1 DEF Lifecycle!Next, Lifecycle!FailSafe
    <3>6. CASE pc[r] \in {"rejected", "restored"}
      <4>1. state' = "prepared" BY <2>20, <3>3, <3>6 DEF finishConnect
      <4>2. alive = {} /\ ~Owed
        BY <1>2, <3>6 DEF IInv, Restoring, Connecting, Untouched, RestorePcs, ConnectPcs, Thread
      <4> QED BY <3>1, <3>3, <4>1, <4>2 DEF Lifecycle!Next, Lifecycle!Prepared
    <3> QED BY <3>1, <3>4, <3>5, <3>6
  <2>21. CASE startRuntimeMonitor(r) BY <2>21 DEF startRuntimeMonitor
  <2>22. CASE runDisconnect(r) BY <2>22 DEF runDisconnect
  <2>23. CASE finishDisconnect(r)
    <3>1. /\ op[r] # "Connect" /\ pc[r] \in {"restored", "unsafe"} /\ UNCHANGED <<alive, net, platform>>
      BY <2>23 DEF finishDisconnect
    <3>2. pc[r] \in OwnerPcs BY <3>1 DEF OwnerPcs, RestorePcs
    <3>3. gen[r] = generation /\ state = "restoring" BY <1>2, <3>1, <3>2 DEF IInv, Slot, Phase
    <3>4. state' = IF pc[r] = "restored" THEN "prepared" ELSE "failed_safe"
      BY <2>23, <3>1, <3>3 DEF finishDisconnect
    <3> QED BY <1>2, <3>1, <3>3, <3>4, FinishStep DEF Thread
  <2> QED BY <1>1, <1>2, <2>1, <2>2, <2>3, <2>4, <2>5, <2>6, <2>7, <2>8, <2>9, <2>10, <2>11, <2>12, <2>13, <2>14, <2>15, <2>16, <2>17, <2>18, <2>19, <2>20, <2>21, <2>22, <2>23 DEF requestStep, Thread
<1>3. ASSUME NEW g \in Gens, monitorStep(g) PROVE LifeStep
  <2>1. CASE monitorSeesExit(g) BY <2>1 DEF monitorSeesExit
  <2>2. CASE monitorSeesCancel(g) BY <2>2 DEF monitorSeesCancel
  <2>3. CASE automaticRestoreStale(g) BY <2>3 DEF automaticRestoreStale
  <2>4. CASE automaticRestoreTakes(g)
    <3>1. Idle /\ state' = "restoring" /\ UNCHANGED <<alive, net, platform>>
      BY <2>4 DEF automaticRestoreTakes
    <3> QED BY <3>1, BeginRestoreStep
  <2>5. CASE finishAutomaticRestore(g)
    <3>1. pc[g] \in {"restored", "unsafe"} /\ UNCHANGED <<alive, net, platform>>
      BY <2>5 DEF finishAutomaticRestore
    <3>2. generation = g /\ state = "restoring" BY <1>3, <3>1 DEF IInv, Slot, Phase, RestorePcs
    <3>3. state' = IF pc[g] = "restored" THEN "prepared" ELSE "failed_safe"
      BY <2>5, <3>1, <3>2 DEF finishAutomaticRestore
    <3> QED BY <1>3, <3>1, <3>2, <3>3, FinishStep DEF Thread
  <2>6. CASE monitorReturns(g) BY <2>6 DEF monitorReturns
  <2> QED BY <1>1, <1>3, <2>1, <2>2, <2>3, <2>4, <2>5, <2>6 DEF monitorStep, Thread
<1>4. ASSUME NEW r \in Requests, NEW o \in Ops, Request(r, o) PROVE LifeStep
  BY <1>4 DEF Request
<1>5. ASSUME NEW r \in Requests, Expire(r) PROVE LifeStep
  BY <1>5 DEF Expire
<1>6. ASSUME NEW g \in Gens, monitorSeesFailure(g) PROVE LifeStep
  BY <1>6 DEF monitorSeesFailure
<1>7. ASSUME NEW g \in Gens, CoreExits(g) PROVE LifeStep
  BY <1>7, LoseCoreStep DEF CoreExits
<1>8. ASSUME NEW g \in Gens, NEW q \in Qualities, UpdateLineQuality(g, q) PROVE LifeStep
  BY <1>8 DEF UpdateLineQuality
<1>9. CASE Crash BY <1>9 DEF Crash, Lifecycle!Next, Lifecycle!Restart
<1>10. CASE UNCHANGED vars BY <1>10 DEF vars
<1> QED BY <1>2, <1>3, <1>4, <1>5, <1>6, <1>7, <1>8, <1>9, <1>10 DEF Next

\* The controller implements the life cycle that clients rely on: the order of
\* the published states, no core before connecting, no network taken back
\* beside a core, and prepared only without a core and, where Restore proves
\* what it reports, with nothing else left.
THEOREM KeepsLifecycle == Spec => ImplementsLifecycle
<1>1. Init => Lifecycle!Init BY DEF Init, NewController, Lifecycle!Init
<1>2. IInv /\ Guarded /\ [Next]_vars => LifeStep BY LifecycleStep DEF Guarded
<1> QED BY <1>1, <1>2, Inductive, WatchInvariant, PTL DEF Spec, ImplementsLifecycle, Lifecycle!Spec, LifeStep

=============================================================================
