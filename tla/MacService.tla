----------------------------- MODULE MacService ------------------------------
(***************************************************************************)
(* The macOS service (cmd/regen-access-service/main_darwin.go) with its    *)
(* socket server (internal/platform/darwin/socket_darwin.go), its daemon   *)
(* lock and stale socket (service_install_darwin.go) and the core process  *)
(* it owns (CoreOwner).                                                    *)
(*                                                                         *)
(* Two programs run the same start-up: the daemon launchd keeps alive and  *)
(* the one-shot "--restore" of the installer.  Both take the daemon lock,  *)
(* recover the core of a dead predecessor, restore the network; the daemon *)
(* then serves the socket until SIGTERM.  The controller of the daemon is  *)
(* Controller.tla's, reduced to its transitions: one operation at a time,  *)
(* a Disconnect cancels a Connect and waits for it.                        *)
(***************************************************************************)
EXTENDS CoreOwner

CONSTANTS
  Conns,        \* connections clients may open
  Slots,        \* connections served at once (16)
  MaxConnects   \* bound: helpers the daemon starts by request

ASSUME ConnsAssumption == Conns \cap {"none", "main", "monitor"} = {}
ASSUME SlotsAssumption == Slots \in Nat \ {0}
ASSUME MaxConnectsAssumption == MaxConnects \in Nat

VARIABLES
  main,     \* where each program's run() is
  holder,   \* the program that holds the daemon lock
  sock,     \* the socket path: absent, a live listener's, left by a dead one, or
            \* without its directory /private/var/run/regen-access
  gate,     \* dispatchGate.stopped
  checked,  \* bookkeeping: the births the recovery's recheck could know of
  conns,    \* the connections
  ctl,      \* the controller of the daemon
  net       \* is the network of the machine the product's?

svcVars == <<main, holder, sock, gate, checked, conns, ctl, net>>
vars == <<coreVars, svcVars>>

Mains == {"daemon", "restore"}
Down == {"down", "stopped", "failed"}
Idle == [state |-> "prepared", op |-> "none", who |-> "none", step |-> "none", cancelled |-> FALSE]

\* The controller: its state, the operation in progress, who asked for it, how
\* far it is and whether it was cancelled.
Operations == [state : {"prepared", "connecting", "connected", "restoring", "failed_safe"},
               op : {"none", "connect", "disconnect"}, who : Conns \cup {"none", "main", "monitor"},
               step : {"none", "capture", "config", "start", "ready", "stop", "restore"},
               cancelled : BOOLEAN]

TypeOK ==
  /\ proc \in [Pids -> Groups] /\ births \in Nat /\ faults \in 0..MaxFaults
  /\ record \in Records
  /\ start \in {"idle", "verify", "load", "spawn", "inspect", "save", "release",
                "cleanup", "ok", "failed", "unproven"}
  /\ sup \in Instances
  /\ main \in [Mains -> Down \cup {"config", "lock", "load", "recheck", "signal", "await", "forget",
                          "recover", "stale", "bind", "serve", "join", "gate", "cleanup", "prepared", "failed_safe"}]
  /\ holder \in Mains \cup {"none"}
  /\ sock \in {"none", "live", "stale", "swept"}
  /\ gate \in BOOLEAN /\ checked \in 0..births
  /\ conns \in [Conns -> {"idle", "read", "connect", "disconnect", "reply"}]
  /\ ctl \in Operations
  /\ net \in {"clean", "product"}

Init == /\ CoreInit
        /\ main = [m \in Mains |-> "down"]
        /\ holder = "none"
        /\ sock = "none"
        /\ gate = FALSE /\ checked = 0
        /\ conns = [c \in Conns |-> "idle"]
        /\ ctl = Idle
        /\ net = "clean"

-----------------------------------------------------------------------------
(* run(): start-up *)

\* A program is started.  The one-shot restore is run by an installer, a
\* bounded number of times.
Launch(m) ==
  /\ main[m] \in Down
  /\ m = "restore" => Fault
  /\ m = "daemon" => UNCHANGED faults
  /\ main' = [main EXCEPT ![m] = "config"]
  /\ UNCHANGED <<proc, births, record, start, sup, holder, sock, gate, checked, conns, ctl, net>>

\* The installed files are those of the installer, or the service refuses.
LoadInstalledServiceConfig(m) ==
  /\ main[m] = "config"
  /\ \/ main' = [main EXCEPT ![m] = "lock"] /\ UNCHANGED faults
     \/ main' = [main EXCEPT ![m] = "failed"] /\ Fault
  /\ UNCHANGED <<proc, births, record, start, sup, holder, sock, gate, checked, conns, ctl, net>>

\* AcquireDaemonLock: the lock's directory must be there as the installer made
\* it; the lock is exclusive and not waited for.
AcquireDaemonLock(m) ==
  /\ main[m] = "lock"
  /\ \/ /\ sock # "swept" /\ holder = "none"
        /\ main' = [main EXCEPT ![m] = "load"] /\ holder' = m /\ UNCHANGED faults
     \/ /\ sock = "swept" \/ holder # "none"
        /\ main' = [main EXCEPT ![m] = "failed"] /\ UNCHANGED <<holder, faults>>
     \/ main' = [main EXCEPT ![m] = "failed"] /\ Fault /\ UNCHANGED holder
  /\ UNCHANGED <<proc, births, record, start, sup, sock, gate, checked, conns, ctl, net>>

\* run() returns: the process ends, the lock with it.
exits(m, how) == /\ main' = [main EXCEPT ![m] = how]
                 /\ holder' = "none"

\* One step of RecoverOwnedCore: the verdict decides where the program goes.
moves(m, verdict, next) ==
  CASE verdict = "error" -> exits(m, "failed")
    [] verdict = "forget" -> main' = [main EXCEPT ![m] = "forget"] /\ UNCHANGED holder
    [] verdict = "done" -> main' = [main EXCEPT ![m] = "recover"] /\ UNCHANGED holder
    [] OTHER -> main' = [main EXCEPT ![m] = next] /\ UNCHANGED holder

RecoverLoads(m) ==
  /\ main[m] = "load"
  /\ \/ moves(m, recoverInspects, "recheck") /\ UNCHANGED faults
     \/ exits(m, "failed") /\ Fault
  /\ UNCHANGED <<proc, births, record, start, sup, sock, gate, checked, conns, ctl, net>>

RecoverRechecks(m) ==
  /\ main[m] = "recheck"
  /\ moves(m, recoverRechecks, "signal")
  /\ checked' = births
  /\ UNCHANGED <<coreVars, sock, gate, conns, ctl, net>>

\* SIGKILL to the group of the recorded pid, whoever has it by now; a member may
\* not be killable yet.
RecoverSignals(m) ==
  /\ main[m] = "signal"
  /\ moves(m, recoverSignals, "await")
  /\ checked' = 0
  /\ \/ proc' = Killed(record.pid) /\ UNCHANGED faults
     \/ UNCHANGED proc /\ Fault
  /\ UNCHANGED <<births, record, start, sup, sock, gate, conns, ctl, net>>

RecoverAwaits(m) ==
  /\ main[m] = "await"
  /\ IF groupEmpty(record.pid) THEN main' = [main EXCEPT ![m] = "forget"] /\ UNCHANGED holder
                               ELSE exits(m, "failed")
  /\ UNCHANGED <<coreVars, sock, gate, checked, conns, ctl, net>>

\* removeCoreRecord.
RecoverForgets(m) ==
  /\ main[m] = "forget"
  /\ \/ record' = NoRecord /\ moves(m, "done", "recover") /\ UNCHANGED faults
     \/ record' \in {record, NoRecord} /\ exits(m, "failed") /\ Fault
  /\ UNCHANGED <<proc, births, start, sup, sock, gate, checked, conns, ctl, net>>

\* controller.Recover, and the end of the one-shot restore.
RecoverNetwork(m) ==
  /\ main[m] = "recover"
  /\ \/ /\ net' = "clean" /\ UNCHANGED faults
        /\ IF m = "restore" THEN exits(m, "stopped")
                            ELSE main' = [main EXCEPT ![m] = "stale"] /\ UNCHANGED holder
     \/ exits(m, "failed") /\ UNCHANGED net /\ Fault
  /\ UNCHANGED <<proc, births, record, start, sup, sock, gate, checked, conns, ctl>>


\* RemoveStaleServiceSocket: only a refused connection proves it stale.
RemoveStaleServiceSocket ==
  /\ main["daemon"] = "stale"
  /\ IF sock = "live" THEN exits("daemon", "failed") /\ UNCHANGED sock
                      ELSE main' = [main EXCEPT !["daemon"] = "bind"] /\ sock' = "none"
                           /\ UNCHANGED holder
  /\ UNCHANGED <<coreVars, gate, checked, conns, ctl, net>>

\* NewSocketServer refuses an existing path; a failure after bind removes it.
NewSocketServer ==
  /\ main["daemon"] = "bind"
  /\ \/ /\ sock = "none" /\ sock' = "live" /\ gate' = FALSE
        /\ main' = [main EXCEPT !["daemon"] = "serve"] /\ UNCHANGED <<holder, faults>>
     \/ sock # "none" /\ exits("daemon", "failed") /\ UNCHANGED <<sock, gate, faults>>
     \/ exits("daemon", "failed") /\ Fault /\ UNCHANGED <<sock, gate>>
  /\ UNCHANGED <<proc, births, record, start, sup, checked, conns, ctl, net>>

-----------------------------------------------------------------------------
(* SocketServer.Serve and its connections *)

Served == {c \in Conns : conns[c] # "idle"}

\* A client connects: beyond the slots the connection is closed at once.
Accept(c) ==
  /\ main["daemon"] = "serve" /\ conns[c] = "idle"
  /\ Cardinality(Served) < Slots
  /\ conns' = [conns EXCEPT ![c] = "read"]
  /\ UNCHANGED <<coreVars, main, holder, sock, gate, checked, ctl, net>>

\* The connection ends unserved: a foreign peer, a bad frame, the deadline, or
\* the server's context, which closes it.
DropConnection(c) ==
  /\ conns[c] = "read"
  /\ conns' = [conns EXCEPT ![c] = "idle"]
  /\ UNCHANGED <<coreVars, main, holder, sock, gate, checked, ctl, net>>

\* dispatchGate.Dispatch: the request enters the handler while the gate is open.
Dispatch(c) ==
  /\ conns[c] = "read"
  /\ \/ ~gate /\ births < MaxConnects /\ conns' = [conns EXCEPT ![c] = "connect"]
     \/ ~gate /\ conns' = [conns EXCEPT ![c] = "disconnect"]
     \/ conns' = [conns EXCEPT ![c] = "reply"]
  /\ UNCHANGED <<coreVars, main, holder, sock, gate, checked, ctl, net>>

\* The response is written, the connection closed, the slot returned.
Reply(c) ==
  /\ conns[c] = "reply"
  /\ conns' = [conns EXCEPT ![c] = "idle"]
  /\ UNCHANGED <<coreVars, main, holder, sock, gate, checked, ctl, net>>

\* SIGTERM, or a failing accept: the server's context is cancelled, the
\* listener closed, and with it the context of every request.
StopServing ==
  /\ main["daemon"] = "serve"
  /\ main' = [main EXCEPT !["daemon"] = "join"]
  /\ ctl' = [ctl EXCEPT !.cancelled = ctl.op = "connect"]
  /\ UNCHANGED <<coreVars, holder, sock, gate, checked, conns, net>>

\* Mutant: requests are neither joined nor shut out.
serveReturnsUnjoined ==
  /\ main["daemon"] = "join"
  /\ sock' = "none"
  /\ main' = [main EXCEPT !["daemon"] = "cleanup"]
  /\ UNCHANGED <<coreVars, holder, gate, checked, conns, ctl, net>>

\* clients.Wait, then the deferred removal of the socket.
ServeReturns ==
  /\ main["daemon"] = "join"
  /\ Served = {}
  /\ sock' = "none"
  /\ main' = [main EXCEPT !["daemon"] = "gate"]
  /\ UNCHANGED <<coreVars, holder, gate, checked, conns, ctl, net>>

\* gate.stop waits for the dispatchers inside.
GateStops ==
  /\ main["daemon"] = "gate"
  /\ \A c \in Conns : conns[c] \notin {"connect", "disconnect"}
  /\ gate' = TRUE
  /\ main' = [main EXCEPT !["daemon"] = "cleanup"]
  /\ UNCHANGED <<coreVars, holder, sock, checked, conns, ctl, net>>

-----------------------------------------------------------------------------
(* The controller: Connect, Disconnect, the runtime monitor *)

\* Connect takes the transition, or answers at once.
ConnectBegins(c) ==
  /\ conns[c] = "connect" /\ ctl.op = "none"
  /\ IF ctl.state \in {"connected", "failed_safe"}
       THEN conns' = [conns EXCEPT ![c] = "reply"] /\ UNCHANGED ctl
       ELSE /\ ctl' = [state |-> "connecting", op |-> "connect", who |-> c,
                       step |-> "capture", cancelled |-> main["daemon"] # "serve"]
            /\ UNCHANGED conns
  /\ UNCHANGED <<coreVars, main, holder, sock, gate, checked, net>>

\* A request that waits for another's transition returns when its context ends.
WaiterGivesUp(c) ==
  /\ conns[c] \in {"connect", "disconnect"} /\ ctl.op # "none" /\ ctl.who # c
  /\ main["daemon"] = "join"
  /\ conns' = [conns EXCEPT ![c] = "reply"]
  /\ UNCHANGED <<coreVars, main, holder, sock, gate, checked, ctl, net>>

\* runConnect: the network becomes the product's, then the core is started.
ConnectCaptures ==
  /\ ctl.step = "capture"
  /\ \/ /\ ~ctl.cancelled
        /\ net' = "product" /\ ctl' = [ctl EXCEPT !.step = "config"]
        /\ UNCHANGED faults
     \/ ctl.cancelled /\ ctl' = [ctl EXCEPT !.step = "stop"] /\ UNCHANGED <<net, faults>>
     \/ ctl' = [ctl EXCEPT !.step = "stop"] /\ net' \in {net, "product"} /\ Fault
  /\ UNCHANGED <<proc, births, record, start, sup, main, holder, sock, gate, checked, conns>>

\* The rendered configuration replaces the installed one in a single rename.
WriteInstalledConfig ==
  /\ ctl.step = "config"
  /\ \/ start' = "verify" /\ ctl' = [ctl EXCEPT !.step = "start"] /\ UNCHANGED faults
     \/ ctl' = [ctl EXCEPT !.step = "stop"] /\ Fault /\ UNCHANGED start
  /\ UNCHANGED <<proc, births, record, sup, main, holder, sock, gate, checked, conns, net>>

\* Start returned: with a core, without one, or without proof.
ConnectStarted ==
  /\ ctl.step = "start" /\ start \in {"ok", "failed", "unproven"}
  /\ ctl' = [ctl EXCEPT !.step = IF start = "ok" THEN "ready" ELSE "stop"]
  /\ start' = "idle"
  /\ UNCHANGED <<proc, births, record, sup, faults, main, holder, sock, gate, checked, conns, net>>

\* The transition ends: the request that owns it is answered, and so is every
\* Connect that joined a Connect.  Other waiters look again.
finishes(state) ==
  /\ ctl' = [Idle EXCEPT !.state = state]
  /\ main' = IF ctl.who = "main" THEN [main EXCEPT !["daemon"] = state] ELSE main
  /\ conns' = [c \in Conns |-> IF c = ctl.who \/ (ctl.op = "connect" /\ conns[c] = "connect")
                                 THEN "reply" ELSE conns[c]]

\* Readiness, TUN, routes and DNS: connected, or undone.
ConnectCompletes ==
  /\ ctl.step = "ready"
  /\ \/ Ready /\ ~ctl.cancelled /\ finishes("connected") /\ UNCHANGED faults
     \/ /\ ~Ready \/ ctl.cancelled
        /\ ctl' = [ctl EXCEPT !.step = "stop"] /\ UNCHANGED <<conns, main, faults>>
     \/ ctl' = [ctl EXCEPT !.step = "stop"] /\ Fault /\ UNCHANGED <<conns, main>>
  /\ UNCHANGED <<proc, births, record, start, sup, holder, sock, gate, checked, net>>

\* disconnect: cancels a Connect and waits; otherwise takes the transition.
disconnectBegins(who) ==
  IF ctl.op = "none"
    THEN ctl' = [state |-> "restoring", op |-> "disconnect", who |-> who,
                 step |-> "stop", cancelled |-> FALSE]
    ELSE /\ ctl.op = "connect" /\ ~ctl.cancelled
         /\ ctl' = [ctl EXCEPT !.cancelled = TRUE]

DisconnectBegins(c) ==
  /\ conns[c] = "disconnect" /\ ctl.who # c
  /\ disconnectBegins(c)
  /\ UNCHANGED <<coreVars, main, holder, sock, gate, checked, conns, net>>

\* monitorLifecycle: the core of a connected generation ended.
MonitorRestores ==
  /\ ctl.state = "connected" /\ sup.pc = "finished"
  /\ disconnectBegins("monitor")
  /\ UNCHANGED <<coreVars, main, holder, sock, gate, checked, conns, net>>

\* Mutant: the network is restored once the supervisor finished, proof or not.
stopIgnoresProof ==
  /\ ctl.step = "stop"
  /\ \/ /\ sup.pid # 0 /\ ~sup.asked
        /\ sup' = [sup EXCEPT !.asked = TRUE] /\ UNCHANGED ctl
     \/ /\ sup.pid = 0 \/ sup.pc = "finished"
        /\ ctl' = [ctl EXCEPT !.step = "restore", !.state = "restoring"]
        /\ sup' = NoInstance
  /\ UNCHANGED <<proc, births, record, start, faults, main, holder, sock, gate, checked, conns, net>>

\* Stop of the owned instance: the network is touched only with a proof, and a
\* proven instance is given up.
StopCore ==
  /\ ctl.step = "stop"
  /\ \/ /\ sup.pid # 0 /\ ~sup.asked
        /\ sup' = [sup EXCEPT !.asked = TRUE] /\ UNCHANGED <<ctl, conns, main, faults>>
     \/ /\ sup.pid = 0 \/ (sup.pc = "finished" /\ sup.result = "proven")
        /\ ctl' = [ctl EXCEPT !.step = "restore", !.state = "restoring"]
        /\ sup' = NoInstance /\ UNCHANGED <<conns, main, faults>>
     \/ /\ sup.asked /\ sup.pc = "finished" /\ sup.result = "unproven"
        /\ finishes("failed_safe") /\ UNCHANGED <<sup, faults>>
     \/ /\ sup.asked /\ sup.pc # "finished" /\ Fault
        /\ finishes("failed_safe") /\ UNCHANGED sup
  /\ UNCHANGED <<proc, births, record, start, holder, sock, gate, checked, net>>

RestoreNetwork ==
  /\ ctl.step = "restore"
  /\ \/ net' = "clean" /\ finishes("prepared") /\ UNCHANGED faults
     \/ UNCHANGED net /\ finishes("failed_safe") /\ Fault
  /\ UNCHANGED <<proc, births, record, start, sup, holder, sock, gate, checked>>

-----------------------------------------------------------------------------
(* run(): the end *)

\* The daemon's own Disconnect begins once the gate is shut.
CleanupBegins ==
  /\ main["daemon"] = "cleanup" /\ ctl.who # "main"
  /\ disconnectBegins("main")
  /\ UNCHANGED <<coreVars, main, holder, sock, gate, checked, conns, net>>

\* It ended prepared, or the service reports an incomplete recovery; either
\* way the process is gone.
CleanupReturns ==
  /\ \/ main["daemon"] = "prepared" /\ exits("daemon", "stopped")
     \/ main["daemon"] = "failed_safe" /\ exits("daemon", "failed")
  /\ ServiceDies
  /\ conns' = [c \in Conns |-> "idle"]
  /\ ctl' = Idle
  /\ UNCHANGED <<faults, sock, gate, checked, net>>

\* The daemon is killed, or its ninety seconds of cleanup end.
DaemonDies ==
  /\ main["daemon"] \notin Down
  /\ Fault
  /\ ServiceDies
  /\ main' = [main EXCEPT !["daemon"] = "failed"]
  /\ holder' = IF holder = "daemon" THEN "none" ELSE holder
  /\ sock' = IF sock = "live" THEN "stale" ELSE sock
  /\ conns' = [c \in Conns |-> "idle"]
  /\ ctl' = Idle
  /\ UNCHANGED <<gate, checked, net>>

\* The machine restarts; the runtime directory may be swept, or gone.
Reboot ==
  /\ Fault
  /\ MachineRestarts
  /\ main' = [m \in Mains |-> "down"]
  /\ holder' = "none"
  /\ sock' \in CASE sock = "none" -> {"none", "swept"}
               [] sock = "swept" -> {"swept"}
               [] OTHER -> {"none", "stale", "swept"}
  /\ checked' = 0
  /\ conns' = [c \in Conns |-> "idle"]
  /\ ctl' = Idle
  /\ UNCHANGED <<gate, net>>

\* An installer run again makes the runtime directory; nothing else does.
InstallerMakesDirectory ==
  /\ sock = "swept" /\ sock' = "none"
  /\ UNCHANGED <<coreVars, main, holder, gate, checked, conns, ctl, net>>

-----------------------------------------------------------------------------

mainStep(m) == LoadInstalledServiceConfig(m) \/ AcquireDaemonLock(m) \/ RecoverLoads(m) \/ RecoverRechecks(m)
               \/ RecoverSignals(m) \/ RecoverAwaits(m) \/ RecoverForgets(m) \/ RecoverNetwork(m)

daemonStep == RemoveStaleServiceSocket \/ NewSocketServer \/ ServeReturns \/ GateStops
              \/ CleanupBegins \/ CleanupReturns

connStep(c) == DropConnection(c) \/ Dispatch(c) \/ Reply(c) \/ ConnectBegins(c)
               \/ DisconnectBegins(c) \/ WaiterGivesUp(c)

ctlStep == ConnectCaptures \/ WriteInstalledConfig \/ ConnectStarted \/ ConnectCompletes \/ StopCore \/ RestoreNetwork
           \/ MonitorRestores

coreStep == (startStep \/ superviseStep) /\ UNCHANGED svcVars

procStep(p) == (HelperExecutes(p) \/ HelperGivesUp(p)) /\ UNCHANGED svcVars

othersStep(p) == /\ LeaderExits(p) \/ CoreForks(p) \/ ChildExits(p) \/ ForeignStarts(p)
                 /\ UNCHANGED svcVars

Next ==
  \/ \E m \in Mains : Launch(m) \/ mainStep(m)
  \/ daemonStep
  \/ \E c \in Conns : Accept(c) \/ connStep(c)
  \/ StopServing
  \/ ctlStep
  \/ coreStep
  \/ \E p \in Pids : procStep(p) \/ othersStep(p)
  \/ DaemonDies
  \/ Reboot
  \/ InstallerMakesDirectory

Spec == Init /\ [][Next]_vars

\* launchd keeps the daemon alive; goroutines and processes run; every call is
\* bounded by a deadline.  Clients, signals, faults and exits are never forced.
Fairness == /\ WF_vars(Launch("daemon"))
            /\ \A m \in Mains : WF_vars(mainStep(m))
            /\ WF_vars(daemonStep) /\ WF_vars(ctlStep)
            /\ WF_vars(startStep /\ UNCHANGED svcVars)
            /\ WF_vars(superviseStep /\ UNCHANGED svcVars)
            /\ \A c \in Conns : WF_vars(connStep(c))
            /\ \A p \in Pids : WF_vars(procStep(p))

FairSpec == Spec /\ Fairness

-----------------------------------------------------------------------------
(* Properties *)

\* A core, or a descendant of one, that lives is named by the journal, so that
\* the service that comes after a crash finds it: "EOF means the parent died
\* before it durably registered ownership and must never start TUN"
\* (process_recovery_darwin.go).
CoreIsJournaled ==
  \A p \in Pids : proc[p].kind = "core" => record.pid = p /\ record.born = proc[p].born

\* supervise signals the group while the unreaped leader reserves its pid: never
\* an unrelated process.  recoverCore has no such hold on the pid it rechecked
\* ("ambiguity never authorizes a kill"): whom it signals is the recorded process,
\* or one that took the pid after the recheck, the race deploy/macos/README.md
\* says remains, and never one that had it before.
SignalsOwnOnly ==
  /\ sup.pc \in {"term", "kill"} => proc[sup.pid].kind # "foreign"
  /\ \A m \in Mains : main[m] = "signal" /\ proc[record.pid].kind = "foreign"
                      => proc[record.pid].born > checked

\* The network is handed back only when no core and no descendant of one lives,
\* whichever program does it: the daemon's Disconnect with its proof of
\* termination, or a start-up after RecoverOwnedCore under the lock.
CoreGoneFirst ==
  [][net = "product" /\ net' = "clean" => \A p \in Pids : proc[p].kind # "core"]_vars

\* run() returned without an error: nothing of the product is left behind, no
\* request having begun another lifecycle beside the cleanup ("No dispatcher
\* may begin another lifecycle while independent cleanup is running").
StoppedLeavesNothing ==
  main["daemon"] = "stopped" /\ main["restore"] \in Down
    => /\ net = "clean" /\ record.pid = 0 /\ sock = "none"
       /\ \A p \in Pids : proc[p].kind # "core"

\* What a start-up must not touch: a recycled pid, or descendants of a core whose
\* leader is gone.
InTheWay == record.pid # 0 /\ record.boot
            /\ (proc[record.pid].kind = "foreign" \/ proc[record.pid].kids)


=============================================================================
