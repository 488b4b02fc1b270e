------------------------------ MODULE CoreOwner ------------------------------
(***************************************************************************)
(* The macOS core process and its owner                                    *)
(* (internal/platform/darwin/process_darwin.go, process_recovery_darwin.go).*)
(*                                                                         *)
(* The service starts a copy of itself, the helper, in a fresh process     *)
(* group.  The helper waits on a pipe, the gate; the service captures its  *)
(* identity, writes it to the journal owned-core.json, and only then sends *)
(* the byte that lets the helper execute the core.  A supervisor goroutine *)
(* watches the leader, signals the group, audits it, reaps the leader and, *)
(* when all that proved the group empty, removes the journal record.  After*)
(* a crash the next service finds the record, checks that the process it   *)
(* names is still the same one, and kills its group.                       *)
(*                                                                         *)
(* Process identifiers are recycled by the kernel: a process is its pid    *)
(* and its birth (its start time).                                         *)
(***************************************************************************)
EXTENDS Integers, FiniteSets

CONSTANTS
  Pids,        \* the process identifiers, positive numbers
  MaxFaults    \* failures of any kind in one behaviour

ASSUME PidsAssumption == Pids \subseteq Nat \ {0} /\ IsFiniteSet(Pids)
ASSUME MaxFaultsAssumption == MaxFaults \in Nat

VARIABLES
  proc,       \* the process group of each pid
  births,     \* processes born so far
  record,     \* owned-core.json: the process it names, pid 0 if there is none
  start,      \* where PersistentProcessSupervisor.Start is
  sup,        \* processInstance and its supervise goroutine
  faults      \* failures so far

coreVars == <<proc, births, record, start, sup, faults>>

\* A group: what its leader runs, whether the leader lives, is unreaped or is
\* gone, whether descendants of it live, and the gate the helper waits on.
Free == [kind |-> "free", leader |-> "gone", kids |-> FALSE, born |-> 0, gate |-> "none"]

Groups == [kind : {"free", "helper", "core", "foreign"}, leader : {"live", "zombie", "gone"},
           kids : BOOLEAN, born : Nat, gate : {"none", "shut", "G", "eof"}]

Records == [pid : Pids \cup {0}, born : Nat, boot : BOOLEAN]

NoRecord == [pid |-> 0, born |-> 0, boot |-> TRUE]

Instances == [pid : Pids \cup {0}, asked : BOOLEAN, ok : BOOLEAN,
              pc : {"none", "new", "watch", "term", "kill", "audit", "reap", "forget", "finished"},
              result : {"none", "proven", "unproven"}]

NoInstance == [pid |-> 0, pc |-> "none", asked |-> FALSE, ok |-> TRUE, result |-> "none"]

CoreInit == /\ proc = [p \in Pids |-> Free]
            /\ births = 0
            /\ record = NoRecord
            /\ start = "idle"
            /\ sup = NoInstance
            /\ faults = 0

Fault == faults < MaxFaults /\ faults' = faults + 1

\* A group with neither leader nor descendants: its pid may be used again.
Settle(g) == IF g.leader = "gone" /\ ~g.kids THEN Free ELSE g

\* groupEmptyOfLiveProcesses: no member but zombies.
groupEmpty(p) == proc[p].leader # "live" /\ ~proc[p].kids

\* Mutant: a goroutine waits for the leader from the start and reaps it at once.
reapedAtOnce(p) == p = 0

\* A dead leader stays a zombie while the service that started it has not
\* waited for it; the leader of a dead service is reaped by launchd.
Unreaped(p) == p = sup.pid /\ sup.pc \notin {"forget", "finished"}

Dead(p, g) == Settle([g EXCEPT !.leader = IF Unreaped(p) THEN "zombie" ELSE "gone"])

\* SIGKILL to the group of p.
Killed(p) == [proc EXCEPT ![p] = Dead(p, [@ EXCEPT !.kids = FALSE])]

-----------------------------------------------------------------------------
(* The processes themselves *)

\* awaitCoreGate and RunCoreHelper: the released helper verifies the launch
\* once more and becomes the core.
HelperExecutes(p) ==
  /\ proc[p].kind = "helper" /\ proc[p].leader = "live" /\ proc[p].gate = "G"
  /\ proc' = [proc EXCEPT ![p].kind = "core", ![p].gate = "none"]
  /\ UNCHANGED <<births, record, start, sup, faults>>

\* EOF on the gate: the parent died before it registered the helper.
HelperGivesUp(p) ==
  /\ proc[p].kind = "helper" /\ proc[p].leader = "live" /\ proc[p].gate = "eof"
  /\ proc' = [proc EXCEPT ![p] = Dead(p, @)]
  /\ UNCHANGED <<births, record, start, sup, faults>>

\* Any leader may exit: a helper whose verification fails, a core that stops,
\* one that was sent SIGTERM, an unrelated process.
LeaderExits(p) ==
  /\ proc[p].leader = "live"
  /\ IF proc[p].kind = "foreign" \/ (p = sup.pid /\ sup.pc = "kill")
       THEN UNCHANGED faults ELSE Fault
  /\ proc' = [proc EXCEPT ![p] = Dead(p, @)]
  /\ UNCHANGED <<births, record, start, sup>>

\* The core starts system helpers; the attested build keeps them in its group.
CoreForks(p) ==
  /\ proc[p].kind = "core" /\ proc[p].leader = "live" /\ ~proc[p].kids
  /\ proc' = [proc EXCEPT ![p].kids = TRUE]
  /\ UNCHANGED <<births, record, start, sup, faults>>

ChildExits(p) ==
  /\ proc[p].kids
  /\ proc' = [proc EXCEPT ![p] = Settle([@ EXCEPT !.kids = FALSE])]
  /\ UNCHANGED <<births, record, start, sup, faults>>

\* An unrelated process takes a free pid.
ForeignStarts(p) ==
  /\ proc[p] = Free
  /\ Fault
  /\ births' = births + 1
  /\ proc' = [proc EXCEPT ![p] = [kind |-> "foreign", leader |-> "live", kids |-> FALSE,
                                      born |-> births + 1, gate |-> "none"]]
  /\ UNCHANGED <<record, start, sup>>

-----------------------------------------------------------------------------
(* PersistentProcessSupervisor.Start and ProcessSupervisor.Start.  The     *)
(* controller starts the core with context.WithoutCancel: the looks at the *)
(* context find nothing.                                                   *)

\* The core, its digest and its configuration are the installed ones.
VerifyInstalledLaunch ==
  /\ start = "verify"
  /\ \/ start' = "load" /\ UNCHANGED faults
     \/ start' = "failed" /\ Fault
  /\ UNCHANGED <<proc, births, record, sup>>

\* No unresolved record is left.
StartChecks ==
  /\ start = "load"
  /\ \/ record.pid = 0 /\ start' = "spawn" /\ UNCHANGED faults
     \/ record.pid # 0 /\ start' = "failed" /\ UNCHANGED faults
     \/ start' = "failed" /\ Fault
  /\ UNCHANGED <<proc, births, record, sup>>

\* cmd.Start in a group of its own: the helper is born with the gate shut.
StartSpawns ==
  /\ start = "spawn"
  /\ \/ /\ \E p \in Pids :
             /\ proc[p] = Free
             /\ births' = births + 1
             /\ proc' = [proc EXCEPT ![p] = [kind |-> "helper", leader |-> "live",
                           kids |-> FALSE, born |-> births + 1, gate |-> "shut"]]
             /\ sup' = [NoInstance EXCEPT !.pid = p, !.pc = "new"]
        /\ start' = "inspect"
        /\ UNCHANGED faults
     \/ /\ \A p \in Pids : proc[p] # Free
        /\ start' = "failed"
        /\ UNCHANGED <<proc, births, sup, faults>>
     \/ start' = "failed" /\ Fault /\ UNCHANGED <<proc, births, sup>>
  /\ UNCHANGED record

\* A failed registration: the supervisor starts and is asked to stop at once.
startAborts == /\ start' = "cleanup"
               /\ sup' = [sup EXCEPT !.pc = "watch", !.asked = TRUE]

\* afterStart: inspectCore of the helper.  A dead helper has no identity.
StartInspects ==
  /\ start = "inspect"
  /\ \/ /\ proc[sup.pid].leader = "live" /\ start' = "save"
        /\ UNCHANGED <<sup, faults>>
     \/ proc[sup.pid].leader # "live" /\ startAborts /\ UNCHANGED faults
     \/ startAborts /\ Fault
  /\ UNCHANGED <<proc, births, record>>

\* Mutant: the helper is released although its record may not be on disk.
saveErrorIgnored ==
  /\ start = "save"
  /\ start' = "release"
  /\ LET mine == [pid |-> sup.pid, born |-> proc[sup.pid].born, boot |-> TRUE]
     IN \/ record' = mine /\ UNCHANGED faults
        \/ record' = record /\ Fault
  /\ UNCHANGED <<proc, births, sup>>

\* saveCoreRecord: a failure after the rename leaves the record on disk.
saveCoreRecord ==
  /\ start = "save"
  /\ LET mine == [pid |-> sup.pid, born |-> proc[sup.pid].born, boot |-> TRUE]
     IN \/ start' = "release" /\ record' = mine /\ UNCHANGED <<sup, faults>>
        \/ startAborts /\ record' \in {mine, record} /\ Fault
  /\ UNCHANGED <<proc, births>>

\* The byte is written; the supervisor goroutine starts.
StartReleases ==
  /\ start = "release"
  /\ IF proc[sup.pid].leader = "live"
       THEN /\ proc' = [proc EXCEPT ![sup.pid].gate = "G"]
            /\ start' = "ok"
            /\ sup' = [sup EXCEPT !.pc = "watch"]
       ELSE startAborts /\ UNCHANGED proc
  /\ UNCHANGED <<births, record, faults>>

\* Stop with four seconds: the outcome of the supervisor, or no proof.
StartCleansUp ==
  /\ start = "cleanup"
  /\ \/ /\ sup.pc = "finished"
        /\ start' = IF sup.result = "proven" THEN "failed" ELSE "unproven"
        /\ UNCHANGED faults
     \/ sup.pc # "finished" /\ start' = "unproven" /\ Fault
  /\ UNCHANGED <<proc, births, record, sup>>

-----------------------------------------------------------------------------
(* processInstance.supervise *)

superviseWatches ==
  /\ sup.pc = "watch"
  /\ \/ (sup.asked \/ proc[sup.pid].leader # "live") /\ UNCHANGED faults
     \/ Fault
  /\ sup' = [sup EXCEPT !.pc = "term"]
  /\ UNCHANGED <<proc, births, record, start>>

\* SIGTERM: the members may exit, in their own time, during the grace.
superviseTerms ==
  /\ sup.pc = "term"
  /\ \/ sup' = [sup EXCEPT !.pc = "kill"] /\ UNCHANGED faults
     \/ sup' = [sup EXCEPT !.pc = "kill", !.ok = FALSE] /\ Fault
  /\ UNCHANGED <<proc, births, record, start>>

\* SIGKILL unless the group is already empty; a member may not be killable yet.
superviseKills ==
  /\ sup.pc = "kill"
  /\ \/ /\ sup' = [sup EXCEPT !.pc = "audit"]
        /\ proc' = IF groupEmpty(sup.pid) THEN proc ELSE Killed(sup.pid)
        /\ UNCHANGED faults
     \/ sup' = [sup EXCEPT !.pc = "audit"] /\ Fault /\ UNCHANGED proc
     \/ sup' = [sup EXCEPT !.pc = "audit", !.ok = FALSE] /\ Fault /\ UNCHANGED proc
  /\ UNCHANGED <<births, record, start>>

\* Two seconds of looking at the group.
superviseAudits ==
  /\ sup.pc = "audit"
  /\ \/ groupEmpty(sup.pid) /\ sup' = [sup EXCEPT !.pc = "reap"] /\ UNCHANGED faults
     \/ /\ ~groupEmpty(sup.pid)
        /\ sup' = [sup EXCEPT !.pc = "reap", !.ok = FALSE] /\ UNCHANGED faults
     \/ sup' = [sup EXCEPT !.pc = "reap", !.ok = FALSE] /\ Fault
  /\ UNCHANGED <<proc, births, record, start>>

\* cmd.Wait, bounded: from here on the pid may be used again.
superviseReaps ==
  /\ sup.pc = "reap"
  /\ IF proc[sup.pid].leader = "zombie"
       THEN /\ proc' = [proc EXCEPT ![sup.pid] = Settle([@ EXCEPT !.leader = "gone"])]
            /\ sup' = [sup EXCEPT !.pc = "forget"]
       ELSE /\ sup' = [sup EXCEPT !.pc = "forget", !.ok = FALSE]
            /\ UNCHANGED proc
  /\ UNCHANGED <<births, record, start, faults>>

\* afterProvenStop: removeCoreRecord; its failure withdraws the proof.
superviseForgets ==
  /\ sup.pc = "forget"
  /\ \/ /\ sup' = [sup EXCEPT !.pc = "finished",
                              !.result = IF sup.ok THEN "proven" ELSE "unproven"]
        /\ record' = IF sup.ok THEN NoRecord ELSE record
        /\ UNCHANGED faults
     \/ /\ sup.ok /\ Fault
        /\ sup' = [sup EXCEPT !.pc = "finished", !.result = "unproven"]
        /\ record' \in {NoRecord, record}
  /\ UNCHANGED <<proc, births, start>>

superviseStep == superviseWatches \/ superviseTerms \/ superviseKills \/ superviseAudits
                 \/ superviseReaps \/ superviseForgets

startStep == VerifyInstalledLaunch \/ StartChecks \/ StartSpawns \/ StartInspects \/ saveCoreRecord
             \/ StartReleases \/ StartCleansUp

\* Ready: the leader lives and is not being reaped.
Ready == proc[sup.pid].leader = "live" /\ sup.pc \notin {"forget", "finished"}

-----------------------------------------------------------------------------
(* RecoverOwnedCore, the steps of the service that found a record.  Each  *)
(* yields the verdict of the step: "next", "again", "done" or "error".    *)

\* inspectCore: nothing, an error, or the identity of one of our processes.
inspectCore(p) == CASE proc[p].leader = "gone" -> [found |-> FALSE, bad |-> FALSE, born |-> 0]
                    [] proc[p].kind = "foreign" \/ proc[p].leader = "zombie"
                         -> [found |-> FALSE, bad |-> TRUE, born |-> 0]
                    [] OTHER -> [found |-> TRUE, bad |-> FALSE, born |-> proc[p].born]

\* recoverCore up to the first comparison.
recoverInspects ==
  CASE record.pid = 0 -> "done"
    [] record.pid # 0 /\ ~record.boot -> "forget"
    [] OTHER -> LET id == inspectCore(record.pid) IN
                  CASE id.bad -> "error"
                    [] ~id.bad /\ ~id.found ->
                         IF groupEmpty(record.pid) THEN "forget" ELSE "error"
                    [] OTHER -> IF id.born = record.born THEN "next" ELSE "error"

\* The recheck immediately before the signal.
recoverRechecks == LET id == inspectCore(record.pid) IN
                     IF id.found /\ id.born = record.born THEN "next" ELSE "error"

\* kill(-pid): there is no such group once its last member exited.
recoverSignals == IF groupEmpty(record.pid) THEN "error" ELSE "next"

-----------------------------------------------------------------------------

\* The service dies: its goroutines, its pipe and its instance are gone.  An
\* unreaped leader is reaped by launchd, a waiting helper reads EOF.
ServiceDies ==
  /\ proc' = [p \in Pids |->
                IF p # sup.pid THEN proc[p]
                ELSE IF proc[p].leader = "zombie"
                       THEN Settle([proc[p] EXCEPT !.leader = "gone"])
                       ELSE [proc[p] EXCEPT !.gate = IF @ = "shut" THEN "eof" ELSE @]]
  /\ sup' = NoInstance
  /\ start' = "idle"
  /\ UNCHANGED <<births, record>>

\* The machine restarts: every process is gone, the record is of another boot.
MachineRestarts ==
  /\ proc' = [p \in Pids |-> Free]
  /\ record' = [record EXCEPT !.boot = record.pid = 0]
  /\ sup' = NoInstance
  /\ start' = "idle"
  /\ UNCHANGED births

=============================================================================
