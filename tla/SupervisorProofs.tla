-------------------------- MODULE SupervisorProofs --------------------------
(***************************************************************************)
(* Theorems about Supervisor and ServerService, for any number of callers  *)
(* of Stop and of failing calls of the operating system.                   *)
(*                                                                         *)
(* A supervised process is in one of four phases, told apart by Start's    *)
(* thread: Start has not succeeded, it failed and left a root it could not *)
(* prove dead, the root was resumed, or the service is gone.  Each phase   *)
(* has its own invariant; the third also says who owns the teardown and    *)
(* what the owner has seen.                                                *)
(***************************************************************************)
EXTENDS ServerService, TLAPS

Launching == {"idle", "assign", "resume", "abort", "abortwait"}
Owning    == {"termjob", "waitroot", "waitempty", "closejob", "finish"}
Up        == {"up", "probing", "waitdone", "acquire", "awaitcleanup"} \cup Owning
LoopPcs   == {"wait", "acquire", "awaitcleanup", "read", "publish", "ended"} \cup Owning
CallerPcs == {"armed", "idle", "grace", "joindone", "joincleanup", "acquire",
              "awaitcleanup", "ended"} \cup Owning
Retrying  == {"retry", "retrywait", "retryclose"}

\* No root was resumed so far: nothing but a suspended root can exist.
LaunchInv ==
  /\ pc["loop"] = "off" /\ pc["watcher"] = "off" /\ \A t \in Stoppers : pc[t] = "idle"
  /\ ~crashed /\ ~started /\ ~failedStart /\ ~stopping
  /\ done = "none" /\ cleanup = "none" /\ ~kids
  /\ pc["start"] = "idle" => root \in {"none", "exited"}
  /\ pc["start"] # "idle" => root \in {"suspended", "exited"} /\ nativeCreated
  /\ pc["start"] \in {"assign", "resume"} => jobHandle = "open"
  /\ pc["start"] = "resume" => inJob

\* A failed Start is remembered until a Stop sees its root dead.
FailedInv ==
  /\ pc["loop"] = "off" /\ pc["watcher"] = "off"
  /\ \A t \in Stoppers : pc[t] \in {"idle"} \cup Retrying
  /\ ~crashed /\ nativeCreated /\ cleanup = "none" /\ ~kids /\ root \in {"suspended", "exited"}
  /\ failedStart = started /\ (failedStart => done = "open")
  /\ ~failedStart \/ terminationProven => root = "exited"
  /\ \A t \in Stoppers : pc[t] \in Retrying =>
       /\ failedStart /\ (pc[t] = "retryclose" => root = "exited")
       /\ \A u \in Stoppers : pc[u] \in Retrying => u = t

\* What the owner of the teardown has done and seen.
Owner(t) ==
  /\ pc[t] = "termjob" => owned = NoOwner
  /\ pc[t] = "waitroot" => ~owned.empty /\ (IF owned.terminated THEN killJob ELSE owned.err)
  /\ pc[t] = "waitempty" => ~owned.empty /\ killJob
  /\ pc[t] = "closejob" => killJob
  /\ pc[t] \in {"closejob", "finish"} => (owned.empty => TreeGone) /\ (owned.empty \/ owned.err)

UpFlags ==
  /\ ~crashed /\ started /\ ~failedStart /\ nativeCreated /\ inJob
  /\ root \in {"running", "exited"} /\ (killJob \/ jobHandle \in {"open", "leaked"})
  /\ done = IF pc["loop"] = "ended" THEN "closed" ELSE "open"

UpThreads ==
  /\ pc["loop"] \in LoopPcs
  /\ \A t \in Callers : pc[t] \in CallerPcs

\* At most one owner, and only while the teardown runs.
UpOwner ==
  \A t \in Thread : pc[t] \in Owning =>
    /\ cleanup = "running" /\ Owner(t)
    /\ \A u \in Thread : pc[u] \in Owning => u = t

\* What a finished teardown says is true.
UpProof ==
  /\ pc["loop"] \in {"read", "publish", "ended"} => cleanup = "done"
  /\ cleanup = "done" /\ ~cleanupErr => TreeGone
  /\ terminationProven => TreeGone

UpInv == UpFlags /\ UpThreads /\ UpOwner /\ UpProof

\* The job killed what was in it.
DeadInv ==
  /\ crashed /\ \A t \in Thread : pc[t] = "dead"
  /\ done = "none" /\ cleanup = "none"
  /\ root = "running" \/ kids => inJob /\ killJob

Phases ==
  \/ pc["start"] \in Launching /\ LaunchInv
  \/ pc["start"] = "failed" /\ FailedInv
  \/ pc["start"] \in Up /\ UpInv
  \/ pc["start"] = "dead" /\ DeadInv

SupInv == TypeOK /\ ~untrue /\ Phases

\* Execute returns only after Start did, and does not start again.
Hosted ==
  /\ host = "controller" => exec = "none"
  /\ crashed /\ host = "server" => exec = "gone"
  /\ exec \in {"ready", "serving", "stop", "stopping", "returned"} => ~Locked
  /\ exec = "returned" /\ code # "cleanup" => TreeGone

IInv == HostTypeOK /\ SupInv /\ Hosted

-----------------------------------------------------------------------------
(* Threads, returns and phases *)

\* The threads of a supervised process are different.
LEMMA Threads ==
  /\ "start" \in Thread /\ "loop" \in Thread /\ "watcher" \in Thread /\ "watcher" \in Callers
  /\ Callers \subseteq Thread /\ Stoppers \subseteq Callers
  /\ "start" \notin Callers /\ "loop" \notin Callers /\ "watcher" \notin Stoppers
  /\ \A t \in Callers : t = "watcher" \/ t \in Stoppers
  /\ \A t \in Thread : t \in Callers \/ t \in {"start", "loop"}
BY StoppersAssumption DEF Thread, Callers

\* The count of failures stays within its bound.
LEMMA FaultType ==
  ASSUME TypeOK, Fine \/ Fault \/ Faults(2)
  PROVE  faults' \in 0..MaxFaults
BY FaultsAssumption DEF TypeOK, Fine, Fault, Faults

\* Where a thread goes when its call returns.
Back(t) == IF t = "start" THEN "up" ELSE IF t = "watcher" THEN "ended" ELSE "idle"

\* A call that returns without an error tells the truth if the tree is gone.
LEMMA Returned ==
  ASSUME SupInv, NEW t \in Thread, t # "loop", NEW err \in BOOLEAN, Return(t, err),
         t = "start" \/ err \/ TreeGone
  PROVE  /\ pc' = [pc EXCEPT ![t] = Back(t)] /\ ~untrue' /\ UNCHANGED <<exitErr, owned>>
         /\ readyFailed' \in BOOLEAN /\ stopErr' \in BOOLEAN /\ untrue' \in BOOLEAN
         /\ ctxDone' \in [Callers -> BOOLEAN]
<1> USE Threads DEF SupInv
<1>0. /\ readyFailed \in BOOLEAN /\ stopErr \in BOOLEAN /\ untrue \in BOOLEAN
      /\ ctxDone \in [Callers -> BOOLEAN]
  BY DEF TypeOK
<1>1. pc' = [pc EXCEPT ![t] = Back(t)] /\ UNCHANGED <<exitErr, owned>>
  BY DEF Return, Goto, Back
<1>2. CASE t = "start" BY <1>0, <1>1, <1>2 DEF Return
<1>3. CASE t # "start"
  <2>1. /\ stopErr' = (IF t \in Stoppers THEN err ELSE stopErr)
        /\ untrue' = (untrue \/ ~(err \/ TreeGone))
        /\ ctxDone' = [ctxDone EXCEPT ![t] = FALSE] /\ readyFailed' = readyFailed
    BY <1>3 DEF Return
  <2>2. ~untrue' /\ untrue' \in BOOLEAN BY <1>0, <1>3, <2>1
  <2>3. stopErr' \in BOOLEAN BY <1>0, <2>1
  <2> QED BY <1>0, <1>1, <2>1, <2>2, <2>3
<1> QED BY <1>2, <1>3

\* One thread moves.
LEMMA Moved ==
  ASSUME TypeOK, NEW t \in Thread, NEW q \in Pcs, pc' = [pc EXCEPT ![t] = q]
  PROVE  /\ pc' \in [Thread -> Pcs] /\ pc'[t] = q
         /\ \A u \in Thread : u # t => pc'[u] = pc[u]
BY DEF TypeOK

\* The phases exclude each other.
LEMMA PhaseOf ==
  ASSUME SupInv
  PROVE  /\ pc["start"] \in Launching => LaunchInv
         /\ pc["start"] = "failed" => FailedInv
         /\ pc["start"] \in Up => UpInv
         /\ pc["start"] = "dead" => DeadInv
         /\ crashed => DeadInv /\ pc["start"] = "dead"
         /\ Locked => LaunchInv
BY DEF SupInv, Phases, Launching, Up, Owning, LaunchInv, FailedInv, UpInv, UpFlags, DeadInv, Locked

\* A goroutine at work on a stop or a teardown means that the root was resumed.
LEMMA AtWork ==
  ASSUME SupInv, NEW t \in Thread,
         pc[t] \in Owning \cup {"up", "probing", "waitdone", "acquire", "awaitcleanup", "wait", "read",
                                "publish", "armed", "grace", "joindone", "joincleanup"}
  PROVE  pc["start"] \in Up /\ UpInv
<1>1. CASE pc["start"] \in Launching
  <2>1. LaunchInv BY <1>1, PhaseOf
  <2> QED BY <1>1, <2>1, Threads DEF LaunchInv, Launching, Owning
<1>2. CASE pc["start"] = "failed"
  <2>1. FailedInv BY <1>2, PhaseOf
  <2> QED BY <1>2, <2>1, Threads DEF FailedInv, Retrying, Owning
<1>3. CASE pc["start"] = "dead"
  <2>1. DeadInv BY <1>3, PhaseOf
  <2> QED BY <2>1 DEF DeadInv, Owning
<1> QED BY <1>1, <1>2, <1>3, PhaseOf DEF SupInv, Phases

-----------------------------------------------------------------------------
(* Start *)

\* A Start that fails before the launch changes nothing.
LEMMA StartRefusedInv == ASSUME SupInv, StartRefused PROVE SupInv'
<1> USE DEF SupInv
<1>0. /\ UNCHANGED <<root, kids, inJob, killRoot, killJob, jobHandle, procHandle, crashed, started,
         ready, rootExited, stopping, failedStart, nativeCreated, terminationProven, done, cleanup,
         cleanupErr, waitErr, pc, ctxDone, untrue, readyFailed, stopErr, exitErr, owned>> /\ Fault
  BY DEF StartRefused, os, process, flags, outcome, locals
<1>1. TypeOK' BY <1>0, FaultType DEF TypeOK
<1>2. pc["start"] \in Launching /\ LaunchInv BY PhaseOf DEF StartRefused, Launching
<1>3. LaunchInv' BY <1>0, <1>2 DEF LaunchInv
<1> QED BY <1>0, <1>1, <1>2, <1>3 DEF Phases

\* Start launches the root suspended.
LEMMA StartLaunchInv == ASSUME SupInv, StartLaunch PROVE SupInv'
<1> USE Threads DEF SupInv
<1>0. /\ root' = "suspended" /\ jobHandle' = "open" /\ procHandle' = "open"
      /\ inJob' = FALSE /\ killRoot' = FALSE /\ killJob' = FALSE /\ nativeCreated' = TRUE
      /\ pc["start"] = "idle" /\ pc' = [pc EXCEPT !["start"] = "assign"] /\ Fine
      /\ UNCHANGED <<kids, crashed, started, ready, rootExited, stopping, failedStart,
           terminationProven, done, cleanup, cleanupErr, waitErr, ctxDone, untrue, readyFailed,
           stopErr, exitErr, owned>>
  BY DEF StartLaunch, Goto, outcome, locals
<1>1. "assign" \in Pcs BY DEF Pcs
<1>2. pc' \in [Thread -> Pcs] /\ pc'["start"] = "assign" /\ \A u \in Thread : u # "start" => pc'[u] = pc[u]
  BY <1>0, <1>1, Moved
<1>3. TypeOK'
  <2>1. faults' \in 0..MaxFaults BY <1>0, FaultType
  <2>2. TypeOK OBVIOUS
  <2>3. killRoot' \in BOOLEAN /\ killJob' \in BOOLEAN /\ inJob' \in BOOLEAN /\ nativeCreated' \in BOOLEAN
    BY <1>0
  <2> QED BY ONLY <1>0, <1>2, <2>1, <2>2, <2>3 DEF TypeOK
<1>4. LaunchInv BY <1>0, PhaseOf DEF Launching
<1>5. LaunchInv' BY <1>0, <1>2, <1>4 DEF LaunchInv
<1> QED BY <1>0, <1>2, <1>3, <1>5 DEF Phases, Launching

\* Start assigns the root to the job, or aborts.
LEMMA StartAssignInv == ASSUME SupInv, StartAssign PROVE SupInv'
<1> USE Threads DEF SupInv
<1>0. /\ pc["start"] = "assign" /\ (Fine \/ Fault)
      /\ \/ inJob' = TRUE /\ pc' = [pc EXCEPT !["start"] = "resume"]
         \/ inJob' = inJob /\ pc' = [pc EXCEPT !["start"] = "abort"]
      /\ UNCHANGED <<root, kids, killRoot, killJob, jobHandle, procHandle, crashed, started, ready,
           rootExited, stopping, failedStart, nativeCreated, terminationProven, done, cleanup,
           cleanupErr, waitErr, ctxDone, untrue, readyFailed, stopErr, exitErr, owned>>
  BY DEF StartAssign, Goto, handles, process, flags, outcome, locals
<1>1. "resume" \in Pcs /\ "abort" \in Pcs BY DEF Pcs
<1>2. PICK q \in {"resume", "abort"} :
        /\ pc' \in [Thread -> Pcs] /\ pc'["start"] = q /\ \A u \in Thread : u # "start" => pc'[u] = pc[u]
        /\ q = "resume" => inJob'
  BY <1>0, <1>1, Moved
<1>3. TypeOK'
  <2>1. faults' \in 0..MaxFaults /\ TypeOK BY <1>0, FaultType
  <2>2. inJob' \in BOOLEAN BY <1>0 DEF TypeOK
  <2> QED BY ONLY <1>0, <1>2, <2>1, <2>2 DEF TypeOK
<1>4. LaunchInv BY <1>0, PhaseOf DEF Launching
<1>5. LaunchInv' BY <1>0, <1>2, <1>4 DEF LaunchInv
<1> QED BY <1>0, <1>2, <1>3, <1>5 DEF Phases, Launching

\* The root runs, in the job, before Start lets go of p.mu.
LEMMA StartResumeInv == ASSUME SupInv, StartResume PROVE SupInv'
<1> USE Threads DEF SupInv
<1>0. /\ pc["start"] = "resume" /\ (Fine \/ Fault)
      /\ \/ /\ root' = "running" /\ started' = TRUE /\ done' = "open" /\ terminationProven' = FALSE
            /\ pc' = [pc EXCEPT !["start"] = "up", !["loop"] = "wait", !["watcher"] = "armed"]
         \/ /\ pc' = [pc EXCEPT !["start"] = "abort"]
            /\ UNCHANGED <<root, started, done, terminationProven>>
      /\ UNCHANGED <<kids, inJob, killRoot, killJob, jobHandle, procHandle, crashed, ready, rootExited,
           stopping, failedStart, nativeCreated, cleanup, cleanupErr, waitErr, ctxDone, untrue,
           readyFailed, stopErr, exitErr, owned>>
  BY DEF StartResume, Goto, handles, locals
<1>1. {"up", "wait", "armed", "abort"} \subseteq Pcs BY DEF Pcs
<1>2. LaunchInv /\ TypeOK /\ faults' \in 0..MaxFaults BY <1>0, PhaseOf, FaultType DEF Launching
<1>3. CASE /\ root' = "running" /\ started' = TRUE /\ done' = "open" /\ terminationProven' = FALSE
           /\ pc' = [pc EXCEPT !["start"] = "up", !["loop"] = "wait", !["watcher"] = "armed"]
  <2>1. /\ pc' \in [Thread -> Pcs] /\ pc'["start"] = "up" /\ pc'["loop"] = "wait"
        /\ pc'["watcher"] = "armed"
        /\ \A u \in Thread : u \notin {"start", "loop", "watcher"} => pc'[u] = pc[u]
    BY <1>1, <1>2, <1>3 DEF TypeOK
  <2>2. TypeOK'
    <3>1. started' \in BOOLEAN /\ terminationProven' \in BOOLEAN BY <1>3
    <3> QED BY ONLY <1>0, <1>2, <1>3, <2>1, <3>1 DEF TypeOK
  <2>3. UpFlags' BY <1>0, <1>2, <1>3, <2>1 DEF UpFlags, LaunchInv
  <2>4. \A t \in Callers : pc'[t] \in CallerPcs /\ pc'[t] \notin Owning
    BY <1>2, <2>1 DEF LaunchInv, CallerPcs, Owning
  <2>5. UpThreads' BY <2>1, <2>4 DEF UpThreads, LoopPcs
  <2>6. \A t \in Thread : pc'[t] \notin Owning BY <2>1, <2>4 DEF Owning
  <2>7. UpOwner' BY <2>6 DEF UpOwner
  <2>8. UpProof' BY <1>0, <1>2, <1>3, <2>1 DEF UpProof, LaunchInv
  <2> QED BY <1>0, <2>1, <2>2, <2>3, <2>5, <2>7, <2>8 DEF Phases, Up, UpInv
<1>4. CASE pc' = [pc EXCEPT !["start"] = "abort"] /\ UNCHANGED <<root, started, done, terminationProven>>
  <2>1. /\ pc' \in [Thread -> Pcs] /\ pc'["start"] = "abort"
        /\ \A u \in Thread : u # "start" => pc'[u] = pc[u]
    BY <1>1, <1>2, <1>4, Moved
  <2>2. TypeOK' BY ONLY <1>0, <1>2, <1>4, <2>1 DEF TypeOK
  <2>3. LaunchInv' BY <1>0, <1>2, <1>4, <2>1 DEF LaunchInv
  <2> QED BY <1>0, <2>1, <2>2, <2>3 DEF Phases, Launching
<1> QED BY <1>0, <1>3, <1>4

\* An aborted Start terminates the suspended root.
LEMMA abortTerminateInv == ASSUME SupInv, abortTerminate PROVE SupInv'
<1> USE Threads DEF SupInv
<1>0. /\ pc["start"] = "abort" /\ pc' = [pc EXCEPT !["start"] = "abortwait"]
      /\ (Fine \/ Fault \/ Faults(2))
      /\ killJob' \in {killJob, TRUE} /\ killRoot' \in {killRoot, TRUE}
      /\ jobHandle' \in {jobHandle, "closed", "leaked"}
      /\ UNCHANGED <<root, kids, inJob, procHandle, crashed, started, ready,
           rootExited, stopping, failedStart, nativeCreated, terminationProven, done, cleanup,
           cleanupErr, waitErr, ctxDone, untrue, readyFailed, stopErr, exitErr, owned>>
  BY DEF abortTerminate, Goto, process, flags, outcome, locals
<1>1. "abortwait" \in Pcs BY DEF Pcs
<1>2. /\ pc' \in [Thread -> Pcs] /\ pc'["start"] = "abortwait"
      /\ \A u \in Thread : u # "start" => pc'[u] = pc[u]
  BY <1>0, <1>1, Moved
<1>3. TypeOK'
  <2>1. faults' \in 0..MaxFaults /\ TypeOK BY <1>0, FaultType
  <2>2. killJob' \in BOOLEAN /\ killRoot' \in BOOLEAN /\ jobHandle' \in {"none", "open", "closed", "leaked"}
    BY <1>0 DEF TypeOK
  <2> QED BY ONLY <1>0, <1>2, <2>1, <2>2 DEF TypeOK
<1>4. LaunchInv BY <1>0, PhaseOf DEF Launching
<1>5. LaunchInv' BY <1>0, <1>2, <1>4 DEF LaunchInv
<1> QED BY <1>0, <1>2, <1>3, <1>5 DEF Phases, Launching

\* An aborted Start sees its root dead, or remembers it.
LEMMA abortWaitInv == ASSUME SupInv, abortWait PROVE SupInv'
<1> USE Threads DEF SupInv
<1>0. /\ pc["start"] = "abortwait" /\ (Fine \/ Fault)
      /\ jobHandle' \in {jobHandle, "closed"} /\ killJob' \in {killJob, killJob \/ inJob}
      /\ \/ /\ root = "exited" /\ terminationProven' = TRUE /\ procHandle' = "closed"
            /\ pc' = [pc EXCEPT !["start"] = "idle"] /\ UNCHANGED <<started, failedStart, done>>
         \/ /\ terminationProven' = FALSE /\ started' = TRUE /\ failedStart' = TRUE /\ done' = "open"
            /\ pc' = [pc EXCEPT !["start"] = "failed"] /\ procHandle' = procHandle
      /\ UNCHANGED <<root, kids, inJob, killRoot, crashed, ready, rootExited, stopping, nativeCreated,
           cleanup, cleanupErr, waitErr, ctxDone, untrue, readyFailed, stopErr, exitErr, owned>>
  BY DEF abortWait, abortClosesJob, rememberFailedStart, Goto, locals
<1>1. "idle" \in Pcs /\ "failed" \in Pcs BY DEF Pcs
<1>2. LaunchInv /\ TypeOK /\ faults' \in 0..MaxFaults BY <1>0, PhaseOf, FaultType DEF Launching
<1>3. PICK q \in {"idle", "failed"} :
        /\ pc' \in [Thread -> Pcs] /\ pc'["start"] = q /\ \A u \in Thread : u # "start" => pc'[u] = pc[u]
        /\ pc' = [pc EXCEPT !["start"] = q]
  BY <1>0, <1>1, Moved
<1>4. TypeOK'
  <2>1. /\ killJob' \in BOOLEAN /\ terminationProven' \in BOOLEAN /\ started' \in BOOLEAN
        /\ failedStart' \in BOOLEAN /\ done' \in {"none", "open", "closed"}
        /\ jobHandle' \in {"none", "open", "closed", "leaked"}
        /\ procHandle' \in {"none", "open", "closed", "leaked"}
    BY <1>0, <1>2 DEF TypeOK
  <2> QED BY ONLY <1>0, <1>2, <1>3, <2>1 DEF TypeOK
<1>5. CASE q = "idle"
  <2>1. /\ root = "exited" /\ UNCHANGED <<started, failedStart, done>> BY <1>0, <1>3, <1>5
  <2>2. LaunchInv' BY <1>0, <1>2, <1>3, <1>5, <2>1 DEF LaunchInv
  <2> QED BY <1>0, <1>3, <1>4, <1>5, <2>2 DEF Phases, Launching
<1>6. CASE q = "failed"
  <2>1. /\ terminationProven' = FALSE /\ started' = TRUE /\ failedStart' = TRUE /\ done' = "open"
    BY <1>0, <1>3, <1>6
  <2>2. FailedInv' BY <1>0, <1>2, <1>3, <1>6, <2>1 DEF LaunchInv, FailedInv, Retrying
  <2> QED BY <1>0, <1>3, <1>4, <1>6, <2>2 DEF Phases
<1> QED BY <1>5, <1>6

-----------------------------------------------------------------------------
(* Steps of the goroutines once the root was resumed *)

\* A thread that neither is nor becomes the owner of the teardown moves.
LEMMA BystanderMoves ==
  ASSUME SupInv, pc["start"] \in Up, NEW t \in Thread, NEW q \in Pcs, pc' = [pc EXCEPT ![t] = q],
         pc[t] \notin Owning, q \notin Owning,
         t = "start" => q \in Up,
         t \in Callers => q \in CallerPcs,
         t = "loop" => /\ pc[t] # "ended" /\ q \in LoopPcs /\ q # "ended"
                       /\ q \in {"read", "publish"} => cleanup = "done",
         UNCHANGED <<root, kids, inJob, killJob, jobHandle, crashed, started, failedStart,
                     nativeCreated, terminationProven, done, cleanup, cleanupErr, owned>>
  PROVE  Phases'
<1> USE Threads DEF SupInv
<1>1. UpInv BY PhaseOf
<1>2. pc' \in [Thread -> Pcs] /\ pc'[t] = q /\ \A u \in Thread : u # t => pc'[u] = pc[u]
  BY Moved
<1>3. pc'["start"] \in Up BY <1>2
<1>4. UpFlags' BY <1>1, <1>2 DEF UpInv, UpFlags
<1>5. UpThreads' BY <1>1, <1>2 DEF UpInv, UpThreads
<1>6. UpOwner'
  <2> SUFFICES ASSUME NEW u \in Thread, pc'[u] \in Owning
               PROVE  /\ cleanup' = "running" /\ Owner(u)'
                      /\ \A w \in Thread : pc'[w] \in Owning => w = u
    BY DEF UpOwner
  <2>1. u # t /\ pc[u] \in Owning /\ pc'[u] = pc[u] BY <1>2
  <2>2. cleanup = "running" /\ Owner(u) /\ \A w \in Thread : pc[w] \in Owning => w = u
    BY <1>1, <2>1 DEF UpInv, UpOwner
  <2>3. Owner(u)' BY <2>1, <2>2 DEF Owner, TreeGone
  <2> QED BY <1>2, <2>2, <2>3
<1>7. UpProof' BY <1>1, <1>2 DEF UpInv, UpProof, TreeGone
<1> QED BY <1>3, <1>4, <1>5, <1>6, <1>7 DEF Phases, UpInv

\* The owner of the teardown, old or new, moves on.
LEMMA OwnerMoves ==
  ASSUME SupInv, pc["start"] \in Up, NEW t \in Thread, NEW q \in Owning, pc' = [pc EXCEPT ![t] = q],
         \A u \in Thread : pc[u] \in Owning => u = t,
         t = "loop" => pc[t] \notin {"read", "publish", "ended"},
         cleanup # "done", cleanup' = "running", Owner(t)', killJob' \/ jobHandle' \in {"open", "leaked"},
         UNCHANGED <<root, kids, inJob, crashed, started, failedStart, nativeCreated,
                     terminationProven, done, cleanupErr>>
  PROVE  Phases'
<1> USE Threads DEF SupInv
<1>1. UpInv BY PhaseOf
<1>2. pc' \in [Thread -> Pcs] /\ pc'[t] = q /\ \A u \in Thread : u # t => pc'[u] = pc[u]
  <2>1. q \in Pcs BY DEF Owning, Pcs
  <2> QED BY <2>1, Moved
<1>3. pc'["start"] \in Up BY <1>2 DEF Up
<1>4. UpFlags'
  <2>1. pc'["loop"] = "ended" <=> pc["loop"] = "ended" BY <1>2 DEF Owning
  <2> QED BY <1>1, <2>1 DEF UpInv, UpFlags
<1>5. UpThreads' BY <1>1, <1>2 DEF UpInv, UpThreads, LoopPcs, CallerPcs
<1>6. UpOwner' BY <1>2 DEF UpOwner
<1>7. UpProof'
  <2>1. pc'["loop"] \notin {"read", "publish", "ended"} BY <1>1, <1>2 DEF UpInv, UpProof, Owning
  <2> QED BY <1>1, <2>1 DEF UpInv, UpProof, TreeGone
<1> QED BY <1>3, <1>4, <1>5, <1>6, <1>7 DEF Phases, UpInv

\* The owner is the only one, and what it takes with it is still there.
LEMMA OwnerForm ==
  ASSUME SupInv, NEW t \in Thread, pc[t] \in Owning
  PROVE  /\ pc["start"] \in Up /\ UpInv /\ cleanup = "running" /\ Owner(t)
         /\ \A u \in Thread : pc[u] \in Owning => u = t
<1>1. pc["start"] \in Up /\ UpInv BY AtWork
<1> QED BY <1>1 DEF UpInv, UpOwner

\* Ready
LEMMA ReadyInv ==
  ASSUME SupInv, ReadyCalled \/ ReadyProbed \/ ReadyDone \/ ReadyTimeout
  PROVE  SupInv'
<1> USE Threads DEF SupInv
<1>0. /\ UNCHANGED <<root, kids, inJob, killRoot, killJob, jobHandle, procHandle, crashed, started,
           rootExited, stopping, failedStart, nativeCreated, terminationProven, done, cleanup,
           cleanupErr, waitErr>>
      /\ pc["start"] \in {"up", "probing", "waitdone"} /\ Fine
  BY DEF ReadyCalled, ReadyProbed, ReadyDone, ReadyTimeout, os, process, flags, outcome
<1>1. \/ /\ UNCHANGED <<ctxDone, untrue, readyFailed, stopErr, exitErr, owned>> /\ ready' = ready
         /\ \E q \in {"probing", "waitdone", "acquire"} : pc' = [pc EXCEPT !["start"] = q]
      \/ (\E err \in BOOLEAN : Return("start", err)) /\ ready' \in {ready, TRUE}
  BY DEF ReadyCalled, ReadyProbed, ReadyDone, ReadyTimeout, Goto, locals, process, flags,
         terminalError
<1>2. /\ ~untrue' /\ UNCHANGED <<exitErr, owned>>
      /\ readyFailed' \in BOOLEAN /\ stopErr' \in BOOLEAN /\ untrue' \in BOOLEAN /\ ready' \in BOOLEAN
      /\ ctxDone' \in [Callers -> BOOLEAN]
      /\ \E q \in {"up", "probing", "waitdone", "acquire"} : pc' = [pc EXCEPT !["start"] = q]
  <2>1. CASE /\ UNCHANGED <<ctxDone, untrue, readyFailed, stopErr, exitErr, owned>> /\ ready' = ready
             /\ \E q \in {"probing", "waitdone", "acquire"} : pc' = [pc EXCEPT !["start"] = q]
    BY <2>1 DEF TypeOK
  <2>2. CASE (\E err \in BOOLEAN : Return("start", err)) /\ ready' \in {ready, TRUE}
    <3>1. ready' \in BOOLEAN BY <2>2 DEF TypeOK
    <3> QED BY <2>2, <3>1, Returned DEF Back
  <2> QED BY <1>1, <2>1, <2>2
<1>3. PICK q \in {"up", "probing", "waitdone", "acquire"} : pc' = [pc EXCEPT !["start"] = q] BY <1>2
<1>4. q \in Pcs /\ q \notin Owning /\ q \in Up /\ pc["start"] \notin Owning /\ pc["start"] \in Up
  BY <1>0 DEF Pcs, Owning, Up
<1>5. Phases' BY <1>0, <1>2, <1>3, <1>4, BystanderMoves
<1>6. TypeOK'
  <2>1. faults' \in 0..MaxFaults /\ TypeOK BY <1>0, FaultType
  <2>2. pc' \in [Thread -> Pcs] BY <1>3, <1>4, Moved
  <2> QED BY ONLY <1>0, <1>2, <2>1, <2>2 DEF TypeOK
<1> QED BY <1>2, <1>5, <1>6

\* A caller's wait ends, or goes on elsewhere: no flag but stopping changes.
LEMMA CallerMoves ==
  ASSUME SupInv, NEW t \in Callers, pc["start"] \in Up, pc[t] \notin Owning,
         UNCHANGED <<root, kids, inJob, killRoot, killJob, jobHandle, procHandle, crashed, started,
           ready, rootExited, failedStart, nativeCreated, terminationProven, done, cleanup,
           cleanupErr, waitErr>>, Fine, stopping' \in {stopping, TRUE},
         \/ /\ UNCHANGED <<ctxDone, untrue, readyFailed, exitErr, owned>> /\ stopErr' \in {stopErr, FALSE}
            /\ \E q \in {"idle", "ended", "grace", "joindone", "joincleanup", "acquire"} :
                  pc' = [pc EXCEPT ![t] = q]
         \/ \E err \in BOOLEAN : Return(t, err) /\ (err \/ TreeGone)
  PROVE  SupInv'
<1> USE Threads DEF SupInv
<1>2. /\ ~untrue' /\ UNCHANGED <<exitErr, owned>>
      /\ readyFailed' \in BOOLEAN /\ stopErr' \in BOOLEAN /\ untrue' \in BOOLEAN
      /\ ctxDone' \in [Callers -> BOOLEAN]
      /\ \E q \in {"idle", "ended", "grace", "joindone", "joincleanup", "acquire"} :
            pc' = [pc EXCEPT ![t] = q]
  <2>1. CASE /\ UNCHANGED <<ctxDone, untrue, readyFailed, exitErr, owned>> /\ stopErr' \in {stopErr, FALSE}
             /\ \E q \in {"idle", "ended", "grace", "joindone", "joincleanup", "acquire"} :
                   pc' = [pc EXCEPT ![t] = q]
    BY <2>1 DEF TypeOK
  <2>2. CASE \E err \in BOOLEAN : Return(t, err) /\ (err \/ TreeGone)
    BY <2>2, Returned DEF Back
  <2> QED BY <2>1, <2>2
<1>3. PICK q \in {"idle", "ended", "grace", "joindone", "joincleanup", "acquire"} :
         pc' = [pc EXCEPT ![t] = q]
  BY <1>2
<1>4. q \in Pcs /\ q \notin Owning /\ q \in CallerPcs /\ t \in Thread /\ t # "start" /\ t # "loop"
  BY DEF Pcs, Owning, CallerPcs
<1>5. Phases' BY <1>2, <1>3, <1>4, BystanderMoves
<1>6. TypeOK'
  <2>1. faults' \in 0..MaxFaults /\ TypeOK /\ stopping' \in BOOLEAN BY FaultType DEF TypeOK
  <2>2. pc' \in [Thread -> Pcs] BY <1>3, <1>4, Moved
  <2> QED BY <1>2, <2>1, <2>2 DEF TypeOK
<1> QED BY <1>2, <1>5, <1>6

\* What done tells after the root was resumed.
LEMMA DoneTells ==
  ASSUME SupInv, UpInv, done = "closed"
  PROVE  terminalError \in BOOLEAN /\ (terminalError \/ TreeGone)
BY DEF UpInv, UpFlags, UpProof, terminalError

\* The context ends and the watcher calls Stop.
LEMMA WatcherFiresInv == ASSUME SupInv, WatcherFires PROVE SupInv'
<1> USE Threads DEF SupInv
<1>1. pc["start"] \in Up /\ UpInv BY AtWork DEF WatcherFires
<1>2. /\ pc["watcher"] \notin Owning /\ stopErr' \in {stopErr, FALSE}
      /\ UNCHANGED <<ctxDone, untrue, readyFailed, exitErr, owned>>
      /\ \E q \in {"idle", "ended", "grace", "joindone", "joincleanup", "acquire"} :
            pc' = [pc EXCEPT !["watcher"] = q]
  BY DEF WatcherFires, Goto, Owning, locals
<1>3. UNCHANGED <<root, kids, inJob, killRoot, killJob, jobHandle, procHandle, crashed, started,
           ready, rootExited, failedStart, nativeCreated, terminationProven, done, cleanup,
           cleanupErr, waitErr, stopping>> /\ Fine
  BY DEF WatcherFires, os, process, flags, outcome
<1> QED BY <1>1, <1>2, <1>3, CallerMoves

\* Stop waits: its grace period, or another's teardown.
LEMMA StopWaitsInv ==
  ASSUME SupInv, NEW t \in Callers, StopGrace(t) \/ StopJoinsDone(t) \/ StopJoinsCleanup(t)
  PROVE  SupInv'
<1> USE Threads DEF SupInv
<1>1. pc["start"] \in Up /\ UpInv BY AtWork DEF StopGrace, StopJoinsDone, StopJoinsCleanup
<1>2. UNCHANGED <<root, kids, inJob, killRoot, killJob, jobHandle, procHandle, crashed, started,
           ready, rootExited, failedStart, nativeCreated, terminationProven, done, cleanup,
           cleanupErr, waitErr, stopping>> /\ Fine /\ pc[t] \notin Owning
  BY DEF StopGrace, StopJoinsDone, StopJoinsCleanup, os, process, flags, outcome, Owning
<1>3. done = "closed" => terminalError \in BOOLEAN /\ (terminalError \/ TreeGone)
  BY <1>1, DoneTells
<1>4. \/ /\ UNCHANGED <<ctxDone, untrue, readyFailed, exitErr, owned, stopErr>>
         /\ \E q \in {"idle", "ended", "grace", "joindone", "joincleanup", "acquire"} :
               pc' = [pc EXCEPT ![t] = q]
      \/ \E err \in BOOLEAN : Return(t, err) /\ (err \/ TreeGone)
  <2>1. \/ done = "closed" /\ Return(t, terminalError)
        \/ Return(t, TRUE)
        \/ (Goto(t, "acquire") \/ Goto(t, "joindone")) /\ UNCHANGED locals
    BY DEF StopGrace, StopJoinsDone, StopJoinsCleanup
  <2>2. CASE done = "closed" /\ Return(t, terminalError) BY <1>3, <2>2
  <2>3. CASE Return(t, TRUE) BY <2>3
  <2>4. CASE (Goto(t, "acquire") \/ Goto(t, "joindone")) /\ UNCHANGED locals
    BY <2>4 DEF Goto, locals
  <2> QED BY <2>1, <2>2, <2>3, <2>4
<1> QED BY <1>1, <1>2, <1>4, CallerMoves

\* The critical section at the head of Stop, in every phase.
LEMMA StopCalledInv == ASSUME SupInv, NEW t \in Callers, StopCalled(t) PROVE SupInv'
<1> USE Threads DEF SupInv
<1>0. /\ UNCHANGED <<root, kids, inJob, killRoot, killJob, jobHandle, procHandle, crashed, started,
           ready, rootExited, failedStart, nativeCreated, terminationProven, done, cleanup,
           cleanupErr, waitErr>> /\ Fine /\ pc[t] = "idle" /\ ~Locked /\ t \in Thread
  BY DEF StopCalled, os, outcome
<1>1. CASE pc["start"] \in Up
  <2>1. UpInv BY <1>1, PhaseOf
  <2>2. ~failedStart /\ started BY <2>1 DEF UpInv, UpFlags
  <2>3. done = "closed" => terminalError \in BOOLEAN /\ (terminalError \/ TreeGone)
    BY <2>1, DoneTells
  <2>4. /\ stopping' \in {stopping, TRUE}
        /\ \/ /\ UNCHANGED <<ctxDone, untrue, readyFailed, exitErr, owned>> /\ stopErr' = FALSE
              /\ \E q \in {"joincleanup", "joindone", "grace"} : pc' = [pc EXCEPT ![t] = q]
           \/ done = "closed" /\ Return(t, terminalError)
    BY <2>2 DEF StopCalled, Goto, Asks
  <2>5. \/ /\ UNCHANGED <<ctxDone, untrue, readyFailed, exitErr, owned>> /\ stopErr' \in {stopErr, FALSE}
           /\ \E q \in {"idle", "ended", "grace", "joindone", "joincleanup", "acquire"} :
                 pc' = [pc EXCEPT ![t] = q]
        \/ \E err \in BOOLEAN : Return(t, err) /\ (err \/ TreeGone)
    BY <2>3, <2>4
  <2> QED BY <1>0, <1>1, <2>4, <2>5, CallerMoves DEF Owning
<1>2. CASE pc["start"] \in Launching
  <2>1. LaunchInv BY <1>2, PhaseOf
  <2>2. pc["start"] = "idle" BY <1>0, <1>2 DEF Launching, Locked
  <2>3. TreeGone BY <2>1, <2>2 DEF LaunchInv, TreeGone
  <2>4. Return(t, FALSE) /\ stopping' = stopping BY <2>1 DEF StopCalled, LaunchInv
  <2>5. t \in Stoppers BY <1>0, <2>1 DEF LaunchInv
  <2>6. /\ pc' = [pc EXCEPT ![t] = "idle"] /\ ~untrue' /\ UNCHANGED <<exitErr, owned>>
        /\ readyFailed' \in BOOLEAN /\ stopErr' \in BOOLEAN /\ untrue' \in BOOLEAN
        /\ ctxDone' \in [Callers -> BOOLEAN]
    BY <2>3, <2>4, <2>5, Returned DEF Back
  <2>7. pc' = pc BY <1>0, <2>6 DEF TypeOK
  <2>8. TypeOK'
    <3>1. faults' \in 0..MaxFaults /\ TypeOK BY <1>0, FaultType
    <3> QED BY ONLY <1>0, <2>4, <2>6, <2>7, <3>1 DEF TypeOK
  <2>9. LaunchInv' BY <1>0, <2>1, <2>4, <2>7 DEF LaunchInv
  <2> QED BY <1>2, <2>6, <2>7, <2>8, <2>9 DEF Phases
<1>3. CASE pc["start"] = "failed"
  <2>1. FailedInv BY <1>3, PhaseOf
  <2>2. t \in Stoppers BY <1>0, <2>1 DEF FailedInv
  <2>3. CASE ~failedStart /\ ~started /\ Return(t, FALSE) /\ stopping' = stopping
    <3>1. TreeGone BY <2>1, <2>3 DEF FailedInv, TreeGone
    <3>2. /\ pc' = [pc EXCEPT ![t] = "idle"] /\ ~untrue' /\ UNCHANGED <<exitErr, owned>>
          /\ readyFailed' \in BOOLEAN /\ stopErr' \in BOOLEAN /\ untrue' \in BOOLEAN
          /\ ctxDone' \in [Callers -> BOOLEAN]
      BY <2>2, <2>3, <3>1, Returned DEF Back
    <3>3. pc' = pc BY <1>0, <3>2 DEF TypeOK
    <3>4. TypeOK'
      <4>1. faults' \in 0..MaxFaults /\ TypeOK BY <1>0, FaultType
      <4> QED BY ONLY <1>0, <2>3, <3>2, <3>3, <4>1 DEF TypeOK
    <3>5. FailedInv' BY <1>0, <2>1, <3>3 DEF FailedInv
    <3> QED BY <1>3, <3>2, <3>3, <3>4, <3>5 DEF Phases
  <2>4. CASE /\ failedStart /\ \A u \in Callers : pc[u] \notin Retrying
             /\ pc' = [pc EXCEPT ![t] = "retry"] /\ stopErr' = FALSE
             /\ UNCHANGED <<stopping, ctxDone, untrue, readyFailed, exitErr, owned>>
    <3>1. "retry" \in Pcs BY DEF Pcs
    <3>2. pc' \in [Thread -> Pcs] /\ pc'[t] = "retry" /\ \A u \in Thread : u # t => pc'[u] = pc[u]
      BY <2>4, <3>1, Moved
    <3>3. TypeOK'
      <4>1. faults' \in 0..MaxFaults /\ TypeOK BY <1>0, FaultType
      <4>2. stopErr' \in BOOLEAN BY <2>4
      <4> QED BY ONLY <1>0, <2>4, <3>2, <4>1, <4>2 DEF TypeOK
    <3>4. FailedInv' BY <1>0, <2>1, <2>2, <2>4, <3>2 DEF FailedInv, Retrying
    <3> QED BY <1>3, <2>4, <3>2, <3>3, <3>4 DEF Phases
  <2> QED BY <2>1, <2>3, <2>4 DEF StopCalled, FailedInv, Goto, Asks, Retrying
<1>4. CASE pc["start"] = "dead" BY <1>0, <1>4, PhaseOf DEF DeadInv
<1> QED BY <1>1, <1>2, <1>3, <1>4 DEF Phases

\* A context ends: nothing the phases speak of changes.
LEMMA ExpireInv == ASSUME SupInv, NEW t \in Stoppers, Expire(t) PROVE SupInv'
<1> USE Threads DEF SupInv
<1>0. /\ UNCHANGED <<root, kids, inJob, killRoot, killJob, jobHandle, procHandle, crashed, started,
         ready, rootExited, stopping, failedStart, nativeCreated, terminationProven, done, cleanup,
         cleanupErr, waitErr, pc, untrue, readyFailed, stopErr, exitErr, owned, faults>>
      /\ ctxDone' = [ctxDone EXCEPT ![t] = TRUE]
  BY DEF Expire, os, process, flags, outcome, Fine
<1>1. TypeOK'
  <2>1. TypeOK /\ ctxDone' \in [Callers -> BOOLEAN] BY <1>0 DEF TypeOK
  <2> QED BY ONLY <1>0, <2>1 DEF TypeOK
<1>2. LaunchInv => LaunchInv' BY <1>0 DEF LaunchInv
<1>3. FailedInv => FailedInv' BY <1>0 DEF FailedInv
<1>4. UpInv => UpInv'
  BY <1>0 DEF UpInv, UpFlags, UpThreads, UpOwner, UpProof, Owner, TreeGone
<1>5. DeadInv => DeadInv' BY <1>0 DEF DeadInv
<1> QED BY <1>0, <1>1, <1>2, <1>3, <1>4, <1>5 DEF Phases

-----------------------------------------------------------------------------
(* retryFailedStartCleanup *)

\* Who may retry the termination of a failed Start.
LEMMA RetryForm ==
  ASSUME SupInv, NEW t \in Callers, pc[t] \in Retrying
  PROVE  pc["start"] = "failed" /\ FailedInv /\ t \in Stoppers /\ t \in Thread
<1> USE Threads
<1>1. CASE pc["start"] \in Launching BY <1>1, PhaseOf DEF LaunchInv, Retrying
<1>2. CASE pc["start"] \in Up
  BY <1>2, PhaseOf DEF UpInv, UpThreads, CallerPcs, Owning, Retrying
<1>3. CASE pc["start"] = "dead" BY <1>3, PhaseOf DEF DeadInv, Retrying
<1>4. CASE pc["start"] = "failed" BY <1>4, PhaseOf DEF FailedInv, Retrying
<1> QED BY <1>1, <1>2, <1>3, <1>4 DEF SupInv, Phases

\* A Stop of a failed Start retries its termination.
LEMMA RetryInv ==
  ASSUME SupInv, NEW t \in Callers, retryTerminate(t) \/ retryWait(t)
  PROVE  SupInv'
<1> USE Threads DEF SupInv
<1>0. /\ UNCHANGED <<root, kids, inJob, killJob, jobHandle, procHandle, crashed, started,
           ready, rootExited, stopping, failedStart, nativeCreated, terminationProven, done, cleanup,
           cleanupErr, waitErr>> /\ (Fine \/ Fault) /\ pc[t] \in Retrying
      /\ killRoot' \in {killRoot, TRUE}
      /\ \/ Return(t, TRUE)
         \/ pc' = [pc EXCEPT ![t] = "retrywait"] /\ UNCHANGED locals
         \/ root = "exited" /\ pc' = [pc EXCEPT ![t] = "retryclose"] /\ UNCHANGED locals
  BY DEF retryTerminate, retryWait, os, handles, process, flags, outcome, Retrying, Goto
<1>1. pc["start"] = "failed" /\ FailedInv /\ t \in Stoppers /\ t \in Thread BY <1>0, RetryForm
<1>2. /\ ~untrue' /\ UNCHANGED <<exitErr, owned>>
      /\ readyFailed' \in BOOLEAN /\ stopErr' \in BOOLEAN /\ untrue' \in BOOLEAN
      /\ ctxDone' \in [Callers -> BOOLEAN]
      /\ \E q \in {"idle", "retrywait", "retryclose"} :
            pc' = [pc EXCEPT ![t] = q] /\ (q = "retryclose" => root = "exited")
  <2>1. CASE Return(t, TRUE) BY <1>1, <2>1, Returned DEF Back
  <2>2. CASE /\ UNCHANGED locals
             /\ \/ pc' = [pc EXCEPT ![t] = "retrywait"]
                \/ root = "exited" /\ pc' = [pc EXCEPT ![t] = "retryclose"]
    BY <2>2 DEF TypeOK, locals
  <2> QED BY <1>0, <2>1, <2>2
<1>3. PICK q \in {"idle", "retrywait", "retryclose"} :
         pc' = [pc EXCEPT ![t] = q] /\ (q = "retryclose" => root = "exited")
  BY <1>2
<1>4. q \in Pcs BY DEF Pcs
<1>5. pc' \in [Thread -> Pcs] /\ pc'[t] = q /\ \A u \in Thread : u # t => pc'[u] = pc[u]
  BY <1>1, <1>3, <1>4, Moved
<1>6. TypeOK'
  <2>1. faults' \in 0..MaxFaults /\ TypeOK /\ killRoot' \in BOOLEAN BY <1>0, FaultType DEF TypeOK
  <2> QED BY ONLY <1>0, <1>2, <1>5, <2>1 DEF TypeOK
<1>7. FailedInv' BY <1>0, <1>1, <1>3, <1>5 DEF FailedInv, Retrying
<1> QED BY <1>1, <1>2, <1>5, <1>6, <1>7 DEF Phases

\* The handle of the failed Start is given up when its root is seen dead.
LEMMA retryProvenInv == ASSUME SupInv, NEW t \in Callers, retryProven(t) PROVE SupInv'
<1> USE Threads DEF SupInv
<1>0. /\ UNCHANGED <<root, kids, inJob, killRoot, killJob, jobHandle, crashed,
           ready, rootExited, stopping, nativeCreated, cleanup, cleanupErr, waitErr>>
      /\ Fine /\ pc[t] = "retryclose" /\ pc[t] \in Retrying /\ Return(t, TRUE)
      /\ procHandle' = "closed" /\ terminationProven' = TRUE
      /\ failedStart' = FALSE /\ started' = FALSE /\ closeDone
  BY DEF retryProven, Retrying
<1>1. pc["start"] = "failed" /\ FailedInv /\ t \in Stoppers /\ t \in Thread BY <1>0, RetryForm
<1>2. /\ pc' = [pc EXCEPT ![t] = "idle"] /\ ~untrue' /\ UNCHANGED <<exitErr, owned>>
      /\ readyFailed' \in BOOLEAN /\ stopErr' \in BOOLEAN /\ untrue' \in BOOLEAN
      /\ ctxDone' \in [Callers -> BOOLEAN]
  BY <1>0, <1>1, Returned DEF Back
<1>3. "idle" \in Pcs BY DEF Pcs
<1>4. pc' \in [Thread -> Pcs] /\ pc'[t] = "idle" /\ \A u \in Thread : u # t => pc'[u] = pc[u]
  BY <1>1, <1>2, <1>3, Moved
<1>5. done' = "closed" /\ root = "exited" BY <1>0, <1>1 DEF FailedInv, closeDone
<1>6. TypeOK'
  <2>1. faults' \in 0..MaxFaults /\ TypeOK BY <1>0, FaultType
  <2>2. terminationProven' \in BOOLEAN /\ failedStart' \in BOOLEAN /\ started' \in BOOLEAN BY <1>0
  <2> QED BY ONLY <1>0, <1>2, <1>4, <1>5, <2>1, <2>2 DEF TypeOK
<1>7. FailedInv' BY <1>0, <1>1, <1>4, <1>5 DEF FailedInv, Retrying
<1> QED BY <1>1, <1>2, <1>4, <1>6, <1>7 DEF Phases

-----------------------------------------------------------------------------
(* The teardown *)

\* The step of an owner that stays one.
LEMMA OwnerStep ==
  ASSUME SupInv, NEW t \in Thread, NEW q \in Owning, pc' = [pc EXCEPT ![t] = q],
         \/ pc[t] \in Owning /\ cleanup' = cleanup
         \/ pc[t] = "acquire" /\ cleanup = "none" /\ cleanup' = "running",
         Owner(t)', killJob' \in BOOLEAN, killJob' \/ jobHandle' \in {"open", "leaked"},
         jobHandle' \in {jobHandle, "closed", "leaked"}, stopping' \in BOOLEAN,
         Fine \/ Fault \/ Faults(2),
         owned' \in [terminated : BOOLEAN, rootGone : BOOLEAN, empty : BOOLEAN, err : BOOLEAN],
         UNCHANGED <<root, kids, inJob, killRoot, procHandle, crashed, started, ready, rootExited,
           failedStart, nativeCreated, terminationProven, done, cleanupErr, waitErr, ctxDone,
           untrue, readyFailed, stopErr, exitErr>>
  PROVE  SupInv'
<1> USE DEF SupInv
<1>1. pc["start"] \in Up /\ UpInv BY AtWork
<1>2. /\ \A u \in Thread : pc[u] \in Owning => u = t
      /\ cleanup # "done" /\ cleanup' = "running" /\ pc[t] \notin {"read", "publish", "ended"}
  BY <1>1 DEF UpInv, UpOwner, Owning
<1>3. Phases' BY <1>1, <1>2, OwnerMoves
<1>4. TypeOK'
  <2>1. /\ faults' \in 0..MaxFaults /\ TypeOK /\ jobHandle' \in {"none", "open", "closed", "leaked"}
    BY FaultType DEF TypeOK
  <2>2. q \in Pcs BY DEF Owning, Pcs
  <2>3. pc' \in [Thread -> Pcs] BY <2>2, Moved
  <2> QED BY <1>2, <2>1, <2>3 DEF TypeOK
<1> QED BY <1>3, <1>4

\* What the owner of the teardown remembers is of its type.
LEMMA OwnedType ==
  ASSUME TypeOK
  PROVE  LET O == [terminated : BOOLEAN, rootGone : BOOLEAN, empty : BOOLEAN, err : BOOLEAN] IN
         /\ owned \in O /\ NoOwner \in O
         /\ [owned EXCEPT !.terminated = TRUE] \in O /\ [owned EXCEPT !.err = TRUE] \in O
         /\ [owned EXCEPT !.rootGone = TRUE] \in O /\ [owned EXCEPT !.empty = TRUE] \in O
BY DEF TypeOK, NoOwner

\* The first to come owns the teardown; whoever comes later waits for it.
LEMMA acquireCleanupInv == ASSUME SupInv, NEW t \in Thread, acquireCleanup(t) PROVE SupInv'
<1> USE Threads DEF SupInv
<1>0. /\ UNCHANGED <<root, kids, inJob, killRoot, killJob, jobHandle, procHandle, crashed, started,
           ready, rootExited, failedStart, nativeCreated, terminationProven, done, cleanupErr,
           waitErr, ctxDone, untrue, readyFailed, stopErr, exitErr>>
      /\ pc[t] = "acquire" /\ Fine
  BY DEF acquireCleanup, os
<1>1. pc["start"] \in Up /\ UpInv BY <1>0, AtWork
<1>2. stopping' \in BOOLEAN BY DEF acquireCleanup, TypeOK
<1>3. CASE cleanup = "none"
  <2>1. cleanup' = "running" /\ owned' = NoOwner /\ pc' = [pc EXCEPT ![t] = "termjob"]
    BY <1>3 DEF acquireCleanup, Goto
  <2>2. "termjob" \in Owning /\ "termjob" \in Pcs BY DEF Owning, Pcs
  <2>3. pc'[t] = "termjob" BY <2>1, <2>2, Moved
  <2>4. Owner(t)' BY <2>1, <2>3 DEF Owner
  <2>5. killJob' \in BOOLEAN /\ (killJob' \/ jobHandle' \in {"open", "leaked"})
    BY <1>0, <1>1 DEF UpInv, UpFlags, TypeOK
  <2>6. owned' \in [terminated : BOOLEAN, rootGone : BOOLEAN, empty : BOOLEAN, err : BOOLEAN]
    BY <2>1, OwnedType
  <2>7. /\ UNCHANGED <<root, kids, inJob, killRoot, procHandle, crashed, started, ready, rootExited,
           failedStart, nativeCreated, terminationProven, done, cleanupErr, waitErr, ctxDone,
           untrue, readyFailed, stopErr, exitErr>>
        /\ jobHandle' \in {jobHandle, "closed", "leaked"} /\ Fine
    BY <1>0
  <2> QED BY <1>0, <1>2, <1>3, <2>1, <2>2, <2>4, <2>5, <2>6, <2>7, OwnerStep
<1>4. CASE cleanup # "none"
  <2>1. UNCHANGED <<cleanup, owned>> /\ pc' = [pc EXCEPT ![t] = "awaitcleanup"]
    BY <1>4 DEF acquireCleanup, Goto
  <2>2. /\ "awaitcleanup" \in Pcs /\ "awaitcleanup" \notin Owning /\ "awaitcleanup" \in Up
        /\ "awaitcleanup" \in CallerPcs /\ "awaitcleanup" \in LoopPcs /\ pc[t] \notin Owning
    BY <1>0 DEF Pcs, Owning, Up, CallerPcs, LoopPcs
  <2>3. Phases' BY <1>0, <1>1, <2>1, <2>2, BystanderMoves
  <2>4. TypeOK'
    <3>1. faults' \in 0..MaxFaults /\ TypeOK BY <1>0, FaultType
    <3>2. pc' \in [Thread -> Pcs] BY <2>1, <2>2, Moved
    <3> QED BY ONLY <1>0, <1>2, <2>1, <3>1, <3>2 DEF TypeOK
  <2> QED BY <1>0, <2>3, <2>4
<1> QED BY <1>3, <1>4

\* The others take the answer of the owner.
LEMMA awaitCleanupInv == ASSUME SupInv, NEW t \in Thread, awaitCleanup(t) PROVE SupInv'
<1> USE Threads DEF SupInv
<1>0. /\ UNCHANGED <<root, kids, inJob, killRoot, killJob, jobHandle, procHandle, crashed, started,
           ready, rootExited, stopping, failedStart, nativeCreated, terminationProven, done, cleanup,
           cleanupErr, waitErr>>
      /\ pc[t] = "awaitcleanup" /\ cleanup = "done" /\ Fine
  BY DEF awaitCleanup, os, process, flags, outcome
<1>1. pc["start"] \in Up /\ UpInv BY <1>0, AtWork
<1>2. /\ ~untrue' /\ UNCHANGED <<exitErr, owned>>
      /\ readyFailed' \in BOOLEAN /\ stopErr' \in BOOLEAN /\ untrue' \in BOOLEAN
      /\ ctxDone' \in [Callers -> BOOLEAN]
      /\ pc' = [pc EXCEPT ![t] = IF t = "loop" THEN "read" ELSE Back(t)]
  <2>1. CASE t = "loop" BY <2>1 DEF awaitCleanup, Goto, TypeOK, locals
  <2>2. CASE t # "loop"
    <3>1. (t = "start" \/ cleanupErr) \in BOOLEAN BY DEF TypeOK
    <3>2. Return(t, t = "start" \/ cleanupErr) BY <2>2 DEF awaitCleanup
    <3>3. t = "start" \/ (t = "start" \/ cleanupErr) \/ TreeGone BY <1>0, <1>1 DEF UpInv, UpProof
    <3> QED BY <2>2, <3>1, <3>2, <3>3, Returned
  <2> QED BY <2>1, <2>2
<1> DEFINE q == IF t = "loop" THEN "read" ELSE Back(t)
<1>3. /\ q \in Pcs /\ q \notin Owning /\ (t = "start" => q \in Up) /\ (t \in Callers => q \in CallerPcs)
      /\ (t = "loop" => q \in LoopPcs /\ q # "ended") /\ pc[t] \notin Owning /\ pc[t] # "ended"
  BY <1>0 DEF Pcs, Owning, Up, CallerPcs, LoopPcs, Back
<1>4. pc' = [pc EXCEPT ![t] = q] BY <1>2
<1> HIDE DEF q
<1>5. Phases' BY <1>0, <1>1, <1>2, <1>3, <1>4, BystanderMoves
<1>6. TypeOK'
  <2>1. faults' \in 0..MaxFaults /\ TypeOK BY <1>0, FaultType
  <2>2. pc' \in [Thread -> Pcs] BY <1>3, <1>4, Moved
  <2> QED BY ONLY <1>0, <1>2, <2>1, <2>2 DEF TypeOK
<1> QED BY <1>2, <1>5, <1>6

\* The owner terminates the job.
LEMMA terminateJobInv == ASSUME SupInv, NEW t \in Thread, terminateJob(t) PROVE SupInv'
<1> USE Threads DEF SupInv
<1>0. /\ UNCHANGED <<root, kids, inJob, killRoot, procHandle, crashed, started, ready, rootExited,
           stopping, failedStart, nativeCreated, terminationProven, done, cleanup, cleanupErr,
           waitErr, ctxDone, untrue, readyFailed, stopErr, exitErr>>
      /\ pc[t] = "termjob" /\ pc[t] \in Owning
      /\ killJob' \in {killJob, TRUE} /\ jobHandle' \in {jobHandle, "closed", "leaked"}
      /\ (Fine \/ Fault \/ Faults(2))
  BY DEF terminateJob, process, flags, outcome, Owning
<1>1. Owner(t) /\ UpInv BY <1>0, OwnerForm
<1>2. /\ killJob' \in BOOLEAN /\ stopping' \in BOOLEAN /\ (killJob' \/ jobHandle' \in {"open", "leaked"})
  <2>1. killJob \in BOOLEAN /\ stopping' \in BOOLEAN /\ (killJob \/ jobHandle \in {"open", "leaked"})
    BY <1>0, <1>1 DEF UpInv, UpFlags, TypeOK
  <2>2. \/ killJob' = TRUE \/ jobHandle' = "leaked" BY DEF terminateJob
  <2> QED BY <1>0, <2>1, <2>2
<1>3. owned = NoOwner BY <1>0, <1>1 DEF Owner
<1>4. CASE /\ killJob' = TRUE /\ owned' = [owned EXCEPT !.terminated = TRUE]
           /\ Goto(t, IF t = "loop" THEN "waitempty" ELSE "waitroot")
  <2> DEFINE q == IF t = "loop" THEN "waitempty" ELSE "waitroot"
  <2>1. /\ owned'.terminated /\ ~owned'.empty
        /\ owned' \in [terminated : BOOLEAN, rootGone : BOOLEAN, empty : BOOLEAN, err : BOOLEAN]
    BY <1>3, <1>4, OwnedType DEF NoOwner
  <2>2. q \in {"waitempty", "waitroot"} /\ pc' = [pc EXCEPT ![t] = q] BY <1>4 DEF Goto
  <2>3. q \in Owning /\ q \in Pcs BY <2>2 DEF Owning, Pcs
  <2> HIDE DEF q
  <2>4. pc'[t] = q BY <2>2, <2>3, Moved
  <2>5. Owner(t)' BY <1>4, <2>1, <2>2, <2>4 DEF Owner
  <2> QED BY <1>0, <1>2, <2>1, <2>2, <2>3, <2>5, OwnerStep
<1>5. CASE /\ owned' = [owned EXCEPT !.err = TRUE]
           /\ Goto(t, IF t = "loop" THEN "finish" ELSE "waitroot")
  <2> DEFINE q == IF t = "loop" THEN "finish" ELSE "waitroot"
  <2>1. /\ owned'.err /\ ~owned'.empty /\ ~owned'.terminated
        /\ owned' \in [terminated : BOOLEAN, rootGone : BOOLEAN, empty : BOOLEAN, err : BOOLEAN]
    BY <1>3, <1>5, OwnedType DEF NoOwner
  <2>2. q \in {"finish", "waitroot"} /\ pc' = [pc EXCEPT ![t] = q] BY <1>5 DEF Goto
  <2>3. q \in Owning /\ q \in Pcs BY <2>2 DEF Owning, Pcs
  <2> HIDE DEF q
  <2>4. pc'[t] = q BY <2>2, <2>3, Moved
  <2>5. Owner(t)' BY <2>1, <2>2, <2>4 DEF Owner
  <2> QED BY <1>0, <1>2, <2>1, <2>2, <2>3, <2>5, OwnerStep
<1> QED BY <1>4, <1>5 DEF terminateJob

\* The owner waits for the root.
LEMMA waitRootInv == ASSUME SupInv, NEW t \in Thread, waitRoot(t) PROVE SupInv'
<1> USE Threads DEF SupInv
<1>0. /\ UNCHANGED <<root, kids, inJob, killRoot, killJob, jobHandle, procHandle, crashed, started,
           ready, rootExited, stopping, failedStart, nativeCreated, terminationProven, done, cleanup,
           cleanupErr, waitErr, ctxDone, untrue, readyFailed, stopErr, exitErr>>
      /\ pc[t] = "waitroot" /\ pc[t] \in Owning /\ (Fine \/ Fault)
      /\ jobHandle' \in {jobHandle, "closed", "leaked"}
  BY DEF waitRoot, os, process, flags, outcome, Owning
<1>1. Owner(t) /\ UpInv BY <1>0, OwnerForm
<1>2. killJob' \in BOOLEAN /\ stopping' \in BOOLEAN /\ (killJob' \/ jobHandle' \in {"open", "leaked"})
  BY <1>0, <1>1 DEF UpInv, UpFlags, TypeOK
<1>3. ~owned.empty /\ (IF owned.terminated THEN killJob ELSE owned.err) BY <1>0, <1>1 DEF Owner
<1> DEFINE q == IF owned.terminated THEN "waitempty" ELSE "finish"
<1>4. q \in Owning /\ q \in Pcs /\ pc' = [pc EXCEPT ![t] = q] BY DEF Owning, Pcs, waitRoot, Goto
<1>5. /\ q = "waitempty" => owned.terminated
      /\ q = "finish" => ~owned.terminated
      /\ q \in {"waitempty", "finish"}
  OBVIOUS
<1>6. /\ owned' \in [terminated : BOOLEAN, rootGone : BOOLEAN, empty : BOOLEAN, err : BOOLEAN]
      /\ ~owned'.empty /\ (owned.err => owned'.err)
  <2>1. TypeOK OBVIOUS
  <2>2. CASE owned' = [owned EXCEPT !.rootGone = TRUE] BY ONLY <1>3, <2>1, <2>2 DEF TypeOK
  <2>3. CASE owned' = [owned EXCEPT !.err = TRUE] BY ONLY <1>3, <2>1, <2>3 DEF TypeOK
  <2> QED BY <2>2, <2>3 DEF waitRoot
<1> HIDE DEF q
<1>7. pc'[t] = q BY <1>4, Moved
<1>8. Owner(t)' BY <1>0, <1>3, <1>5, <1>6, <1>7 DEF Owner
<1> QED BY <1>0, <1>2, <1>4, <1>6, <1>8, OwnerStep

\* The job was seen empty, or the owner knows that it was not.
LEMMA waitJobEmptyInv == ASSUME SupInv, NEW t \in Thread, waitJobEmpty(t) PROVE SupInv'
<1> USE Threads DEF SupInv
<1>0. /\ UNCHANGED <<root, kids, inJob, killRoot, killJob, jobHandle, procHandle, crashed, started,
           ready, rootExited, stopping, failedStart, nativeCreated, terminationProven, done, cleanup,
           cleanupErr, waitErr, ctxDone, untrue, readyFailed, stopErr, exitErr>>
      /\ pc[t] = "waitempty" /\ pc[t] \in Owning /\ (Fine \/ Fault)
      /\ jobHandle' \in {jobHandle, "closed", "leaked"} /\ pc' = [pc EXCEPT ![t] = "closejob"]
  BY DEF waitJobEmpty, os, process, flags, outcome, Owning, Goto
<1>1. Owner(t) /\ UpInv BY <1>0, OwnerForm
<1>2. killJob' \in BOOLEAN /\ stopping' \in BOOLEAN /\ (killJob' \/ jobHandle' \in {"open", "leaked"})
  BY <1>0, <1>1 DEF UpInv, UpFlags, TypeOK
<1>3. ~owned.empty /\ killJob BY <1>0, <1>1 DEF Owner
<1>4. "closejob" \in Owning /\ "closejob" \in Pcs BY DEF Owning, Pcs
<1>5. /\ owned' \in [terminated : BOOLEAN, rootGone : BOOLEAN, empty : BOOLEAN, err : BOOLEAN]
      /\ owned'.empty => TreeGone
      /\ owned'.empty \/ owned'.err
  <2>1. TypeOK OBVIOUS
  <2>2. CASE TreeGone /\ owned' = [owned EXCEPT !.empty = TRUE] BY ONLY <2>1, <2>2 DEF TypeOK
  <2>3. CASE owned' = [owned EXCEPT !.err = TRUE] BY ONLY <1>3, <2>1, <2>3 DEF TypeOK
  <2> QED BY <2>2, <2>3 DEF waitJobEmpty
<1>6. pc'[t] = "closejob" BY <1>0, <1>4, Moved
<1>7. Owner(t)' BY <1>0, <1>3, <1>5, <1>6 DEF Owner, TreeGone
<1> QED BY <1>0, <1>2, <1>4, <1>5, <1>7, OwnerStep

\* The owner closes the job's handle, which kills what is in it.
LEMMA closeJobInv == ASSUME SupInv, NEW t \in Thread, closeJob(t) PROVE SupInv'
<1> USE Threads DEF SupInv
<1>0. /\ UNCHANGED <<root, kids, inJob, killRoot, killJob, procHandle, crashed, started,
           ready, rootExited, stopping, failedStart, nativeCreated, terminationProven, done, cleanup,
           cleanupErr, waitErr, ctxDone, untrue, readyFailed, stopErr, exitErr>>
      /\ pc[t] = "closejob" /\ pc[t] \in Owning /\ (Fine \/ Fault)
      /\ jobHandle' \in {jobHandle, "closed", "leaked"} /\ pc' = [pc EXCEPT ![t] = "finish"]
  BY DEF closeJob, process, flags, outcome, Owning, Goto
<1>1. Owner(t) /\ UpInv BY <1>0, OwnerForm
<1>2. killJob /\ (owned.empty => TreeGone) /\ (owned.empty \/ owned.err) BY <1>0, <1>1 DEF Owner
<1>3. killJob' \in BOOLEAN /\ stopping' \in BOOLEAN /\ (killJob' \/ jobHandle' \in {"open", "leaked"})
  BY <1>0, <1>2 DEF TypeOK
<1>4. "finish" \in Owning /\ "finish" \in Pcs BY DEF Owning, Pcs
<1>5. /\ owned' \in [terminated : BOOLEAN, rootGone : BOOLEAN, empty : BOOLEAN, err : BOOLEAN]
      /\ owned'.empty => TreeGone
      /\ owned'.empty \/ owned'.err
  <2>1. TypeOK OBVIOUS
  <2>2. CASE owned' = owned BY ONLY <1>2, <2>1, <2>2 DEF TypeOK
  <2>3. CASE owned' = [owned EXCEPT !.err = TRUE] BY ONLY <1>2, <2>1, <2>3 DEF TypeOK
  <2> QED BY <2>2, <2>3 DEF closeJob
<1>6. pc'[t] = "finish" BY <1>0, <1>4, Moved
<1>7. Owner(t)' BY <1>0, <1>5, <1>6 DEF Owner, TreeGone
<1> QED BY <1>0, <1>3, <1>4, <1>5, <1>7, OwnerStep

\* The owner's answer and its proof are true: it recorded an error or saw the
\* job empty, and then nothing can run.
LEMMA finishCleanupInv == ASSUME SupInv, NEW t \in Thread, finishCleanup(t) PROVE SupInv'
<1> USE Threads DEF SupInv
<1>0. /\ UNCHANGED <<root, kids, inJob, killRoot, killJob, jobHandle, procHandle, crashed, started,
           ready, rootExited, stopping, failedStart, nativeCreated, done, waitErr>>
      /\ pc[t] = "finish" /\ pc[t] \in Owning /\ Fine /\ closeCleanup
      /\ cleanupErr' = (cleanupErr \/ owned.err)
      /\ terminationProven' = (terminationProven
                               \/ (owned.empty /\ (t = "loop" \/ owned.rootGone)))
  BY DEF finishCleanup, os, Owning
<1>1. /\ pc["start"] \in Up /\ UpInv /\ cleanup = "running" /\ Owner(t)
      /\ \A u \in Thread : pc[u] \in Owning => u = t
  BY <1>0, OwnerForm
<1>2. (owned.empty => TreeGone) /\ (owned.empty \/ owned.err) BY <1>0, <1>1 DEF Owner
<1>3. cleanup' = "done" BY <1>0, <1>1 DEF closeCleanup
<1>4. owned.err \in BOOLEAN /\ owned.empty \in BOOLEAN /\ owned.rootGone \in BOOLEAN BY DEF TypeOK
<1>5. /\ ~untrue' /\ UNCHANGED <<exitErr, owned>>
      /\ readyFailed' \in BOOLEAN /\ stopErr' \in BOOLEAN /\ untrue' \in BOOLEAN
      /\ ctxDone' \in [Callers -> BOOLEAN]
      /\ pc' = [pc EXCEPT ![t] = IF t = "loop" THEN "read" ELSE Back(t)]
  <2>1. CASE t = "loop" BY <2>1 DEF finishCleanup, Goto, TypeOK, locals
  <2>2. CASE t # "loop"
    <3>1. (t = "start" \/ owned.err) \in BOOLEAN BY <1>4
    <3>2. Return(t, t = "start" \/ owned.err) BY <2>2 DEF finishCleanup
    <3>3. t = "start" \/ (t = "start" \/ owned.err) \/ TreeGone BY <1>2
    <3> QED BY <2>2, <3>1, <3>2, <3>3, Returned
  <2> QED BY <2>1, <2>2
<1> DEFINE q == IF t = "loop" THEN "read" ELSE Back(t)
<1>6. /\ q \in Pcs /\ q \notin Owning /\ (t = "start" => q \in Up) /\ (t \in Callers => q \in CallerPcs)
      /\ (t = "loop" => q \in LoopPcs /\ q # "ended")
  BY DEF Pcs, Owning, Up, CallerPcs, LoopPcs, Back
<1>7. pc' = [pc EXCEPT ![t] = q] BY <1>5
<1> HIDE DEF q
<1>8. pc' \in [Thread -> Pcs] /\ pc'[t] = q /\ \A u \in Thread : u # t => pc'[u] = pc[u]
  BY <1>6, <1>7, Moved
<1>9. TypeOK'
  <2>1. faults' \in 0..MaxFaults /\ TypeOK BY <1>0, FaultType
  <2>2. cleanupErr' \in BOOLEAN /\ terminationProven' \in BOOLEAN BY <1>0, <1>4 DEF TypeOK
  <2> QED BY ONLY <1>0, <1>3, <1>5, <1>8, <2>1, <2>2 DEF TypeOK
<1>10. pc'["start"] \in Up BY <1>1, <1>6, <1>8
<1>11. UpFlags'
  <2>1. pc'["loop"] = "ended" <=> pc["loop"] = "ended" BY <1>0, <1>6, <1>8
  <2> QED BY <1>0, <1>1, <2>1 DEF UpInv, UpFlags
<1>12. UpThreads' BY <1>1, <1>6, <1>8 DEF UpInv, UpThreads
<1>13. UpOwner'
  <2>1. \A u \in Thread : pc'[u] \notin Owning BY <1>1, <1>6, <1>8
  <2> QED BY <2>1 DEF UpOwner
<1>14. UpProof'
  <2>1. TreeGone' = TreeGone BY <1>0 DEF TreeGone
  <2>2. ~cleanupErr' => TreeGone BY <1>0, <1>2
  <2>3. terminationProven' => TreeGone BY <1>0, <1>1, <1>2 DEF UpInv, UpProof
  <2> QED BY <1>3, <2>1, <2>2, <2>3 DEF UpProof
<1> QED BY <1>5, <1>9, <1>10, <1>11, <1>12, <1>13, <1>14 DEF Phases, UpInv

-----------------------------------------------------------------------------
(* waitLoop *)

\* waitLoop sees the root exit and reads its code.
LEMMA waitLoopInv == ASSUME SupInv, waitLoopRoot \/ waitLoopRead PROVE SupInv'
<1> USE Threads DEF SupInv
<1>0. /\ UNCHANGED <<root, kids, inJob, killRoot, killJob, jobHandle, procHandle, crashed, started,
           ready, stopping, failedStart, nativeCreated, terminationProven, done, cleanup,
           cleanupErr, ctxDone, untrue, readyFailed, stopErr, owned>>
      /\ (Fine \/ Fault) /\ waitErr' \in {waitErr, "wait"} /\ rootExited' \in {rootExited, TRUE}
      /\ exitErr' \in {exitErr, ~stopping}
      /\ \/ pc["loop"] = "wait" /\ pc' = [pc EXCEPT !["loop"] = "acquire"]
         \/ pc["loop"] = "read" /\ pc' = [pc EXCEPT !["loop"] = "publish"]
  BY DEF waitLoopRoot, waitLoopRead, os, process, flags, outcome, locals, Goto
<1>1. pc["start"] \in Up /\ UpInv BY <1>0, AtWork
<1>2. PICK q \in {"acquire", "publish"} :
         pc' = [pc EXCEPT !["loop"] = q] /\ (q = "publish" => cleanup = "done")
  BY <1>0, <1>1 DEF UpInv, UpProof
<1>3. q \in Pcs /\ q \notin Owning /\ q \in LoopPcs /\ q # "ended" /\ q # "read"
      /\ pc["loop"] \notin Owning /\ pc["loop"] # "ended"
  BY <1>0 DEF Pcs, Owning, LoopPcs
<1>4. Phases' BY <1>0, <1>1, <1>2, <1>3, BystanderMoves
<1>5. TypeOK'
  <2>1. faults' \in 0..MaxFaults /\ TypeOK BY <1>0, FaultType
  <2>2. pc' \in [Thread -> Pcs] BY <1>2, <1>3, Moved
  <2>3. waitErr' \in {"none", "exit", "wait"} /\ rootExited' \in BOOLEAN /\ exitErr' \in BOOLEAN
    BY <1>0 DEF TypeOK
  <2> QED BY ONLY <1>0, <2>1, <2>2, <2>3 DEF TypeOK
<1> QED BY <1>0, <1>4, <1>5

\* done is closed once, by the goroutine that waited for the root.
LEMMA waitLoopPublishInv == ASSUME SupInv, waitLoopPublish PROVE SupInv'
<1> USE Threads DEF SupInv
<1>0. /\ UNCHANGED <<root, kids, inJob, killRoot, killJob, jobHandle, crashed, started,
           ready, rootExited, stopping, failedStart, nativeCreated, terminationProven, cleanup,
           cleanupErr, ctxDone, untrue, readyFailed, stopErr, exitErr, owned>>
      /\ Fine /\ waitErr' \in {waitErr, "exit"} /\ procHandle' = "closed" /\ closeDone
      /\ pc["loop"] = "publish" /\ pc' = [pc EXCEPT !["loop"] = "ended"]
  BY DEF waitLoopPublish, flags, locals, Goto
<1>1. pc["start"] \in Up /\ UpInv BY <1>0, AtWork
<1>2. "ended" \in Pcs /\ "ended" \in LoopPcs /\ "ended" \notin Owning BY DEF Pcs, LoopPcs, Owning
<1>3. pc' \in [Thread -> Pcs] /\ pc'["loop"] = "ended" /\ \A u \in Thread : u # "loop" => pc'[u] = pc[u]
  BY <1>0, <1>2, Moved
<1>4. done' = "closed" BY <1>0, <1>1 DEF UpInv, UpFlags, closeDone
<1>5. TypeOK'
  <2>1. faults' \in 0..MaxFaults /\ TypeOK BY <1>0, FaultType
  <2>2. waitErr' \in {"none", "exit", "wait"} BY <1>0 DEF TypeOK
  <2> QED BY ONLY <1>0, <1>3, <1>4, <2>1, <2>2 DEF TypeOK
<1>6. pc'["start"] \in Up BY <1>1, <1>3
<1>7. UpFlags' BY <1>0, <1>1, <1>3, <1>4 DEF UpInv, UpFlags
<1>8. UpThreads' BY <1>1, <1>2, <1>3 DEF UpInv, UpThreads
<1>9. UpOwner'
  <2> SUFFICES ASSUME NEW u \in Thread, pc'[u] \in Owning PROVE FALSE BY DEF UpOwner
  <2>1. u # "loop" /\ pc[u] \in Owning BY <1>2, <1>3
  <2>2. cleanup = "running" BY <2>1, OwnerForm
  <2> QED BY <1>0, <1>1, <2>2 DEF UpInv, UpProof
<1>10. UpProof' BY <1>0, <1>1, <1>3 DEF UpInv, UpProof, TreeGone
<1> QED BY <1>0, <1>5, <1>6, <1>7, <1>8, <1>9, <1>10 DEF Phases, UpInv

-----------------------------------------------------------------------------
(* The operating system *)

\* A process that is gone stays gone, and one that runs is in the job.
LEMMA ProcessesInv == ASSUME SupInv, RootDies \/ KidsDie \/ Spawn PROVE SupInv'
<1> USE Threads DEF SupInv
<1>0. /\ UNCHANGED <<inJob, killRoot, killJob, jobHandle, procHandle, crashed, started,
           ready, rootExited, stopping, failedStart, nativeCreated, terminationProven, done, cleanup,
           cleanupErr, waitErr, pc, ctxDone, untrue, readyFailed, stopErr, exitErr, owned>> /\ Fine
      /\ \/ root \in {"running", "suspended"} /\ root' = "exited" /\ kids' = kids
         \/ kids /\ root' = root /\ kids' = FALSE
         \/ root = "running" /\ ~Killed /\ root' = root /\ kids' = TRUE
  BY DEF RootDies, KidsDie, Spawn, handles, process, flags, outcome, locals
<1>1. TypeOK'
  <2>1. faults' \in 0..MaxFaults /\ TypeOK BY <1>0, FaultType
  <2>2. root' \in {"none", "suspended", "running", "exited"} /\ kids' \in BOOLEAN
    BY <1>0 DEF TypeOK
  <2> QED BY ONLY <1>0, <2>1, <2>2 DEF TypeOK
<1>2. CASE pc["start"] \in Launching
  <2>1. LaunchInv BY <1>2, PhaseOf
  <2>2. LaunchInv' BY <1>0, <2>1 DEF LaunchInv
  <2> QED BY <1>0, <1>1, <1>2, <2>2 DEF Phases
<1>3. CASE pc["start"] = "failed"
  <2>1. FailedInv BY <1>3, PhaseOf
  <2>2. FailedInv' BY <1>0, <2>1 DEF FailedInv
  <2> QED BY <1>0, <1>1, <1>3, <2>2 DEF Phases
<1>4. CASE pc["start"] \in Up
  <2>1. UpInv BY <1>4, PhaseOf
  <2>2. TreeGone => TreeGone' BY <1>0 DEF TreeGone
  <2>3. UpFlags' BY <1>0, <2>1 DEF UpInv, UpFlags
  <2>4. UpThreads' BY <1>0, <2>1 DEF UpInv, UpThreads
  <2>5. \A t \in Thread : Owner(t) => Owner(t)' BY <1>0, <2>2 DEF Owner
  <2>6. UpOwner' BY <1>0, <2>1, <2>5 DEF UpInv, UpOwner
  <2>7. UpProof' BY <1>0, <2>1, <2>2 DEF UpInv, UpProof
  <2> QED BY <1>0, <1>1, <1>4, <2>3, <2>4, <2>6, <2>7 DEF Phases, UpInv
<1>5. CASE pc["start"] = "dead"
  <2>1. DeadInv BY <1>5, PhaseOf
  <2>2. DeadInv' BY <1>0, <2>1 DEF DeadInv, Killed
  <2> QED BY <1>0, <1>1, <1>5, <2>2 DEF Phases
<1> QED BY <1>2, <1>3, <1>4, <1>5 DEF Phases

\* The death of the service kills what runs, through the job.
LEMMA CrashInv == ASSUME SupInv, Crash PROVE SupInv'
<1> USE Threads DEF SupInv
<1>0. /\ ~crashed /\ crashed' = TRUE /\ killJob' = (killJob \/ jobHandle \in {"open", "leaked"})
      /\ jobHandle' = "closed" /\ procHandle' = "closed"
      /\ pc' = [t \in Thread |-> "dead"] /\ Fine
      /\ started' = FALSE /\ ready' = FALSE /\ rootExited' = FALSE /\ stopping' = FALSE
      /\ failedStart' = FALSE /\ nativeCreated' = FALSE /\ terminationProven' = FALSE
      /\ done' = "none" /\ cleanup' = "none" /\ cleanupErr' = FALSE /\ waitErr' = "none"
      /\ ctxDone' = [t \in Callers |-> FALSE] /\ untrue' = FALSE /\ readyFailed' = FALSE
      /\ stopErr' = FALSE /\ exitErr' = FALSE /\ owned' = NoOwner
      /\ UNCHANGED <<root, kids, inJob, killRoot>>
  BY DEF Crash
<1>1. "dead" \in Pcs BY DEF Pcs
<1>2. TypeOK'
  <2>1. faults' \in 0..MaxFaults /\ TypeOK BY <1>0, FaultType
  <2>2. /\ crashed' \in BOOLEAN /\ started' \in BOOLEAN /\ ready' \in BOOLEAN /\ rootExited' \in BOOLEAN
        /\ stopping' \in BOOLEAN /\ failedStart' \in BOOLEAN /\ nativeCreated' \in BOOLEAN
        /\ terminationProven' \in BOOLEAN /\ cleanupErr' \in BOOLEAN /\ untrue' \in BOOLEAN
        /\ readyFailed' \in BOOLEAN /\ stopErr' \in BOOLEAN /\ exitErr' \in BOOLEAN
    BY <1>0
  <2>3. killJob' \in BOOLEAN BY <1>0 DEF TypeOK
  <2>4. pc' \in [Thread -> Pcs] /\ ctxDone' \in [Callers -> BOOLEAN] BY <1>0, <1>1
  <2>5. owned' \in [terminated : BOOLEAN, rootGone : BOOLEAN, empty : BOOLEAN, err : BOOLEAN]
    BY <1>0, OwnedType
  <2> QED BY ONLY <1>0, <2>1, <2>2, <2>3, <2>4, <2>5 DEF TypeOK
<1>3. root = "running" \/ kids => inJob /\ (killJob \/ jobHandle \in {"open", "leaked"})
  BY <1>0 DEF Phases, LaunchInv, FailedInv, UpInv, UpFlags, DeadInv
<1>4. DeadInv' BY <1>0, <1>3 DEF DeadInv
<1>5. pc'["start"] = "dead" BY <1>0
<1> QED BY <1>0, <1>2, <1>4, <1>5 DEF Phases

-----------------------------------------------------------------------------
(* The supervisor as a whole *)

\* A new Process satisfies the invariant.
LEMMA InitInv == Init => SupInv
<1> SUFFICES ASSUME Init PROVE SupInv OBVIOUS
<1> USE Threads
<1>1. "idle" \in Pcs /\ "off" \in Pcs BY DEF Pcs
<1>2. /\ pc \in [Thread -> Pcs] /\ pc["start"] = "idle" /\ pc["loop"] = "off" /\ pc["watcher"] = "off"
      /\ \A t \in Stoppers : pc[t] = "idle"
  <2>1. pc = [t \in Thread |-> IF t \in {"watcher", "loop"} THEN "off" ELSE "idle"] BY DEF Init
  <2>2. \A t \in Stoppers : t \notin {"watcher", "loop"} /\ t \in Thread BY StoppersAssumption
  <2> QED BY <1>1, <2>1, <2>2
<1>3. TypeOK
  <2>1. ctxDone \in [Callers -> BOOLEAN] /\ faults \in 0..MaxFaults BY FaultsAssumption DEF Init
  <2>2. owned \in [terminated : BOOLEAN, rootGone : BOOLEAN, empty : BOOLEAN, err : BOOLEAN]
    BY DEF Init, NoOwner
  <2> QED BY <1>2, <2>1, <2>2 DEF TypeOK, Init
<1>4. LaunchInv BY <1>2 DEF Init, LaunchInv
<1> QED BY <1>2, <1>3, <1>4 DEF Init, SupInv, Phases, Launching

\* A step that changes nothing keeps the invariant.
LEMMA StutterInv == ASSUME SupInv, UNCHANGED vars PROVE SupInv'
<1>0. UNCHANGED <<root, kids, inJob, killRoot, killJob, jobHandle, procHandle, crashed, started,
         ready, rootExited, stopping, failedStart, nativeCreated, terminationProven, done, cleanup,
         cleanupErr, waitErr, pc, ctxDone, untrue, readyFailed, stopErr, exitErr, owned, faults>>
  BY DEF vars, os, process, flags, outcome, locals
<1>1. TypeOK' BY <1>0 DEF SupInv, TypeOK
<1>2. LaunchInv => LaunchInv' BY <1>0 DEF LaunchInv
<1>3. FailedInv => FailedInv' BY <1>0 DEF FailedInv
<1>4. UpInv => UpInv'
  BY <1>0 DEF UpInv, UpFlags, UpThreads, UpOwner, UpProof, Owner, TreeGone
<1>5. DeadInv => DeadInv' BY <1>0 DEF DeadInv
<1> QED BY <1>0, <1>1, <1>2, <1>3, <1>4, <1>5 DEF SupInv, Phases

\* Every step of the teardown keeps the invariant.
LEMMA TeardownInv == ASSUME SupInv, NEW t \in Thread, teardownStep(t) PROVE SupInv'
BY acquireCleanupInv, awaitCleanupInv, terminateJobInv, waitRootInv, waitJobEmptyInv, closeJobInv,
   finishCleanupInv DEF teardownStep

\* Every step of Stop keeps the invariant.
LEMMA StopStepInv == ASSUME SupInv, NEW t \in Callers, stopStep(t) PROVE SupInv'
BY StopWaitsInv, RetryInv, retryProvenInv DEF stopStep

\* Every step of the supervisor keeps the invariant.
LEMMA StepInv == ASSUME SupInv, Next PROVE SupInv'
<1>1. CASE startStep
  BY <1>1, StartLaunchInv, StartAssignInv, StartResumeInv, abortTerminateInv, abortWaitInv, ReadyInv
  DEF startStep
<1>2. CASE loopStep BY <1>2, waitLoopInv, waitLoopPublishInv DEF loopStep
<1>3. CASE \E t \in Callers : StopCalled(t) \/ stopStep(t) BY <1>3, StopCalledInv, StopStepInv
<1>4. CASE \E t \in Thread : teardownStep(t) BY <1>4, TeardownInv
<1>5. CASE WatcherFires \/ \E t \in Stoppers : Expire(t) BY <1>5, WatcherFiresInv, ExpireInv
<1>6. CASE RootDies \/ KidsDie \/ Spawn BY <1>6, ProcessesInv
<1>7. CASE Crash BY <1>7, CrashInv
<1> QED BY <1>1, <1>2, <1>3, <1>4, <1>5, <1>6, <1>7 DEF Next

\* The invariant accounts for the tree in each of the four phases.
LEMMA AccountedFor == ASSUME SupInv PROVE TreeIsAccountedFor
<1>1. CASE pc["start"] \in Launching
  BY <1>1, PhaseOf DEF Launching, LaunchInv, TreeIsAccountedFor, Locked, TreeGone
<1>2. CASE pc["start"] = "failed" BY <1>2, PhaseOf DEF FailedInv, TreeIsAccountedFor, TreeGone
<1>3. CASE pc["start"] \in Up
  BY <1>3, PhaseOf DEF UpInv, UpFlags, UpProof, TreeIsAccountedFor
<1>4. CASE pc["start"] = "dead" BY <1>4, PhaseOf DEF DeadInv, TreeIsAccountedFor
<1> QED BY <1>1, <1>2, <1>3, <1>4 DEF SupInv, Phases

-----------------------------------------------------------------------------
(* The host *)

\* Without a Start, p.mu stays free for the others and what is gone stays gone.
LEMMA Quiet ==
  ASSUME SupInv, ~Locked,
         supervisorStep \/ ReadyCalled \/ (\E t \in Callers : StopCalled(t)) \/ UNCHANGED vars
  PROVE  /\ ~Locked' /\ (TreeGone => TreeGone') /\ UNCHANGED crashed
<1> USE Threads DEF SupInv
<1>1. TypeOK /\ pc \in [Thread -> Pcs] BY DEF TypeOK
<1>2. CASE launchStep
  BY <1>2 DEF launchStep, StartAssign, StartResume, abortTerminate, abortWait, Locked
<1>3. CASE UNCHANGED vars BY <1>3 DEF vars, os, Locked, TreeGone
<1>4. CASE RootDies \/ KidsDie \/ Spawn BY <1>4 DEF RootDies, KidsDie, Spawn, Locked, TreeGone
<1>5. ASSUME NEW t \in Thread, NEW err, Return(t, err)
      PROVE  ~Locked'
  <2>1. pc' = [pc EXCEPT ![t] = CASE t = "start" -> "up" [] t = "watcher" -> "ended" [] OTHER -> "idle"]
    BY <1>5 DEF Return, Goto
  <2> QED BY <1>1, <2>1 DEF Locked
<1>6. ASSUME NEW t \in Thread, NEW q, Goto(t, q), q \notin {"assign", "resume", "abort", "abortwait"}
      PROVE  ~Locked'
  BY <1>1, <1>6 DEF Goto, Locked
<1>7. CASE ReadyCalled \/ readyStep
  <2>1. UNCHANGED <<root, kids, crashed>>
    BY <1>7 DEF readyStep, ReadyCalled, ReadyProbed, ReadyDone, ReadyTimeout, os
  <2>2. ~Locked'
    BY <1>5, <1>6, <1>7 DEF readyStep, ReadyCalled, ReadyProbed, ReadyDone, ReadyTimeout
  <2> QED BY <2>1, <2>2 DEF TreeGone
<1>8. CASE loopStep
  <2>1. UNCHANGED <<root, kids, crashed>>
    BY <1>8 DEF loopStep, waitLoopRoot, waitLoopRead, waitLoopPublish, os
  <2>2. ~Locked' BY <1>6, <1>8 DEF loopStep, waitLoopRoot, waitLoopRead, waitLoopPublish
  <2> QED BY <2>1, <2>2 DEF TreeGone
<1>9. CASE \E t \in Stoppers : Expire(t) BY <1>9 DEF Expire, os, Locked, TreeGone
<1>10. ASSUME NEW t \in Callers, StopCalled(t) \/ stopStep(t)
       PROVE  ~Locked' /\ UNCHANGED <<root, kids, crashed>>
  <2>0. /\ \A q : Goto(t, q) /\ q \notin {"assign", "resume", "abort", "abortwait"} => ~Locked'
        /\ \A err : Return(t, err) => ~Locked'
    BY <1>5, <1>6
  <2>1. UNCHANGED <<root, kids, crashed>>
    BY <1>10 DEF StopCalled, stopStep, StopGrace, StopJoinsDone, StopJoinsCleanup, retryTerminate,
       retryWait, retryProven, os
  <2>2. CASE StopCalled(t)
    <3>1. (\E q \in {"retry", "joincleanup", "joindone", "grace"} : Goto(t, q)) \/ \E err : Return(t, err)
      BY <2>2 DEF StopCalled
    <3> QED BY <2>0, <2>1, <3>1
  <2>3. CASE StopGrace(t) \/ StopJoinsDone(t) \/ StopJoinsCleanup(t)
    <3>1. Goto(t, "acquire") \/ Goto(t, "joindone") \/ \E err : Return(t, err)
      BY <2>3 DEF StopGrace, StopJoinsDone, StopJoinsCleanup
    <3> QED BY <2>0, <2>1, <3>1
  <2>4. CASE retryTerminate(t) \/ retryWait(t) \/ retryProven(t)
    <3>1. Goto(t, "retrywait") \/ Goto(t, "retryclose") \/ \E err : Return(t, err)
      BY <2>4 DEF retryTerminate, retryWait, retryProven
    <3> QED BY <2>0, <2>1, <3>1
  <2> QED BY <1>10, <2>1, <2>2, <2>3, <2>4 DEF stopStep
<1>11. ASSUME NEW t \in Thread, teardownStep(t)
       PROVE  ~Locked' /\ UNCHANGED <<root, kids, crashed>>
  <2>0. /\ \A q : Goto(t, q) /\ q \notin {"assign", "resume", "abort", "abortwait"} => ~Locked'
        /\ \A err : Return(t, err) => ~Locked'
    BY <1>5, <1>6
  <2>1. UNCHANGED <<root, kids, crashed>>
    BY <1>11 DEF teardownStep, acquireCleanup, awaitCleanup, terminateJob, waitRoot, waitJobEmpty,
       closeJob, finishCleanup, os
  <2>2. \/ \E q \in Owning \cup {"awaitcleanup", "read"} : Goto(t, q)
        \/ \E err : Return(t, err)
    <3>1. CASE acquireCleanup(t) BY <3>1 DEF acquireCleanup, Owning
    <3>2. CASE awaitCleanup(t) BY <3>2 DEF awaitCleanup
    <3>3. CASE terminateJob(t) BY <3>3 DEF terminateJob, Owning
    <3>4. CASE waitRoot(t) BY <3>4 DEF waitRoot, Owning
    <3>5. CASE waitJobEmpty(t) \/ closeJob(t) BY <3>5 DEF waitJobEmpty, closeJob, Owning
    <3>6. CASE finishCleanup(t) BY <3>6 DEF finishCleanup
    <3> QED BY <1>11, <3>1, <3>2, <3>3, <3>4, <3>5, <3>6 DEF teardownStep
  <2> QED BY <2>0, <2>1, <2>2 DEF Owning
<1> QED BY <1>2, <1>3, <1>4, <1>7, <1>8, <1>9, <1>10, <1>11 DEF supervisorStep, TreeGone

\* Every step of the hosts and of the supervisor keeps the phases and the exit code true.
LEMMA HostStepInv == ASSUME IInv, [HostNext]_allVars PROVE IInv'
<1> USE DEF IInv
<1>1. SupInv'
  <2>1. CASE executeStep \/ ExecuteStops
    <3>1. StartLaunch \/ StartRefused \/ ReadyCalled \/ (\E t \in Callers : StopCalled(t)) \/ UNCHANGED vars
      <4>1. CASE ExecuteCallsStop BY <4>1, Threads DEF ExecuteCallsStop
      <4> QED BY <2>1, <4>1 DEF executeStep, ExecuteStarts, ExecuteRefused, ExecuteStartFailed, ExecuteReadies,
          ExecuteReady, ExecuteSeesExit, ExecuteReturns, ExecuteStops
    <3> QED BY <3>1, StartLaunchInv, StartRefusedInv, ReadyInv, StopCalledInv, StutterInv
  <2>2. CASE HostEnds BY <2>2, CrashInv DEF HostEnds
  <2>3. CASE supervisorStep
    BY <2>3, StepInv DEF supervisorStep, launchStep, readyStep, Next, startStep
  <2>4. CASE controllerStep
    BY <2>4, StepInv DEF controllerStep, Next, startStep
  <2>5. CASE UNCHANGED allVars BY <2>5, StutterInv DEF allVars
  <2> QED BY <2>1, <2>2, <2>3, <2>4, <2>5 DEF HostNext
<1>2. ~crashed /\ ~Locked /\ Proven => TreeGone
  BY AccountedFor DEF TreeIsAccountedFor, Proven
<1>3. /\ host' = host /\ host' \in {"controller", "server"} /\ code' \in Codes
      /\ exec' \in {"none", "begin", "starting", "ready", "serving", "stop", "stopping",
               "returned", "gone"}
  <2>1. CASE executeStep
    BY <2>1 DEF executeStep, ExecuteStarts, ExecuteRefused, ExecuteStartFailed, ExecuteReadies,
       ExecuteReady, ExecuteSeesExit, ExecuteCallsStop, ExecuteReturns, Exec, HostTypeOK, Codes
  <2>2. CASE ExecuteStops \/ HostEnds BY <2>2 DEF ExecuteStops, HostEnds, Exec, HostTypeOK
  <2>3. CASE UNCHANGED hosting BY <2>3 DEF hosting, HostTypeOK
  <2> QED BY <2>1, <2>2, <2>3 DEF HostNext, allVars
<1>4. Hosted'
  <2>1. CASE ExecuteStarts
    <3>1. crashed' = crashed BY <2>1 DEF ExecuteStarts, StartLaunch
    <3> QED BY <2>1, <3>1 DEF ExecuteStarts, Exec, Hosted
  <2>2. CASE ExecuteRefused
    <3>1. ~Locked' /\ crashed' = crashed
      BY <2>2 DEF ExecuteRefused, StartRefused, Locked
    <3> QED BY <2>2, <3>1 DEF ExecuteRefused, Exec, Hosted
  <2>3. CASE ExecuteStartFailed \/ ExecuteReady
    <3>1. ~Locked' /\ crashed' = crashed
      BY <2>3 DEF ExecuteStartFailed, ExecuteReady, Locked, vars
    <3> QED BY <2>3, <3>1 DEF ExecuteStartFailed, ExecuteReady, Exec, Hosted
  <2>4. CASE ExecuteReadies
    <3>1. ~Locked BY <2>4 DEF ExecuteReadies, ReadyCalled, Locked
    <3>2. ~Locked' /\ crashed' = crashed BY <2>4, <3>1, Quiet DEF ExecuteReadies
    <3> QED BY <2>4, <3>2 DEF ExecuteReadies, Exec, Hosted
  <2>5. CASE ExecuteSeesExit \/ ExecuteStops \/ ExecuteReturns
    <3>1. ~Locked /\ ~crashed /\ host = "server"
      BY <2>5 DEF ExecuteSeesExit, ExecuteStops, ExecuteReturns, Exec, Hosted
    <3>2. UNCHANGED vars BY <2>5 DEF ExecuteSeesExit, ExecuteStops, ExecuteReturns
    <3>3. ~Locked' /\ crashed' = crashed /\ (TreeGone => TreeGone') BY <3>1, <3>2, Quiet
    <3>4. exec' # "stop" => (code' # "cleanup" => Proven)
      BY <2>5 DEF ExecuteSeesExit, ExecuteStops, ExecuteReturns, Exec
    <3>5. exec' # exec /\ exec' \in {"returned", "stop"}
      BY <2>5 DEF ExecuteSeesExit, ExecuteStops, ExecuteReturns, Exec
    <3> QED BY <1>2, <1>3, <3>1, <3>3, <3>4, <3>5 DEF Hosted
  <2>6. CASE ExecuteCallsStop
    <3>1. ~Locked /\ ~crashed /\ host = "server" BY <2>6 DEF ExecuteCallsStop, Exec, Hosted
    <3>2. \E t \in Callers : StopCalled(t) BY <2>6, Threads DEF ExecuteCallsStop
    <3>3. ~Locked' /\ crashed' = crashed BY <3>1, <3>2, Quiet
    <3> QED BY <1>3, <2>6, <3>1, <3>3 DEF ExecuteCallsStop, Exec, Hosted
  <2>7. CASE HostEnds BY <1>3, <2>7 DEF HostEnds, HostTypeOK, Hosted
  <2>8. CASE host = "controller" /\ controllerStep /\ UNCHANGED hosting
    BY <2>8 DEF hosting, Hosted
  <2>9. CASE (supervisorStep \/ UNCHANGED vars) /\ UNCHANGED hosting
    <3>1. UNCHANGED <<host, exec, code>> BY <2>9 DEF hosting
    <3>2. CASE Locked
      <4>1. exec \notin {"ready", "serving", "stop", "stopping", "returned"} BY <3>2 DEF Hosted
      <4>2. crashed' = crashed
        <5>1. CASE launchStep
          BY <5>1 DEF launchStep, StartAssign, StartResume, abortTerminate, abortWait
        <5>2. CASE readyStep BY <5>2 DEF readyStep, ReadyProbed, ReadyDone, ReadyTimeout
        <5>3. CASE loopStep BY <5>3 DEF loopStep, waitLoopRoot, waitLoopRead, waitLoopPublish
        <5>4. CASE \E t \in Callers : stopStep(t)
          BY <5>4 DEF stopStep, StopGrace, StopJoinsDone, StopJoinsCleanup, retryTerminate,
             retryWait, retryProven
        <5>5. CASE \E t \in Thread : teardownStep(t)
          BY <5>5 DEF teardownStep, acquireCleanup, awaitCleanup, terminateJob, waitRoot,
             waitJobEmpty, closeJob, finishCleanup
        <5>6. CASE \E t \in Stoppers : Expire(t) BY <5>6 DEF Expire
        <5>7. CASE RootDies \/ KidsDie \/ Spawn BY <5>7 DEF RootDies, KidsDie, Spawn
        <5>8. CASE UNCHANGED vars BY <5>8 DEF vars
        <5> QED BY <2>9, <5>1, <5>2, <5>3, <5>4, <5>5, <5>6, <5>7, <5>8 DEF supervisorStep
      <4> QED BY <3>1, <4>1, <4>2 DEF Hosted
    <3>3. CASE ~Locked
      <4>1. ~Locked' /\ (TreeGone => TreeGone') /\ crashed' = crashed BY <2>9, <3>3, Quiet
      <4> QED BY <3>1, <4>1 DEF Hosted
    <3> QED BY <3>2, <3>3
  <2> QED BY <2>1, <2>2, <2>3, <2>4, <2>5, <2>6, <2>7, <2>8, <2>9 DEF HostNext, executeStep, allVars
<1>5. HostTypeOK' BY <1>1, <1>3 DEF HostTypeOK, SupInv
<1> QED BY <1>1, <1>4, <1>5

-----------------------------------------------------------------------------
(* Theorems *)

\* The phases hold in every state of either host: Start, Ready, Stop, the
\* goroutine waiting for the root and the watcher of Start's context agree on
\* one owner of the teardown, whatever calls of the operating system fail.
\* In particular p.done and p.cleanupDone are never closed twice, which would
\* panic: HostTypeOK has no such value.
THEOREM SupervisorInvariant == HostSpec => []IInv
<1>1. HostInit => IInv
  BY InitInv DEF HostInit, IInv, HostTypeOK, SupInv, Hosted, Init, Codes
<1>2. IInv /\ [HostNext]_allVars => IInv' BY HostStepInv
<1> QED BY <1>1, <1>2, PTL DEF HostSpec

\* Process.TerminationProven is true only of a tree that is gone, and whatever
\* executes is in a job that still kills it when the service dies.
THEOREM TreeAccountedFor == HostSpec => []TreeIsAccountedFor
<1>1. IInv => TreeIsAccountedFor BY AccountedFor DEF IInv
<1> QED BY <1>1, SupervisorInvariant, PTL

\* A Stop that returns nil, and an exit code of the server service other than
\* serviceExitCleanup, are only given when nothing runs any more.
THEOREM TrueAnswers == HostSpec => []AnswersAreTrue
<1>1. IInv => AnswersAreTrue BY DEF IInv, SupInv, Hosted, AnswersAreTrue, StopTellsTruth
<1> QED BY <1>1, SupervisorInvariant, PTL

\* The same account without a host: any caller may Start, Ready and Stop, and
\* the context of Start may end, at any moment.
THEOREM SupervisorAlone == Spec => [](TreeIsAccountedFor /\ StopTellsTruth)
<1>1. Init => SupInv BY InitInv
<1>2. SupInv /\ [Next]_vars => SupInv' BY StepInv, StutterInv
<1>3. SupInv => TreeIsAccountedFor /\ StopTellsTruth
  BY AccountedFor DEF SupInv, StopTellsTruth
<1> QED BY <1>1, <1>2, <1>3, PTL DEF Spec

=============================================================================
