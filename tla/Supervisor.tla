----------------------------- MODULE Supervisor -----------------------------
(***************************************************************************)
(* internal/supervisor/process_windows.go: one supervised process tree in  *)
(* a kill-on-close job.  Start launches the root suspended, assigns it to  *)
(* the job and resumes it; Ready, Stop, the goroutine that waits for the   *)
(* root and the one that watches Start's context may all decide to tear    *)
(* the tree down, and exactly one of them owns the teardown.  A step is    *)
(* one call of the operating system or one critical section of p.mu.       *)
(***************************************************************************)
EXTENDS Naturals

CONSTANTS
  Stoppers,   \* callers of Stop; the context watcher is one more
  MaxFaults   \* bound on failing operating-system calls

ASSUME StoppersAssumption == Stoppers \cap {"start", "watcher", "loop"} = {}
ASSUME FaultsAssumption == MaxFaults \in Nat

Callers == Stoppers \cup {"watcher"}
Thread  == Callers \cup {"start", "loop"}

VARIABLES
  \* the operating system
  root,        \* "none", "suspended", "running", "exited"
  kids,        \* do descendants of the root run?
  inJob,       \* is the root assigned to the job?
  killRoot, killJob,       \* termination was requested and will happen
  jobHandle, procHandle,   \* "none", "open", "closed", "leaked"
  crashed,     \* the service process is gone
  \* Process
  started, ready, rootExited, stopping, failedStart, nativeCreated,
  terminationProven,
  done,        \* p.done: "none", "open", "closed"
  cleanup,     \* p.cleanupDone: "none", "running", "done"
  cleanupErr, waitErr,
  \* goroutines
  pc,
  ctxDone,     \* the context of a Stop has ended
  untrue,      \* bookkeeping: a Stop returned nil while a process was running
  readyFailed, \* Ready returned an error
  stopErr,     \* the last Stop of a caller returned an error
  exitErr,     \* local of waitLoop: the exit was not asked for
  owned,       \* locals of the teardown's owner
  faults

os       == <<root, kids, inJob, killRoot, killJob, jobHandle, procHandle>>
handles  == <<jobHandle, procHandle>>
flags    == <<started, ready, rootExited, stopping, failedStart, nativeCreated,
              terminationProven>>
outcome  == <<done, cleanup, cleanupErr, waitErr>>
process  == <<flags, outcome>>
locals   == <<ctxDone, untrue, readyFailed, stopErr, exitErr, owned>>
vars     == <<os, crashed, process, pc, locals, faults>>

NoOwner == [terminated |-> FALSE, rootGone |-> FALSE, empty |-> FALSE, err |-> FALSE]

Pcs == {"off", "idle", "assign", "resume", "abort", "abortwait", "up", "failed",
        "probing", "waitdone", "armed", "wait", "acquire", "awaitcleanup",
        "termjob", "waitroot", "waitempty", "closejob", "finish", "read",
        "publish", "ended", "grace", "joindone", "joincleanup", "retry",
        "retrywait", "retryclose", "dead"}

TypeOK ==
  /\ root \in {"none", "suspended", "running", "exited"}
  /\ kids \in BOOLEAN /\ inJob \in BOOLEAN /\ killRoot \in BOOLEAN /\ killJob \in BOOLEAN
  /\ crashed \in BOOLEAN /\ started \in BOOLEAN /\ ready \in BOOLEAN
  /\ rootExited \in BOOLEAN /\ stopping \in BOOLEAN /\ failedStart \in BOOLEAN
  /\ nativeCreated \in BOOLEAN /\ terminationProven \in BOOLEAN /\ cleanupErr \in BOOLEAN
  /\ readyFailed \in BOOLEAN /\ exitErr \in BOOLEAN /\ untrue \in BOOLEAN /\ stopErr \in BOOLEAN
  /\ jobHandle \in {"none", "open", "closed", "leaked"}
  /\ procHandle \in {"none", "open", "closed", "leaked"}
  /\ done \in {"none", "open", "closed"} /\ cleanup \in {"none", "running", "done"}
  /\ waitErr \in {"none", "exit", "wait"}
  /\ pc \in [Thread -> Pcs] /\ ctxDone \in [Callers -> BOOLEAN]
  /\ owned \in [terminated : BOOLEAN, rootGone : BOOLEAN, empty : BOOLEAN, err : BOOLEAN]
  /\ faults \in 0..MaxFaults

Init ==
  /\ root = "none" /\ kids = FALSE /\ inJob = FALSE /\ killRoot = FALSE
  /\ killJob = FALSE /\ jobHandle = "none" /\ procHandle = "none" /\ crashed = FALSE
  /\ started = FALSE /\ ready = FALSE /\ rootExited = FALSE /\ stopping = FALSE
  /\ failedStart = FALSE /\ nativeCreated = FALSE /\ terminationProven = FALSE
  /\ done = "none" /\ cleanup = "none" /\ cleanupErr = FALSE /\ waitErr = "none"
  /\ pc = [t \in Thread |-> IF t \in {"watcher", "loop"} THEN "off" ELSE "idle"]
  /\ ctxDone = [t \in Callers |-> FALSE] /\ untrue = FALSE
  /\ readyFailed = FALSE /\ stopErr = FALSE /\ exitErr = FALSE /\ owned = NoOwner /\ faults = 0

-----------------------------------------------------------------------------
(* Helpers *)

Fine      == UNCHANGED faults
Fault     == faults < MaxFaults /\ faults' = faults + 1
Faults(n) == faults + n <= MaxFaults /\ faults' = faults + n

Goto(t, to) == pc' = [pc EXCEPT ![t] = to]

\* Start holds p.mu from its first to its last step.
Locked == pc["start"] \in {"assign", "resume", "abort", "abortwait"}

TreeGone == root \in {"none", "exited"} /\ ~kids

\* A thread returns with or without an error.
Return(t, err) ==
  /\ Goto(t, CASE t = "start" -> "up" [] t = "watcher" -> "ended" [] OTHER -> "idle")
  /\ IF t = "start"
     THEN readyFailed' = err /\ UNCHANGED <<untrue, stopErr, ctxDone>>
     ELSE /\ stopErr' = IF t \in Stoppers THEN err ELSE stopErr
          /\ untrue' = (untrue \/ ~(err \/ TreeGone))
          /\ ctxDone' = [ctxDone EXCEPT ![t] = FALSE]
          /\ UNCHANGED readyFailed
  /\ UNCHANGED <<exitErr, owned>>

\* Closing a channel that is not open panics.
closeDone    == done' = IF done = "open" THEN "closed" ELSE "panic"
closeCleanup == cleanup' = IF cleanup = "running" THEN "done" ELSE "panic"

terminalError == waitErr # "none" \/ cleanupErr

-----------------------------------------------------------------------------
(* Start *)

\* A Start refused for its paths, its verifier, the job, the pipes or by
\* CreateProcess closes what it opened and leaves nothing.
StartRefused ==
  /\ pc["start"] = "idle" /\ ~started
  /\ Fault /\ UNCHANGED <<os, crashed, process, pc, locals>>

\* The job exists and the root is created suspended.
StartLaunch ==
  /\ pc["start"] = "idle" /\ ~started
  /\ root' = "suspended" /\ jobHandle' = "open" /\ procHandle' = "open"
  /\ inJob' = FALSE /\ killRoot' = FALSE /\ killJob' = FALSE
  /\ nativeCreated' = TRUE /\ Goto("start", "assign") /\ Fine
  /\ UNCHANGED <<kids, crashed, started, ready, rootExited, stopping, failedStart,
                 terminationProven, outcome, locals>>

StartAssign ==
  /\ pc["start"] = "assign"
  /\ \/ inJob' = TRUE /\ Goto("start", "resume") /\ Fine
     \/ Goto("start", "abort") /\ Fault /\ UNCHANGED inJob
  /\ UNCHANGED <<root, kids, killRoot, killJob, handles, crashed, process, locals>>

StartResume ==
  /\ pc["start"] = "resume"
  /\ \/ /\ root' = "running" /\ started' = TRUE /\ done' = "open"
        /\ terminationProven' = FALSE /\ Fine
        /\ pc' = [pc EXCEPT !["start"] = "up", !["loop"] = "wait", !["watcher"] = "armed"]
     \/ Goto("start", "abort") /\ Fault /\ UNCHANGED <<root, started, done, terminationProven>>
  /\ UNCHANGED <<kids, inJob, killRoot, killJob, handles, crashed, ready, rootExited,
                 stopping, failedStart, nativeCreated, cleanup, cleanupErr, waitErr, locals>>

\* abortSuspendedProcess: through the job if the root is in it, else directly.
abortTerminate ==
  /\ pc["start"] = "abort" /\ Goto("start", "abortwait")
  /\ IF inJob
     THEN /\ \/ killJob' = TRUE /\ Fine /\ UNCHANGED jobHandle
             \/ killJob' = TRUE /\ jobHandle' = "closed" /\ Fault
             \/ jobHandle' = "leaked" /\ Faults(2) /\ UNCHANGED killJob
          /\ UNCHANGED killRoot
     ELSE /\ \/ killRoot' = TRUE /\ Fine
             \/ Fault /\ UNCHANGED killRoot
          /\ UNCHANGED <<killJob, jobHandle>>
  /\ UNCHANGED <<root, kids, inJob, procHandle, crashed, process, locals>>

\* The job handle goes in any case, and with it what is in the job.
abortClosesJob ==
  IF jobHandle = "open"
  THEN jobHandle' = "closed" /\ killJob' = (killJob \/ inJob)
  ELSE UNCHANGED <<jobHandle, killJob>>

\* The process handle is kept if termination was not seen.
rememberFailedStart ==
  /\ terminationProven' = FALSE
  /\ started' = TRUE /\ failedStart' = TRUE /\ done' = "open"

abortWait ==
  /\ pc["start"] = "abortwait" /\ abortClosesJob
  /\ \/ /\ root = "exited" /\ Fine
        /\ terminationProven' = TRUE /\ procHandle' = "closed"
        /\ Goto("start", "idle") /\ UNCHANGED <<started, failedStart, done>>
     \/ /\ IF killRoot \/ killJob THEN Fault ELSE Fine
        /\ rememberFailedStart /\ Goto("start", "failed") /\ UNCHANGED procHandle
  /\ UNCHANGED <<root, kids, inJob, killRoot, crashed, ready, rootExited, stopping,
                 nativeCreated, cleanup, cleanupErr, waitErr, locals>>

-----------------------------------------------------------------------------
(* Ready *)

ReadyCalled ==
  /\ pc["start"] = "up" /\ ~ready /\ ~readyFailed
  /\ Goto("start", "probing") /\ Fine
  /\ UNCHANGED <<os, crashed, process, locals>>

\* A probe succeeded: the root may have exited meanwhile.
ReadyProbed ==
  /\ pc["start"] = "probing"
  /\ IF rootExited
     THEN Goto("start", "waitdone") /\ UNCHANGED <<ready, locals>>
     ELSE ready' = TRUE /\ Return("start", FALSE)
  /\ Fine
  /\ UNCHANGED <<os, crashed, started, rootExited, stopping, failedStart,
                 nativeCreated, terminationProven, outcome>>

\* Ready answers what Wait does: no error, if the exit was asked for.
ReadyDone ==
  /\ pc["start"] \in {"probing", "waitdone"} /\ done = "closed"
  /\ Return("start", terminalError) /\ Fine /\ UNCHANGED <<os, crashed, process>>

\* The time is up or the caller's context ended.
ReadyTimeout ==
  /\ pc["start"] = "probing"
  /\ Goto("start", "acquire") /\ Fine /\ UNCHANGED <<os, crashed, process, locals>>

-----------------------------------------------------------------------------
(* Stop *)

\* The context of Start ends: the watcher stops with context.Background().
WatcherFires ==
  /\ pc["watcher"] = "armed"
  /\ Goto("watcher", IF done = "closed" THEN "ended" ELSE "idle")
  /\ Fine /\ UNCHANGED <<os, crashed, process, locals>>

\* The answer of an earlier Stop is forgotten.
Asks == stopErr' = FALSE /\ UNCHANGED <<ctxDone, untrue, readyFailed, exitErr, owned>>

\* The critical section at the head of Stop.  Stops of a failed Start are
\* serialised by the callers (the controller's transition).
StopCalled(t) ==
  /\ pc[t] = "idle" /\ t \in Callers /\ ~Locked /\ Fine
  /\ \/ /\ failedStart /\ \A u \in Callers : pc[u] \notin {"retry", "retrywait", "retryclose"}
        /\ Goto(t, "retry") /\ Asks /\ UNCHANGED stopping
     \/ /\ ~failedStart /\ ~started
        /\ Return(t, FALSE) /\ UNCHANGED stopping
     \/ /\ ~failedStart /\ started /\ stopping
        /\ Goto(t, IF cleanup # "none" THEN "joincleanup" ELSE "joindone")
        /\ Asks /\ UNCHANGED stopping
     \/ /\ ~failedStart /\ started /\ ~stopping /\ done = "closed"
        /\ Return(t, terminalError) /\ UNCHANGED stopping
     \/ /\ ~failedStart /\ started /\ ~stopping /\ done = "open"
        /\ stopping' = TRUE /\ Goto(t, "grace") /\ Asks
  /\ UNCHANGED <<os, crashed, started, ready, rootExited, failedStart, nativeCreated,
                 terminationProven, outcome>>

Expire(t) ==
  /\ t \in Stoppers /\ pc[t] # "idle" /\ ~ctxDone[t]
  /\ ctxDone' = [ctxDone EXCEPT ![t] = TRUE]
  /\ Fine /\ UNCHANGED <<os, crashed, process, pc, untrue, readyFailed, stopErr, exitErr, owned>>

\* The first Stop has sent its break and waits for the grace period.
StopGrace(t) ==
  /\ pc[t] = "grace" /\ Fine
  /\ \/ done = "closed" /\ Return(t, terminalError)
     \/ Goto(t, "acquire") /\ UNCHANGED locals
  /\ UNCHANGED <<os, crashed, process>>

joinWithoutContext(t) ==
  /\ pc[t] = "joindone" /\ Fine
  /\ done = "closed" /\ Return(t, terminalError)
  /\ UNCHANGED <<os, crashed, process>>

\* A later Stop that met no teardown waits for done or its context alone.
StopJoinsDone(t) ==
  /\ pc[t] = "joindone" /\ Fine
  /\ \/ done = "closed" /\ Return(t, terminalError)
     \/ ctxDone[t] /\ Return(t, TRUE)
  /\ UNCHANGED <<os, crashed, process>>

StopJoinsCleanup(t) ==
  /\ pc[t] = "joincleanup" /\ Fine
  /\ \/ done = "closed" /\ Return(t, terminalError)
     \/ ctxDone[t] /\ Return(t, TRUE)
     \/ cleanup = "done" /\ cleanupErr /\ Return(t, TRUE)
     \/ cleanup = "done" /\ ~cleanupErr /\ Goto(t, "joindone") /\ UNCHANGED locals
  /\ UNCHANGED <<os, crashed, process>>

-----------------------------------------------------------------------------
(* retryFailedStartCleanup *)

retryTerminate(t) ==
  /\ pc[t] = "retry"
  /\ \/ ctxDone[t] /\ Return(t, TRUE) /\ Fine /\ UNCHANGED killRoot
     \/ /\ ~ctxDone[t] /\ Goto(t, "retrywait") /\ UNCHANGED locals
        /\ \/ killRoot' = TRUE /\ Fine
           \/ Fault /\ UNCHANGED killRoot
  /\ UNCHANGED <<root, kids, inJob, killJob, handles, crashed, process>>

retryWait(t) ==
  /\ pc[t] = "retrywait"
  /\ \/ root = "exited" /\ Goto(t, "retryclose") /\ Fine /\ UNCHANGED locals
     \/ Return(t, TRUE) /\ IF killRoot \/ killJob THEN Fault ELSE Fine
  /\ UNCHANGED <<os, crashed, process>>

\* Stop reports the earlier failure although termination is proven now.
retryProven(t) ==
  /\ pc[t] = "retryclose"
  /\ procHandle' = "closed" /\ terminationProven' = TRUE
  /\ failedStart' = FALSE /\ started' = FALSE /\ closeDone
  /\ Return(t, TRUE) /\ Fine
  /\ UNCHANGED <<root, kids, inJob, killRoot, killJob, jobHandle, crashed, ready,
                 rootExited, stopping, nativeCreated, cleanup, cleanupErr, waitErr>>

-----------------------------------------------------------------------------
(* terminateForFailure and cleanupJobAfterRootExit; Ready fails in any case *)

\* The first to come owns the teardown and takes the job handle with it.
acquireCleanup(t) ==
  /\ pc[t] = "acquire" /\ Fine
  /\ stopping' = (stopping \/ t # "loop")
  /\ IF cleanup = "none"
     THEN cleanup' = "running" /\ owned' = NoOwner /\ Goto(t, "termjob")
     ELSE Goto(t, "awaitcleanup") /\ UNCHANGED <<cleanup, owned>>
  /\ UNCHANGED <<os, crashed, started, ready, rootExited, failedStart, nativeCreated,
                 terminationProven, done, cleanupErr, waitErr,
                 ctxDone, untrue, readyFailed, stopErr, exitErr>>

awaitCleanup(t) ==
  /\ pc[t] = "awaitcleanup" /\ cleanup = "done" /\ Fine
  /\ IF t = "loop"
     THEN Goto(t, "read") /\ UNCHANGED locals
     ELSE Return(t, t = "start" \/ cleanupErr)
  /\ UNCHANGED <<os, crashed, process>>

\* A failed termination falls back on closing the handle, tried once.
terminateJob(t) ==
  /\ pc[t] = "termjob"
  /\ \/ /\ killJob' = TRUE /\ owned' = [owned EXCEPT !.terminated = TRUE]
        /\ Goto(t, IF t = "loop" THEN "waitempty" ELSE "waitroot")
        /\ Fine /\ UNCHANGED jobHandle
     \/ /\ owned' = [owned EXCEPT !.err = TRUE]
        /\ Goto(t, IF t = "loop" THEN "finish" ELSE "waitroot")
        /\ \/ killJob' = TRUE /\ jobHandle' = "closed" /\ Fault
           \/ jobHandle' = "leaked" /\ Faults(2) /\ UNCHANGED killJob
  /\ UNCHANGED <<root, kids, inJob, killRoot, procHandle, crashed, process,
                 ctxDone, untrue, readyFailed, stopErr, exitErr>>

\* At most five seconds; only a root that does not die runs into them.
waitRoot(t) ==
  /\ pc[t] = "waitroot" /\ Goto(t, IF owned.terminated THEN "waitempty" ELSE "finish")
  /\ \/ root = "exited" /\ owned' = [owned EXCEPT !.rootGone = TRUE] /\ Fine
     \/ owned' = [owned EXCEPT !.err = TRUE] /\ IF killJob THEN Fault ELSE Fine
  /\ UNCHANGED <<os, crashed, process, ctxDone, untrue, readyFailed, stopErr, exitErr>>

rootGoneSuffices(t) ==
  /\ pc[t] = "waitempty" /\ Goto(t, "closejob") /\ Fine
  /\ owned' = [owned EXCEPT !.empty = TRUE]
  /\ UNCHANGED <<os, crashed, process, ctxDone, untrue, readyFailed, stopErr, exitErr>>

waitJobEmpty(t) ==
  /\ pc[t] = "waitempty" /\ Goto(t, "closejob")
  /\ \/ TreeGone /\ owned' = [owned EXCEPT !.empty = TRUE] /\ Fine
     \/ owned' = [owned EXCEPT !.err = TRUE] /\ Fault
  /\ UNCHANGED <<os, crashed, process, ctxDone, untrue, readyFailed, stopErr, exitErr>>

closeJob(t) ==
  /\ pc[t] = "closejob" /\ Goto(t, "finish")
  /\ \/ jobHandle' = "closed" /\ Fine /\ UNCHANGED owned
     \/ jobHandle' = "leaked" /\ Fault /\ owned' = [owned EXCEPT !.err = TRUE]
  /\ UNCHANGED <<root, kids, inJob, killRoot, killJob, procHandle, crashed, process,
                 ctxDone, untrue, readyFailed, stopErr, exitErr>>

finishWithoutClose(t) ==
  /\ pc[t] = "finish" /\ Fine /\ cleanupErr' = (cleanupErr \/ owned.err)
  /\ IF t = "loop"
     THEN Goto(t, "read") /\ UNCHANGED locals
     ELSE Return(t, t = "start" \/ owned.err)
  /\ UNCHANGED <<os, crashed, started, ready, rootExited, stopping, failedStart,
                 nativeCreated, terminationProven, done, cleanup, waitErr>>

\* The waiting goroutine saw the root exit before; the others waited for it.
finishCleanup(t) ==
  /\ pc[t] = "finish" /\ Fine /\ closeCleanup
  /\ cleanupErr' = (cleanupErr \/ owned.err)
  /\ terminationProven' = (terminationProven
                           \/ (owned.empty /\ (t = "loop" \/ owned.rootGone)))
  /\ IF t = "loop"
     THEN Goto(t, "read") /\ UNCHANGED locals
     ELSE Return(t, t = "start" \/ owned.err)
  /\ UNCHANGED <<os, crashed, started, ready, rootExited, stopping, failedStart,
                 nativeCreated, done, waitErr>>

-----------------------------------------------------------------------------
(* waitLoop *)

\* The root exited, or waiting for it failed.
waitLoopRoot ==
  /\ pc["loop"] = "wait"
  /\ \/ root = "exited" /\ Fine /\ UNCHANGED waitErr
     \/ Fault /\ waitErr' = "wait"
  /\ rootExited' = TRUE /\ Goto("loop", "acquire")
  /\ UNCHANGED <<os, crashed, started, ready, stopping, failedStart, nativeCreated,
                 terminationProven, done, cleanup, cleanupErr, locals>>

waitLoopRead ==
  /\ pc["loop"] = "read" /\ Goto("loop", "publish") /\ Fine
  /\ exitErr' = ~stopping
  /\ UNCHANGED <<os, crashed, process, ctxDone, untrue, readyFailed, stopErr, owned>>

waitLoopPublish ==
  /\ pc["loop"] = "publish" /\ Goto("loop", "ended") /\ Fine
  /\ procHandle' = "closed" /\ closeDone
  /\ waitErr' = IF exitErr THEN "exit" ELSE waitErr
  /\ UNCHANGED <<root, kids, inJob, killRoot, killJob, jobHandle, crashed, flags,
                 cleanup, cleanupErr, locals>>

-----------------------------------------------------------------------------
(* The operating system *)

Killed == killRoot \/ (killJob /\ inJob)

RootDies ==
  /\ root = "running" \/ (root = "suspended" /\ Killed)
  /\ root' = "exited" /\ Fine
  /\ UNCHANGED <<kids, inJob, killRoot, killJob, handles, crashed, process, pc, locals>>

KidsDie ==
  /\ kids /\ kids' = FALSE /\ Fine
  /\ UNCHANGED <<root, inJob, killRoot, killJob, handles, crashed, process, pc, locals>>

Spawn ==
  /\ root = "running" /\ ~Killed /\ ~kids /\ kids' = TRUE /\ Fine
  /\ UNCHANGED <<root, inJob, killRoot, killJob, handles, crashed, process, pc, locals>>

\* The service dies: its handles close, and the job kills what is in it.
Crash ==
  /\ ~crashed /\ crashed' = TRUE
  /\ killJob' = (killJob \/ jobHandle \in {"open", "leaked"})
  /\ jobHandle' = "closed" /\ procHandle' = "closed"
  /\ pc' = [t \in Thread |-> "dead"] /\ Fine
  /\ started' = FALSE /\ ready' = FALSE /\ rootExited' = FALSE /\ stopping' = FALSE
  /\ failedStart' = FALSE /\ nativeCreated' = FALSE /\ terminationProven' = FALSE
  /\ done' = "none" /\ cleanup' = "none" /\ cleanupErr' = FALSE /\ waitErr' = "none"
  /\ ctxDone' = [t \in Callers |-> FALSE] /\ untrue' = FALSE /\ readyFailed' = FALSE
  /\ stopErr' = FALSE /\ exitErr' = FALSE /\ owned' = NoOwner
  /\ UNCHANGED <<root, kids, inJob, killRoot>>

-----------------------------------------------------------------------------

startStep == StartLaunch \/ StartAssign \/ StartResume \/ abortTerminate \/ abortWait
             \/ ReadyCalled \/ ReadyProbed \/ ReadyDone \/ ReadyTimeout
teardownStep(t) == acquireCleanup(t) \/ awaitCleanup(t) \/ terminateJob(t) \/ waitRoot(t)
                   \/ waitJobEmpty(t) \/ closeJob(t) \/ finishCleanup(t)
stopStep(t) == StopGrace(t) \/ StopJoinsDone(t) \/ StopJoinsCleanup(t)
               \/ retryTerminate(t) \/ retryWait(t) \/ retryProven(t)
loopStep == waitLoopRoot \/ waitLoopRead \/ waitLoopPublish

Next ==
  \/ startStep \/ loopStep
  \/ \E t \in Callers : StopCalled(t) \/ stopStep(t)
  \/ \E t \in Thread : teardownStep(t)
  \/ WatcherFires \/ \E t \in Stoppers : Expire(t)
  \/ RootDies \/ KidsDie \/ Spawn \/ Crash

Spec == Init /\ [][Next]_vars

-----------------------------------------------------------------------------
(* Properties *)

\* The process tree is accounted for.  TerminationProven is true only when
\* neither the root nor a descendant runs, on whichever of the four teardown
\* paths it was set; and whatever executes is in the job, which is still held,
\* was told to terminate or could not be closed, so that the death of the
\* service leaves nothing running.
TreeIsAccountedFor ==
  /\ ~crashed /\ ~Locked /\ (~nativeCreated \/ terminationProven) => TreeGone
  /\ root = "running" \/ kids => inJob /\ (killJob \/ jobHandle \in {"open", "leaked"})

\* A Stop that returned no error left nothing running.
StopTellsTruth == ~untrue

=============================================================================
