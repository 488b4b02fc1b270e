---------------------------- MODULE ServerService ----------------------------
(***************************************************************************)
(* The two hosts of a supervised process.  The controller of the client    *)
(* (host "controller") may Start, Ready and Stop it whenever it likes, and *)
(* ends Start's context.  The server service (host "server",               *)
(* cmd/overseas-server-service/main_windows.go) is the Execute below: it   *)
(* starts the core without a context to cancel, waits until it is ready,   *)
(* serves until the service manager or the core ends it, stops the core    *)
(* and reports an exit code.                                               *)
(***************************************************************************)
EXTENDS Supervisor

VARIABLES
  host,   \* who owns the process
  exec,   \* where Execute is
  code    \* the exit code it has in mind, then the one it returns

hosting == <<host, exec, code>>
allVars == <<vars, hosting>>

Codes == {"ok", "start", "readiness", "process", "cleanup"}

HostTypeOK ==
  /\ TypeOK
  /\ host \in {"controller", "server"}
  /\ exec \in {"none", "begin", "starting", "ready", "serving", "stop", "stopping",
               "returned", "gone"}
  /\ code \in Codes

HostInit ==
  /\ Init
  /\ \/ host = "controller" /\ exec = "none"
     \/ host = "server" /\ exec = "begin"
  /\ code = "ok"

Exec(from, to) == host = "server" /\ exec = from /\ exec' = to

\* Process.TerminationProven
Proven == ~nativeCreated \/ terminationProven

-----------------------------------------------------------------------------
(* Execute *)

\* Start launches the core, or is refused before anything exists.
ExecuteStarts ==
  /\ Exec("begin", "starting")
  /\ StartLaunch /\ UNCHANGED <<host, code>>

ExecuteRefused ==
  /\ Exec("begin", "stop") /\ code' = "start"
  /\ StartRefused /\ UNCHANGED host

\* Start returned an error: failWithCleanup.
ExecuteStartFailed ==
  /\ Exec("starting", "stop") /\ pc["start"] \in {"idle", "failed"}
  /\ code' = "start" /\ UNCHANGED <<host, vars>>

ExecuteReadies ==
  /\ Exec("starting", "ready")
  /\ ReadyCalled /\ UNCHANGED <<host, code>>

ExecuteReady ==
  /\ pc["start"] = "up"
  /\ \/ ~readyFailed /\ Exec("ready", "serving") /\ UNCHANGED code
     \/ readyFailed /\ Exec("ready", "stop") /\ code' = "readiness"
  /\ UNCHANGED <<host, vars>>

\* Wait returned: the core ended by itself.
ExecuteSeesExit ==
  /\ Exec("serving", "returned") /\ done = "closed"
  /\ code' = IF Proven THEN "process" ELSE "cleanup"
  /\ UNCHANGED <<host, vars>>

\* svc.Stop, svc.Shutdown, or the request channel closed.
ExecuteStops == Exec("serving", "stop") /\ UNCHANGED <<host, code, vars>>

\* stop and failWithCleanup: Stop with a deadline, ...
ExecuteCallsStop ==
  /\ Exec("stop", "stopping")
  /\ \E s \in Stoppers : StopCalled(s)
  /\ UNCHANGED <<host, code>>

\* Mutant: the proof is not asked for.
returnsUnproven ==
  /\ Exec("stopping", "returned")
  /\ \A s \in Stoppers : pc[s] = "idle"
  /\ UNCHANGED <<host, code, vars>>

\* ... and its answer and the proof of termination decide the exit code.
ExecuteReturns ==
  /\ Exec("stopping", "returned")
  /\ \A s \in Stoppers : pc[s] = "idle"
  /\ code' = IF stopErr \/ ~Proven THEN "cleanup" ELSE code
  /\ UNCHANGED <<host, vars>>

\* main returns, or the process dies: its handles close.
HostEnds ==
  /\ Crash
  /\ exec' = IF host = "server" THEN "gone" ELSE exec
  /\ UNCHANGED <<host, code>>

-----------------------------------------------------------------------------

executeStep ==
  \/ ExecuteStarts \/ ExecuteRefused \/ ExecuteStartFailed \/ ExecuteReadies
  \/ ExecuteReady \/ ExecuteSeesExit \/ ExecuteCallsStop \/ ExecuteReturns

\* What Execute decides is its own step; the rest is the supervisor's.
readyStep == ReadyProbed \/ ReadyDone \/ ReadyTimeout
launchStep == StartAssign \/ StartResume \/ abortTerminate \/ abortWait

supervisorStep ==
  \/ launchStep \/ readyStep \/ loopStep
  \/ \E t \in Callers : stopStep(t)
  \/ \E t \in Thread : teardownStep(t)
  \/ \E t \in Stoppers : Expire(t)
  \/ RootDies \/ KidsDie \/ Spawn

\* The controller calls what it likes, and cancels the context of Start.
controllerStep ==
  \/ StartLaunch \/ ReadyCalled \/ WatcherFires
  \/ \E t \in Callers : StopCalled(t)

watcherStops == pc["watcher"] = "idle" /\ StopCalled("watcher")

HostNext ==
  \/ executeStep \/ ExecuteStops \/ HostEnds
  \/ supervisorStep /\ UNCHANGED hosting
  \/ host = "controller" /\ controllerStep /\ UNCHANGED hosting

HostSpec == HostInit /\ [][HostNext]_allVars

\* Goroutines run, the bounded waits end, contexts with a deadline end, and a
\* process that was terminated dies.  No host is forced to Start or to Stop.
HostFairness ==
  /\ WF_allVars((launchStep \/ readyStep \/ teardownStep("start")) /\ UNCHANGED hosting)
  /\ WF_allVars((loopStep \/ teardownStep("loop")) /\ UNCHANGED hosting)
  /\ WF_allVars((watcherStops \/ stopStep("watcher") \/ teardownStep("watcher"))
                /\ UNCHANGED hosting)
  /\ \A t \in Stoppers : /\ WF_allVars((stopStep(t) \/ teardownStep(t)) /\ UNCHANGED hosting)
                         /\ WF_allVars(Expire(t) /\ UNCHANGED hosting)
  /\ WF_allVars(Killed /\ (RootDies \/ KidsDie) /\ UNCHANGED hosting)
  /\ WF_allVars(exec # "begin" /\ executeStep)

HostFairSpec == HostSpec /\ HostFairness

-----------------------------------------------------------------------------
(* Properties *)

\* Stop's and the server service's answers are true: a Stop without an error,
\* and an exit code of Execute other than serviceExitCleanup, say that the
\* whole process tree is gone.
AnswersAreTrue ==
  /\ StopTellsTruth
  /\ exec = "returned" /\ code # "cleanup" => TreeGone

\* Stop returns to every caller whose context ends, whatever it joined, and the
\* server service that was told to stop, or that failed, ends.
StopReturns ==
  \A t \in Stoppers :
    (pc[t] \notin {"idle", "dead"} \/ exec = "stop")
      ~> (pc[t] \in {"idle", "dead"} /\ exec \notin {"stop", "stopping"})

\* waitLoop publishes an exit of the root although a teardown races it, and
\* then the server service does not go on serving.
ExitIsNoticed ==
  (root = "exited" /\ pc["loop"] # "off") ~> (crashed \/ (done = "closed" /\ exec # "serving"))

\* What the comment in Stop promises and the code does not keep for the
\* watcher's Stop (README, section 5): no call is left "blocked on a done
\* channel that can never close".
NoStopBlocksForEver == \A t \in Callers : pc[t] = "joindone" ~> pc[t] # "joindone"

=============================================================================
