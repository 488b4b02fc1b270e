----------------------------- MODULE ClientView ------------------------------
(***************************************************************************)
(* The Windows client: its view model (cmd/overseas-client/viewmodel.go),  *)
(* the proxy guard (proxy_windows.go) and its window's life                *)
(* (main_windows.go), over the pipe of WindowsService.                     *)
(*                                                                         *)
(* One goroutine polls the status; each click runs in one of its own.  All *)
(* of them end in update(), and they are ordered by nothing else.          *)
(***************************************************************************)
EXTENDS WindowsService

CONSTANTS
  Clicks,       \* the callers of the buttons; the other caller is the poll
  Proxies,      \* settings of the user's proxy besides "none"
  MaxClicks,    \* bound: clicks in one behaviour
  MaxLaunches   \* bound: clients started

ASSUME CallersAssumption == Callers = Clicks \cup {"poll"}
ASSUME ClientBoundsAssumption == MaxClicks \in Nat /\ MaxLaunches \in Nat

VARIABLES
  life,      \* the window and its process
  view,      \* status.State and the busy action
  guard,     \* proxyGuard: has it taken the proxy, and what it will put back
  proxy,     \* the proxy of the registry
  chosen,    \* the one the user set (history)
  pardoned,  \* why the proxy may not be the user's (history)
  clicked, launched

clientVars == <<life, view, guard, proxy, chosen, pardoned, clicked, launched>>
sessionVars == <<svcVars, clientVars>>

Shown == States \cup {"disconnected", "failed"}
NoGuard == [taken |-> FALSE, saved |-> "none"]
ProxySettings == Proxies \cup {"none"}

ClientTypeOK ==
  /\ ServiceTypeOK
  /\ life \in {"off", "open", "closing", "closed", "leaving"}
  /\ view \in [status : Shown, busy : BOOLEAN]
  /\ guard \in [taken : BOOLEAN, saved : ProxySettings]
  /\ proxy \in ProxySettings /\ chosen \in ProxySettings /\ pardoned \in BOOLEAN
  /\ clicked \in 0..MaxClicks /\ launched \in 0..MaxLaunches

ClientInit == /\ ServiceInit
              /\ life = "off"
              /\ view = [status |-> "prepared", busy |-> FALSE]
              /\ guard = NoGuard
              /\ chosen \in Proxies /\ proxy = chosen
              /\ pardoned = FALSE /\ clicked = 0 /\ launched = 0

-----------------------------------------------------------------------------
(* proxyGuard *)

\* The registry may refuse; then nothing is taken.
Take ==
  \/ /\ IF guard.taken \/ proxy = "none"
          THEN UNCHANGED <<guard, proxy>>
          ELSE guard' = [taken |-> TRUE, saved |-> proxy] /\ proxy' = "none"
     /\ pardoned' = (pardoned \/ (life = "leaving" /\ proxy # "none"))
     /\ UNCHANGED failures
  \/ ~guard.taken /\ Failure /\ UNCHANGED <<guard, proxy, pardoned>>

\* The registry may refuse; the guard has forgotten its values all the same.
GiveBack ==
  \/ /\ IF guard.taken THEN guard' = NoGuard /\ proxy' = guard.saved
                       ELSE UNCHANGED <<guard, proxy>>
     /\ UNCHANGED <<pardoned, failures>>
  \/ guard.taken /\ Failure /\ guard' = NoGuard /\ UNCHANGED proxy /\ pardoned' = TRUE

\* Mutant: only a prepared service ends the takeover.
updateOnPrepared(state) ==
  /\ view' = [status |-> state, busy |-> FALSE]
  /\ \/ state = "connected" /\ view.status # "connected" /\ Take
     \/ state = "prepared" /\ view.status = "connected" /\ GiveBack
     \/ /\ ~(state = "connected" /\ view.status # "connected")
        /\ ~(state = "prepared" /\ view.status = "connected")
        /\ UNCHANGED <<guard, proxy, pardoned, failures>>

\* update: under the lock, whoever calls it; it ends any busy action.
update(state) ==
  /\ view' = [status |-> state, busy |-> FALSE]
  /\ \/ state = "connected" /\ view.status # "connected" /\ Take
     \/ state # "connected" /\ view.status = "connected" /\ GiveBack
     \/ /\ (state = "connected") = (view.status = "connected")
        /\ UNCHANGED <<guard, proxy, pardoned, failures>>

-----------------------------------------------------------------------------
(* ViewModel *)

\* Refresh, from the ticker: skipped while busy, read before the call.
RefreshBegins ==
  /\ life \in {"open", "closing"} /\ ~view.busy
  /\ calls["poll"] = "none" /\ reqs["poll"] = "none"
  /\ requests("poll", "status")
  /\ UNCHANGED <<svc, ctl, reqs, failures, clientVars>>

returned(c) == calls[c] \in States \cup Errors

\* It shows what it was told, or that nobody answers, or a failure.
RefreshReturns ==
  /\ returned("poll") /\ life # "off"
  /\ update(CASE calls["poll"] = "unavailable" -> "disconnected"
              [] calls["poll"] = "invalid" -> "failed"
              [] OTHER -> calls["poll"])
  /\ calls' = [calls EXCEPT !["poll"] = "none"]
  /\ UNCHANGED <<svc, ctl, reqs, life, chosen, clicked, launched>>

stateBlocksToggle == view.status \in {"connecting", "restoring", "failed_safe"}

\* A button was clicked: busy, then the call.
click(c, action) ==
  /\ life = "open" /\ clicked < MaxClicks /\ ~view.busy
  /\ calls[c] = "none" /\ reqs[c] = "none"
  /\ view' = [view EXCEPT !.busy = TRUE]
  /\ clicked' = clicked + 1
  /\ requests(c, action)
  /\ UNCHANGED <<svc, ctl, reqs, failures, life, guard, proxy, chosen, pardoned, launched>>

Toggle(c) == /\ ~stateBlocksToggle
             /\ click(c, IF view.status = "connected" THEN "disconnect" ELSE "connect")

\* The button is enabled while connected, in failed_safe and after an error.
RestoreClicked(c) == view.status \in {"connected", "failed_safe", "prepared"} /\ click(c, "disconnect")

\* Mutant: without an answer the view is left as it is.
clickReturnsEarly(c) ==
  /\ returned(c) /\ life # "off"
  /\ IF calls[c] \in Errors
       THEN UNCHANGED <<view, guard, proxy, pardoned, failures>>
       ELSE update(calls[c])
  /\ calls' = [calls EXCEPT ![c] = "none"]
  /\ UNCHANGED <<svc, ctl, reqs, life, chosen, clicked, launched>>

\* statusForClientError: a failed call shows prepared, with an error.
ClickReturns(c) ==
  /\ returned(c) /\ life # "off"
  /\ update(IF calls[c] \in Errors THEN "prepared" ELSE calls[c])
  /\ calls' = [calls EXCEPT ![c] = "none"]
  /\ UNCHANGED <<svc, ctl, reqs, life, chosen, clicked, launched>>

-----------------------------------------------------------------------------
(* The window *)

\* NewViewModel shows prepared until the first Refresh.
LaunchClient ==
  /\ life = "off" /\ launched < MaxLaunches
  /\ launched' = launched + 1
  /\ life' = "open"
  /\ view' = [status |-> "prepared", busy |-> FALSE]
  /\ UNCHANGED <<svcVars, guard, proxy, chosen, pardoned, clicked>>

CloseWindow ==
  /\ life = "open" /\ life' = "closing"
  /\ UNCHANGED <<svcVars, view, guard, proxy, chosen, pardoned, clicked, launched>>

\* Close: the pollers are joined, the clicks are not; the proxy is given back.
\* run() closes once more before it returns.
CloseReturns ==
  /\ \/ life = "closing" /\ calls["poll"] = "none" /\ life' = "closed"
     \/ life = "closed" /\ life' = "leaving"
  /\ GiveBack
  /\ UNCHANGED <<svc, ctl, reqs, calls, view, chosen, clicked, launched>>

\* The process ends, and with it its calls; or it is killed.
clientEnds ==
  /\ life' = "off"
  /\ guard' = NoGuard
  /\ pardoned' = (pardoned \/ guard.taken)
  /\ calls' = [c \in Callers |-> "none"]
  /\ UNCHANGED <<svc, ctl, reqs, view, proxy, chosen, clicked, launched>>

ClientExits == life = "leaving" /\ clientEnds /\ UNCHANGED failures
ClientKilled == life # "off" /\ Failure /\ clientEnds

\* The user, or a program of his, sets the proxy.  A setting made while the
\* guard holds the older one will be overwritten.
UserSetsProxy(p) ==
  /\ Failure /\ p # proxy
  /\ proxy' = p /\ chosen' = p
  /\ pardoned' = (pardoned \/ guard.taken)
  /\ UNCHANGED <<svc, ctl, reqs, calls, life, view, guard, clicked, launched>>

-----------------------------------------------------------------------------

pollStep == RefreshBegins \/ RefreshReturns
closeStep == CloseReturns \/ ClientExits

ClientNext ==
  \/ serviceStep /\ UNCHANGED clientVars
  \/ LaunchClient \/ pollStep \/ CloseWindow \/ closeStep \/ ClientKilled
  \/ \E c \in Clicks : Toggle(c) \/ RestoreClicked(c) \/ ClickReturns(c)
  \/ \E p \in ProxySettings : UserSetsProxy(p)

ClientSpec == ClientInit /\ [][ClientNext]_sessionVars

\* Goroutines run, every call is bounded by a deadline, the ticker ticks; the
\* service manager, the user and failures are never forced.
ClientFairness ==
  /\ WF_sessionVars(executeStep /\ UNCHANGED clientVars)
  /\ WF_sessionVars(controllerStep /\ UNCHANGED clientVars)
  /\ \A c \in Callers : WF_sessionVars(requestStep(c) /\ UNCHANGED clientVars)
  /\ WF_sessionVars(RefreshBegins) /\ WF_sessionVars(RefreshReturns) /\ WF_sessionVars(closeStep)
  /\ \A c \in Clicks : WF_sessionVars(ClickReturns(c))

FairClientSpec == ClientSpec /\ ClientFairness

-----------------------------------------------------------------------------
(* Properties *)

\* The proxy guard holds the user's proxy only while the window shows a
\* connection or is closing, and otherwise "the previous values return": also
\* when answers of polls and clicks overtake each other, the service goes away
\* or the window closes under a call.  Pardoned: a client killed, a registry
\* that refuses, a change by the user under the guard, a click answered after
\* the last Close.
ProxyIsReturned ==
  ~pardoned =>
    /\ guard.taken => guard.saved = chosen /\ (view.status = "connected" \/ life # "open")
    /\ ~guard.taken => proxy = chosen

\* What there is to see: the service's state, or nobody who answers.
Truth == IF svc = "running" THEN ctl.state ELSE "disconnected"

\* Once the service stays as it is, a window that stays open comes to show it,
\* whatever late answers it got before: no action leaves it busy for ever.
ViewCatchesUp ==
  <>[](life = "open") /\ <>[][Truth' = Truth]_sessionVars => <>[](view.status = Truth /\ ~view.busy)

=============================================================================
