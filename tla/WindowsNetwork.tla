--------------------------- MODULE WindowsNetwork ---------------------------
(***************************************************************************)
(* internal/agent/network_windows.go, network_poc_windows.go and           *)
(* network_monitor.go: the Windows NetworkManager as the service uses it.  *)
(* The core owns routes and TUN; the manager aims the resolver of every    *)
(* adapter at the TUN and takes it back.  Its only record is m.current, in *)
(* memory.  The controller calls it in a fixed order; the service prepares *)
(* in the background at the same time; users and Windows change resolvers  *)
(* and adapters at any moment.  A step is one read or one write of the     *)
(* system, with the manager's assignments that follow it.                  *)
(***************************************************************************)
EXTENDS Naturals, FiniteSets

CONSTANTS
  Adapters,    \* adapters other than the TUN
  Configured,  \* ... of them, those with static resolvers at the start
  Static,      \* static resolver lists a user can choose
  MaxFaults    \* bound on failed calls, crashes and outside changes

ASSUME StaticAssumption == {"auto", "tun"} \cap Static = {}
ASSUME BoundsAssumption == MaxFaults \in Nat

Choices   == Static \cup {"auto"}         \* what a user chooses
Settings  == Choices \cup {"tun"}         \* windowsTUNDNS
Preparers == {"connect", "background"}

VARIABLES
  \* Windows
  present,   \* adapters GetAdaptersAddresses lists
  dns,       \* resolver setting of each adapter; kept while it is unplugged
  tun,       \* the TUN device: none, phantom, starting, wrong, ready
  core,      \* is the core running?
  \* WindowsNetworkManager
  prepared,  \* m.prepared: the fingerprint, or Nothing
  current,   \* m.current: the snapshot, or NoSnapshot
  monitor,   \* runMonitor: off, unread, watching, reported
  watched,   \* baselineFingerprint
  \* the calls in progress
  prep,      \* preparer -> off, recover, baseline, fingerprint, store
  read,      \* preparer -> the fingerprint it has read
  pc,        \* the controller's transaction
  todo,      \* adapters the loop over adapters has still to visit
  \* bookkeeping
  user,      \* what the user last chose for an adapter
  mine,      \* adapters the transaction aimed at the TUN, as long as no
             \* Restore of it failed and no crash hit it
  later,     \* ... of them, those the user set afterwards
  excused,   \* ... those unplugged, or set by the user during Restore
  changed,   \* has anything changed since the monitor started?
  faults

system  == <<present, dns, tun, core>>
manager == <<prepared, current>>
watch   == <<monitor, watched>>
preps   == <<prep, read>>
call    == <<pc, todo>>
ghosts  == <<user, mine, later, excused, changed>>
vars    == <<system, manager, watch, preps, call, ghosts, faults>>

NoAdapters == [a \in {} |-> "auto"]
Nothing    == [dns |-> NoAdapters, tun |-> "unread"]
NoSnapshot == [dns |-> NoAdapters, owned |-> FALSE, held |-> FALSE]

Init ==
  /\ present = Adapters
  /\ user \in {u \in [Adapters -> Choices] : \A a \in Adapters : u[a] = "auto" <=> a \notin Configured}
  /\ dns = user
  /\ tun = "none" /\ core = FALSE
  /\ prepared = Nothing /\ current = NoSnapshot
  /\ monitor = "off" /\ watched = Nothing
  /\ prep = [p \in Preparers |-> "off"] /\ read = [p \in Preparers |-> Nothing]
  /\ pc = "boot" /\ todo = {}
  /\ mine = {} /\ later = {} /\ excused = {} /\ changed = FALSE
  /\ faults = 0

-----------------------------------------------------------------------------
(* The native reader *)

\* A native call or a script fails, or the world changes.
Fault == faults < MaxFaults /\ faults' = faults + 1
Fine  == UNCHANGED faults

\* A transaction begins, or nothing more is said of it.
forget == mine' = {} /\ later' = {} /\ excused' = {}

\* GetAdaptersAddresses lists the TUN once the core has made it.
visible == tun \in {"starting", "wrong", "ready"}

\* TUNReady finds the alias with the address; the identity is valid if the
\* address is the only one and the adapter is new.
tunFound == tun \in {"wrong", "ready"}
validTUNIdentity == tun = "ready"

\* A baseline without a default route is an error; the core's TUN carries one.
readable == present # {} \/ tun = "ready"

\* What Baseline and Fingerprint cover: the listed adapters, each with its
\* resolvers, and the TUN among them.
Fingerprint == [dns |-> [a \in present |-> dns[a]],
                tun |-> IF visible THEN tun ELSE "none"]

-----------------------------------------------------------------------------
(* preparePoc: the controller's call and the one in the background *)

\* The rest of preparer p's Prepare does not run.
giveUp(p) ==
  /\ prep' = [prep EXCEPT ![p] = "off"] /\ read' = [read EXCEPT ![p] = Nothing]
  /\ pc' = IF p = "connect" THEN "reconcile" ELSE pc

\* The script removes the one device that a dead core left.
recoveredTUN == IF tun = "phantom" THEN "none" ELSE tun

\* recoverOwnedPhantomTUN: refused while a managed core runs.
RecoverPhantom(p) ==
  /\ prep[p] = "recover"
  /\ \/ /\ ~core /\ Fine /\ tun' = recoveredTUN
        /\ prep' = [prep EXCEPT ![p] = "baseline"] /\ UNCHANGED <<read, pc>>
     \/ core /\ Fine /\ giveUp(p) /\ UNCHANGED tun
     \/ ~core /\ Fault /\ giveUp(p) /\ UNCHANGED tun
  /\ UNCHANGED <<present, dns, core, manager, watch, todo, ghosts>>

\* An adapter with the product's own alias is refused.
ReadBaseline(p) ==
  /\ prep[p] = "baseline"
  /\ \/ readable /\ ~visible /\ Fine /\ prep' = [prep EXCEPT ![p] = "fingerprint"]
        /\ UNCHANGED <<read, pc>>
     \/ (~readable \/ visible) /\ Fine /\ giveUp(p)
     \/ readable /\ ~visible /\ Fault /\ giveUp(p)
  /\ UNCHANGED <<system, manager, watch, todo, ghosts>>

\* Fingerprint reads the system a second time.
ReadFingerprint(p) ==
  /\ prep[p] = "fingerprint"
  /\ \/ /\ readable /\ Fine /\ prep' = [prep EXCEPT ![p] = "store"]
        /\ read' = [read EXCEPT ![p] = Fingerprint] /\ UNCHANGED pc
     \/ ~readable /\ Fine /\ giveUp(p)
     \/ readable /\ Fault /\ giveUp(p)
  /\ UNCHANGED <<system, manager, watch, todo, ghosts>>

\* m.prepared is replaced under the mutex, which WaitTUNReady holds.
StorePrepared(p) ==
  /\ prep[p] = "store" /\ pc # "wait"
  /\ prepared' = read[p]
  /\ prep' = [prep EXCEPT ![p] = "off"] /\ read' = [read EXCEPT ![p] = Nothing]
  /\ pc' = IF p = "connect" THEN "capture" ELSE pc
  /\ UNCHANGED <<system, current, watch, todo, ghosts, faults>>

-----------------------------------------------------------------------------
(* The controller's Connect: Capture, core, WaitTUNReady, ActivateTUNRoutes *)

Connect ==
  /\ pc = "idle" /\ pc' = "prepare" /\ prep' = [prep EXCEPT !["connect"] = "recover"]
  /\ UNCHANGED <<system, manager, watch, read, todo, ghosts, faults>>

\* The snapshot of a baseline that was just found unchanged.
snapshotFromPrepared(state) == [dns |-> state.dns, owned |-> FALSE, held |-> TRUE]

\* capturePoc: the fingerprint must equal the one in m.prepared, whoever put
\* it there.  The snapshot goes to memory.
Capture ==
  /\ pc = "capture"
  /\ \/ /\ readable /\ Fingerprint = prepared /\ current = NoSnapshot /\ Fine
        /\ current' = snapshotFromPrepared(prepared)
        /\ forget /\ pc' = "captured"
     \/ /\ ~readable \/ Fingerprint # prepared \/ current # NoSnapshot
        /\ Fine /\ pc' = "reconcile" /\ UNCHANGED <<current, mine, later, excused>>
     \/ Fault /\ pc' = "reconcile" /\ UNCHANGED <<current, mine, later, excused>>
  /\ UNCHANGED <<system, prepared, watch, preps, todo, user, changed>>

\* The controller starts the core; it creates the TUN, under the wrong
\* identity if it may not have the right one.
StartCore ==
  /\ pc = "captured"
  /\ \/ Fine /\ core' = TRUE /\ tun' = "starting" /\ pc' = "wait"
     \/ Fault /\ pc' = "stop" /\ UNCHANGED <<core, tun>>
  /\ UNCHANGED <<present, dns, manager, watch, preps, todo, ghosts>>

\* (external) sing-box gives the TUN its address.
TUNAppears ==
  /\ core /\ tun = "starting"
  /\ \/ tun' = "ready" /\ Fine
     \/ tun' = "wrong" /\ Fault
  /\ UNCHANGED <<present, dns, core, manager, watch, preps, call, ghosts>>

\* Mutant: the TUN's identity is not kept.
waitForgetsTUN ==
  /\ pc = "wait" /\ tun = "ready" /\ pc' = "activate"
  /\ UNCHANGED <<system, manager, watch, preps, todo, ghosts, faults>>

\* WaitTUNReady polls, with the mutex, until the TUN has its address, the
\* deadline passes or the context ends.
WaitTUNReady ==
  /\ pc = "wait" /\ tunFound
  /\ \/ validTUNIdentity /\ current' = [current EXCEPT !.owned = TRUE] /\ pc' = "activate"
     \/ ~validTUNIdentity /\ pc' = "stop" /\ UNCHANGED current
  /\ UNCHANGED <<system, prepared, watch, preps, todo, ghosts, faults>>

\* Mutant: the deadline is looked at only once the TUN was found.
deadlineAfterTUN ==
  /\ pc = "wait" /\ tunFound /\ pc' = "stop"
  /\ UNCHANGED <<system, manager, watch, preps, todo, ghosts, faults>>

WaitGivesUp ==
  /\ pc = "wait" /\ pc' = "stop"
  /\ UNCHANGED <<system, manager, watch, preps, todo, ghosts, faults>>

setInterfaceDNS(a, servers) == [dns EXCEPT ![a] = servers]

\* ActivateTUNRoutes lists the adapters and aims each at the TUN.
ListForActivate ==
  /\ pc = "activate" /\ current # NoSnapshot
  /\ \/ Fine /\ todo' = present /\ pc' = "point"
     \/ Fault /\ pc' = "stop" /\ UNCHANGED todo
  /\ UNCHANGED <<system, manager, watch, preps, ghosts>>

\* The TUN's own resolver comes last; a call that fails ends the loop.
PointAtTUN ==
  /\ pc = "point"
  /\ \/ \E a \in todo :
          /\ todo' = todo \ {a} /\ Fine /\ UNCHANGED pc
          /\ dns' = setInterfaceDNS(a, "tun")
          /\ mine' = mine \cup {a} /\ later' = later \ {a}
     \/ todo = {} /\ pc' = "activated" /\ Fine /\ UNCHANGED <<todo, dns, mine, later>>
     \/ Fault /\ pc' = "stop" /\ todo' = {} /\ UNCHANGED <<dns, mine, later>>
  /\ UNCHANGED <<present, tun, core, manager, watch, preps, user, excused, changed>>

-----------------------------------------------------------------------------
(* The runtime monitor *)

StartMonitor ==
  /\ pc = "activated" /\ pc' = "up"
  /\ monitor' = "unread" /\ changed' = FALSE /\ watched' = Nothing
  /\ UNCHANGED <<system, manager, preps, todo, user, mine, later, excused, faults>>

\* Mutant: the monitor compares with the prepared fingerprint.
preparedBaseline == prepared

\* What the monitor compares with: the network as it is when it starts.
monitorBaseline == Fingerprint

\* A failed read is tried again at the next tick.
MonitorReads ==
  /\ monitor = "unread" /\ readable
  /\ watched' = monitorBaseline /\ monitor' = "watching"
  /\ UNCHANGED <<system, manager, preps, call, ghosts, faults>>

\* Mutant: adapters that came or went are not compared.
tickKnownAdapters ==
  /\ monitor = "watching" /\ readable /\ Fingerprint # watched
  /\ present = DOMAIN watched.dns /\ monitor' = "reported"
  /\ UNCHANGED <<system, manager, watched, preps, call, ghosts, faults>>

MonitorTick ==
  /\ monitor = "watching" /\ readable /\ Fingerprint # watched
  /\ monitor' = "reported"
  /\ UNCHANGED <<system, manager, watched, preps, call, ghosts, faults>>

\* The controller restores on the report, as it does on Disconnect.
Leave ==
  /\ pc = "up" /\ pc' = "stop"
  /\ UNCHANGED <<system, manager, watch, preps, todo, ghosts, faults>>

-----------------------------------------------------------------------------
(* restoreTransaction: stop the core, Restore or Reconcile, Residue *)

\* The TUN of a stopped core disappears at once or a little later; the one of
\* a core that was killed may stay behind as a phantom.
StopCore ==
  /\ pc = "stop" /\ pc' = "restore" /\ core' = FALSE
  /\ monitor' = "off" /\ watched' = Nothing /\ changed' = FALSE
  /\ tun' \in IF visible THEN {"none", "phantom", tun} ELSE {tun}
  /\ UNCHANGED <<present, dns, manager, preps, todo, user, mine, later, excused, faults>>

TUNVanishes ==
  /\ ~core /\ visible /\ tun' \in {"none", "phantom"}
  /\ UNCHANGED <<present, dns, core, manager, watch, preps, call, ghosts, faults>>

\* Restore forgets m.current before it does anything else, and does nothing
\* if the snapshot it took, or the caller's copy, owns no TUN.
Restore ==
  /\ pc = "restore" /\ current' = NoSnapshot
  /\ pc' = IF current.owned THEN "list" ELSE "residue"
  /\ UNCHANGED <<system, prepared, watch, preps, todo, ghosts, faults>>

\* Reconcile flushes the resolver cache.
Reconcile ==
  /\ pc = "reconcile" /\ pc' = "residue"
  /\ UNCHANGED <<system, manager, watch, preps, todo, ghosts, faults>>

\* The resolver list the snapshot has for an adapter; there is none without
\* m.current.
captured(a) == a \in DOMAIN current.dns

\* restoreSnapshotResolvers lists the adapters with their resolvers and sets
\* those it captured, or found on the TUN's resolver.
ListForRestore ==
  /\ pc = "list"
  /\ \/ /\ Fine /\ pc' = "reset" /\ todo' = {a \in present : captured(a) \/ dns[a] = "tun"}
        /\ UNCHANGED <<mine, later, excused>>
     \/ Fault /\ pc' = "failed" /\ forget /\ UNCHANGED todo
  /\ UNCHANGED <<system, manager, watch, preps, user, changed>>

ResetResolver ==
  /\ pc = "reset"
  /\ \/ \E a \in todo :
          /\ dns' = setInterfaceDNS(a, IF captured(a) THEN current.dns[a] ELSE "auto")
          /\ todo' = todo \ {a} /\ Fine /\ UNCHANGED <<pc, mine, later, excused>>
     \/ todo = {} /\ Fine /\ pc' = "residue" /\ UNCHANGED <<dns, todo, mine, later, excused>>
     \/ todo # {} /\ Fault /\ pc' = "failed" /\ todo' = {} /\ forget /\ UNCHANGED dns
  /\ UNCHANGED <<present, tun, core, manager, watch, preps, user, changed>>

\* Residue counts the TUN and nothing else.
Residue ==
  /\ pc = "residue" /\ pc' = IF tunFound THEN "failed" ELSE "idle"
  /\ UNCHANGED <<system, manager, watch, preps, todo, ghosts, faults>>

\* The user asks again: the controller still has its copy of the snapshot,
\* which owns no TUN, and m.current is gone.
RestoreAgain ==
  /\ pc = "failed" /\ pc' = "restore"
  /\ UNCHANGED <<system, manager, watch, preps, todo, ghosts, faults>>

-----------------------------------------------------------------------------
(* Users, Windows, crashes *)

\* A user chooses a resolver while the adapter is plugged in.
UserSetsDNS ==
  \E a \in present, v \in Choices :
    /\ Fault /\ v # dns[a]
    /\ dns' = [dns EXCEPT ![a] = v] /\ user' = [user EXCEPT ![a] = v]
    /\ later' = later \cup ({a} \cap mine) /\ changed' = (monitor # "off")
    /\ excused' = IF pc \in {"list", "reset"} THEN excused \cup {a} ELSE excused
    /\ UNCHANGED <<present, tun, core, manager, watch, preps, call, mine>>

Plug ==
  \E a \in Adapters :
    /\ Fault
    /\ present' \in {present \cup {a}, present \ {a}} \ {present}
    /\ excused' = excused \cup ({a} \cap (mine \cup todo)) /\ changed' = (monitor # "off")
    /\ UNCHANGED <<dns, tun, core, manager, watch, preps, call, user, mine, later>>

\* The service is killed: its job kills the core.
Crash ==
  /\ Fault
  /\ core' = FALSE /\ tun' \in IF visible THEN {"none", "phantom", tun} ELSE {tun}
  /\ prepared' = Nothing /\ current' = NoSnapshot /\ monitor' = "off" /\ watched' = Nothing
  /\ prep' = [p \in Preparers |-> "off"] /\ read' = [p \in Preparers |-> Nothing]
  /\ pc' = "boot" /\ todo' = {} /\ forget /\ changed' = FALSE
  /\ UNCHANGED <<present, dns, user>>

\* The next one recovers (Reconcile, Residue), starting again while there is a
\* residue, and then prepares in the background.
ServiceStarts ==
  /\ pc = "boot" /\ ~tunFound /\ pc' = "idle"
  /\ prep' = [prep EXCEPT !["background"] = "recover"]
  /\ UNCHANGED <<system, manager, watch, read, todo, ghosts, faults>>

-----------------------------------------------------------------------------
Prepare == \E p \in Preparers :
             RecoverPhantom(p) \/ ReadBaseline(p) \/ ReadFingerprint(p) \/ StorePrepared(p)
Transaction ==
  \/ Capture \/ StartCore \/ WaitTUNReady \/ WaitGivesUp \/ ListForActivate \/ PointAtTUN
  \/ StartMonitor \/ StopCore \/ Restore \/ Reconcile \/ ListForRestore \/ ResetResolver
  \/ Residue \/ ServiceStarts
Monitor == MonitorReads \/ MonitorTick

Next ==
  \/ Prepare \/ Transaction \/ Monitor \/ Connect \/ Leave \/ RestoreAgain
  \/ TUNAppears \/ TUNVanishes \/ UserSetsDNS \/ Plug \/ Crash

\* Goroutines that are ready run and ticks come; the TUN of a stopped core goes
\* away.  Nothing is assumed of a core that starts: WaitTUNReady has a deadline.
Fairness ==
  WF_vars(Prepare) /\ WF_vars(Transaction) /\ WF_vars(Monitor) /\ WF_vars(TUNVanishes)

Spec == Init /\ [][Next]_vars /\ Fairness

-----------------------------------------------------------------------------
(* Properties *)

\* A transaction whose one Restore succeeded leaves no adapter it aimed at the
\* TUN's resolver there, whichever way Connect failed, and it leaves a setting
\* the user made in the meantime alone (network_poc_windows.go, the straggler
\* branch of restoreSnapshotResolvers).  What else an adapter is set to is
\* UserDNSComesBack.  An adapter unplugged, or set by the user while Restore
\* runs, is excused.
TUNIsWithdrawn ==
  pc = "idle" =>
    \A a \in mine \ excused : dns[a] # "tun" /\ (a \in later => dns[a] = user[a])

\* What the comments on Restore promise: each captured interface's resolver is
\* restored exactly, the static list it had included.  The code does not do it.
UserDNSComesBack ==
  pc = "idle" => \A a \in mine \ excused : dns[a] = user[a]

\* The monitor does not take the connection's own changes for drift: it reports
\* only if something changed after it started (comment on its baseline).
NoFalseAlarm == monitor = "reported" => changed

\* A change that lasts ends the connection or is reported, after any number of
\* failed reads.
LastingDriftIsReported ==
  []<>(monitor = "watching" => Fingerprint = watched \/ ~readable)

\* No call of the controller hangs, whatever the core does: it ends connected,
\* restored or failed.
CallsReturn == []<>(pc \in {"idle", "up", "failed"})

=============================================================================
