---------------------------- MODULE DarwinNetwork ----------------------------
(***************************************************************************)
(* internal/platform/darwin/snapshot.go and network_darwin.go: the macOS   *)
(* NetworkManager.  It writes every change it is about to make to a journal*)
(* file before it makes it, so that a later process can undo the changes   *)
(* of one that crashed.  Calls arrive in the order in which the controller *)
(* makes them and hold the manager's mutex; one step is one journal write  *)
(* or one command that changes the system, with the reads that precede it. *)
(***************************************************************************)
EXTENDS Naturals, Sequences, FiniteSets

CONSTANTS
  Networks,    \* physical baselines: interface, index, gateway and service
  Resolvers,   \* DNS settings a user can choose
  TUNDNS,      \* the product's DNS setting
  Absent,      \* no route to a destination
  Foreign,     \* a route somebody else made
  MaxTUN,      \* bound on the index of utun9
  MaxFaults,   \* bound on failures, crashes, reboots and outside changes
  UserRaces    \* may a user set DNS between the manager's check and its write?

ASSUME ResolversAssumption == TUNDNS \notin Resolvers
ASSUME TablesAssumption ==
  /\ Absent \notin Networks \cup Nat /\ Foreign \notin Networks \cup Nat
  /\ Absent # Foreign /\ Networks \cap Nat = {}
ASSUME BoundsAssumption == MaxTUN \in Nat /\ MaxFaults \in Nat /\ UserRaces \in BOOLEAN

\* The owned destinations in the order in which they are added: the physical
\* exception 172.20.0.0/16 and the two halves of the address space.
Destinations == <<"direct", "low", "high">>
Dest  == {"direct", "low", "high"}
DNS   == Resolvers \cup {TUNDNS}
Index == 1..MaxTUN
Hop   == Networks \cup Index \cup {Foreign, Absent}

VARIABLES
  \* the system
  physical,  \* the network Discover finds
  dns,       \* DNS setting of its service
  table,     \* planned destination -> next hop
  tun,       \* index of utun9, 0 if there is none
  boot,      \* boot session
  \* disk and manager
  journal,   \* network-session.json, or NoSnapshot
  active,    \* m.active, or NoSnapshot
  prepared,  \* m.prepared, or NoBaseline
  \* the call in progress
  pc,
  next,      \* next route to add or to delete
  failed,    \* restore: is errs non-empty?
  \* the runtime monitor
  monitor,   \* "off", "running", "reported"
  watched,   \* the TUN index and network of the snapshot it was started with
  \* bookkeeping
  faults, userDNS

system  == <<physical, dns, table, tun, boot>>
manager == <<journal, active, prepared>>
call    == <<pc, next, failed>>
watch   == <<monitor, watched>>
vars    == <<system, manager, call, watch, faults, userDNS>>

NoBaseline == [network |-> Absent, dns |-> TUNDNS]
NoSnapshot == [boot |-> 0, base |-> NoBaseline, tun |-> 0, routes |-> <<>>,
               dnsIntended |-> FALSE]
Routes     == [dest : Dest, hop : Networks \cup Index]
Snapshots  == [boot : 1..(MaxFaults + 1), tun : 0..MaxTUN,
               base : [network : Networks, dns : DNS],
               routes : Seq(Routes),
               dnsIntended : BOOLEAN] \cup {NoSnapshot}

Calls == {"idle", "captured", "ready", "route", "addroute", "dns", "setdns",
          "up", "failed", "restoredns", "setback", "routes", "delete"}

TypeOK ==
  /\ physical \in Networks /\ dns \in DNS /\ table \in [Dest -> Hop]
  /\ tun \in 0..MaxTUN /\ boot \in 1..(MaxFaults + 1)
  /\ journal \in Snapshots /\ active \in Snapshots
  /\ Len(journal.routes) <= 3 /\ Len(active.routes) <= 3
  /\ prepared \in [network : Networks, dns : DNS] \cup {NoBaseline}
  /\ pc \in Calls /\ next \in 0..3 /\ failed \in BOOLEAN
  /\ pc \in {"route", "addroute", "delete"} => next \in 1..3
  /\ monitor \in {"off", "running", "reported"}
  /\ watched \in [tun : 0..MaxTUN, network : Networks \cup {Absent}]
  /\ faults \in 0..MaxFaults /\ userDNS \in Resolvers

Init ==
  /\ physical \in Networks /\ userDNS \in Resolvers /\ dns = userDNS
  /\ table = [d \in Dest |-> Absent] /\ tun = 0 /\ boot = 1
  /\ journal = NoSnapshot /\ active = NoSnapshot /\ prepared = NoBaseline
  /\ pc = "idle" /\ next = 0 /\ failed = FALSE
  /\ monitor = "off" /\ watched = [tun |-> 0, network |-> Absent]
  /\ faults = 0

-----------------------------------------------------------------------------
(* Helpers *)

\* A call fails, at the cost of one fault.
Fault == faults < MaxFaults /\ faults' = faults + 1
Fine  == UNCHANGED faults

\* Save replaces the file by a rename; one that fails may have renamed it.
Save(s)      == Fine /\ journal' = s
SaveFails(s) == Fault /\ journal' \in {journal, s}

\* validateSnapshot, which Save and Load apply.
validSnapshot(s) ==
  /\ Len(s.routes) <= 3
  /\ \A i, j \in DOMAIN s.routes : s.routes[i].dest = s.routes[j].dest => i = j
  /\ \A i \in DOMAIN s.routes :
       s.routes[i].hop = IF s.routes[i].dest = "direct" THEN s.base.network ELSE s.tun
  /\ s.dnsIntended => s.tun > 0

\* preflight: nothing of the plan exists yet.
preflight == tun = 0 /\ \A d \in Dest : table[d] = Absent

-----------------------------------------------------------------------------
(* Prepare, Capture, WaitTUNReady *)

\* An unresolved session is refused, whoever calls before it was restored.
Prepare ==
  /\ pc \in {"idle", "failed"} /\ journal = NoSnapshot /\ active = NoSnapshot /\ preflight
  /\ prepared' = [network |-> physical, dns |-> dns]
  /\ Fine /\ UNCHANGED <<system, journal, active, call, watch, userDNS>>

\* Capture finds the prepared network unchanged and journals it.
Capture ==
  /\ pc \in {"idle", "failed"} /\ prepared # NoBaseline
  /\ journal = NoSnapshot /\ active = NoSnapshot /\ preflight
  /\ prepared = [network |-> physical, dns |-> dns]
  /\ LET s == [NoSnapshot EXCEPT !.boot = boot, !.base = prepared] IN
     \/ Save(s) /\ active' = s /\ pc' = "captured"
     \/ SaveFails(s) /\ pc' = "failed" /\ UNCHANGED active
  /\ UNCHANGED <<system, prepared, next, failed, watch, userDNS>>

\* Prepare finds somebody else's plan, or Capture another network than the
\* prepared one: the controller reconciles.
Refuse ==
  /\ pc = "idle" /\ pc' = "failed"
  /\ ~preflight \/ prepared \notin {NoBaseline, [network |-> physical, dns |-> dns]}
  /\ Fine /\ UNCHANGED <<system, manager, next, failed, watch, userDNS>>

\* The core created utun9: the copy that names it is saved before it is kept.
WaitTUNReady ==
  /\ pc = "captured" /\ tun > 0
  /\ LET s == [active EXCEPT !.tun = tun] IN
     \/ validSnapshot(s) /\ Save(s) /\ active' = s /\ pc' = "ready"
     \/ SaveFails(s) /\ pc' = "failed" /\ UNCHANGED active
  /\ UNCHANGED <<system, prepared, next, failed, watch, userDNS>>

\* A read fails, the TUN is not ready in time, or the controller fails between
\* two calls.
GiveUp ==
  /\ pc \in {"idle", "captured", "ready", "route", "dns"} /\ pc' = "failed"
  /\ Fault /\ UNCHANGED <<system, manager, next, failed, watch, userDNS>>

-----------------------------------------------------------------------------
(* ActivateTUNRoutes *)

ActivateBegin ==
  /\ pc = "ready"
  /\ IF tun = active.tun /\ active.base = [network |-> physical, dns |-> dns]
     THEN pc' = "route" /\ next' = 1
     ELSE pc' = "failed" /\ UNCHANGED next
  /\ Fine /\ UNCHANGED <<system, manager, failed, watch, userDNS>>

hopOf(d) == IF d = "direct" THEN active.base.network ELSE active.tun

routeFirst ==
  /\ pc = "route"
  /\ LET d == Destinations[next]
         s == [active EXCEPT !.routes = Append(@, [dest |-> d, hop |-> hopOf(d)])] IN
     /\ active' = s /\ pc' = "addroute" /\ Fine
     /\ table' = [table EXCEPT ![d] = hopOf(d)] /\ UNCHANGED journal
  /\ UNCHANGED <<physical, dns, tun, boot, prepared, next, failed, watch, userDNS>>

\* The snapshot in memory takes the route before the journal does.
ActivateRoute ==
  /\ pc = "route"
  /\ LET d == Destinations[next]
         s == [active EXCEPT !.routes = Append(@, [dest |-> d, hop |-> hopOf(d)])] IN
     IF table[d] # Absent
     THEN pc' = "failed" /\ Fine /\ UNCHANGED <<journal, active>>
     ELSE /\ active' = s
          /\ \/ validSnapshot(s) /\ Save(s) /\ pc' = "addroute"
             \/ SaveFails(s) /\ pc' = "failed"
  /\ UNCHANGED <<system, prepared, next, failed, watch, userDNS>>

\* Where route(8) puts a route: through utun9, or through the interface on which
\* the kernel finds the captured gateway now.
through(d) == {hopOf(d)} \cup (IF d = "direct" THEN {physical} ELSE {})

\* `route add' refuses an existing destination and fails without its interface.
\* A route that was added may fail its verification, and does so when the
\* network moved and it leads elsewhere; it is left in place then.
AddRoute ==
  /\ pc = "addroute"
  /\ LET d == Destinations[next] IN
     \/ /\ table[d] = Absent /\ (d = "direct" \/ tun = active.tun)
        /\ \E hop \in through(d) :
             /\ table' = [table EXCEPT ![d] = hop]
             /\ \/ /\ hop = hopOf(d) /\ Fine /\ next' = IF next = 3 THEN 0 ELSE next + 1
                   /\ pc' = IF next = 3 THEN "dns" ELSE "route"
                \/ hop # hopOf(d) /\ Fine /\ pc' = "failed" /\ UNCHANGED next
                \/ Fault /\ pc' = "failed" /\ UNCHANGED next
     \/ Fault /\ pc' = "failed" /\ UNCHANGED <<table, next>>
     \/ /\ table[d] # Absent \/ (IF d = "direct" THEN physical # hopOf(d) ELSE tun # active.tun)
        /\ Fine /\ pc' = "failed" /\ UNCHANGED <<table, next>>
  /\ UNCHANGED <<physical, dns, tun, boot, manager, failed, watch, userDNS>>

\* DNS that is no longer the captured one is left alone.
ActivateDNS ==
  /\ pc = "dns"
  /\ LET s == [active EXCEPT !.dnsIntended = TRUE] IN
     IF dns # active.base.dns
     THEN pc' = "failed" /\ Fine /\ UNCHANGED <<journal, active>>
     ELSE /\ active' = s
          /\ \/ validSnapshot(s) /\ Save(s) /\ pc' = "setdns"
             \/ SaveFails(s) /\ pc' = "failed"
  /\ UNCHANGED <<system, prepared, next, failed, watch, userDNS>>

SetDNS ==
  /\ pc = "setdns"
  /\ \/ dns' = TUNDNS /\ pc' = "up" /\ Fine
     \/ dns' \in {dns, TUNDNS} /\ pc' = "failed" /\ Fault
  /\ UNCHANGED <<physical, table, tun, boot, manager, next, failed, watch, userDNS>>

-----------------------------------------------------------------------------
(* Restore and Reconcile *)

\* The snapshot restore works on: the one in memory, else the journal's.
session == IF active # NoSnapshot THEN active ELSE journal

\* Without a session restore returns at once.
restoreNothing ==
  /\ pc = "failed" /\ session = NoSnapshot
  /\ pc' = "idle"
  /\ Fine /\ UNCHANGED <<system, manager, next, failed, watch, userDNS>>

\* Both Restore and Reconcile start here.
restore ==
  /\ session # NoSnapshot /\ active' = session
  /\ failed' = FALSE /\ next' = Len(session.routes)
  /\ pc' = IF session.dnsIntended THEN "restoredns" ELSE "routes"
  /\ monitor' = "off"
  /\ Fine /\ UNCHANGED <<system, journal, prepared, watched, userDNS>>

\* After a failure, when a service process starts, and to retry.
restoreBegin == pc = "failed" /\ restore

\* The controller disconnects, or stops connecting between two calls.
Disconnect == pc \in {"captured", "ready", "up"} /\ restore

setBackAnyDNS ==
  /\ pc = "restoredns" /\ pc' = "setback" /\ failed' = FALSE /\ Fine
  /\ UNCHANGED <<system, manager, next, watch, userDNS>>

\* Only the product's own DNS setting is taken back.
restoreDNS ==
  /\ pc = "restoredns"
  /\ \/ /\ pc' = IF dns = TUNDNS THEN "setback" ELSE "routes"
        /\ failed' = (dns \notin {TUNDNS, active.base.dns})
        /\ Fine
     \/ pc' = "routes" /\ failed' = TRUE /\ Fault
  /\ UNCHANGED <<system, manager, next, watch, userDNS>>

restoreSetDNS ==
  /\ pc = "setback" /\ pc' = "routes"
  /\ \/ dns' = active.base.dns /\ Fine /\ UNCHANGED failed
     \/ dns' \in {dns, active.base.dns} /\ Fault /\ failed' = TRUE
  /\ UNCHANGED <<physical, table, tun, boot, manager, next, watch, userDNS>>

restoreMissingFails ==
  /\ pc = "routes" /\ next > 0
  /\ LET r == active.routes[next] IN
     \/ /\ table[r.dest] = r.hop /\ boot = active.boot
        /\ pc' = "delete" /\ UNCHANGED <<next, failed>>
     \/ /\ ~(table[r.dest] = r.hop /\ boot = active.boot)
        /\ next' = next - 1 /\ failed' = TRUE /\ UNCHANGED pc
  /\ Fine /\ UNCHANGED <<system, manager, watch, userDNS>>

\* Routes are looked at last to first; what is not exactly the journaled
\* route, or comes from another boot, is left alone and reported.
restoreRoute ==
  /\ pc = "routes" /\ next > 0
  /\ LET r == active.routes[next] IN
     \/ /\ table[r.dest] = r.hop /\ boot = active.boot
        /\ pc' = "delete" /\ Fine /\ UNCHANGED <<next, failed>>
     \/ /\ table[r.dest] = Absent
        /\ next' = next - 1 /\ Fine /\ UNCHANGED <<pc, failed>>
     \/ /\ table[r.dest] # Absent /\ ~(table[r.dest] = r.hop /\ boot = active.boot)
        /\ next' = next - 1 /\ failed' = TRUE /\ Fine /\ UNCHANGED pc
     \/ next' = next - 1 /\ failed' = TRUE /\ Fault /\ UNCHANGED pc
  /\ UNCHANGED <<system, manager, watch, userDNS>>

\* `route delete' is scoped to the journaled next hop; success is the absence
\* of the destination afterwards.
DeleteRoute ==
  /\ pc = "delete" /\ pc' = "routes" /\ next' = next - 1
  /\ LET r == active.routes[next]
         deleted == IF table[r.dest] = r.hop
                    THEN [table EXCEPT ![r.dest] = Absent] ELSE table IN
     \/ /\ table' = deleted /\ failed' = (failed \/ deleted[r.dest] # Absent)
        /\ Fine
     \/ table' \in {table, deleted} /\ failed' = TRUE /\ Fault
  /\ UNCHANGED <<physical, dns, tun, boot, manager, watch, userDNS>>

removeAnyway ==
  /\ pc = "routes" /\ next = 0 /\ pc' = "idle"
  /\ journal' = NoSnapshot /\ active' = NoSnapshot /\ Fine
  /\ UNCHANGED <<system, prepared, next, failed, watch, userDNS>>

\* The journal goes only after everything else was undone without an error.
restoreEnd ==
  /\ pc = "routes" /\ next = 0
  /\ IF failed
     THEN pc' = "failed" /\ Fine /\ UNCHANGED <<journal, active>>
     ELSE \/ /\ journal' = NoSnapshot /\ active' = NoSnapshot
             /\ pc' = "idle" /\ Fine
          \/ /\ journal' \in {journal, NoSnapshot} /\ pc' = "failed" /\ Fault
             /\ UNCHANGED active
  /\ UNCHANGED <<system, prepared, next, failed, watch, userDNS>>

-----------------------------------------------------------------------------
(* The runtime monitor *)

StartMonitor ==
  /\ pc = "up" /\ monitor = "off"
  /\ monitor' = "running"
  /\ watched' = [tun |-> active.tun, network |-> active.base.network]
  /\ Fine /\ UNCHANGED <<system, manager, call, userDNS>>

Drifted == physical # watched.network \/ tun # watched.tun \/ dns # TUNDNS

onlyPhysicalDrift ==
  /\ monitor = "running" /\ physical # watched.network
  /\ monitor' = "reported"
  /\ Fine /\ UNCHANGED <<system, manager, call, watched, userDNS>>

\* A tick: the network, the TUN and DNS are compared with the snapshot.
MonitorTick ==
  /\ monitor = "running" /\ Drifted
  /\ monitor' = "reported"
  /\ Fine /\ UNCHANGED <<system, manager, call, watched, userDNS>>

\* A check that itself fails is reported as well.
MonitorFails ==
  /\ monitor = "running" /\ monitor' = "reported"
  /\ Fault /\ UNCHANGED <<system, manager, call, watched, userDNS>>

-----------------------------------------------------------------------------
(* Outside *)

\* Routes through an interface go with it.
without(hop) == [d \in Dest |-> IF table[d] = hop THEN Absent ELSE table[d]]

TUNAppears == /\ tun = 0 /\ pc = "captured" /\ tun' \in Index
              /\ Fine /\ UNCHANGED <<physical, dns, table, boot, manager, call, watch, userDNS>>

TUNVanishes == /\ tun > 0 /\ tun' = 0 /\ table' = without(tun)
               /\ Fine /\ UNCHANGED <<physical, dns, boot, manager, call, watch, userDNS>>

UserSetsDNS == /\ UserRaces \/ pc \notin {"setdns", "setback"}
               /\ dns' \in Resolvers /\ userDNS' = dns' /\ Fault
               /\ UNCHANGED <<physical, table, tun, boot, manager, call, watch>>

ForeignRoute == /\ \E d \in Dest : \/ table[d] = Absent /\ table' = [table EXCEPT ![d] = Foreign]
                                   \/ table[d] = Foreign /\ table' = [table EXCEPT ![d] = Absent]
                /\ Fault /\ UNCHANGED <<physical, dns, tun, boot, manager, call, watch, userDNS>>

NetworkChanges == /\ physical' \in Networks \ {physical}
                  /\ table' \in {table, without(physical)}
                  /\ Fault /\ UNCHANGED <<dns, tun, boot, manager, call, watch, userDNS>>

\* The service process dies; the next one reconciles first.
Die == /\ active' = NoSnapshot /\ prepared' = NoBaseline
       /\ pc' = "failed" /\ next' = 0 /\ failed' = FALSE
       /\ monitor' = "off" /\ watched' = [tun |-> 0, network |-> Absent]
       /\ Fault /\ UNCHANGED <<journal, userDNS>>

Crash == Die /\ UNCHANGED system

\* A reboot keeps DNS settings and the journal, and no route or interface.
Reboot == Die /\ boot' = boot + 1 /\ tun' = 0 /\ table' = [d \in Dest |-> Absent]
          /\ UNCHANGED <<physical, dns>>

-----------------------------------------------------------------------------

restoreStep ==
  \/ restoreNothing \/ restoreBegin \/ restoreDNS \/ restoreSetDNS
  \/ restoreRoute \/ DeleteRoute \/ restoreEnd

Next ==
  \/ Prepare \/ Capture \/ Refuse \/ WaitTUNReady \/ GiveUp
  \/ ActivateBegin \/ ActivateRoute \/ AddRoute \/ ActivateDNS \/ SetDNS
  \/ restoreStep \/ Disconnect
  \/ StartMonitor \/ MonitorTick \/ MonitorFails
  \/ TUNAppears \/ TUNVanishes
  \/ UserSetsDNS \/ ForeignRoute \/ NetworkChanges \/ Crash \/ Reboot

Spec == Init /\ [][Next]_vars

\* A service that found a session keeps retrying (launchd restarts it), every
\* command has a deadline, and the monitor's ticker fires.
Fairness == /\ WF_vars(restoreStep)
            /\ WF_vars(MonitorTick)

FairSpec == Spec /\ Fairness

-----------------------------------------------------------------------------
(* Properties *)

Ours(h) == h \in Networks \cup Index
Altered == dns = TUNDNS \/ \E d \in Dest : Ours(table[d])

\* The manager connects, or the connection is up: no call failed.
Working == {"captured", "ready", "route", "addroute", "dns", "setdns", "up"}

\* The journal is written ahead: at every moment, so also after a crash, the
\* destination of each of the product's routes and its DNS setting are on disk,
\* and the route's next hop as well.  Only the physical exception may lead
\* elsewhere than journaled, if the network moved, and then the connection is
\* given up: while the manager goes on, every route is exactly the journaled one.
WriteAhead ==
  /\ \A d \in Dest : Ours(table[d]) =>
       \E i \in DOMAIN journal.routes :
         /\ journal.routes[i].dest = d
         /\ journal.routes[i].hop = table[d] \/ (d = "direct" /\ pc \notin Working)
  /\ dns = TUNDNS => journal.dnsIntended

\* Restore returns nil and drops the journal only when the user's last DNS
\* setting is in force again (a change it did not make keeps the journal).
UserDNSReturns == journal = NoSnapshot => dns = userDNS

\* A route or a DNS setting that is not the journaled one stops restore until it
\* is put right ("needs action"), be it somebody else's or a misled route of
\* ours.  The snapshot in memory counts: after a failed Save it lists a route
\* the journal does not.
NeedsAction ==
  \/ session.dnsIntended /\ dns \notin {TUNDNS, session.base.dns}
  \/ \E i \in DOMAIN session.routes :
       table[session.routes[i].dest] \notin {Absent, session.routes[i].hop}

\* Once failures stop, a session whose connection is not up is cleaned up.
RecoveryCompletes == (journal # NoSnapshot /\ pc = "failed") ~> (journal = NoSnapshot \/ NeedsAction)

\* While a connection is up and watched, a lost TUN, a moved network or a DNS
\* setting that is not the product's is reported, also when it happened before
\* the monitor was started (or it goes away by itself, or the user disconnects).
Moved == physical # active.base.network \/ tun # active.tun \/ dns # TUNDNS
DriftIsReported ==
  (pc = "up" /\ monitor = "running" /\ Moved) ~> (monitor = "reported" \/ pc # "up" \/ ~Moved)

Contract == INSTANCE NetworkContract
  WITH net <- IF Altered THEN "altered"
              ELSE IF journal # NoSnapshot THEN "captured" ELSE "clean"

\* The manager keeps the contract the controller assumes.
KeepsContract == Contract!Spec

=============================================================================
