------------------------- MODULE DarwinNetworkProofs -------------------------
(***************************************************************************)
(* Theorems about DarwinNetwork, for any networks, resolvers, TUN indices  *)
(* and number of faults.                                                   *)
(*                                                                         *)
(* WriteAhead speaks of the journal, but restore works on the snapshot in  *)
(* memory, which a failed Save leaves different from it.  The inductive    *)
(* invariant therefore says of both that they cover what is altered, when  *)
(* they are equal, and what restore has undone so far.  Exact adds that a  *)
(* connection that goes on has no misled route.                            *)
(***************************************************************************)
EXTENDS DarwinNetwork, SequenceTheorems, TLAPS

\* The snapshot s names every route and DNS setting of the product in force.
Covers(s) ==
  /\ \A d \in Dest : Ours(table[d]) =>
       \E i \in DOMAIN s.routes :
         s.routes[i].dest = d /\ (s.routes[i].hop = table[d] \/ d = "direct")
  /\ dns = TUNDNS => s.dnsIntended

WithTUN   == Working \ {"captured"}
Restoring == {"restoredns", "setback", "routes", "delete"}

\* While it connects, the manager's snapshot is the journal's.
Synced ==
  /\ pc = "idle" => active = NoSnapshot
  /\ pc \in Working => active # NoSnapshot /\ journal = active
  /\ pc \in Restoring => active # NoSnapshot
  /\ pc \in WithTUN => active.tun \in Index
  /\ pc \in {"captured", "ready"} => Len(active.routes) = 0
  /\ pc = "route" => Len(active.routes) = next - 1
  /\ pc = "addroute" => /\ Len(active.routes) = next
                        /\ active.routes[next] = [dest |-> Destinations[next],
                                                  hop |-> hopOf(Destinations[next])]
  /\ pc = "setdns" => active.dnsIntended

\* What restore has passed is undone, unless it already has an error.
Undone ==
  /\ pc \in Restoring => next <= Len(active.routes)
  /\ pc \in {"restoredns", "setback"} => next = Len(active.routes)
  /\ pc \in {"routes", "delete"} /\ ~failed =>
       /\ dns # TUNDNS
       /\ \A i \in DOMAIN active.routes : i > next => ~Ours(table[active.routes[i].dest])

\* A captured baseline never holds the product's own DNS setting.
UserBase ==
  /\ journal # NoSnapshot => journal.base.dns \in Resolvers
  /\ active # NoSnapshot => active.base.dns \in Resolvers

Covered ==
  /\ Covers(journal)
  /\ active # NoSnapshot => Covers(active)

IInv == TypeOK /\ boot <= faults + 1 /\ Synced /\ Undone /\ UserBase /\ Covered

\* The routes of a connection that goes on lead where the journal says.
Exact ==
  pc \in Working => \A d \in Dest : Ours(table[d]) =>
    \E i \in DOMAIN active.routes : active.routes[i].dest = d /\ active.routes[i].hop = table[d]

\* Without a race for DNS, the user's setting is in force or captured.
UsersDNS ==
  /\ dns # TUNDNS => dns = userDNS
  /\ dns = TUNDNS => /\ journal.base.dns = userDNS
                     /\ active # NoSnapshot => active.base.dns = userDNS
  /\ pc = "setdns" => dns = active.base.dns
  /\ pc = "setback" => dns = TUNDNS

-----------------------------------------------------------------------------
(* Snapshots *)

\* The empty journal is a snapshot that names nothing.
LEMMA NoSnapshotForm ==
  /\ NoSnapshot \in Snapshots /\ NoSnapshot.routes = <<>> /\ Len(NoSnapshot.routes) = 0
  /\ ~NoSnapshot.dnsIntended /\ NoSnapshot.boot = 0
BY DEF NoSnapshot, Snapshots

\* What the fields of a snapshot may be.
LEMMA SnapshotFields ==
  ASSUME NEW s \in Snapshots, s # NoSnapshot
  PROVE  /\ s.boot \in 1..(MaxFaults + 1) /\ s.tun \in 0..MaxTUN
         /\ s.base \in [network : Networks, dns : DNS]
         /\ s.base.network \in Networks /\ s.base.dns \in DNS
         /\ s.routes \in Seq(Routes) /\ s.dnsIntended \in BOOLEAN
BY DEF Snapshots

\* The routes of a snapshot, the empty one included, are a sequence.
LEMMA RoutesForm ==
  ASSUME NEW s \in Snapshots
  PROVE  s.routes \in Seq(Routes) /\ DOMAIN s.routes = 1..Len(s.routes) /\ Len(s.routes) \in Nat
<1>1. s.routes \in Seq(Routes)
  <2>1. CASE s = NoSnapshot BY <2>1, NoSnapshotForm
  <2>2. CASE s # NoSnapshot BY <2>2, SnapshotFields
  <2> QED BY <2>1, <2>2
<1> QED BY <1>1

\* Every snapshot taken carries a boot session, which NoSnapshot does not.
LEMMA TakenSnapshot ==
  ASSUME NEW t, t.boot \in 1..(MaxFaults + 1)
  PROVE  t # NoSnapshot
<1>1. NoSnapshot.boot = 0 BY DEF NoSnapshot
<1>2. t.boot # 0 BY BoundsAssumption
<1> QED BY <1>1, <1>2

\* A record of well-typed fields is a snapshot.
LEMMA SnapshotForm ==
  ASSUME NEW b \in 1..(MaxFaults + 1), NEW base \in [network : Networks, dns : DNS],
         NEW k \in 0..MaxTUN, NEW q \in Seq(Routes), NEW v \in BOOLEAN,
         NEW s, s = [boot |-> b, base |-> base, tun |-> k, routes |-> q, dnsIntended |-> v]
  PROVE  /\ s \in Snapshots /\ s # NoSnapshot
         /\ s.base = base /\ s.routes = q /\ s.dnsIntended = v
<1>1. s \in Snapshots BY DEF Snapshots
<1>2. s.boot = b OBVIOUS
<1>3. s # NoSnapshot BY <1>2, TakenSnapshot
<1> QED BY <1>1, <1>3

\* A new snapshot of a prepared baseline.
Taken(b, base) == [NoSnapshot EXCEPT !.boot = b, !.base = base]

\* Capture begins with the baseline and nothing intended.
LEMMA NewSnapshot ==
  ASSUME NEW b \in 1..(MaxFaults + 1), NEW base \in [network : Networks, dns : DNS],
         NEW s, s = Taken(b, base)
  PROVE  /\ s \in Snapshots /\ s # NoSnapshot
         /\ s.base = base /\ s.routes = <<>> /\ Len(s.routes) = 0 /\ ~s.dnsIntended
<1>1. s = [boot |-> b, base |-> base, tun |-> 0, routes |-> <<>>, dnsIntended |-> FALSE]
  BY DEF NoSnapshot, Taken
<1>2. PICK k \in 0..MaxTUN : k = 0 BY BoundsAssumption
<1>3. PICK q \in Seq(Routes) : q = <<>>
  <2>1. <<>> \in Seq(Routes) OBVIOUS
  <2> QED BY <2>1, Zenon
<1>4. PICK v \in BOOLEAN : v = FALSE OBVIOUS
<1>5. s = [boot |-> b, base |-> base, tun |-> k, routes |-> q, dnsIntended |-> v]
  BY <1>1, <1>2, <1>3, <1>4
<1>6. s \in Snapshots /\ s # NoSnapshot /\ s.base = base /\ s.routes = q /\ s.dnsIntended = v
  BY ONLY <1>5, SnapshotForm, b \in 1..(MaxFaults + 1), k \in 0..MaxTUN, v \in BOOLEAN,
     base \in [network : Networks, dns : DNS], q \in Seq(Routes)
<1> QED BY <1>3, <1>4, <1>6

\* Naming the TUN, and intending DNS, leave the rest of a snapshot alone.
LEMMA TUNSnapshot ==
  ASSUME NEW s \in Snapshots, s # NoSnapshot, NEW k \in 0..MaxTUN,
         NEW t, t = [s EXCEPT !.tun = k]
  PROVE  /\ t \in Snapshots /\ t # NoSnapshot /\ t.tun = k /\ t.base = s.base
         /\ t.routes = s.routes /\ t.dnsIntended = s.dnsIntended
<1>1. s.boot \in 1..(MaxFaults + 1) BY SnapshotFields
<1>2. t \in Snapshots BY DEF Snapshots
<1>3. t.boot = s.boot /\ t.tun = k /\ t.base = s.base /\ t.routes = s.routes
      /\ t.dnsIntended = s.dnsIntended
  BY DEF Snapshots
<1>5. t # NoSnapshot
  <2>1. t.boot \in 1..(MaxFaults + 1) BY <1>1, <1>3
  <2> QED BY <2>1, TakenSnapshot
<1> QED BY <1>1, <1>2, <1>3, <1>5

\* Recording the DNS intent keeps a snapshot one.
LEMMA DNSSnapshot ==
  ASSUME NEW s \in Snapshots, s # NoSnapshot, NEW t, t = [s EXCEPT !.dnsIntended = TRUE]
  PROVE  /\ t \in Snapshots /\ t # NoSnapshot /\ t.tun = s.tun /\ t.base = s.base
         /\ t.routes = s.routes /\ t.dnsIntended
<1>1. s.boot \in 1..(MaxFaults + 1) BY SnapshotFields
<1>2. t \in Snapshots BY DEF Snapshots
<1>3. t.boot = s.boot /\ t.tun = s.tun /\ t.base = s.base /\ t.routes = s.routes
      /\ t.dnsIntended
  BY DEF Snapshots
<1>5. t # NoSnapshot
  <2>1. t.boot \in 1..(MaxFaults + 1) BY <1>1, <1>3
  <2> QED BY <2>1, TakenSnapshot
<1> QED BY <1>1, <1>2, <1>3, <1>5

\* Recording one more route keeps a snapshot one.
LEMMA RouteSnapshot ==
  ASSUME NEW s \in Snapshots, s # NoSnapshot, NEW r \in Routes,
         NEW t, t = [s EXCEPT !.routes = Append(@, r)]
  PROVE  /\ t \in Snapshots /\ t # NoSnapshot /\ t.tun = s.tun /\ t.base = s.base
         /\ t.dnsIntended = s.dnsIntended
         /\ Len(t.routes) = Len(s.routes) + 1 /\ t.routes[Len(s.routes) + 1] = r
         /\ \A i \in DOMAIN s.routes : i \in DOMAIN t.routes /\ t.routes[i] = s.routes[i]
<1>1. s.boot \in 1..(MaxFaults + 1) /\ s.routes \in Seq(Routes) BY SnapshotFields
<1>2. /\ Append(s.routes, r) \in Seq(Routes)
      /\ Len(Append(s.routes, r)) = Len(s.routes) + 1
      /\ Append(s.routes, r)[Len(s.routes) + 1] = r
      /\ \A i \in DOMAIN s.routes : /\ i \in DOMAIN Append(s.routes, r)
                                    /\ Append(s.routes, r)[i] = s.routes[i]
  BY <1>1, AppendProperties
<1>3. t \in Snapshots BY <1>2 DEF Snapshots
<1>4. t.boot = s.boot /\ t.tun = s.tun /\ t.base = s.base /\ t.routes = Append(s.routes, r)
      /\ t.dnsIntended = s.dnsIntended
  BY DEF Snapshots
<1>5. t # NoSnapshot
  <2>1. t.boot \in 1..(MaxFaults + 1) BY <1>1, <1>4
  <2> QED BY <2>1, TakenSnapshot
<1> QED BY <1>1, <1>2, <1>3, <1>4, <1>5

-----------------------------------------------------------------------------

\* A machine with no journal satisfies the invariant.
LEMMA InitInv == Init => IInv /\ UsersDNS
<1> SUFFICES ASSUME Init PROVE IInv /\ UsersDNS OBVIOUS
<1> USE DEF Init
<1>1. TypeOK
  <2>1. 0 \in 0..MaxTUN /\ 1 \in 1..(MaxFaults + 1) /\ 0 \in 0..MaxFaults BY BoundsAssumption
  <2>2. table \in [Dest -> Hop] BY DEF Hop
  <2>3. watched \in [tun : 0..MaxTUN, network : Networks \cup {Absent}] BY <2>1
  <2>4. /\ journal \in Snapshots /\ active \in Snapshots
        /\ Len(journal.routes) <= 3 /\ Len(active.routes) <= 3
    BY NoSnapshotForm
  <2>5. pc \in Calls /\ pc \notin {"route", "addroute", "delete"} /\ next \in 0..3
    BY DEF Calls
  <2>6. dns \in DNS BY DEF DNS
  <2> HIDE DEF Init
  <2>7. /\ physical \in Networks /\ tun \in 0..MaxTUN /\ boot \in 1..(MaxFaults + 1)
        /\ prepared = NoBaseline /\ failed \in BOOLEAN /\ monitor = "off"
        /\ faults \in 0..MaxFaults /\ userDNS \in Resolvers
    BY <2>1 DEF Init
  <2> QED BY <2>2, <2>3, <2>4, <2>5, <2>6, <2>7 DEF TypeOK
<1>2. Synced /\ Undone /\ UserBase BY DEF Synced, Undone, UserBase, Working, WithTUN, Restoring
<1>3. \A d \in Dest : ~Ours(table[d]) BY TablesAssumption DEF Ours, Index
<1>4. dns # TUNDNS BY ResolversAssumption
<1>5. Covered BY <1>3, <1>4 DEF Covered, Covers
<1>6. UsersDNS BY <1>4 DEF UsersDNS
<1> QED BY <1>1, <1>2, <1>5, <1>6, BoundsAssumption DEF IInv

-----------------------------------------------------------------------------
(* Facts used by many steps *)

\* No entry and somebody else's entry are not the product's.
LEMMA NotOurs == ~Ours(Absent) /\ ~Ours(Foreign)
BY TablesAssumption, BoundsAssumption DEF Ours, Index

\* The counts of reboots and failures stay within their bounds.
LEMMA Grows ==
  ASSUME TypeOK, boot <= faults + 1, Fine \/ Fault, boot' = boot
  PROVE  faults' \in 0..MaxFaults /\ boot' <= faults' + 1 /\ boot' \in 1..(MaxFaults + 1)
BY BoundsAssumption DEF TypeOK, Fine, Fault

\* A session's routes lead to planned destinations.
LEMMA RouteDest ==
  ASSUME NEW s \in Snapshots, NEW i \in DOMAIN s.routes
  PROVE  s.routes[i] \in Routes /\ s.routes[i].dest \in Dest
<1>1. s.routes \in Seq(Routes) BY RoutesForm
<1>2. s.routes[i] \in Routes BY <1>1
<1> QED BY <1>2 DEF Routes

\* Taking something of the product away leaves the rest covered.
LEMMA FewerCovered ==
  ASSUME Covered, UserBase, UNCHANGED <<journal, active>>,
         \A d \in Dest : table'[d] = table[d] \/ ~Ours(table'[d]),
         dns' = dns \/ dns' # TUNDNS
  PROVE  Covered' /\ UserBase'
BY DEF Covered, UserBase, Covers, Ours

\* What restore has undone stays undone while others only take entries away.
LEMMA FewerUndone ==
  ASSUME TypeOK, Undone, UNCHANGED <<active, call>>,
         \A d \in Dest : table'[d] = table[d] \/ ~Ours(table'[d]),
         dns' = dns \/ dns' # TUNDNS
  PROVE  Undone'
<1>1. \A i \in DOMAIN active.routes : active.routes[i].dest \in Dest BY RouteDest DEF TypeOK
<1> QED BY <1>1 DEF Undone, call, Ours

\* Synced is kept by a step that moves neither the call nor the snapshots.
LEMMA KeptSynced ==
  ASSUME Synced, UNCHANGED <<journal, active, call>>
  PROVE  Synced'
BY DEF Synced, call, hopOf

\* Nothing of the product is in force when the journal names nothing.
LEMMA NothingAltered ==
  ASSUME TypeOK, Covered, journal = NoSnapshot
  PROVE  dns # TUNDNS /\ \A d \in Dest : ~Ours(table[d])
<1>1. DOMAIN journal.routes = {} BY NoSnapshotForm
<1> QED BY <1>1, NoSnapshotForm DEF Covered, Covers

-----------------------------------------------------------------------------
(* Every step preserves IInv *)

\* Steps that leave the call, the journal and the product's changes alone.
LEMMA WatchInv ==
  ASSUME IInv, Prepare \/ StartMonitor \/ MonitorTick \/ MonitorFails
  PROVE  IInv'
<1> USE DEF IInv
<1>0. /\ UNCHANGED <<system, journal, active, call, userDNS>> /\ (Fine \/ Fault)
  BY DEF Prepare, StartMonitor, MonitorTick, MonitorFails, manager
<1>1. prepared' \in [network : Networks, dns : DNS] \cup {NoBaseline}
  BY DEF TypeOK, Prepare, StartMonitor, MonitorTick, MonitorFails, manager
<1>2. /\ watched' \in [tun : 0..MaxTUN, network : Networks \cup {Absent}]
      /\ monitor' \in {"off", "running", "reported"}
  <2>1. CASE StartMonitor
    <3>1. active \in Snapshots /\ active # NoSnapshot BY <2>1 DEF TypeOK, Synced, StartMonitor, Working
    <3>2. active.tun \in 0..MaxTUN /\ active.base.network \in Networks BY <3>1, SnapshotFields
    <3> QED BY <2>1, <3>2 DEF StartMonitor
  <2>2. CASE Prepare \/ MonitorTick \/ MonitorFails
    BY <2>2 DEF TypeOK, Prepare, MonitorTick, MonitorFails, watch
  <2> QED BY <2>1, <2>2
<1>3. TypeOK' BY <1>0, <1>1, <1>2, Grows DEF TypeOK, system, call
<1>4. Covered' /\ UserBase' BY <1>0, FewerCovered DEF system
<1>5. Undone' BY <1>0, FewerUndone DEF system
<1>6. Synced' BY <1>0, KeptSynced
<1> QED BY <1>0, <1>3, <1>4, <1>5, <1>6, Grows DEF system

\* A call that fails without having changed anything.
LEMMA FailInv ==
  ASSUME IInv, Refuse \/ GiveUp \/ restoreNothing
  PROVE  IInv'
<1> USE DEF IInv
<1>0. /\ UNCHANGED <<system, manager, next, failed, watch, userDNS>> /\ (Fine \/ Fault)
      /\ pc' \in {"failed", "idle"}
      /\ pc' = "idle" => active = NoSnapshot
  BY DEF Refuse, GiveUp, restoreNothing, session
<1>3. TypeOK' BY <1>0, Grows DEF TypeOK, Calls, system, manager, watch
<1>4. Covered' /\ UserBase' BY <1>0, FewerCovered DEF system, manager
<1>5. Undone' BY <1>0 DEF Undone, Restoring
<1>6. Synced' BY <1>0 DEF Synced, Working, WithTUN, Restoring, manager
<1> QED BY <1>0, <1>3, <1>4, <1>5, <1>6, Grows DEF system

\* Capture, with a Save that succeeds or fails on either side of its rename.
LEMMA CaptureInv ==
  ASSUME IInv, Capture
  PROVE  IInv'
<1> USE DEF IInv
<1> DEFINE s == Taken(boot, prepared)
<1>0. /\ journal = NoSnapshot /\ active = NoSnapshot /\ prepared # NoBaseline /\ prepared.dns = dns
      /\ UNCHANGED <<system, prepared, next, failed, watch, userDNS>> /\ (Fine \/ Fault)
      /\ journal' \in {NoSnapshot, s}
      /\ \/ journal' = s /\ active' = s /\ pc' = "captured"
         \/ active' = NoSnapshot /\ pc' = "failed"
  BY DEF Capture, Save, SaveFails, Taken
<1>1. dns # TUNDNS /\ \A d \in Dest : ~Ours(table[d]) BY <1>0, NothingAltered
<1>2. prepared \in [network : Networks, dns : DNS] /\ boot \in 1..(MaxFaults + 1)
  BY <1>0 DEF TypeOK
<1>3. /\ s \in Snapshots /\ s # NoSnapshot /\ s.base = prepared
      /\ s.routes = <<>> /\ Len(s.routes) = 0 /\ ~s.dnsIntended
  BY ONLY <1>2, NewSnapshot
<1> HIDE DEF s
<1>4. /\ journal' \in Snapshots /\ active' \in Snapshots
      /\ Len(journal'.routes) <= 3 /\ Len(active'.routes) <= 3
  BY <1>0, <1>3, NoSnapshotForm
<1>5. TypeOK' BY <1>0, <1>4, Grows DEF TypeOK, Calls, system, watch
<1>6. Covered' BY <1>0, <1>1 DEF Covered, Covers, Ours, system
<1>7. UserBase' BY <1>0, <1>1, <1>2, <1>3 DEF UserBase, TypeOK, DNS
<1>8. Undone' BY <1>0 DEF Undone, Restoring
<1>9. Synced' BY <1>0, <1>3 DEF Synced, Working, WithTUN, Restoring
<1> QED BY <1>0, <1>5, <1>6, <1>7, <1>8, <1>9, Grows DEF system

\* WaitTUNReady records the index of the TUN.
LEMMA WaitTUNReadyInv ==
  ASSUME IInv, WaitTUNReady
  PROVE  IInv'
<1> USE DEF IInv
<1> DEFINE s == [active EXCEPT !.tun = tun]
<1>0. /\ pc = "captured" /\ tun > 0
      /\ UNCHANGED <<system, prepared, next, failed, watch, userDNS>> /\ (Fine \/ Fault)
      /\ journal' \in {journal, s}
      /\ \/ journal' = s /\ active' = s /\ pc' = "ready"
         \/ active' = active /\ pc' = "failed"
  BY DEF WaitTUNReady, Save, SaveFails
<1>1. active \in Snapshots /\ active # NoSnapshot /\ journal = active
  BY <1>0 DEF TypeOK, Synced, Working
<1>2. tun \in 0..MaxTUN /\ tun \in Index BY <1>0, BoundsAssumption DEF TypeOK, Index
<1>3. /\ s \in Snapshots /\ s # NoSnapshot /\ s.tun = tun /\ s.base = active.base
      /\ s.routes = active.routes /\ s.dnsIntended = active.dnsIntended
  BY <1>1, <1>2, TUNSnapshot
<1> HIDE DEF s
<1>4. /\ journal' \in Snapshots /\ active' \in Snapshots
      /\ Len(journal'.routes) <= 3 /\ Len(active'.routes) <= 3
  BY <1>0, <1>1, <1>3 DEF TypeOK
<1>5. TypeOK' BY <1>0, <1>4, Grows DEF TypeOK, Calls, system, watch
<1>6. Covered' BY <1>0, <1>1, <1>3 DEF Covered, Covers, Ours, system
<1>7. UserBase' BY <1>0, <1>1, <1>3 DEF UserBase
<1>8. Undone' BY <1>0 DEF Undone, Restoring
<1>9. Synced' BY <1>0, <1>2, <1>3 DEF Synced, Working, WithTUN, Restoring
<1> QED BY <1>0, <1>5, <1>6, <1>7, <1>8, <1>9, Grows DEF system

\* ActivateTUNRoutes begins with the first planned destination.
LEMMA ActivateBeginInv ==
  ASSUME IInv, ActivateBegin
  PROVE  IInv'
<1> USE DEF IInv
<1>0. /\ pc = "ready" /\ UNCHANGED <<system, manager, failed, watch, userDNS>> /\ (Fine \/ Fault)
      /\ \/ pc' = "route" /\ next' = 1 /\ active.base.dns = dns
         \/ pc' = "failed" /\ next' = next
  BY DEF ActivateBegin
<1>1. Len(active.routes) = 0 /\ active # NoSnapshot /\ journal = active /\ active.tun \in Index
  BY <1>0 DEF Synced, WithTUN, Working
<1>5. TypeOK' BY <1>0, Grows DEF TypeOK, Calls, system, manager, watch
<1>6. Covered' /\ UserBase' BY <1>0, FewerCovered DEF system, manager
<1>8. Undone' BY <1>0 DEF Undone, Restoring
<1>9. Synced' BY <1>0, <1>1 DEF Synced, Working, WithTUN, Restoring, manager
<1> QED BY <1>0, <1>5, <1>6, <1>8, <1>9, Grows DEF system

\* The route a call works on: what it is, and where it leads.
LEMMA PlannedRoute ==
  ASSUME IInv, pc \in {"route", "addroute"}, NEW d, d = Destinations[next]
  PROVE  /\ active \in Snapshots /\ active # NoSnapshot /\ journal = active
         /\ next \in 1..3 /\ d \in Dest /\ hopOf(d) \in Networks \cup Index
         /\ hopOf(d) \in Hop /\ [dest |-> d, hop |-> hopOf(d)] \in Routes
<1> USE DEF IInv
<1>1. /\ active \in Snapshots /\ active # NoSnapshot /\ journal = active
      /\ active.tun \in Index /\ next \in 1..3
  BY DEF TypeOK, Synced, Working, WithTUN
<1>2. active.base.network \in Networks BY <1>1, SnapshotFields
<1>3. d \in Dest BY <1>1 DEF Destinations, Dest
<1>4. hopOf(d) \in Networks \cup Index /\ hopOf(d) \in Hop BY <1>1, <1>2 DEF hopOf, Hop
<1>5. [dest |-> d, hop |-> hopOf(d)] \in Routes BY <1>3, <1>4 DEF Routes
<1> QED BY <1>1, <1>3, <1>4, <1>5

\* A route is recorded before it is added.
LEMMA ActivateRouteInv ==
  ASSUME IInv, ActivateRoute
  PROVE  IInv'
<1> USE DEF IInv
<1> DEFINE d == Destinations[next]
           r == [dest |-> d, hop |-> hopOf(d)]
           s == [active EXCEPT !.routes = Append(@, r)]
<1>0. /\ pc = "route"
      /\ UNCHANGED <<system, prepared, next, failed, watch, userDNS>> /\ (Fine \/ Fault)
      /\ \/ journal' = journal /\ active' = active /\ pc' = "failed"
         \/ journal' = s /\ active' = s /\ pc' = "addroute"
         \/ journal' \in {journal, s} /\ active' = s /\ pc' = "failed"
  BY DEF ActivateRoute, Save, SaveFails
<1>1. /\ active \in Snapshots /\ active # NoSnapshot /\ journal = active
      /\ next \in 1..3 /\ r \in Routes
  BY <1>0, PlannedRoute
<1>2. Len(active.routes) = next - 1 /\ active.tun \in Index BY <1>0 DEF Synced, WithTUN, Working
<1>3. /\ s \in Snapshots /\ s # NoSnapshot /\ s.tun = active.tun /\ s.base = active.base
      /\ s.dnsIntended = active.dnsIntended
      /\ Len(s.routes) = Len(active.routes) + 1 /\ s.routes[Len(active.routes) + 1] = r
      /\ \A i \in DOMAIN active.routes : i \in DOMAIN s.routes /\ s.routes[i] = active.routes[i]
  <2> HIDE DEF r
  <2> QED BY ONLY <1>1, RouteSnapshot
<1>4. Len(s.routes) = next /\ s.routes[next] = r
  <2> HIDE DEF r, s
  <2> QED BY <1>1, <1>2, <1>3
<1> HIDE DEF s, r
<1>5. /\ journal' \in Snapshots /\ active' \in Snapshots
      /\ Len(journal'.routes) <= 3 /\ Len(active'.routes) <= 3
  BY <1>0, <1>1, <1>3, <1>4 DEF TypeOK
<1>6. TypeOK' BY <1>0, <1>1, <1>5, Grows DEF TypeOK, Calls, system, watch
<1>7. Covered' 
  <2>1. Covers(active) BY <1>1 DEF Covered
  <2>2. /\ \A e \in Dest : Ours(table'[e]) =>
             \E i \in DOMAIN s.routes :
               s.routes[i].dest = e /\ (s.routes[i].hop = table'[e] \/ e = "direct")
        /\ dns' = TUNDNS => s.dnsIntended
    BY <1>0, <1>3, <2>1 DEF Covers, system, Ours
  <2> QED BY <1>0, <1>1, <2>1, <2>2 DEF Covered, Covers, Ours, system
<1>8. UserBase' BY <1>0, <1>1, <1>3 DEF UserBase
<1>9. Undone' BY <1>0 DEF Undone, Restoring
<1>10. Synced' 
  <2>1. CASE pc' = "failed" BY <2>1 DEF Synced, Working, WithTUN, Restoring
  <2>2. CASE pc' = "addroute"
    <3>1. journal' = s /\ active' = s BY <1>0, <2>2
    <3>2. r = [dest |-> Destinations[next], hop |-> hopOf(Destinations[next])]'
      BY <1>0, <1>3, <3>1 DEF r, hopOf
    <3> QED BY <1>0, <1>2, <1>3, <1>4, <2>2, <3>1, <3>2 DEF Synced, Working, WithTUN, Restoring
  <2> QED BY <1>0, <2>1, <2>2
<1> QED BY <1>0, <1>6, <1>7, <1>8, <1>9, <1>10, Grows DEF system

\* The route added is the last one recorded.
LEMMA AddRouteInv ==
  ASSUME IInv, AddRoute
  PROVE  IInv'
<1> USE DEF IInv
<1> DEFINE d == Destinations[next]
<1>0. /\ pc = "addroute"
      /\ UNCHANGED <<physical, dns, tun, boot, manager, failed, watch, userDNS>> /\ (Fine \/ Fault)
      /\ \/ pc' = "failed" /\ next' = next
         \/ next = 3 /\ pc' = "dns" /\ next' = 0
         \/ next # 3 /\ pc' = "route" /\ next' = next + 1
      /\ \/ table' = table
         \/ \E hop \in {hopOf(d)} \cup (IF d = "direct" THEN {physical} ELSE {}) :
              table' = [table EXCEPT ![d] = hop]
  BY DEF AddRoute, through
<1>1. /\ active \in Snapshots /\ active # NoSnapshot /\ journal = active
      /\ next \in 1..3 /\ d \in Dest /\ hopOf(d) \in Hop
  BY <1>0, PlannedRoute
<1>2. /\ Len(active.routes) = next /\ active.routes[next] = [dest |-> d, hop |-> hopOf(d)]
      /\ active.tun \in Index
  BY <1>0 DEF Synced, WithTUN, Working
<1>3. next \in DOMAIN active.routes BY <1>1, <1>2, RoutesForm
<1> HIDE DEF d
<1>4. /\ table' \in [Dest -> Hop]
      /\ \A e \in Dest : table'[e] = table[e] \/ (e = d /\ (table'[e] = hopOf(d) \/ d = "direct"))
  <2>1. physical \in Hop BY DEF TypeOK, Hop
  <2> QED BY <1>0, <1>1, <2>1 DEF TypeOK
<1>5. TypeOK' BY <1>0, <1>1, <1>4, Grows DEF TypeOK, Calls, manager, watch
<1>6. Covers(active)'
  <2>1. Covers(active) BY <1>1 DEF Covered
  <2>2. active' = active BY <1>0 DEF manager
  <2>3. ASSUME NEW e \in Dest, Ours(table'[e])
        PROVE  \E i \in DOMAIN active.routes :
                 active.routes[i].dest = e /\ (active.routes[i].hop = table'[e] \/ e = "direct")
    <3>1. CASE table'[e] = table[e] BY <2>1, <2>3, <3>1 DEF Covers, Ours
    <3>2. CASE e = d /\ (table'[e] = hopOf(d) \/ d = "direct") BY <1>2, <1>3, <3>2
    <3> QED BY <1>4, <3>1, <3>2
  <2> QED BY <1>0, <2>1, <2>2, <2>3 DEF Covers, Ours
<1>7. Covered' BY <1>0, <1>1, <1>6 DEF Covered, manager
<1>8. UserBase' BY <1>0 DEF UserBase, manager
<1>9. Undone' BY <1>0 DEF Undone, Restoring
<1>10. Synced' BY <1>0, <1>1, <1>2 DEF Synced, Working, WithTUN, Restoring, manager
<1> QED BY <1>0, <1>5, <1>7, <1>8, <1>9, <1>10, Grows

\* The DNS intent is recorded before DNS is set.
LEMMA ActivateDNSInv ==
  ASSUME IInv, ActivateDNS
  PROVE  IInv'
<1> USE DEF IInv
<1> DEFINE s == [active EXCEPT !.dnsIntended = TRUE]
<1>0. /\ pc = "dns"
      /\ UNCHANGED <<system, prepared, next, failed, watch, userDNS>> /\ (Fine \/ Fault)
      /\ \/ journal' = journal /\ active' = active /\ pc' = "failed"
         \/ journal' = s /\ active' = s /\ pc' = "setdns"
         \/ journal' \in {journal, s} /\ active' = s /\ pc' = "failed"
  BY DEF ActivateDNS, Save, SaveFails
<1>1. active \in Snapshots /\ active # NoSnapshot /\ journal = active /\ active.tun \in Index
  BY <1>0 DEF TypeOK, Synced, Working, WithTUN
<1>3. /\ s \in Snapshots /\ s # NoSnapshot /\ s.tun = active.tun /\ s.base = active.base
      /\ s.routes = active.routes /\ s.dnsIntended
  BY <1>1, DNSSnapshot
<1> HIDE DEF s
<1>4. /\ journal' \in Snapshots /\ active' \in Snapshots
      /\ Len(journal'.routes) <= 3 /\ Len(active'.routes) <= 3
  BY <1>0, <1>1, <1>3 DEF TypeOK
<1>5. TypeOK' BY <1>0, <1>4, Grows DEF TypeOK, Calls, system, watch
<1>6. Covered' BY <1>0, <1>1, <1>3 DEF Covered, Covers, Ours, system
<1>7. UserBase' BY <1>0, <1>1, <1>3 DEF UserBase
<1>8. Undone' BY <1>0 DEF Undone, Restoring
<1>9. Synced' BY <1>0, <1>1, <1>3 DEF Synced, Working, WithTUN, Restoring
<1> QED BY <1>0, <1>5, <1>6, <1>7, <1>8, <1>9, Grows DEF system

\* DNS is set to the TUN's, or the command fails on either side of it.
LEMMA SetDNSInv ==
  ASSUME IInv, SetDNS
  PROVE  IInv'
<1> USE DEF IInv
<1>0. /\ pc = "setdns" /\ pc' \in {"up", "failed"} /\ dns' \in {dns, TUNDNS}
      /\ UNCHANGED <<physical, table, tun, boot, manager, next, failed, watch, userDNS>>
      /\ (Fine \/ Fault)
  BY DEF SetDNS
<1>1. active # NoSnapshot /\ journal = active /\ active.tun \in Index /\ active.dnsIntended
  BY <1>0 DEF Synced, Working, WithTUN
<1>5. TypeOK' BY <1>0, Grows DEF TypeOK, DNS, Calls, manager, watch
<1>6. Covered' BY <1>0, <1>1 DEF Covered, Covers, Ours, manager
<1>7. UserBase' BY <1>0 DEF UserBase, manager
<1>8. Undone' BY <1>0 DEF Undone, Restoring
<1>9. Synced' BY <1>0, <1>1 DEF Synced, Working, WithTUN, Restoring, manager
<1> QED BY <1>0, <1>5, <1>6, <1>7, <1>8, <1>9, Grows

\* restore, from Restore, Disconnect and Reconcile: the snapshot it works on
\* covers what is altered, so that without a DNS intention DNS is the user's.
LEMMA RestoreInv ==
  ASSUME IInv, restoreBegin \/ Disconnect
  PROVE  IInv'
<1> USE DEF IInv
<1>0. /\ session # NoSnapshot /\ active' = session /\ failed' = FALSE
      /\ next' = Len(session.routes)
      /\ pc' = IF session.dnsIntended THEN "restoredns" ELSE "routes"
      /\ monitor' = "off" /\ Fine
      /\ UNCHANGED <<system, journal, prepared, watched, userDNS>>
  BY DEF restoreBegin, Disconnect, restore
<1>1. /\ session \in Snapshots /\ Len(session.routes) <= 3 /\ Covers(session)
      /\ session.base.dns \in Resolvers
  BY <1>0 DEF session, TypeOK, Covered, UserBase
<1>2. Len(session.routes) \in 0..3 /\ DOMAIN session.routes = 1..Len(session.routes)
  <2>1. /\ Len(session.routes) \in Nat /\ Len(session.routes) <= 3
        /\ DOMAIN session.routes = 1..Len(session.routes)
    BY ONLY <1>1, RoutesForm
  <2>2. \A n \in Nat : n <= 3 => n \in 0..3 OBVIOUS
  <2> QED BY ONLY <2>1, <2>2, Zenon
<1>5. TypeOK' BY <1>0, <1>1, <1>2, Grows DEF TypeOK, Calls, system
<1>6. Covered' BY <1>0, <1>1 DEF Covered, Covers, Ours, system
<1>7. UserBase' BY <1>0, <1>1 DEF UserBase
<1>8. Undone'
  <2>1. dns = TUNDNS => session.dnsIntended BY <1>1 DEF Covers
  <2> QED BY <1>0, <1>2, <2>1 DEF Undone, Restoring, system
<1>9. Synced' BY <1>0 DEF Synced, Working, WithTUN, Restoring
<1> QED BY <1>0, <1>5, <1>6, <1>7, <1>8, <1>9, Grows DEF system

\* While restore runs it has a snapshot.
LEMMA RestoringForm ==
  ASSUME IInv, pc \in Restoring
  PROVE  /\ active \in Snapshots /\ active # NoSnapshot
         /\ active.base.dns \in Resolvers /\ active.base.dns # TUNDNS
         /\ DOMAIN active.routes = 1..Len(active.routes) /\ Len(active.routes) \in Nat
         /\ next \in 0..3 /\ next <= Len(active.routes)
         /\ \A i \in DOMAIN active.routes : active.routes[i].dest \in Dest
<1>1. active \in Snapshots /\ active # NoSnapshot BY DEF IInv, TypeOK, Synced
<1>2. active.base.dns \in Resolvers /\ next \in 0..3 /\ next <= Len(active.routes)
  BY <1>1 DEF IInv, TypeOK, UserBase, Undone
<1> QED BY <1>1, <1>2, RoutesForm, RouteDest, ResolversAssumption

\* restore compares DNS with what it may put back.
LEMMA restoreDNSInv ==
  ASSUME IInv, restoreDNS
  PROVE  IInv'
<1> USE DEF IInv
<1>0. /\ pc = "restoredns" /\ UNCHANGED <<system, manager, next, watch, userDNS>> /\ (Fine \/ Fault)
      /\ failed' \in BOOLEAN
      /\ \/ pc' = "setback" /\ dns = TUNDNS
         \/ pc' = "routes" /\ (dns = TUNDNS => failed')
  BY DEF restoreDNS
<1>1. /\ active # NoSnapshot /\ DOMAIN active.routes = 1..Len(active.routes)
      /\ Len(active.routes) \in Nat
  BY <1>0, RestoringForm DEF Restoring
<1>2. next = Len(active.routes) BY <1>0 DEF Undone
<1>5. TypeOK' BY <1>0, Grows DEF TypeOK, Calls, system, manager, watch
<1>6. Covered' /\ UserBase' BY <1>0, FewerCovered DEF system, manager
<1>8. Undone' BY <1>0, <1>1, <1>2 DEF Undone, Restoring, system, manager
<1>9. Synced' BY <1>0, <1>1 DEF Synced, Working, WithTUN, Restoring, manager
<1> QED BY <1>0, <1>5, <1>6, <1>8, <1>9, Grows DEF system

\* restore puts the captured DNS setting back.
LEMMA restoreSetDNSInv ==
  ASSUME IInv, restoreSetDNS
  PROVE  IInv'
<1> USE DEF IInv
<1>0. /\ pc = "setback" /\ pc' = "routes"
      /\ UNCHANGED <<physical, table, tun, boot, manager, next, watch, userDNS>>
      /\ (Fine \/ Fault) /\ (failed' = failed \/ failed' = TRUE)
      /\ dns' \in {dns, active.base.dns} /\ (~failed' => dns' = active.base.dns)
  BY DEF restoreSetDNS
<1>1. /\ active # NoSnapshot /\ DOMAIN active.routes = 1..Len(active.routes)
      /\ Len(active.routes) \in Nat /\ active.base.dns \in Resolvers /\ active.base.dns # TUNDNS
  BY <1>0, RestoringForm DEF Restoring
<1>2. next = Len(active.routes) BY <1>0 DEF Undone
<1>5. TypeOK' BY <1>0, <1>1, Grows DEF TypeOK, Calls, DNS, manager, watch
<1>6. Covered' /\ UserBase' BY <1>0, <1>1, FewerCovered DEF manager
<1>8. Undone' BY <1>0, <1>1, <1>2 DEF Undone, Restoring, manager
<1>9. Synced' BY <1>0, <1>1 DEF Synced, Working, WithTUN, Restoring, manager
<1> QED BY <1>0, <1>5, <1>6, <1>8, <1>9, Grows

\* restore compares the next recorded route with the table.
LEMMA restoreRouteInv ==
  ASSUME IInv, restoreRoute
  PROVE  IInv'
<1> USE DEF IInv
<1> DEFINE e == active.routes[next].dest
<1>0. /\ pc = "routes" /\ next > 0
      /\ UNCHANGED <<system, manager, watch, userDNS>> /\ (Fine \/ Fault)
      /\ \/ pc' = "delete" /\ next' = next /\ failed' = failed
         \/ pc' = "routes" /\ next' = next - 1 /\ failed' = failed /\ table[e] = Absent
         \/ pc' = "routes" /\ next' = next - 1 /\ failed' = TRUE
  BY DEF restoreRoute
<1>1. /\ active # NoSnapshot /\ DOMAIN active.routes = 1..Len(active.routes)
      /\ Len(active.routes) \in Nat /\ next \in 1..3 /\ next <= Len(active.routes)
  BY <1>0, RestoringForm DEF Restoring
<1>4. /\ pc' \in Calls /\ next' \in 0..3 /\ failed' \in BOOLEAN
      /\ pc' \in {"route", "addroute", "delete"} => next' \in 1..3
  <2>1. failed \in BOOLEAN BY DEF TypeOK
  <2>2. next - 1 \in 0..3 /\ next \in 0..3 BY <1>1
  <2>3. (pc' = "delete" /\ next' = next) \/ (pc' = "routes" /\ next' = next - 1) BY <1>0
  <2>4. failed' \in BOOLEAN BY <1>0, <2>1
  <2> QED BY <1>1, <2>2, <2>3, <2>4 DEF Calls
<1>5. TypeOK' BY <1>0, <1>4, Grows DEF TypeOK, system, manager, watch
<1>6. Covered' /\ UserBase' BY <1>0, FewerCovered DEF system, manager
<1>7. ASSUME ~failed', NEW i \in DOMAIN active.routes, i > next'
      PROVE  dns # TUNDNS /\ ~Ours(table[active.routes[i].dest])
  <2>1. ~failed BY <1>0, <1>7
  <2>2. dns # TUNDNS BY <1>0, <2>1 DEF Undone
  <2>3. CASE i > next BY <1>0, <2>1, <2>2, <2>3 DEF Undone
  <2>4. CASE i = next
    <3>1. table[e] = Absent BY <1>0, <1>1, <1>7, <2>4
    <3> QED BY <2>2, <2>4, <3>1, NotOurs
  <2>5. i > next \/ i = next BY <1>0, <1>1, <1>7
  <2> QED BY <2>3, <2>4, <2>5
<1>8. Undone'
  <2>1. ~failed' => dns # TUNDNS BY <1>0 DEF Undone
  <2>2. next' <= Len(active.routes) BY <1>0, <1>1
  <2>3. pc' \in {"routes", "delete"} BY <1>0
  <2>4. active' = active /\ table' = table /\ dns' = dns BY <1>0 DEF system, manager
  <2> QED BY <1>7, <2>1, <2>2, <2>3, <2>4 DEF Undone, Restoring, Ours
<1>9. Synced' BY <1>0, <1>1 DEF Synced, Working, WithTUN, Restoring, manager
<1> QED BY <1>0, <1>5, <1>6, <1>8, <1>9, Grows DEF system

\* restore deletes the route it compared.
LEMMA DeleteRouteInv ==
  ASSUME IInv, DeleteRoute
  PROVE  IInv'
<1> USE DEF IInv
<1> DEFINE e == active.routes[next].dest
<1>0. /\ pc = "delete" /\ pc' = "routes" /\ next' = next - 1
      /\ UNCHANGED <<physical, dns, tun, boot, manager, watch, userDNS>> /\ (Fine \/ Fault)
      /\ table' \in {table, [table EXCEPT ![e] = Absent]}
      /\ failed' \in BOOLEAN /\ (~failed' => ~failed /\ table'[e] = Absent)
  <2>1. failed \in BOOLEAN BY DEF TypeOK
  <2> DEFINE deleted == IF table[e] = active.routes[next].hop
                        THEN [table EXCEPT ![e] = Absent] ELSE table
  <2>2. /\ pc = "delete" /\ pc' = "routes" /\ next' = next - 1
        /\ UNCHANGED <<physical, dns, tun, boot, manager, watch, userDNS>>
        /\ \/ table' = deleted /\ failed' = (failed \/ deleted[e] # Absent) /\ Fine
           \/ table' \in {table, deleted} /\ failed' = TRUE /\ Fault
    BY DEF DeleteRoute
  <2>3. deleted \in {table, [table EXCEPT ![e] = Absent]} OBVIOUS
  <2> HIDE DEF deleted, e
  <2>4. CASE table' = deleted /\ failed' = (failed \/ deleted[e] # Absent) /\ Fine
    BY <2>1, <2>2, <2>3, <2>4
  <2>5. CASE table' \in {table, deleted} /\ failed' = TRUE /\ Fault
    BY <2>2, <2>3, <2>5
  <2> QED BY <2>2, <2>4, <2>5
<1>1. /\ active # NoSnapshot /\ DOMAIN active.routes = 1..Len(active.routes)
      /\ Len(active.routes) \in Nat /\ next \in 1..3 /\ next <= Len(active.routes)
      /\ \A i \in DOMAIN active.routes : active.routes[i].dest \in Dest
  BY <1>0, RestoringForm DEF Restoring, TypeOK
<1>2. e \in Dest BY <1>1
<1>3. table' \in [Dest -> Hop] /\ \A d \in Dest : table'[d] = table[d] \/ table'[d] = Absent
  <2> HIDE DEF e
  <2> QED BY <1>0, <1>2 DEF TypeOK, Hop
<1>4. \A d \in Dest : table'[d] = table[d] \/ ~Ours(table'[d]) BY <1>3, NotOurs
<1>5. TypeOK' BY <1>0, <1>1, <1>3, Grows DEF TypeOK, Calls, manager, watch
<1>6. Covered' /\ UserBase' BY <1>0, <1>4, FewerCovered DEF manager
<1>7. ASSUME ~failed', NEW i \in DOMAIN active.routes, i > next'
      PROVE  dns # TUNDNS /\ ~Ours(table'[active.routes[i].dest])
  <2>1. ~failed BY <1>0, <1>7
  <2>2. dns # TUNDNS BY <1>0, <2>1 DEF Undone
  <2>3. CASE i > next
    <3>1. ~Ours(table[active.routes[i].dest]) BY <1>0, <2>1, <2>3 DEF Undone
    <3> QED BY <1>1, <1>4, <2>2, <3>1
  <2>4. CASE i = next BY <1>0, <1>7, <2>2, <2>4, NotOurs
  <2>5. i > next \/ i = next BY <1>0, <1>1, <1>7
  <2> QED BY <2>3, <2>4, <2>5
<1>8. Undone'
  <2>1. ~failed' => dns # TUNDNS BY <1>0 DEF Undone
  <2>2. next' <= Len(active.routes) BY <1>0, <1>1
  <2>4. active' = active /\ dns' = dns BY <1>0 DEF manager
  <2> QED BY <1>0, <1>7, <2>1, <2>2, <2>4 DEF Undone, Restoring, Ours
<1>9. Synced' BY <1>0, <1>1 DEF Synced, Working, WithTUN, Restoring, manager
<1> QED BY <1>0, <1>5, <1>6, <1>8, <1>9, Grows

\* A restore that got to its end without an error left nothing in force.
LEMMA RestoredClean ==
  ASSUME IInv, pc = "routes", next = 0, ~failed
  PROVE  dns # TUNDNS /\ \A d \in Dest : ~Ours(table[d])
<1> USE DEF IInv
<1>1. active # NoSnapshot /\ DOMAIN active.routes = 1..Len(active.routes)
  BY RestoringForm DEF Restoring
<1>2. dns # TUNDNS /\ \A i \in DOMAIN active.routes : ~Ours(table[active.routes[i].dest])
  BY <1>1 DEF Undone
<1>3. ASSUME NEW d \in Dest, Ours(table[d]) PROVE FALSE
  <2>1. PICK i \in DOMAIN active.routes : active.routes[i].dest = d
    BY <1>1, <1>3 DEF Covered, Covers
  <2> QED BY <1>2, <1>3, <2>1
<1> QED BY <1>2, <1>3

\* restore drops the journal only when everything it names is undone.
LEMMA restoreEndInv ==
  ASSUME IInv, restoreEnd
  PROVE  IInv'
<1> USE DEF IInv
<1>0. /\ UNCHANGED <<system, prepared, next, failed, watch, userDNS>> /\ (Fine \/ Fault)
      /\ pc = "routes" /\ next = 0
      /\ \/ failed /\ pc' = "failed" /\ UNCHANGED <<journal, active>>
         \/ /\ ~failed /\ journal' \in {journal, NoSnapshot} /\ active' \in {active, NoSnapshot}
            /\ pc' = "failed" \/ (pc' = "idle" /\ active' = NoSnapshot)
  BY DEF restoreEnd
<1>1. /\ journal' \in Snapshots /\ active' \in Snapshots
      /\ Len(journal'.routes) <= 3 /\ Len(active'.routes) <= 3
  BY <1>0, NoSnapshotForm DEF TypeOK
<1>5. TypeOK' BY <1>0, <1>1, Grows DEF TypeOK, Calls, system, watch
<1>6. Covered' /\ UserBase'
  <2>1. CASE failed BY <1>0, <2>1, FewerCovered DEF system
  <2>2. CASE ~failed
    <3>1. dns # TUNDNS /\ \A d \in Dest : ~Ours(table[d]) BY <1>0, <2>2, RestoredClean
    <3>2. Covered' BY <1>0, <3>1 DEF Covered, Covers, Ours, system
    <3>3. UserBase' BY <1>0, <2>2 DEF UserBase
    <3> QED BY <3>2, <3>3
  <2> QED BY <2>1, <2>2
<1>8. Undone' BY <1>0 DEF Undone, Restoring
<1>9. Synced' BY <1>0 DEF Synced, Working, WithTUN, Restoring
<1> QED BY <1>0, <1>5, <1>6, <1>8, <1>9, Grows DEF system

\* Outside changes take routes away or add somebody else's.
LEMMA OutsideInv ==
  ASSUME IInv, TUNAppears \/ TUNVanishes \/ UserSetsDNS \/ ForeignRoute \/ NetworkChanges
  PROVE  IInv'
<1> USE DEF IInv
<1>0. /\ UNCHANGED <<boot, manager, call, watch>> /\ (Fine \/ Fault)
      /\ \/ dns' = dns /\ userDNS' = userDNS
         \/ dns' \in Resolvers /\ userDNS' \in Resolvers
  BY DEF TUNAppears, TUNVanishes, UserSetsDNS, ForeignRoute, NetworkChanges
<1>1. tun' \in 0..MaxTUN /\ physical' \in Networks
  BY BoundsAssumption DEF TUNAppears, TUNVanishes, UserSetsDNS, ForeignRoute, NetworkChanges, TypeOK, Index
<1>2. /\ table' \in [Dest -> Hop]
      /\ \A d \in Dest : table'[d] = table[d] \/ table'[d] \in {Absent, Foreign}
  <2>1. CASE TUNAppears \/ UserSetsDNS BY <2>1 DEF TUNAppears, UserSetsDNS, TypeOK
  <2>2. CASE TUNVanishes \/ NetworkChanges BY <2>2 DEF TUNVanishes, NetworkChanges, TypeOK, without, Hop
  <2>3. CASE ForeignRoute BY <2>3 DEF ForeignRoute, TypeOK, Hop
  <2> QED BY <2>1, <2>2, <2>3
<1>3. \A d \in Dest : table'[d] = table[d] \/ ~Ours(table'[d]) BY <1>2, NotOurs
<1>4. dns' = dns \/ dns' # TUNDNS BY <1>0, ResolversAssumption
<1>5. TypeOK' BY <1>0, <1>1, <1>2, Grows DEF TypeOK, DNS, manager, call, watch
<1>6. Covered' /\ UserBase' BY <1>0, <1>3, <1>4, FewerCovered DEF manager
<1>8. Undone' BY <1>0, <1>3, <1>4, FewerUndone DEF manager
<1>9. Synced' BY <1>0, KeptSynced DEF manager
<1> QED BY <1>0, <1>5, <1>6, <1>8, <1>9, Grows

\* A crash loses the snapshot in memory, a reboot also routes and interfaces.
LEMMA DieInv ==
  ASSUME IInv, Crash \/ Reboot
  PROVE  IInv'
<1> USE DEF IInv
<1>0. /\ active' = NoSnapshot /\ prepared' = NoBaseline /\ journal' = journal
      /\ pc' = "failed" /\ next' = 0 /\ failed' = FALSE /\ monitor' = "off"
      /\ watched' = [tun |-> 0, network |-> Absent] /\ Fault
      /\ physical' = physical /\ dns' = dns /\ userDNS' = userDNS
      /\ boot' \in {boot, boot + 1} /\ tun' \in {tun, 0}
      /\ table' = table \/ table' = [d \in Dest |-> Absent]
  BY DEF Crash, Reboot, Die, system
<1>1. faults' \in 0..MaxFaults /\ boot' \in 1..(MaxFaults + 1) /\ boot' <= faults' + 1
  BY <1>0, BoundsAssumption DEF TypeOK, Fault
<1>2. /\ table' \in [Dest -> Hop]
      /\ \A d \in Dest : table'[d] = table[d] \/ ~Ours(table'[d])
  BY <1>0, NotOurs DEF TypeOK, Hop
<1>3. tun' \in 0..MaxTUN BY <1>0, BoundsAssumption DEF TypeOK
<1>4. active' \in Snapshots /\ Len(active'.routes) <= 3 BY <1>0, NoSnapshotForm
<1>5. watched' \in [tun : 0..MaxTUN, network : Networks \cup {Absent}] BY <1>0, BoundsAssumption
<1>6. TypeOK'
  <2>1. /\ physical \in Networks /\ dns \in DNS /\ userDNS \in Resolvers
        /\ journal \in Snapshots /\ Len(journal.routes) <= 3
    BY DEF TypeOK
  <2>2. pc' \in Calls /\ pc' \notin {"route", "addroute", "delete"} /\ next' \in 0..3
    BY <1>0 DEF Calls
  <2> QED BY <1>0, <1>1, <1>2, <1>3, <1>4, <1>5, <2>1, <2>2 DEF TypeOK
<1>7. Covered' /\ UserBase' BY <1>0, <1>2 DEF Covered, Covers, UserBase, Ours
<1>8. Undone' BY <1>0 DEF Undone, Restoring
<1>9. Synced' BY <1>0 DEF Synced, Working, WithTUN, Restoring
<1> QED BY <1>1, <1>6, <1>7, <1>8, <1>9

\* Every step keeps the invariant.
LEMMA StepInv == IInv /\ [Next]_vars => IInv'
<1> SUFFICES ASSUME IInv, [Next]_vars PROVE IInv' OBVIOUS
<1>1. CASE UNCHANGED vars
  <2>1. UNCHANGED <<physical, dns, table, tun, boot, journal, active, prepared, pc, next, failed,
                    monitor, watched, faults, userDNS>>
    BY <1>1 DEF vars, system, manager, call, watch
  <2>2. TypeOK' /\ boot' <= faults' + 1 BY <2>1 DEF IInv, TypeOK
  <2>3. Covered' /\ UserBase' BY <2>1, FewerCovered DEF IInv
  <2>4. Undone' BY <2>1 DEF IInv, Undone, Ours
  <2>5. Synced' BY <2>1 DEF IInv, Synced, hopOf
  <2> QED BY <2>2, <2>3, <2>4, <2>5 DEF IInv
<1>2. CASE Next
  BY <1>2, WatchInv, FailInv, CaptureInv, WaitTUNReadyInv, ActivateBeginInv, ActivateRouteInv,
     AddRouteInv, ActivateDNSInv, SetDNSInv, RestoreInv, restoreDNSInv, restoreSetDNSInv,
     restoreRouteInv, DeleteRouteInv, restoreEndInv, OutsideInv, DieInv
  DEF Next, restoreStep
<1> QED BY <1>1, <1>2

-----------------------------------------------------------------------------
(* The user's DNS setting *)

\* Without a race, a step of the manager keeps hold of the user's setting: it
\* is in force, or it is the captured baseline of every snapshot there is.
LEMMA UsersDNSStep == ASSUME UserRaces = FALSE PROVE IInv /\ UsersDNS /\ [Next]_vars => UsersDNS'
<1> SUFFICES ASSUME IInv, UsersDNS, [Next]_vars PROVE UsersDNS' OBVIOUS
<1> USE DEF UsersDNS
<1>1. CASE UNCHANGED <<dns, userDNS, journal, active, pc>> BY <1>1
<1>2. CASE Capture
  <2>1. journal = NoSnapshot /\ dns' = dns /\ userDNS' = userDNS /\ pc' \in {"captured", "failed"}
    BY <1>2 DEF Capture, Save, SaveFails, system
  <2>2. dns # TUNDNS BY <2>1, NothingAltered DEF IInv
  <2> QED BY <2>1, <2>2
<1>3. CASE WaitTUNReady
  <2> DEFINE s == [active EXCEPT !.tun = tun]
  <2>1. /\ pc = "captured" /\ dns' = dns /\ userDNS' = userDNS /\ pc' \in {"ready", "failed"}
        /\ journal' \in {journal, s} /\ active' \in {active, s}
    BY <1>3 DEF WaitTUNReady, Save, SaveFails, system
  <2>2. active \in Snapshots /\ active # NoSnapshot /\ journal = active
    BY <2>1 DEF IInv, TypeOK, Synced, Working
  <2>3. s.base = active.base BY <2>2, TUNSnapshot DEF IInv, TypeOK
  <2> HIDE DEF s
  <2> QED BY <2>1, <2>2, <2>3
<1>4. CASE Refuse \/ GiveUp \/ ActivateBegin \/ restoreNothing
  <2>1. /\ UNCHANGED <<dns, userDNS, journal, active>> /\ pc' \in {"failed", "route", "idle"}
    BY <1>4 DEF Refuse, GiveUp, ActivateBegin, restoreNothing, system, manager
  <2> QED BY <2>1
<1>5. CASE ActivateRoute
  <2> DEFINE r == [dest |-> Destinations[next], hop |-> hopOf(Destinations[next])]
             s == [active EXCEPT !.routes = Append(@, r)]
  <2>1. /\ pc = "route" /\ dns' = dns /\ userDNS' = userDNS /\ pc' \in {"addroute", "failed"}
        /\ journal' \in {journal, s} /\ active' \in {active, s}
    BY <1>5 DEF ActivateRoute, Save, SaveFails, system
  <2>2. active \in Snapshots /\ active # NoSnapshot /\ journal = active /\ r \in Routes
    BY <2>1, PlannedRoute
  <2>3. s.base = active.base
    <3> HIDE DEF r
    <3> QED BY <2>2, RouteSnapshot
  <2> HIDE DEF s
  <2> QED BY <2>1, <2>2, <2>3
<1>6. CASE AddRoute
  <2>1. UNCHANGED <<dns, userDNS, journal, active>> /\ pc' \in {"dns", "route", "failed"}
    BY <1>6 DEF AddRoute, manager
  <2> QED BY <2>1
<1>7. CASE ActivateDNS
  <2> DEFINE s == [active EXCEPT !.dnsIntended = TRUE]
  <2>1. /\ pc = "dns" /\ dns' = dns /\ userDNS' = userDNS /\ pc' \in {"setdns", "failed"}
        /\ journal' \in {journal, s} /\ active' \in {active, s}
        /\ pc' = "setdns" => dns = active.base.dns
    BY <1>7 DEF ActivateDNS, Save, SaveFails, system
  <2>2. active \in Snapshots /\ active # NoSnapshot /\ journal = active
    BY <2>1 DEF IInv, TypeOK, Synced, Working
  <2>3. s.base = active.base BY <2>2, DNSSnapshot
  <2> HIDE DEF s
  <2> QED BY <2>1, <2>2, <2>3
<1>8. CASE SetDNS
  <2>1. /\ pc = "setdns" /\ dns' \in {dns, TUNDNS} /\ UNCHANGED <<userDNS, journal, active>>
        /\ pc' \in {"up", "failed"}
    BY <1>8 DEF SetDNS, manager
  <2>2. journal = active /\ active.base.dns = dns /\ active.base.dns \in Resolvers
    BY <2>1 DEF IInv, Synced, Working, UserBase
  <2>3. dns = userDNS BY <2>2, ResolversAssumption
  <2> QED BY <2>1, <2>2, <2>3
<1>9. CASE restoreBegin \/ Disconnect
  <2>1. /\ active' \in {active, journal} /\ active' # NoSnapshot
        /\ (active' = active \/ active = NoSnapshot)
        /\ UNCHANGED <<dns, userDNS, journal>>
        /\ pc' \in {"restoredns", "routes"}
    BY <1>9 DEF restoreBegin, Disconnect, restore, session, system
  <2> QED BY <2>1
<1>10. CASE restoreDNS
  <2>1. /\ UNCHANGED <<dns, userDNS, journal, active>> /\ pc' \in {"setback", "routes"}
        /\ pc' = "setback" => dns = TUNDNS
    BY <1>10 DEF restoreDNS, system, manager
  <2> QED BY <2>1
<1>11. CASE restoreSetDNS
  <2>1. /\ pc = "setback" /\ pc' = "routes" /\ UNCHANGED <<userDNS, journal, active>>
        /\ dns' \in {dns, active.base.dns}
    BY <1>11 DEF restoreSetDNS, manager
  <2>2. active.base.dns = userDNS
    BY <2>1 DEF IInv, Synced, Restoring
  <2> QED BY <2>1, <2>2
<1>12. CASE restoreRoute \/ DeleteRoute
  <2>1. UNCHANGED <<dns, userDNS, journal, active>> /\ pc' \in {"delete", "routes"}
    BY <1>12 DEF restoreRoute, DeleteRoute, system, manager
  <2> QED BY <2>1
<1>13. CASE restoreEnd
  <2>1. /\ UNCHANGED <<dns, userDNS>> /\ pc = "routes" /\ next = 0 /\ pc' \in {"failed", "idle"}
        /\ failed => UNCHANGED <<journal, active>>
    BY <1>13 DEF restoreEnd, system
  <2>2. CASE failed BY <2>1, <2>2
  <2>3. CASE ~failed
    <3>1. dns # TUNDNS BY <2>1, <2>3, RestoredClean
    <3> QED BY <2>1, <3>1
  <2> QED BY <2>2, <2>3
<1>14. CASE UserSetsDNS
  <2>1. /\ dns' \in Resolvers /\ userDNS' = dns' /\ UNCHANGED <<journal, active, pc>>
        /\ pc \notin {"setdns", "setback"}
    BY <1>14 DEF UserSetsDNS, manager, call
  <2> QED BY <2>1, ResolversAssumption
<1>15. CASE Crash \/ Reboot
  <2>1. dns' = dns /\ userDNS' = userDNS /\ journal' = journal /\ active' = NoSnapshot /\ pc' = "failed"
    BY <1>15 DEF Crash, Reboot, Die, system
  <2> QED BY <2>1
<1>16. CASE \/ Prepare \/ StartMonitor \/ MonitorTick \/ MonitorFails
            \/ TUNAppears \/ TUNVanishes \/ ForeignRoute \/ NetworkChanges
  <2>1. UNCHANGED <<dns, userDNS, journal, active, pc>>
    BY <1>16 DEF Prepare, StartMonitor, MonitorTick, MonitorFails, TUNAppears, TUNVanishes,
                 ForeignRoute, NetworkChanges, system, manager, call
  <2> QED BY <1>1, <2>1
<1>17. CASE UNCHANGED vars BY <1>1, <1>17 DEF vars, system, manager, call
<1> QED BY <1>1, <1>2, <1>3, <1>4, <1>5, <1>6, <1>7, <1>8, <1>9, <1>10, <1>11, <1>12, <1>13,
           <1>14, <1>15, <1>16, <1>17 DEF Next, restoreStep

-----------------------------------------------------------------------------
(* A connection that goes on has no misled route *)

\* Steps that leave the snapshot and the call alone and take at most away.
LEMMA FewerExact ==
  ASSUME Exact, active'.routes = active.routes, pc' \in Working => pc \in Working,
         \A d \in Dest : table'[d] = table[d] \/ ~Ours(table'[d])
  PROVE  Exact'
BY DEF Exact, Ours

\* A route that does not verify ends the connection.
LEMMA ExactStep ==
  ASSUME IInv, Exact, [Next]_vars PROVE Exact'
<1>1. CASE Capture
  <2>1. journal = NoSnapshot /\ table' = table BY <1>1 DEF Capture, system
  <2>2. \A d \in Dest : ~Ours(table[d]) BY <2>1, NothingAltered DEF IInv
  <2> QED BY <2>1, <2>2 DEF Exact, Ours
<1>2. CASE WaitTUNReady
  <2>1. /\ pc = "captured" /\ table' = table
        /\ active' = active \/ active' = [active EXCEPT !.tun = tun]
    BY <1>2 DEF WaitTUNReady, system
  <2>2. active \in Snapshots /\ active # NoSnapshot /\ tun \in 0..MaxTUN
    BY <2>1 DEF IInv, TypeOK, Synced, Working
  <2>3. active'.routes = active.routes BY <2>1, <2>2, TUNSnapshot
  <2> QED BY <2>1, <2>3, FewerExact DEF Working
<1>3. CASE ActivateRoute
  <2> DEFINE r == [dest |-> Destinations[next], hop |-> hopOf(Destinations[next])]
             s == [active EXCEPT !.routes = Append(@, r)]
  <2>1. /\ pc = "route" /\ table' = table
        /\ pc' = "failed" \/ active' = s
    BY <1>3 DEF ActivateRoute, system
  <2>2. active \in Snapshots /\ active # NoSnapshot /\ r \in Routes BY <2>1, PlannedRoute
  <2>3. \A i \in DOMAIN active.routes : i \in DOMAIN s.routes /\ s.routes[i] = active.routes[i]
    <3>1. s = [active EXCEPT !.routes = Append(@, r)] OBVIOUS
    <3> HIDE DEF r, s
    <3> QED BY <2>2, <3>1, RouteSnapshot
  <2> HIDE DEF s
  <2>4. CASE pc' = "failed" BY <2>4 DEF Exact, Working
  <2>5. CASE active' = s BY <2>1, <2>3, <2>5 DEF Exact, Ours, Working
  <2> QED BY <2>1, <2>4, <2>5
<1>4. CASE AddRoute
  <2> DEFINE d == Destinations[next]
  <2>1. /\ pc = "addroute" /\ active' = active
        /\ pc' = "failed" \/ table' = [table EXCEPT ![d] = hopOf(d)]
    BY <1>4 DEF AddRoute, manager
  <2>2. /\ d \in Dest /\ active \in Snapshots /\ next \in 1..3 BY <2>1, PlannedRoute
  <2>3. Len(active.routes) = next /\ active.routes[next] = [dest |-> d, hop |-> hopOf(d)]
    BY <2>1 DEF IInv, Synced
  <2>4. next \in DOMAIN active.routes BY <2>2, <2>3, RoutesForm
  <2> HIDE DEF d
  <2>5. CASE pc' = "failed" BY <2>5 DEF Exact, Working
  <2>6. CASE table' = [table EXCEPT ![d] = hopOf(d)]
    <3>1. \A e \in Dest : table'[e] = IF e = d THEN hopOf(d) ELSE table[e]
      BY <2>2, <2>6 DEF IInv, TypeOK
    <3> QED BY <2>1, <2>3, <2>4, <3>1 DEF Exact, Ours, Working
  <2> QED BY <2>1, <2>5, <2>6
<1>5. CASE ActivateDNS
  <2>1. /\ pc = "dns" /\ table' = table
        /\ active' = active \/ active' = [active EXCEPT !.dnsIntended = TRUE]
    BY <1>5 DEF ActivateDNS, system
  <2>2. active \in Snapshots /\ active # NoSnapshot BY <2>1 DEF IInv, TypeOK, Synced, Working
  <2>3. active'.routes = active.routes BY <2>1, <2>2, DNSSnapshot
  <2> QED BY <2>1, <2>3, FewerExact DEF Working
<1>6. CASE ActivateBegin \/ SetDNS \/ Prepare \/ StartMonitor \/ MonitorTick \/ MonitorFails
  <2>1. active' = active /\ table' = table /\ (pc' = pc \/ pc \in {"ready", "setdns"})
    BY <1>6 DEF ActivateBegin, SetDNS, Prepare, StartMonitor, MonitorTick, MonitorFails, system,
                manager, call
  <2> QED BY <2>1, FewerExact DEF Working
<1>7. CASE TUNAppears \/ TUNVanishes \/ UserSetsDNS \/ ForeignRoute \/ NetworkChanges
  <2>1. UNCHANGED <<active, pc>>
    BY <1>7 DEF TUNAppears, TUNVanishes, UserSetsDNS, ForeignRoute, NetworkChanges, manager, call
  <2>2. \A d \in Dest : table'[d] = table[d] \/ table'[d] \in {Absent, Foreign}
    <3>1. CASE TUNAppears \/ UserSetsDNS BY <3>1 DEF TUNAppears, UserSetsDNS
    <3>2. CASE TUNVanishes \/ NetworkChanges BY <3>2 DEF TUNVanishes, NetworkChanges, without
    <3>3. CASE ForeignRoute BY <3>3 DEF ForeignRoute, IInv, TypeOK
    <3> QED BY <1>7, <3>1, <3>2, <3>3
  <2> QED BY <2>1, <2>2, NotOurs, FewerExact
<1>8. CASE Refuse \/ GiveUp \/ restoreStep \/ Disconnect \/ Crash \/ Reboot
  <2>1. pc' \notin Working
    BY <1>8 DEF Refuse, GiveUp, restoreStep, restoreNothing, restoreBegin, restore, restoreDNS,
                restoreSetDNS, restoreRoute, DeleteRoute, restoreEnd, Disconnect, Crash, Reboot,
                Die, Working
  <2> QED BY <2>1 DEF Exact
<1>9. CASE UNCHANGED vars
  <2>1. UNCHANGED <<active, pc, table>> BY <1>9 DEF vars, system, manager, call
  <2> QED BY <2>1, FewerExact
<1> QED BY <1>1, <1>2, <1>3, <1>4, <1>5, <1>6, <1>7, <1>8, <1>9 DEF Next

-----------------------------------------------------------------------------
(* The theorems *)

\* The inductive invariant of the manager: what the journal and the snapshot in
\* memory of network_darwin.go name, and what restore has undone.
THEOREM Invariant == Spec => []IInv
<1>1. Init => IInv BY InitInv
<1> QED BY <1>1, StepInv, PTL DEF Spec

\* Every route and DNS setting of the product is on disk before it is made and
\* until it is undone, whatever fails, crashes, reboots, moves or is changed by
\* others (Save before `route add' and `networksetup' in ActivateTUNRoutes), and
\* while a connection goes on every route leads where the journal says.
THEOREM JournalWrittenAhead == Spec => []WriteAhead
<1>1. Init => Exact BY DEF Init, Exact, Working
<1>2. IInv /\ Exact /\ [Next]_vars => Exact' BY ExactStep
<1>3. IInv /\ Exact => WriteAhead
  <2> SUFFICES ASSUME IInv, Exact PROVE WriteAhead OBVIOUS
  <2>1. CASE pc \in Working
    <3>1. journal = active BY <2>1 DEF IInv, Synced
    <3> QED BY <2>1, <3>1 DEF Exact, IInv, Covered, Covers, WriteAhead
  <2>2. CASE pc \notin Working BY <2>2 DEF IInv, Covered, Covers, WriteAhead
  <2> QED BY <2>1, <2>2
<1> QED BY <1>1, <1>2, <1>3, Invariant, PTL DEF Spec

\* When restore removed the journal, the DNS setting the user last chose is in
\* force, as long as nobody sets DNS between the manager's check and its write.
THEOREM DNSReturned == ASSUME UserRaces = FALSE PROVE Spec => []UserDNSReturns
<1>1. Init => IInv /\ UsersDNS BY InitInv
<1>2. IInv /\ UsersDNS /\ [Next]_vars => (IInv /\ UsersDNS)' BY StepInv, UsersDNSStep
<1>3. IInv /\ UsersDNS => UserDNSReturns
  <2> SUFFICES ASSUME IInv, UsersDNS, journal = NoSnapshot PROVE dns = userDNS
    BY DEF UserDNSReturns
  <2>1. dns # TUNDNS BY NothingAltered DEF IInv
  <2> QED BY <2>1 DEF UsersDNS
<1> QED BY <1>1, <1>2, <1>3, PTL DEF Spec

\* A step that opens or closes the journal finds and leaves nothing altered.
LEMMA JournalStep ==
  ASSUME IInv, [Next]_vars, (journal = NoSnapshot) # (journal' = NoSnapshot)
  PROVE  ~Altered /\ ~Altered'
<1>1. CASE Capture
  <2>1. journal = NoSnapshot /\ dns' = dns /\ table' = table BY <1>1 DEF Capture, system
  <2>2. dns # TUNDNS /\ \A d \in Dest : ~Ours(table[d]) BY <2>1, NothingAltered DEF IInv
  <2> QED BY <2>1, <2>2 DEF Altered, Ours
<1>2. CASE restoreEnd
  <2>1. dns' = dns /\ table' = table /\ pc = "routes" /\ next = 0 /\ ~failed
    BY <1>2 DEF restoreEnd, system
  <2>2. dns # TUNDNS /\ \A d \in Dest : ~Ours(table[d]) BY <2>1, RestoredClean
  <2> QED BY <2>1, <2>2 DEF Altered, Ours
<1>3. CASE WaitTUNReady
  <2>1. active \in Snapshots /\ active # NoSnapshot /\ journal = active /\ tun \in 0..MaxTUN
    BY <1>3 DEF IInv, TypeOK, Synced, Working, WaitTUNReady
  <2>2. [active EXCEPT !.tun = tun] # NoSnapshot BY <2>1, TUNSnapshot
  <2> QED BY <1>3, <2>1, <2>2 DEF WaitTUNReady, Save, SaveFails
<1>4. CASE ActivateRoute
  <2> DEFINE r == [dest |-> Destinations[next], hop |-> hopOf(Destinations[next])]
  <2>1. active \in Snapshots /\ active # NoSnapshot /\ journal = active /\ r \in Routes
    BY <1>4, PlannedRoute DEF ActivateRoute
  <2>2. [active EXCEPT !.routes = Append(@, r)] # NoSnapshot
    <3> HIDE DEF r
    <3> QED BY <2>1, RouteSnapshot
  <2> QED BY <1>4, <2>1, <2>2 DEF ActivateRoute, Save, SaveFails
<1>5. CASE ActivateDNS
  <2>1. active \in Snapshots /\ active # NoSnapshot /\ journal = active
    BY <1>5 DEF IInv, TypeOK, Synced, Working, ActivateDNS
  <2>2. [active EXCEPT !.dnsIntended = TRUE] # NoSnapshot BY <2>1, DNSSnapshot
  <2> QED BY <1>5, <2>1, <2>2 DEF ActivateDNS, Save, SaveFails
<1>6. CASE \/ Prepare \/ Refuse \/ GiveUp \/ ActivateBegin \/ AddRoute \/ SetDNS
           \/ restoreNothing \/ restoreBegin \/ restoreDNS \/ restoreSetDNS
           \/ restoreRoute \/ DeleteRoute \/ Disconnect
  <2>1. journal' = journal
    BY <1>6 DEF Prepare, Refuse, GiveUp, ActivateBegin, AddRoute, SetDNS, restoreNothing,
                restoreBegin, restore, restoreDNS, restoreSetDNS, restoreRoute, DeleteRoute,
                Disconnect, manager
  <2> QED BY <2>1
<1>7. CASE \/ StartMonitor \/ MonitorTick \/ MonitorFails \/ TUNAppears \/ TUNVanishes
           \/ UserSetsDNS \/ ForeignRoute \/ NetworkChanges \/ Crash \/ Reboot \/ UNCHANGED vars
  <2>1. journal' = journal
    BY <1>7 DEF StartMonitor, MonitorTick, MonitorFails, TUNAppears, TUNVanishes, UserSetsDNS,
                ForeignRoute, NetworkChanges, Crash, Reboot, Die, vars, manager
  <2> QED BY <2>1
<1> QED BY <1>1, <1>2, <1>3, <1>4, <1>5, <1>6, <1>7 DEF Next, restoreStep

\* network_darwin.go keeps the contract of the controller's NetworkManager:
\* changes are made only inside a captured transaction, which is closed only
\* when all of them are undone; no crash or reboot closes one.
THEOREM ManagerKeepsContract == Spec => KeepsContract
<1> DEFINE net == IF Altered THEN "altered"
                  ELSE IF journal # NoSnapshot THEN "captured" ELSE "clean"
<1>1. Init => net = "clean"
  <2> SUFFICES ASSUME Init PROVE net = "clean" OBVIOUS
  <2>1. journal = NoSnapshot BY DEF Init
  <2>2. dns # TUNDNS /\ \A d \in Dest : ~Ours(table[d])
    BY <2>1, InitInv, NothingAltered DEF IInv
  <2> QED BY <2>1, <2>2 DEF Altered
<1>2. IInv => (Altered => journal # NoSnapshot) BY NothingAltered DEF IInv, Altered
<1>3. /\ IInv /\ (Altered => journal # NoSnapshot) /\ (Altered => journal # NoSnapshot)'
      /\ [Next]_vars
      => [Contract!Next]_net
  <2> SUFFICES ASSUME IInv, Altered => journal # NoSnapshot, Altered' => journal' # NoSnapshot,
                      [Next]_vars
               PROVE  [Contract!Next]_net
    OBVIOUS
  <2>1. (journal = NoSnapshot) # (journal' = NoSnapshot) => ~Altered /\ ~Altered'
    BY JournalStep
  <2> QED BY <2>1 DEF Contract!Next, Contract!Capture, Contract!Alter, Contract!Undo, Contract!Release
<1> QED BY <1>1, <1>2, <1>3, Invariant, PTL DEF Spec, KeepsContract, Contract!Spec, Contract!Init

=============================================================================
