-------------------------- MODULE MacServiceProofs --------------------------
(***************************************************************************)
(* Theorems about MacService and CoreOwner, for any process identifiers,   *)
(* connections, slots and numbers of requests and of failures.             *)
(*                                                                         *)
(* The argument rests on two exclusions: the daemon lock keeps the two     *)
(* programs from recovering or serving at once, and the controller's one   *)
(* operation keeps at most one instance of the core.  Between them they    *)
(* make the journal record the only name of a core: a core, or a helper    *)
(* that was released to become one, is always the process the record names.*)
(*                                                                         *)
(* The theorems about MacInstaller, the service's installer, follow.       *)
(***************************************************************************)
EXTENDS MacService, MacInstaller, TLAPS

Serving == {"serve", "join", "gate", "cleanup", "prepared", "failed_safe"}
Inside  == {"load", "recheck", "signal", "await", "forget", "recover", "stale", "bind"} \cup Serving
Running == {"new", "watch", "term", "kill", "audit", "reap"}

\* A core, or a helper that will be one.
Released(g) == g.kind = "core" \/ (g.kind = "helper" /\ g.gate = "G")

\* The lock names the program that is inside.
LockInv == \A m \in Mains : main[m] \in Inside <=> holder = m

\* Nothing of a daemon outlives its serving.
ServeInv ==
  /\ main["daemon"] \notin Serving => sup = NoInstance /\ start = "idle" /\ ctl = Idle
  /\ main["daemon"] \notin {"serve", "join"} => \A c \in Conns : conns[c] = "idle"
  /\ main["daemon"] \in {"gate", "cleanup", "prepared", "failed_safe", "stopped"} => sock = "none"

\* One operation at a time, and who waits for it.
OpInv ==
  /\ ctl.op = "none" <=> ctl.who = "none"
  /\ ctl.op = "none" <=> ctl.step = "none"
  /\ ctl.op = "connect" => ctl.who \in Conns
  /\ ctl.who \in Conns => conns[ctl.who] \in {"connect", "disconnect"}
  /\ ctl.who = "main" => main["daemon"] = "cleanup"
  /\ ctl.op = "none" => ctl.state \in {"prepared", "connected", "failed_safe"}
  /\ ctl.step \in {"capture", "config", "start", "ready"} => ctl.op = "connect"
  /\ main["daemon"] = "prepared" => ctl.op = "none" /\ ctl.state = "prepared"

\* What the controller knows of Start and of the instance.
InstanceInv ==
  /\ start # "idle" => ctl.step = "start"
  /\ ctl.step \in {"capture", "config", "restore"} \/ (ctl.op = "none" /\ ctl.state = "prepared")
       => sup = NoInstance
  /\ start \in {"verify", "load", "spawn"} => sup = NoInstance
  /\ start \in {"inspect", "save", "release"} => sup.pc = "new"
  /\ sup.pid = 0 => sup = NoInstance
  /\ sup.pc = "none" => sup.pid = 0

\* Processes: a dead leader is a zombie as long as the instance holds it.
GroupInv ==
  /\ \A p \in Pids : proc[p].leader = "gone" /\ ~proc[p].kids => proc[p] = Free
  /\ \A p \in Pids : proc[p].leader = "zombie" => Unreaped(p)
  /\ sup.pc \in Running => proc[sup.pid].kind \in {"helper", "core"} /\ proc[sup.pid].leader # "gone"

\* The supervisor's proof is one.
ProofInv ==
  /\ sup.pc = "reap" /\ sup.ok => groupEmpty(sup.pid)
  /\ sup.pc = "forget" /\ sup.ok => ~Released(proc[sup.pid])
  /\ sup.result = "proven" => record.pid = 0 /\ sup.pc = "finished"

\* The record names every core, and is there before the helper is released.
RecordInv ==
  /\ \A p \in Pids : Released(proc[p]) => record.pid = p /\ record.born = proc[p].born /\ record.boot
  /\ start = "release" => record.pid = sup.pid /\ record.born = proc[sup.pid].born /\ record.boot
  /\ sup.pid # 0 => record.pid \in {0, sup.pid}
  /\ main["daemon"] \in Serving \cup {"stale", "bind", "stopped"} /\ sup.pid = 0 => record.pid = 0

\* How far a start-up's recovery of the core is.
RecoveryInv ==
  \A m \in Mains :
    /\ main[m] = "recover" => record.pid = 0
    /\ main[m] \in {"recheck", "signal", "await"} => record.pid # 0
    /\ main[m] = "forget" => \A p \in Pids : ~Released(proc[p])
    /\ main[m] = "signal" /\ proc[record.pid].kind = "foreign" => proc[record.pid].born > checked

NetInv == main["daemon"] \in {"prepared", "stopped"} => net = "clean"

IInv == /\ TypeOK /\ LockInv /\ ServeInv /\ OpInv /\ InstanceInv /\ GroupInv /\ ProofInv
        /\ RecordInv /\ RecoveryInv /\ NetInv

-----------------------------------------------------------------------------
(* Process groups *)

\* What may become of a group by itself or by a signal: it is never released
\* or taken over, and an unreaped leader keeps its group.
Ages(p, g, h) ==
  /\ h \in Groups
  /\ h.leader = "gone" /\ ~h.kids => h = Free
  /\ Released(h) => Released(g) /\ h.born = g.born
  /\ h.leader = "zombie" => g.leader = "zombie" \/ Unreaped(p)
  /\ Unreaped(p) /\ g.kind \in {"helper", "core"} /\ g.leader # "gone"
       => h.kind \in {"helper", "core"} /\ h.leader # "gone" /\ h.born = g.born
  /\ g.leader # "live" /\ ~g.kids => h.leader # "live" /\ ~h.kids
  /\ h.kind = "foreign" => g.kind = "foreign" /\ h.born = g.born

\* A free pid is a process group with nothing in it.
LEMMA FreeType == Free \in Groups /\ Free.leader = "gone" /\ ~Free.kids /\ Free.kind = "free" /\ Free.gate = "none"
BY DEF Free, Groups

\* An empty group is freed, any other is left as it is.
LEMMA SettleAges ==
  ASSUME NEW g \in Groups
  PROVE  /\ Settle(g) \in Groups
         /\ Settle(g).leader = "gone" /\ ~Settle(g).kids => Settle(g) = Free
         /\ Settle(g) = g \/ (Settle(g) = Free /\ g.leader = "gone" /\ ~g.kids)
BY FreeType DEF Settle

\* A leader dies: it stays a zombie while its instance holds it.
LEMMA DeadAges == ASSUME NEW p \in Pids, NEW g \in Groups PROVE Ages(p, g, Dead(p, g))
<1> DEFINE k == [g EXCEPT !.leader = IF Unreaped(p) THEN "zombie" ELSE "gone"]
<1>1. /\ k \in Groups /\ k.kind = g.kind /\ k.kids = g.kids /\ k.born = g.born /\ k.gate = g.gate
      /\ k.leader = IF Unreaped(p) THEN "zombie" ELSE "gone"
  BY DEF Groups
<1>2. Dead(p, g) = Settle(k) BY DEF Dead
<1> HIDE DEF k
<1>3. Ages(p, g, Settle(k)) BY <1>1, SettleAges, FreeType DEF Ages, Released
<1> QED BY <1>2, <1>3

\* A signal reaches the group.
LEMMA KilledAges ==
  ASSUME TypeOK, NEW p \in Pids
  PROVE  \E h : Killed(p) = [proc EXCEPT ![p] = h] /\ Ages(p, proc[p], h)
<1> DEFINE g == proc[p]
           k == [g EXCEPT !.kids = FALSE]
<1>1. g \in Groups BY DEF TypeOK
<1>2. /\ k \in Groups /\ k.kind = g.kind /\ ~k.kids /\ k.born = g.born /\ k.gate = g.gate
      /\ k.leader = g.leader
  BY <1>1 DEF Groups
<1>3. Killed(p) = [proc EXCEPT ![p] = Dead(p, k)] BY DEF Killed, TypeOK
<1> HIDE DEF k, g
<1>4. Ages(p, k, Dead(p, k)) BY <1>2, DeadAges
<1>5. Ages(p, g, Dead(p, k)) BY <1>2, <1>4 DEF Ages, Released
<1> QED BY <1>3, <1>5 DEF g

\* The descendants of a leader end.
LEMMA ChildAges ==
  ASSUME NEW p \in Pids, NEW g \in Groups
  PROVE  Ages(p, g, Settle([g EXCEPT !.kids = FALSE]))
<1> DEFINE k == [g EXCEPT !.kids = FALSE]
<1>1. /\ k \in Groups /\ k.kind = g.kind /\ ~k.kids /\ k.born = g.born /\ k.gate = g.gate
      /\ k.leader = g.leader
  BY DEF Groups
<1> HIDE DEF k
<1>2. Ages(p, g, Settle(k)) BY <1>1, SettleAges, FreeType DEF Ages, Released
<1> QED BY <1>2 DEF k

\* A group ages: what the instance and the record say of it stays true.
LEMMA AgedInv ==
  ASSUME IInv, NEW p \in Pids, NEW h, proc' = [proc EXCEPT ![p] = h], Ages(p, proc[p], h),
         UNCHANGED <<record, start, sup>>
  PROVE  /\ proc' \in [Pids -> Groups] /\ GroupInv' /\ ProofInv'
         /\ \A q \in Pids : Released(proc'[q]) => Released(proc[q]) /\ proc'[q].born = proc[q].born
         /\ \A q \in Pids : proc'[q].kind = "foreign" => proc[q].kind = "foreign" /\ proc'[q].born = proc[q].born
         /\ start = "release" => proc'[sup.pid].born = proc[sup.pid].born
<1> USE DEF IInv
<1>0. proc \in [Pids -> Groups] /\ sup \in Instances /\ h \in Groups BY DEF TypeOK, Ages
<1>1. proc'[p] = h /\ \A q \in Pids : q # p => proc'[q] = proc[q] BY <1>0
<1>2. proc' \in [Pids -> Groups] BY <1>0
<1>3. sup.pc \in Running => sup.pid \in Pids /\ Unreaped(sup.pid)
  BY <1>0 DEF InstanceInv, Instances, NoInstance, Running, Unreaped
<1>4. \A q \in Pids : Unreaped(q)' = Unreaped(q) BY DEF Unreaped
<1>5. GroupInv' BY <1>1, <1>3, <1>4 DEF GroupInv, Ages
<1>6. \A q \in Pids : Released(proc'[q]) => Released(proc[q]) /\ proc'[q].born = proc[q].born
  BY <1>1 DEF Ages
<1>7. ProofInv'
  <2>1. sup.pc \in {"reap", "forget"} => sup.pid \in Pids
    BY <1>0 DEF InstanceInv, Instances, NoInstance
  <2>2. \A q \in Pids : groupEmpty(q) => groupEmpty(q)' BY <1>1 DEF groupEmpty, Ages
  <2> QED BY <1>6, <2>1, <2>2 DEF ProofInv
<1>8. start = "release" => proc'[sup.pid].born = proc[sup.pid].born
  <2>1. start = "release" => sup.pc \in Running BY DEF InstanceInv, Running
  <2> QED BY <1>1, <1>3, <2>1 DEF GroupInv, Ages
<1>9. \A q \in Pids : proc'[q].kind = "foreign" => proc[q].kind = "foreign" /\ proc'[q].born = proc[q].born BY <1>1 DEF Ages
<1> QED BY <1>2, <1>5, <1>6, <1>7, <1>8, <1>9

-----------------------------------------------------------------------------
(* Steps of the processes *)

\* Conjuncts whose variables a step leaves alone are kept.
LEMMA Frames ==
  /\ UNCHANGED <<main, holder>> => LockInv' = LockInv
  /\ UNCHANGED <<main, sup, start, ctl, conns, sock>> => ServeInv' = ServeInv
  /\ UNCHANGED <<main, ctl, conns>> => OpInv' = OpInv
  /\ UNCHANGED <<start, ctl, sup>> => InstanceInv' = InstanceInv
  /\ UNCHANGED <<proc, sup>> => GroupInv' = GroupInv
  /\ UNCHANGED <<proc, sup, record>> => ProofInv' = ProofInv
  /\ UNCHANGED <<proc, sup, record, start, main>> => RecordInv' = RecordInv
  /\ UNCHANGED <<proc, record, main, checked>> => RecoveryInv' = RecoveryInv
  /\ UNCHANGED <<main, net>> => NetInv' = NetInv
<1>1. UNCHANGED <<main, holder>> => LockInv' = LockInv BY DEF LockInv
<1>2. UNCHANGED <<main, sup, start, ctl, conns, sock>> => ServeInv' = ServeInv BY DEF ServeInv
<1>3. UNCHANGED <<main, ctl, conns>> => OpInv' = OpInv BY DEF OpInv
<1>4. UNCHANGED <<start, ctl, sup>> => InstanceInv' = InstanceInv BY DEF InstanceInv
<1>5. UNCHANGED <<proc, sup>> => GroupInv' = GroupInv BY DEF GroupInv, Unreaped
<1>6. UNCHANGED <<proc, sup, record>> => ProofInv' = ProofInv BY DEF ProofInv, groupEmpty, Released
<1>7. UNCHANGED <<proc, sup, record, start, main>> => RecordInv' = RecordInv BY DEF RecordInv, Released
<1>8. UNCHANGED <<proc, record, main, checked>> => RecoveryInv' = RecoveryInv BY DEF RecoveryInv, Released
<1>9. UNCHANGED <<main, net>> => NetInv' = NetInv BY DEF NetInv
<1> QED BY <1>1, <1>2, <1>3, <1>4, <1>5, <1>6, <1>7, <1>8, <1>9

\* The count of failures stays within its bound.
LEMMA FaultType == ASSUME TypeOK, UNCHANGED faults \/ Fault PROVE faults' \in 0..MaxFaults
BY MaxFaultsAssumption DEF TypeOK, Fault

\* Instance and record name a pid or none; a running instance is unreaped.
LEMMA PidTypes ==
  ASSUME IInv
  PROVE  /\ 0 \notin Pids /\ sup.pid \in Pids \cup {0} /\ record.pid \in Pids \cup {0}
         /\ sup.pid # 0 => sup.pid \in Pids
         /\ sup.pc \in Running => sup.pid \in Pids /\ Unreaped(sup.pid)
         /\ sup.pc # "none" => sup.pid \in Pids
BY PidsAssumption DEF IInv, TypeOK, InstanceInv, Instances, Records, NoInstance, Running, Unreaped

\* A step that changes no more than one group, and only lets it age.
LEMMA AgingStep ==
  ASSUME IInv, NEW p \in Pids, NEW h, proc' = [proc EXCEPT ![p] = h], Ages(p, proc[p], h),
         UNCHANGED <<births, record, start, sup, main, holder, sock, gate, checked, conns, ctl, net>>,
         UNCHANGED faults \/ Fault
  PROVE  IInv'
<1> USE DEF IInv
<1>1. /\ proc' \in [Pids -> Groups] /\ GroupInv' /\ ProofInv'
      /\ \A q \in Pids : Released(proc'[q]) => Released(proc[q]) /\ proc'[q].born = proc[q].born
      /\ \A q \in Pids : proc'[q].kind = "foreign" => proc[q].kind = "foreign" /\ proc'[q].born = proc[q].born
      /\ start = "release" => proc'[sup.pid].born = proc[sup.pid].born
  BY AgedInv
<1>2. RecordInv' BY <1>1 DEF RecordInv
<1>3. RecoveryInv'
  <2>1. \A m \in Mains : main[m] = "signal" => record.pid \in Pids BY PidTypes DEF RecoveryInv
  <2> QED BY <1>1, <2>1 DEF RecoveryInv
<1>4. TypeOK'
  <2>1. faults' \in 0..MaxFaults /\ TypeOK BY FaultType
  <2> QED BY <1>1, <2>1 DEF TypeOK
<1> QED BY <1>1, <1>2, <1>3, <1>4, Frames

\* Processes move by themselves: every step ages a group.
LEMMA ProcessStep ==
  ASSUME IInv, NEW p \in Pids, UNCHANGED svcVars,
         HelperExecutes(p) \/ HelperGivesUp(p) \/ LeaderExits(p) \/ CoreForks(p) \/ ChildExits(p)
  PROVE  IInv'
<1> USE DEF IInv
<1>0. /\ UNCHANGED <<births, record, start, sup, main, holder, sock, gate, checked, conns, ctl, net>>
      /\ (UNCHANGED faults \/ Fault)
  BY DEF svcVars, HelperExecutes, HelperGivesUp, LeaderExits, CoreForks, ChildExits
<1>1. proc \in [Pids -> Groups] /\ proc[p] \in Groups BY DEF TypeOK
<1>2. CASE HelperExecutes(p)
  <2> DEFINE h == [proc[p] EXCEPT !.kind = "core", !.gate = "none"]
  <2>1. proc' = [proc EXCEPT ![p] = h] BY <1>1, <1>2 DEF HelperExecutes
  <2>2. /\ h \in Groups /\ h.kind = "core" /\ h.leader = proc[p].leader /\ h.born = proc[p].born
        /\ proc[p].kind = "helper" /\ proc[p].leader = "live" /\ proc[p].gate = "G"
    BY <1>1, <1>2 DEF HelperExecutes, Groups
  <2> HIDE DEF h
  <2>3. Ages(p, proc[p], h) BY <2>2 DEF Ages, Released
  <2> QED BY <1>0, <2>1, <2>3, AgingStep
<1>3. CASE HelperGivesUp(p) \/ LeaderExits(p)
  <2>1. proc' = [proc EXCEPT ![p] = Dead(p, proc[p])] BY <1>1, <1>3 DEF HelperGivesUp, LeaderExits
  <2>2. Ages(p, proc[p], Dead(p, proc[p])) BY <1>1, DeadAges
  <2> QED BY <1>0, <2>1, <2>2, AgingStep
<1>4. CASE CoreForks(p)
  <2> DEFINE h == [proc[p] EXCEPT !.kids = TRUE]
  <2>1. proc' = [proc EXCEPT ![p] = h] BY <1>1, <1>4 DEF CoreForks
  <2>2. /\ h \in Groups /\ h.kind = proc[p].kind /\ h.leader = "live" /\ h.born = proc[p].born
        /\ proc[p].leader = "live" /\ h.gate = proc[p].gate
    BY <1>1, <1>4 DEF CoreForks, Groups
  <2> HIDE DEF h
  <2>3. Ages(p, proc[p], h) BY <2>2 DEF Ages, Released
  <2> QED BY <1>0, <2>1, <2>3, AgingStep
<1>5. CASE ChildExits(p)
  <2>1. proc' = [proc EXCEPT ![p] = Settle([proc[p] EXCEPT !.kids = FALSE])]
    BY <1>1, <1>5 DEF ChildExits
  <2>2. Ages(p, proc[p], Settle([proc[p] EXCEPT !.kids = FALSE])) BY <1>1, ChildAges
  <2> QED BY <1>0, <2>1, <2>2, AgingStep
<1> QED BY <1>2, <1>3, <1>4, <1>5

\* A pid that changes hands is nobody's: the record may still name it.
LEMMA RecycleStep ==
  ASSUME IInv, NEW p \in Pids, UNCHANGED svcVars, ForeignStarts(p)
  PROVE  IInv'
<1> USE DEF IInv
<1> DEFINE h == [kind |-> "foreign", leader |-> "live", kids |-> FALSE, born |-> births + 1, gate |-> "none"]
<1>0. /\ UNCHANGED <<record, start, sup, main, holder, sock, gate, checked, conns, ctl, net>> /\ Fault
      /\ births' = births + 1 /\ proc[p] = Free /\ proc' = [proc EXCEPT ![p] = h]
  BY DEF svcVars, ForeignStarts
<1>1. /\ proc \in [Pids -> Groups] /\ births \in Nat /\ checked \in 0..births BY DEF TypeOK
<1>2. h \in Groups /\ h.kind = "foreign" /\ h.leader = "live" /\ h.born > checked
  <2>1. births + 1 \in Nat /\ births + 1 > checked BY <1>1
  <2> QED BY ONLY <2>1 DEF Groups
<1> HIDE DEF h
<1>3. /\ proc' \in [Pids -> Groups] /\ proc'[p] = h /\ \A q \in Pids : q # p => proc'[q] = proc[q]
  BY <1>0, <1>1, <1>2
<1>4. sup.pc \in Running => sup.pid # p BY <1>0, FreeType DEF GroupInv
<1>5. \A q \in Pids : Unreaped(q)' = Unreaped(q) BY <1>0 DEF Unreaped
<1>6. GroupInv'
  <2>1. sup.pc \in Running => sup.pid \in Pids BY PidTypes
  <2> QED BY <1>0, <1>2, <1>3, <1>4, <1>5, <2>1 DEF GroupInv
<1>7. ~Released(h) BY <1>2 DEF Released
<1>8. ProofInv'
  <2>1. sup.pc \in {"reap", "forget"} => sup.pid \in Pids BY PidTypes
  <2>2. \A q \in Pids : q # p => groupEmpty(q)' = groupEmpty(q) BY <1>3 DEF groupEmpty
  <2> QED BY <1>0, <1>3, <1>4, <1>7, <2>1, <2>2 DEF ProofInv, Running
<1>9. RecordInv'
  <2>1. start = "release" => sup.pid # p /\ sup.pid \in Pids
    BY <1>4, PidTypes DEF InstanceInv, Running
  <2> QED BY <1>0, <1>3, <1>7, <2>1 DEF RecordInv
<1>10. RecoveryInv'
  <2>1. \A m \in Mains : main[m] = "signal" => record.pid \in Pids BY PidTypes DEF RecoveryInv
  <2> QED BY <1>0, <1>2, <1>3, <1>7, <2>1 DEF RecoveryInv
<1>11. TypeOK'
  <2>1. faults' \in 0..MaxFaults /\ births' \in Nat /\ checked' \in 0..births' /\ TypeOK
    BY <1>0, <1>1, FaultType
  <2> QED BY <1>0, <1>3, <2>1 DEF TypeOK
<1> QED BY <1>0, <1>6, <1>8, <1>9, <1>10, <1>11, Frames

-----------------------------------------------------------------------------
(* Steps of Start and of the supervisor *)

\* While the daemon serves it has the lock: no start-up is beyond it.
LEMMA ServingAlone ==
  ASSUME IInv, main["daemon"] \in Serving
  PROVE  /\ holder = "daemon" /\ main["restore"] \notin Inside
         /\ \A m \in Mains : main[m] \notin Inside \ Serving
<1> USE DEF IInv
<1>1. holder = "daemon" BY DEF LockInv, Mains, Inside
<1>2. main["restore"] \notin Inside BY <1>1 DEF LockInv, Mains
<1> QED BY <1>1, <1>2 DEF Mains, Inside, Serving

\* An instance exists only while the daemon serves.
LEMMA InstanceServes ==
  ASSUME IInv, sup # NoInstance \/ start # "idle" \/ ctl # Idle
  PROVE  main["daemon"] \in Serving
BY DEF IInv, ServeInv

Starts == {"idle", "verify", "load", "spawn", "inspect", "save", "release",
           "cleanup", "ok", "failed", "unproven"}

\* A step beneath the service, while it serves.
LEMMA CoreFrame ==
  ASSUME IInv, UNCHANGED svcVars, main["daemon"] \in Serving, UNCHANGED faults \/ Fault,
         proc' \in [Pids -> Groups], births' = births \/ births' = births + 1,
         record' \in Records, start' \in Starts, sup' \in Instances,
         InstanceInv', GroupInv', ProofInv', RecordInv'
  PROVE  IInv'
<1> USE DEF IInv
<1>1. UNCHANGED <<main, holder, sock, gate, checked, conns, ctl, net>> BY DEF svcVars
<1>2. faults' \in 0..MaxFaults /\ births' \in Nat /\ checked' \in 0..births' /\ TypeOK
  BY <1>1, FaultType DEF TypeOK
<1>3. TypeOK' BY ONLY <1>1, <1>2, proc' \in [Pids -> Groups], record' \in Records,
                 start' \in Starts, sup' \in Instances DEF TypeOK, Starts
<1>4. ServeInv' BY <1>1 DEF ServeInv
<1>5. RecoveryInv' BY <1>1, ServingAlone DEF RecoveryInv, Inside, Serving
<1> QED BY <1>1, <1>3, <1>4, <1>5, Frames

\* Where daemon and controller are while Start runs.
LEMMA StartFacts ==
  ASSUME IInv, start # "idle"
  PROVE  /\ ctl.step = "start" /\ ctl.op = "connect" /\ main["daemon"] \in Serving
         /\ start \in {"verify", "load", "spawn"} => record.pid = 0 /\ sup = NoInstance /\ sup.pid = 0
         /\ start \in {"inspect", "save", "release"} => sup.pc = "new" /\ sup.pid \in Pids /\ sup.pid # 0
<1> USE DEF IInv
<1>1. ctl.step = "start" /\ ctl.op = "connect" /\ main["daemon"] \in Serving
  BY InstanceServes DEF InstanceInv, OpInv
<1>2. start \in {"verify", "load", "spawn"} => sup = NoInstance /\ sup.pid = 0
  BY DEF InstanceInv, NoInstance
<1>3. start \in {"verify", "load", "spawn"} => record.pid = 0 BY <1>1, <1>2 DEF RecordInv
<1>4. start \in {"inspect", "save", "release"} => sup.pc = "new" /\ sup.pid \in Pids /\ sup.pid # 0
  BY PidTypes DEF InstanceInv
<1> QED BY <1>1, <1>2, <1>3, <1>4

\* Start moves on, or fails, without a process.
LEMMA StartMoves ==
  ASSUME IInv, UNCHANGED svcVars, UNCHANGED <<proc, births, record, sup>>, UNCHANGED faults \/ Fault,
         start # "idle", start' \in {"load", "spawn", "save", "failed", "unproven"},
         start' \in {"load", "spawn"} => start \in {"verify", "load"},
         start' = "save" => start = "inspect"
  PROVE  IInv'
<1> USE DEF IInv
<1>1. TypeOK /\ start' \in Starts /\ ctl' = ctl BY DEF Starts, svcVars
<1>2. InstanceInv' BY <1>1, StartFacts DEF InstanceInv
<1>3. RecordInv' BY <1>1 DEF RecordInv, svcVars
<1>4. GroupInv' /\ ProofInv' BY Frames
<1>5. proc' \in [Pids -> Groups] /\ births' \in Nat /\ record' \in Records /\ sup' \in Instances
  BY <1>1 DEF TypeOK
<1> QED BY <1>1, <1>2, <1>3, <1>4, <1>5, StartFacts, CoreFrame

\* Start spawns the helper under a free pid.
LEMMA SpawnStep ==
  ASSUME IInv, UNCHANGED svcVars, StartSpawns
  PROVE  IInv'
<1> USE DEF IInv
<1>0. start = "spawn" /\ UNCHANGED record /\ start # "idle" BY DEF StartSpawns
<1>1. /\ record.pid = 0 /\ sup = NoInstance /\ sup.pid = 0 /\ main["daemon"] \in Serving
      /\ ctl.step = "start" /\ ctl.op = "connect"
  BY <1>0, StartFacts
<1>2. CASE start' = "failed" /\ UNCHANGED <<proc, births, sup>>
  BY <1>0, <1>2, StartMoves DEF StartSpawns
<1>3. CASE ~(start' = "failed" /\ UNCHANGED <<proc, births, sup>>)
  <2>1. PICK p \in Pids :
          /\ proc[p] = Free
          /\ births' = births + 1
          /\ proc' = [proc EXCEPT ![p] = [kind |-> "helper", leader |-> "live",
                        kids |-> FALSE, born |-> births + 1, gate |-> "shut"]]
          /\ sup' = [NoInstance EXCEPT !.pid = p, !.pc = "new"]
          /\ start' = "inspect" /\ UNCHANGED faults
    BY <1>3 DEF StartSpawns
  <2> DEFINE h == [kind |-> "helper", leader |-> "live", kids |-> FALSE, born |-> births + 1, gate |-> "shut"]
  <2>2. proc \in [Pids -> Groups] /\ births \in Nat /\ record \in Records /\ births + 1 \in Nat BY DEF TypeOK
  <2>3. h \in Groups /\ h.leader = "live" /\ h.kind = "helper" /\ h.gate = "shut" BY ONLY <2>2 DEF Groups
  <2>4. proc' = [proc EXCEPT ![p] = h] BY <2>1
  <2> HIDE DEF h
  <2>5. /\ proc' \in [Pids -> Groups] /\ proc'[p] = h /\ \A q \in Pids : q # p => proc'[q] = proc[q]
    BY <2>2, <2>3, <2>4
  <2>6. /\ sup' \in Instances /\ sup'.pid = p /\ sup'.pc = "new" /\ sup'.result = "none"
    BY ONLY <2>1 DEF NoInstance, Instances
  <2>7. p # 0 BY PidTypes
  <2>8. InstanceInv' BY <1>1, <2>1, <2>6, <2>7 DEF InstanceInv, svcVars
  <2>9. \A q \in Pids : proc[q].leader # "zombie" BY <1>1, PidTypes DEF GroupInv, Unreaped
  <2>10. GroupInv' BY <2>3, <2>5, <2>6, <2>9 DEF GroupInv
  <2>11. ProofInv' BY <2>6 DEF ProofInv
  <2>12. RecordInv'
    <3>1. ~Released(h) BY <2>3 DEF Released
    <3> QED BY <1>0, <1>1, <2>1, <2>5, <2>6, <2>7, <3>1 DEF RecordInv
  <2>13. births' \in Nat /\ record' \in Records /\ start' \in Starts BY <1>0, <2>1, <2>2 DEF Starts
  <2> QED BY <1>1, <2>1, <2>5, <2>6, <2>8, <2>10, <2>11, <2>12, <2>13, CoreFrame
<1> QED BY <1>2, <1>3

\* The instance goes on from registration to its supervisor.
LEMMA HandOver ==
  ASSUME IInv, UNCHANGED svcVars, UNCHANGED births, UNCHANGED faults \/ Fault,
         start \in {"inspect", "save", "release"}, start' \in {"cleanup", "ok"},
         sup' \in Instances, sup'.pid = sup.pid, sup'.pc = "watch", sup'.result = sup.result,
         proc' \in [Pids -> Groups], record' \in Records,
         \A p \in Pids : /\ proc'[p].leader = proc[p].leader /\ proc'[p].kids = proc[p].kids
                         /\ proc'[p].kind = proc[p].kind,
         proc' = proc \/ proc[sup.pid].leader = "live",
         \A p \in Pids \ {sup.pid} : proc'[p] = proc[p],
         \A p \in Pids : Released(proc'[p]) => record'.pid = p /\ record'.born = proc'[p].born /\ record'.boot,
         record'.pid \in {0, sup.pid}
  PROVE  IInv'
<1> USE DEF IInv
<1>1. /\ ctl.step = "start" /\ ctl.op = "connect" /\ main["daemon"] \in Serving
      /\ sup.pc = "new" /\ sup.pid \in Pids /\ sup.pid # 0
  BY StartFacts
<1>2. InstanceInv' BY <1>1 DEF InstanceInv, svcVars
<1>3. \A p \in Pids : Unreaped(p)' = Unreaped(p) BY <1>1 DEF Unreaped
<1>4. GroupInv'
  <2>1. \A p \in Pids : proc'[p].leader = "gone" /\ ~proc'[p].kids => proc'[p] = Free
    BY <1>1 DEF GroupInv
  <2>2. \A p \in Pids : proc'[p].leader = "zombie" => Unreaped(p)' BY <1>3 DEF GroupInv
  <2>3. proc'[sup.pid].kind \in {"helper", "core"} /\ proc'[sup.pid].leader # "gone"
    BY <1>1 DEF GroupInv, Running
  <2> QED BY <2>1, <2>2, <2>3 DEF GroupInv
<1>5. ProofInv' BY <1>1 DEF ProofInv
<1>6. RecordInv' BY <1>1 DEF RecordInv
<1>7. births' \in Nat /\ start' \in Starts BY DEF TypeOK, Starts
<1> QED BY <1>1, <1>2, <1>4, <1>5, <1>6, <1>7, CoreFrame

\* Start gives up and asks supervise to stop the helper.
LEMMA AbortStep ==
  ASSUME IInv, UNCHANGED svcVars, UNCHANGED <<proc, births>>, UNCHANGED faults \/ Fault,
         start \in {"inspect", "save", "release"}, startAborts,
         record' = record \/ record' = [pid |-> sup.pid, born |-> proc[sup.pid].born, boot |-> TRUE]
  PROVE  IInv'
<1> USE DEF IInv
<1>0. proc \in [Pids -> Groups] /\ record \in Records /\ sup \in Instances BY DEF TypeOK
<1>1. sup.pid \in Pids /\ sup.pid # 0 BY StartFacts
<1>2. start' = "cleanup" /\ sup' = [sup EXCEPT !.pc = "watch", !.asked = TRUE] BY DEF startAborts
<1>3. sup' \in Instances /\ sup'.pid = sup.pid /\ sup'.pc = "watch" /\ sup'.result = sup.result
  BY ONLY <1>0, <1>2 DEF Instances
<1>4. proc[sup.pid].born \in Nat BY <1>0, <1>1 DEF Groups
<1>5. CASE record' = record
  <2>1. \A p \in Pids : Released(proc'[p]) => record'.pid = p /\ record'.born = proc'[p].born /\ record'.boot
    BY <1>5 DEF RecordInv
  <2> QED BY <1>0, <1>1, <1>2, <1>3, <1>5, <2>1, HandOver DEF RecordInv
<1>6. CASE record' = [pid |-> sup.pid, born |-> proc[sup.pid].born, boot |-> TRUE]
  <2>1. /\ record' \in Records /\ record'.pid = sup.pid /\ record'.born = proc[sup.pid].born /\ record'.boot
    BY ONLY <1>1, <1>4, <1>6 DEF Records
  <2>2. \A p \in Pids : Released(proc[p]) => p = sup.pid BY <1>1, PidTypes DEF RecordInv
  <2>3. \A p \in Pids : Released(proc'[p]) => record'.pid = p /\ record'.born = proc'[p].born /\ record'.boot
    BY <2>1, <2>2
  <2> QED BY <1>0, <1>1, <1>2, <1>3, <2>1, <2>3, HandOver
<1> QED BY <1>5, <1>6

\* Start saves the record of the helper it inspected.
LEMMA SaveStep ==
  ASSUME IInv, UNCHANGED svcVars, saveCoreRecord
  PROVE  IInv'
<1> USE DEF IInv
<1> DEFINE mine == [pid |-> sup.pid, born |-> proc[sup.pid].born, boot |-> TRUE]
<1>0. start = "save" /\ start # "idle" /\ UNCHANGED <<proc, births>> BY DEF saveCoreRecord
<1>1. /\ ctl.step = "start" /\ ctl.op = "connect" /\ main["daemon"] \in Serving
      /\ sup.pc = "new" /\ sup.pid \in Pids /\ sup.pid # 0
  BY <1>0, StartFacts
<1>2. CASE startAborts /\ record' \in {mine, record} /\ Fault BY <1>0, <1>2, AbortStep
<1>3. CASE start' = "release" /\ record' = mine /\ UNCHANGED <<sup, faults>>
  <2>0. proc \in [Pids -> Groups] /\ sup \in Instances /\ births \in Nat BY DEF TypeOK
  <2>1. proc[sup.pid].born \in Nat BY <1>1, <2>0 DEF Groups
  <2>2. /\ record' \in Records /\ record'.pid = sup.pid /\ record'.born = proc[sup.pid].born /\ record'.boot
    BY ONLY <1>1, <1>3, <2>1 DEF Records
  <2>3. \A p \in Pids : Released(proc[p]) => p = sup.pid BY <1>1, PidTypes DEF RecordInv
  <2>4. RecordInv' BY <1>0, <1>1, <1>3, <2>2, <2>3 DEF RecordInv
  <2>5. InstanceInv' BY <1>1, <1>3 DEF InstanceInv, svcVars
  <2>6. GroupInv' BY <1>0, <1>3, Frames
  <2>7. ProofInv' BY <1>1, <1>3 DEF ProofInv
  <2>8. start' \in Starts BY <1>3 DEF Starts
  <2> QED BY <1>0, <1>1, <1>3, <2>0, <2>2, <2>4, <2>5, <2>6, <2>7, <2>8, CoreFrame
<1> QED BY <1>2, <1>3 DEF saveCoreRecord

\* The helper is released after its record is on disk.
LEMMA ReleaseStep ==
  ASSUME IInv, UNCHANGED svcVars, StartReleases
  PROVE  IInv'
<1> USE DEF IInv
<1>0. start = "release" /\ start # "idle" /\ UNCHANGED <<births, record, faults>> BY DEF StartReleases
<1>1. sup.pc = "new" /\ sup.pid \in Pids /\ sup.pid # 0 BY <1>0, StartFacts
<1>2. CASE proc[sup.pid].leader # "live"
  BY <1>0, <1>2, AbortStep DEF StartReleases
<1>3. CASE proc[sup.pid].leader = "live"
  <2> DEFINE g == proc[sup.pid]
             h == [g EXCEPT !.gate = "G"]
  <2>0. proc \in [Pids -> Groups] /\ g \in Groups /\ sup \in Instances /\ record \in Records
    BY <1>1 DEF TypeOK
  <2>1. /\ proc' = [proc EXCEPT ![sup.pid] = h] /\ start' = "ok"
        /\ sup' = [sup EXCEPT !.pc = "watch"]
    BY <1>3, <2>0 DEF StartReleases
  <2>2. h \in Groups /\ h.kind = g.kind /\ h.leader = g.leader /\ h.kids = g.kids /\ h.born = g.born
    BY ONLY <2>0 DEF Groups
  <2> HIDE DEF h
  <2>3. /\ proc' \in [Pids -> Groups] /\ proc'[sup.pid] = h
        /\ \A p \in Pids \ {sup.pid} : proc'[p] = proc[p]
    BY <1>1, <2>0, <2>1, <2>2
  <2>4. sup' \in Instances /\ sup'.pid = sup.pid /\ sup'.pc = "watch" /\ sup'.result = sup.result
    BY ONLY <2>0, <2>1 DEF Instances
  <2>5. \A p \in Pids : /\ proc'[p].leader = proc[p].leader /\ proc'[p].kids = proc[p].kids
                        /\ proc'[p].kind = proc[p].kind /\ proc'[p].born = proc[p].born
    BY <2>2, <2>3
  <2>6. \A p \in Pids : Released(proc'[p]) => record'.pid = p /\ record'.born = proc'[p].born /\ record'.boot
    BY <1>0, <2>3, <2>5 DEF RecordInv
  <2>7. record'.pid = sup.pid BY <1>0 DEF RecordInv
  <2> QED BY <1>0, <1>3, <2>0, <2>1, <2>3, <2>4, <2>5, <2>6, <2>7, HandOver
<1> QED BY <1>2, <1>3

\* Every step of Start keeps the invariant.
LEMMA StartStep ==
  ASSUME IInv, UNCHANGED svcVars, startStep
  PROVE  IInv'
<1>1. CASE VerifyInstalledLaunch BY <1>1, StartMoves DEF VerifyInstalledLaunch
<1>2. CASE StartChecks BY <1>2, StartMoves DEF StartChecks
<1>3. CASE StartSpawns BY <1>3, SpawnStep
<1>4. CASE StartInspects
  <2>0. start = "inspect" /\ UNCHANGED <<proc, births, record>> BY <1>4 DEF StartInspects
  <2>1. CASE start' = "save" /\ UNCHANGED <<sup, faults>> BY <2>0, <2>1, StartMoves
  <2>2. CASE startAborts /\ (UNCHANGED faults \/ Fault) BY <2>0, <2>2, AbortStep
  <2> QED BY <1>4, <2>1, <2>2 DEF StartInspects
<1>5. CASE saveCoreRecord BY <1>5, SaveStep
<1>6. CASE StartReleases BY <1>6, ReleaseStep
<1>7. CASE StartCleansUp BY <1>7, StartMoves DEF StartCleansUp
<1> QED BY <1>1, <1>2, <1>3, <1>4, <1>5, <1>6, <1>7 DEF startStep

\* An instance that is supervised.
LEMMA SuperviseFacts ==
  ASSUME IInv, sup.pc \notin {"none", "new"}
  PROVE  /\ main["daemon"] \in Serving /\ sup.pid \in Pids /\ sup.pid # 0
         /\ start \notin {"verify", "load", "spawn", "inspect", "save", "release"}
         /\ ctl.step \notin {"capture", "config", "restore"} /\ ~(ctl.op = "none" /\ ctl.state = "prepared")
<1> USE DEF IInv
<1>1. sup # NoInstance BY DEF NoInstance
<1> QED BY <1>1, PidTypes, InstanceServes DEF InstanceInv

\* A step of the supervisor, given what it does to the group and to the record.
LEMMA SuperviseFrame ==
  ASSUME IInv, UNCHANGED svcVars, UNCHANGED <<births, start>>, UNCHANGED faults \/ Fault,
         sup.pc \notin {"none", "new"}, sup' \in Instances, sup'.pid = sup.pid,
         sup'.pc \notin {"none", "new"}, proc' \in [Pids -> Groups], record' \in Records,
         GroupInv', ProofInv', record'.pid \in {0, sup.pid},
         \A p \in Pids : Released(proc'[p]) => record'.pid = p /\ record'.born = proc'[p].born /\ record'.boot
  PROVE  IInv'
<1> USE DEF IInv
<1>1. /\ main["daemon"] \in Serving /\ sup.pid \in Pids /\ sup.pid # 0
      /\ start \notin {"verify", "load", "spawn", "inspect", "save", "release"}
      /\ ctl.step \notin {"capture", "config", "restore"} /\ ~(ctl.op = "none" /\ ctl.state = "prepared")
  BY SuperviseFacts
<1>2. InstanceInv' BY <1>1 DEF InstanceInv, svcVars
<1>3. RecordInv' BY <1>1 DEF RecordInv
<1>4. births' \in Nat /\ start' \in Starts BY DEF TypeOK, Starts
<1> QED BY <1>1, <1>2, <1>3, <1>4, CoreFrame

\* The supervisor goes on without touching the group.
LEMMA SuperviseMoves ==
  ASSUME IInv, UNCHANGED svcVars, UNCHANGED <<proc, births, record, start>>, UNCHANGED faults \/ Fault,
         sup.pc \in {"watch", "term", "kill", "audit"}, NEW to \in {"term", "kill", "audit", "reap"},
         sup' = [sup EXCEPT !.pc = to] \/ sup' = [sup EXCEPT !.pc = to, !.ok = FALSE],
         to = "reap" /\ sup'.ok => groupEmpty(sup.pid)
  PROVE  IInv'
<1> USE DEF IInv
<1>0. proc \in [Pids -> Groups] /\ record \in Records /\ sup \in Instances BY DEF TypeOK
<1>1. sup' \in Instances /\ sup'.pid = sup.pid /\ sup'.pc = to /\ sup'.result = sup.result
  BY ONLY <1>0, to \in {"term", "kill", "audit", "reap"},
          sup' = [sup EXCEPT !.pc = to] \/ sup' = [sup EXCEPT !.pc = to, !.ok = FALSE] DEF Instances
<1>2. \A p \in Pids : Unreaped(p)' = Unreaped(p) BY <1>1 DEF Unreaped
<1>3. GroupInv' BY <1>1, <1>2 DEF GroupInv, Running
<1>4. ProofInv'
  <2>1. to = "reap" /\ sup'.ok => groupEmpty(sup.pid)' BY <1>1 DEF groupEmpty
  <2> QED BY <1>1, <2>1 DEF ProofInv
<1>5. \A p \in Pids : Released(proc'[p]) => record'.pid = p /\ record'.born = proc'[p].born /\ record'.boot
  BY DEF RecordInv
<1>6. record'.pid \in {0, sup.pid} BY SuperviseFacts DEF RecordInv
<1> QED BY <1>0, <1>1, <1>3, <1>4, <1>5, <1>6, SuperviseFrame

\* supervise signals the group it leads.
LEMMA KillStep ==
  ASSUME IInv, UNCHANGED svcVars, UNCHANGED <<births, record, start, faults>>,
         sup.pc = "kill", sup' = [sup EXCEPT !.pc = "audit"], proc' = Killed(sup.pid)
  PROVE  IInv'
<1> USE DEF IInv
<1>0. proc \in [Pids -> Groups] /\ record \in Records /\ sup \in Instances /\ sup.pid \in Pids /\ sup.pid # 0
  BY SuperviseFacts DEF TypeOK
<1>1. sup' \in Instances /\ sup'.pid = sup.pid /\ sup'.pc = "audit" /\ sup'.result = sup.result
  BY ONLY <1>0, sup' = [sup EXCEPT !.pc = "audit"] DEF Instances
<1>2. PICK h : Killed(sup.pid) = [proc EXCEPT ![sup.pid] = h] /\ Ages(sup.pid, proc[sup.pid], h)
  BY <1>0, KilledAges
<1>3. h \in Groups BY <1>2 DEF Ages
<1>4. /\ proc' \in [Pids -> Groups] /\ proc'[sup.pid] = h
      /\ \A p \in Pids : p # sup.pid => proc'[p] = proc[p]
  BY <1>0, <1>2, <1>3
<1>5. \A p \in Pids : Unreaped(p)' = Unreaped(p) BY <1>1 DEF Unreaped
<1>6. Unreaped(sup.pid) BY DEF Unreaped
<1>7. proc[sup.pid].kind \in {"helper", "core"} /\ proc[sup.pid].leader # "gone" BY DEF GroupInv, Running
<1>8. GroupInv' BY <1>1, <1>2, <1>4, <1>5, <1>6, <1>7 DEF GroupInv, Ages
<1>9. ProofInv' BY <1>1 DEF ProofInv
<1>10. \A p \in Pids : Released(proc'[p]) => record'.pid = p /\ record'.born = proc'[p].born /\ record'.boot
  BY <1>2, <1>4 DEF RecordInv, Ages
<1>11. record'.pid \in {0, sup.pid} BY <1>0 DEF RecordInv
<1> QED BY <1>0, <1>1, <1>4, <1>8, <1>9, <1>10, <1>11, SuperviseFrame

\* supervise reaps the leader and has its proof, or has none.
LEMMA ReapStep ==
  ASSUME IInv, UNCHANGED svcVars, superviseReaps
  PROVE  IInv'
<1> USE DEF IInv
<1> DEFINE g == proc[sup.pid]
           k == [g EXCEPT !.leader = "gone"]
<1>0. sup.pc = "reap" /\ UNCHANGED <<births, record, start, faults>> BY DEF superviseReaps
<1>1. /\ proc \in [Pids -> Groups] /\ record \in Records /\ sup \in Instances /\ sup.pid \in Pids /\ sup.pid # 0
      /\ g \in Groups
  BY <1>0, SuperviseFacts DEF TypeOK
<1>2. /\ sup' \in Instances /\ sup'.pid = sup.pid /\ sup'.pc = "forget" /\ sup'.result = sup.result
      /\ sup'.ok => sup.ok /\ g.leader = "zombie"
  <2>1. (sup' = [sup EXCEPT !.pc = "forget"] /\ g.leader = "zombie") \/ sup' = [sup EXCEPT !.pc = "forget", !.ok = FALSE]
    BY DEF superviseReaps
  <2> QED BY ONLY <1>1, <2>1 DEF Instances
<1>3. \A p \in Pids : p # sup.pid => proc[p].leader # "zombie" BY DEF GroupInv, Unreaped
<1>4. record'.pid \in {0, sup.pid} BY <1>0, <1>1 DEF RecordInv
<1>5. CASE g.leader = "zombie"
  <2>1. k \in Groups /\ k.leader = "gone" /\ k.kids = g.kids /\ k.kind = g.kind /\ k.gate = g.gate /\ k.born = g.born
    BY ONLY <1>1 DEF Groups
  <2>2. proc' = [proc EXCEPT ![sup.pid] = Settle(k)] BY <1>1, <1>5 DEF superviseReaps
  <2> HIDE DEF k
  <2>3. /\ Settle(k) \in Groups
        /\ Settle(k).leader = "gone" /\ ~Settle(k).kids => Settle(k) = Free
        /\ Settle(k) = k \/ Settle(k) = Free
        /\ ~g.kids => Settle(k) = Free
    BY <2>1, SettleAges DEF Settle
  <2>4. /\ proc' \in [Pids -> Groups] /\ proc'[sup.pid] = Settle(k)
        /\ \A p \in Pids : p # sup.pid => proc'[p] = proc[p]
    BY <1>1, <2>2, <2>3
  <2>5. Settle(k).leader = "gone" BY <2>1, <2>3, FreeType
  <2>6. GroupInv' BY <1>2, <1>3, <2>3, <2>4, <2>5 DEF GroupInv, Running
  <2>7. Released(Settle(k)) => Released(g) /\ Settle(k).born = g.born /\ g.kids
    BY <2>1, <2>3, FreeType DEF Released
  <2>8. ProofInv'
    <3>1. sup'.ok => ~Released(Settle(k)) BY <1>0, <1>2, <2>7 DEF ProofInv, groupEmpty
    <3> QED BY <1>0, <1>2, <2>4, <3>1 DEF ProofInv
  <2>9. \A p \in Pids : Released(proc'[p]) => record'.pid = p /\ record'.born = proc'[p].born /\ record'.boot
    BY <1>0, <1>1, <2>4, <2>7 DEF RecordInv
  <2> QED BY <1>0, <1>1, <1>2, <1>4, <2>4, <2>6, <2>8, <2>9, SuperviseFrame
<1>6. CASE g.leader # "zombie"
  <2>1. proc' = proc BY <1>6 DEF superviseReaps
  <2>2. GroupInv' BY <1>2, <1>3, <1>6, <2>1 DEF GroupInv, Running
  <2>3. ProofInv' BY <1>0, <1>2, <1>6 DEF ProofInv
  <2>4. \A p \in Pids : Released(proc'[p]) => record'.pid = p /\ record'.born = proc'[p].born /\ record'.boot
    BY <1>0, <2>1 DEF RecordInv
  <2> QED BY <1>0, <1>1, <1>2, <1>4, <2>1, <2>2, <2>3, <2>4, SuperviseFrame
<1> QED BY <1>5, <1>6

\* The record goes once the group is proven empty.
LEMMA ForgetStep ==
  ASSUME IInv, UNCHANGED svcVars, superviseForgets
  PROVE  IInv'
<1> USE DEF IInv
<1>0. sup.pc = "forget" /\ UNCHANGED <<proc, births, start>> /\ (UNCHANGED faults \/ Fault)
  BY DEF superviseForgets
<1>1. proc \in [Pids -> Groups] /\ record \in Records /\ sup \in Instances /\ sup.pid \in Pids /\ sup.pid # 0
  BY <1>0, SuperviseFacts DEF TypeOK
<1>2. /\ sup' \in Instances /\ sup'.pid = sup.pid /\ sup'.pc = "finished"
      /\ sup'.result = "proven" => sup.ok /\ record' = NoRecord
  <2>1. \/ sup' = [sup EXCEPT !.pc = "finished", !.result = "proven"] /\ sup.ok /\ record' = NoRecord
        \/ sup' = [sup EXCEPT !.pc = "finished", !.result = "unproven"]
    BY DEF superviseForgets
  <2> QED BY ONLY <1>1, <2>1 DEF Instances
<1>3. record' = record \/ (record' = NoRecord /\ sup.ok) BY DEF superviseForgets
<1>4. NoRecord \in Records /\ NoRecord.pid = 0 BY DEF NoRecord, Records
<1>5. sup.ok => \A p \in Pids : ~Released(proc[p])
  BY <1>0, <1>1, PidTypes DEF ProofInv, RecordInv
<1>6. \A p \in Pids : Released(proc'[p]) => record'.pid = p /\ record'.born = proc'[p].born /\ record'.boot
  BY <1>0, <1>3, <1>5 DEF RecordInv
<1>7. GroupInv' BY <1>0, <1>2 DEF GroupInv, Unreaped, Running
<1>8. ProofInv' BY <1>2, <1>4 DEF ProofInv
<1>9. record' \in Records /\ record'.pid \in {0, sup.pid} BY <1>1, <1>3, <1>4 DEF RecordInv
<1> QED BY <1>0, <1>1, <1>2, <1>6, <1>7, <1>8, <1>9, SuperviseFrame

\* Every step of supervise keeps the invariant.
LEMMA SuperviseStep ==
  ASSUME IInv, UNCHANGED svcVars, superviseStep
  PROVE  IInv'
<1>0. sup \in Instances BY DEF IInv, TypeOK
<1>1. CASE superviseWatches BY <1>1, SuperviseMoves DEF superviseWatches
<1>2. CASE superviseTerms BY <1>2, SuperviseMoves DEF superviseTerms
<1>3. CASE superviseKills
  <2>0. sup.pc = "kill" /\ UNCHANGED <<births, record, start>> BY <1>3 DEF superviseKills
  <2>1. CASE sup' = [sup EXCEPT !.pc = "audit"] /\ proc' = Killed(sup.pid) /\ UNCHANGED faults
    BY <2>0, <2>1, KillStep
  <2>2. CASE /\ sup' = [sup EXCEPT !.pc = "audit"] \/ sup' = [sup EXCEPT !.pc = "audit", !.ok = FALSE]
             /\ UNCHANGED proc /\ (UNCHANGED faults \/ Fault)
    BY <2>0, <2>2, SuperviseMoves
  <2> QED BY <1>3, <2>1, <2>2 DEF superviseKills
<1>4. CASE superviseAudits
  <2>0. sup.pc = "audit" /\ UNCHANGED <<proc, births, record, start>> /\ (UNCHANGED faults \/ Fault)
    BY <1>4 DEF superviseAudits
  <2>1. CASE groupEmpty(sup.pid) /\ sup' = [sup EXCEPT !.pc = "reap"]
    BY <2>0, <2>1, SuperviseMoves
  <2>2. CASE sup' = [sup EXCEPT !.pc = "reap", !.ok = FALSE]
    <3>1. ~sup'.ok BY ONLY <1>0, <2>2 DEF Instances
    <3> QED BY <2>0, <2>2, <3>1, SuperviseMoves
  <2> QED BY <1>4, <2>1, <2>2 DEF superviseAudits
<1>5. CASE superviseReaps BY <1>5, ReapStep
<1>6. CASE superviseForgets BY <1>6, ForgetStep
<1> QED BY <1>1, <1>2, <1>3, <1>4, <1>5, <1>6 DEF superviseStep

-----------------------------------------------------------------------------
(* Steps of a start-up *)

Phases == Down \cup {"config", "lock", "load", "recheck", "signal", "await", "forget",
                     "recover", "stale", "bind", "serve", "join", "gate", "cleanup", "prepared", "failed_safe"}

\* How the lock goes with a step: kept, taken, or given back.
LockMoves(m, to) ==
  \/ UNCHANGED holder /\ (to \in Inside <=> main[m] \in Inside)
  \/ holder = "none" /\ holder' = m /\ to \in Inside
  \/ main[m] \in Inside /\ to \notin Inside /\ holder' = "none"

\* A program takes, keeps or drops the daemon lock.
LEMMA LockStep ==
  ASSUME IInv, NEW m \in Mains, NEW to, main' = [main EXCEPT ![m] = to], LockMoves(m, to)
  PROVE  LockInv' /\ holder' \in Mains \cup {"none"}
<1> USE DEF IInv
<1>0. main'[m] = to /\ \A q \in Mains : q # m => main'[q] = main[q] BY DEF TypeOK
<1>1. holder \in Mains \cup {"none"} /\ "none" \notin Mains BY DEF TypeOK, Mains
<1>2. CASE UNCHANGED holder /\ (to \in Inside <=> main[m] \in Inside) BY <1>0, <1>1, <1>2 DEF LockInv
<1>3. CASE holder = "none" /\ holder' = m /\ to \in Inside BY <1>0, <1>1, <1>3 DEF LockInv
<1>4. CASE main[m] \in Inside /\ to \notin Inside /\ holder' = "none" BY <1>0, <1>1, <1>4 DEF LockInv
<1> QED BY <1>2, <1>3, <1>4 DEF LockMoves

\* A program that does not serve moves on.  The groups it leaves alone, or one
\* of them ages; the record it keeps, or removes when it names no core.
StartUp(m, to) ==
  /\ main[m] \notin Serving /\ to \in Phases /\ main' = [main EXCEPT ![m] = to] /\ LockMoves(m, to)
  /\ UNCHANGED faults \/ Fault
  /\ UNCHANGED <<births, start, sup, conns, ctl>>
  /\ sock' \in {"none", "live", "stale", "swept"} /\ gate' \in BOOLEAN /\ (m = "restore" => UNCHANGED <<sock, gate>>)
  /\ checked' \in {0, checked, births} /\ (main[m] \notin Inside => UNCHANGED checked)
  /\ net' \in {net, "clean"}
  /\ record' = record \/ (record' = NoRecord /\ main[m] = "forget")
  /\ to \in Serving => to = "serve"
  /\ m = "daemon" => to # "stopped"
  /\ m = "daemon" /\ to \in {"stale", "bind", "serve"} => record.pid = 0
  /\ to = "recover" => record'.pid = 0
  /\ to \in {"recheck", "signal", "await"} => record'.pid \in Pids
  /\ to = "forget" => \A p \in Pids : ~Released(proc[p])
  /\ to = "signal" => proc[record.pid].kind # "foreign"

\* A step of a start-up, which releases no process and takes none over.
LEMMA StartUpFrame ==
  ASSUME IInv, NEW m \in Mains, NEW to, StartUp(m, to), proc' \in [Pids -> Groups], GroupInv', ProofInv',
         \A q \in Pids : Released(proc'[q]) => Released(proc[q]) /\ proc'[q].born = proc[q].born,
         \A q \in Pids : proc'[q].kind = "foreign" => proc[q].kind = "foreign" /\ proc'[q].born = proc[q].born,
         start = "release" => proc'[sup.pid].born = proc[sup.pid].born
  PROVE  IInv'
<1> USE DEF IInv
<1>0. /\ main[m] \notin Serving /\ to \in Phases /\ main' = [main EXCEPT ![m] = to] /\ LockMoves(m, to)
      /\ UNCHANGED faults \/ Fault
      /\ UNCHANGED <<births, start, sup, conns, ctl>>
      /\ sock' \in {"none", "live", "stale", "swept"} /\ gate' \in BOOLEAN /\ (m = "restore" => UNCHANGED <<sock, gate>>)
      /\ checked' \in {0, checked, births} /\ (main[m] \notin Inside => UNCHANGED checked)
      /\ net' \in {net, "clean"}
      /\ record' = record \/ (record' = NoRecord /\ main[m] = "forget")
      /\ to \in Serving => to = "serve"
      /\ m = "daemon" => to # "stopped"
      /\ m = "daemon" /\ to \in {"stale", "bind", "serve"} => record.pid = 0
  BY DEF StartUp
<1>1. /\ main \in [Mains -> Phases] /\ main'[m] = to /\ main' \in [Mains -> Phases]
      /\ \A q \in Mains : q # m => main'[q] = main[q]
      /\ "daemon" \in Mains /\ "restore" \in Mains /\ (m = "daemon" \/ m = "restore")
  BY <1>0 DEF TypeOK, Phases, Mains
<1>2. LockInv' /\ holder' \in Mains \cup {"none"} BY <1>0, LockStep
<1>3. m # "daemon" => main'["daemon"] = main["daemon"] BY <1>1
<1>4. NoRecord.pid = 0 /\ NoRecord \in Records BY DEF NoRecord, Records
<1>5. main[m] = "forget" => /\ \A p \in Pids : ~Released(proc[p])
                            /\ main["daemon"] \notin Serving /\ sup = NoInstance /\ start = "idle"
  <2>1. main[m] = "forget" => main["daemon"] \notin Serving BY <1>1, ServingAlone DEF Inside, Serving
  <2> QED BY <2>1 DEF RecoveryInv, ServeInv
<1>6. ServeInv' BY <1>0, <1>1, <1>3 DEF ServeInv, Serving
<1>7. OpInv'
  <2>1. CASE m = "daemon"
    <3>1. ctl = Idle BY <1>0, <2>1 DEF ServeInv
    <3>2. ctl.who = "none" BY <3>1 DEF Idle
    <3>3. "none" \notin Conns BY ConnsAssumption
    <3>4. main'["daemon"] # "prepared" BY <1>0, <1>1, <2>1 DEF Serving
    <3> QED BY <1>0, <3>2, <3>3, <3>4 DEF OpInv
  <2>2. CASE m # "daemon" BY <1>0, <1>3, <2>2 DEF OpInv
  <2> QED BY <2>1, <2>2
<1>8. InstanceInv' BY <1>0, Frames
<1>9. RecordInv'
  <2>1. \A p \in Pids : Released(proc'[p]) => record'.pid = p /\ record'.born = proc'[p].born /\ record'.boot
    BY <1>0, <1>5 DEF RecordInv
  <2>2. start = "release" => record'.pid = sup.pid /\ record'.born = proc'[sup.pid].born /\ record'.boot
    BY <1>0, <1>5 DEF RecordInv
  <2>3. sup.pid # 0 => record'.pid \in {0, sup.pid} BY <1>0, <1>4 DEF RecordInv
  <2>4. main'["daemon"] \in Serving \cup {"stale", "bind", "stopped"} /\ sup.pid = 0 => record'.pid = 0
    BY <1>0, <1>1, <1>3, <1>4 DEF RecordInv
  <2> QED BY <1>0, <2>1, <2>2, <2>3, <2>4 DEF RecordInv
<1>10. RecoveryInv'
  <2>1. /\ to = "recover" => record'.pid = 0
        /\ to \in {"recheck", "signal", "await"} => record'.pid \in Pids /\ record'.pid # 0
        /\ to = "forget" => \A p \in Pids : ~Released(proc'[p])
        /\ to = "signal" => proc'[record'.pid].kind # "foreign"
    <3>1. to = "signal" => record' = record BY <1>0, <1>4, PidTypes DEF StartUp
    <3> QED BY <3>1, PidTypes DEF StartUp
  <2>2. ASSUME NEW q \in Mains, q # m
        PROVE  /\ main[q] = "recover" => record'.pid = 0
               /\ main[q] \in {"recheck", "signal", "await"} => record' = record
               /\ main[q] = "forget" => \A p \in Pids : ~Released(proc'[p])
               /\ main[q] = "signal" => record.pid \in Pids
    <3>1. main[q] \in Inside => main[m] \notin Inside BY <2>2 DEF LockInv
    <3>2. main[q] \in Inside => record' = record BY <1>0, <3>1 DEF Inside
    <3> QED BY <3>2, PidTypes DEF RecoveryInv, Inside
  <2>3. ASSUME NEW q \in Mains, q # m, main[q] = "signal", proc'[record'.pid].kind = "foreign"
        PROVE  proc'[record'.pid].born > checked'
    <3>1. main[m] \notin Inside BY <2>3 DEF LockInv, Inside
    <3>2. UNCHANGED checked BY <1>0, <3>1
    <3> QED BY <2>2, <2>3, <3>2 DEF RecoveryInv
  <2> QED BY <1>1, <2>1, <2>2, <2>3 DEF RecoveryInv
<1>11. NetInv' BY <1>0, <1>1, <1>3 DEF NetInv, Serving
<1>12. TypeOK'
  <2>1. faults' \in 0..MaxFaults /\ TypeOK BY <1>0, FaultType
  <2>2. record' \in Records /\ net' \in {"clean", "product"} /\ checked' \in 0..births'
    BY <1>0, <1>4 DEF TypeOK
  <2> QED BY ONLY <1>0, <1>1, <1>2, <2>1, <2>2, proc' \in [Pids -> Groups] DEF TypeOK, Phases
<1> QED BY <1>2, <1>6, <1>7, <1>8, <1>9, <1>10, <1>11, <1>12

\* A step of a start-up that leaves the processes alone.
LEMMA StartUpStep ==
  ASSUME IInv, NEW m \in Mains, NEW to, StartUp(m, to), UNCHANGED proc
  PROVE  IInv'
<1> USE DEF IInv
<1>1. proc' \in [Pids -> Groups] BY DEF TypeOK
<1>2. GroupInv' BY Frames DEF StartUp
<1>3. ProofInv'
  <2>1. record' = record \/ record'.pid = 0 BY DEF StartUp, NoRecord
  <2>2. sup' = sup BY DEF StartUp
  <2>3. sup'.pc = "reap" /\ sup'.ok => groupEmpty(sup.pid)' BY <2>2 DEF ProofInv, groupEmpty
  <2> QED BY <2>1, <2>2, <2>3 DEF ProofInv
<1> QED BY <1>1, <1>2, <1>3, StartUpFrame

\* What a verdict of the recovery says of the recorded process.
LEMMA Verdicts ==
  ASSUME IInv, NEW m \in Mains
  PROVE  /\ main[m] = "load" => recoverInspects \in {"done", "forget", "error", "next"}
         /\ main[m] = "load" /\ recoverInspects = "done" => record.pid = 0
         /\ main[m] = "load" /\ recoverInspects = "forget" => \A p \in Pids : ~Released(proc[p])
         /\ main[m] = "load" /\ recoverInspects = "next" => record.pid \in Pids
         /\ main[m] = "recheck" => recoverRechecks \in {"error", "next"}
         /\ main[m] = "recheck" /\ recoverRechecks = "next" => proc[record.pid].kind # "foreign"
         /\ main[m] = "await" /\ groupEmpty(record.pid) => \A p \in Pids : ~Released(proc[p])
<1> USE DEF IInv
<1>0. record.pid # 0 => record.pid \in Pids /\ proc[record.pid] \in Groups BY PidTypes DEF TypeOK
<1>1. main[m] \in Inside \ Serving => \A p \in Pids : proc[p].leader # "zombie"
  <2>1. main[m] \in Inside \ Serving => main["daemon"] \notin Serving BY ServingAlone
  <2> QED BY <2>1, PidTypes DEF ServeInv, NoInstance, GroupInv, Unreaped
<1>2. ASSUME record.pid # 0, groupEmpty(record.pid), proc[record.pid].leader # "zombie"
      PROVE  \A p \in Pids : ~Released(proc[p])
  <2>1. proc[record.pid] = Free BY <1>0, <1>2 DEF GroupInv, groupEmpty, Groups
  <2>2. ~Released(proc[record.pid]) BY <2>1, FreeType DEF Released
  <2> QED BY <2>2 DEF RecordInv
<1>3. recoverInspects = "done" => record.pid = 0 BY DEF recoverInspects
<1>4. recoverInspects = "next" => record.pid \in Pids BY <1>0 DEF recoverInspects
<1>5. recoverInspects \in {"done", "forget", "error", "next"} BY DEF recoverInspects
<1>6. recoverInspects = "forget" =>
        record.pid # 0 /\ (~record.boot \/ (proc[record.pid].leader = "gone" /\ groupEmpty(record.pid)))
  <2>1. ASSUME ~inspectCore(record.pid).bad, ~inspectCore(record.pid).found
        PROVE  proc[record.pid].leader = "gone"
    BY <2>1 DEF inspectCore
  <2> QED BY <2>1 DEF recoverInspects
<1>7. recoverInspects = "forget" => \A p \in Pids : ~Released(proc[p])
  BY <1>2, <1>6 DEF RecordInv
<1>8. recoverRechecks \in {"error", "next"} BY DEF recoverRechecks
<1>9. main[m] = "recheck" /\ recoverRechecks = "next" => proc[record.pid].kind # "foreign"
  BY DEF recoverRechecks, inspectCore
<1>10. main[m] = "await" => record.pid # 0 /\ proc[record.pid].leader # "zombie"
  BY <1>0, <1>1 DEF RecoveryInv, Inside, Serving
<1> QED BY <1>2, <1>3, <1>4, <1>5, <1>7, <1>8, <1>9, <1>10

\* Every step of run() keeps the invariant.
LEMMA MainStep ==
  ASSUME IInv, NEW m \in Mains, Launch(m) \/ mainStep(m)
  PROVE  IInv'
<1> USE DEF IInv
<1>0. sock \in {"none", "live", "stale", "swept"} /\ gate \in BOOLEAN /\ (m = "daemon" \/ m = "restore") BY DEF TypeOK, Mains
<1> USE DEF StartUp, LockMoves, Inside, Serving, Phases, Down
<1>1. CASE Launch(m)
  <2>1. StartUp(m, "config") /\ UNCHANGED proc BY <1>0, <1>1 DEF Launch
  <2> QED BY <2>1, StartUpStep
<1>2. CASE LoadInstalledServiceConfig(m)
  <2>1. (StartUp(m, "lock") \/ StartUp(m, "failed")) /\ UNCHANGED proc
    BY <1>0, <1>2 DEF LoadInstalledServiceConfig
  <2> QED BY <2>1, StartUpStep
<1>3. CASE AcquireDaemonLock(m)
  <2>1. (StartUp(m, "load") \/ StartUp(m, "failed")) /\ UNCHANGED proc
    BY <1>0, <1>3 DEF AcquireDaemonLock
  <2> QED BY <2>1, StartUpStep
<1>4. CASE RecoverLoads(m)
  <2>0. main[m] = "load" BY <1>4 DEF RecoverLoads
  <2>1. CASE exits(m, "failed") /\ (UNCHANGED faults \/ Fault)
    <3>1. StartUp(m, "failed") /\ UNCHANGED proc BY <1>0, <1>4, <2>1 DEF RecoverLoads, exits
    <3> QED BY <3>1, StartUpStep
  <2>2. CASE recoverInspects = "forget" /\ moves(m, recoverInspects, "recheck") /\ UNCHANGED faults
    <3>1. StartUp(m, "forget") /\ UNCHANGED proc BY <1>0, <1>4, <2>0, <2>2, Verdicts DEF RecoverLoads, moves
    <3> QED BY <3>1, StartUpStep
  <2>3. CASE recoverInspects = "done" /\ moves(m, recoverInspects, "recheck") /\ UNCHANGED faults
    <3>1. StartUp(m, "recover") /\ UNCHANGED proc BY <1>0, <1>4, <2>0, <2>3, Verdicts DEF RecoverLoads, moves
    <3> QED BY <3>1, StartUpStep
  <2>4. CASE recoverInspects = "next" /\ moves(m, recoverInspects, "recheck") /\ UNCHANGED faults
    <3>1. StartUp(m, "recheck") /\ UNCHANGED proc BY <1>0, <1>4, <2>0, <2>4, Verdicts DEF RecoverLoads, moves
    <3> QED BY <3>1, StartUpStep
  <2>5. recoverInspects = "error" /\ moves(m, recoverInspects, "recheck") => exits(m, "failed") BY DEF moves
  <2> QED BY <1>4, <2>0, <2>1, <2>2, <2>3, <2>4, <2>5, Verdicts DEF RecoverLoads
<1>5. CASE RecoverRechecks(m)
  <2>0. main[m] = "recheck" /\ record.pid \in Pids BY <1>5, PidTypes DEF RecoverRechecks, RecoveryInv
  <2>1. CASE recoverRechecks = "error"
    <3>1. StartUp(m, "failed") /\ UNCHANGED proc BY <1>0, <1>5, <2>1 DEF RecoverRechecks, moves, exits, coreVars
    <3> QED BY <3>1, StartUpStep
  <2>2. CASE recoverRechecks = "next"
    <3>1. StartUp(m, "signal") /\ UNCHANGED proc
      BY <1>0, <1>5, <2>0, <2>2, Verdicts DEF RecoverRechecks, moves, coreVars
    <3> QED BY <3>1, StartUpStep
  <2> QED BY <2>0, <2>1, <2>2, Verdicts
<1>6. CASE RecoverSignals(m)
  <2>0. main[m] = "signal" /\ record.pid \in Pids BY <1>6, PidTypes DEF RecoverSignals, RecoveryInv
  <2>1. StartUp(m, "failed") \/ StartUp(m, "await")
    <3>1. recoverSignals \in {"error", "next"} BY DEF recoverSignals
    <3>2. CASE recoverSignals = "error" BY <1>0, <1>6, <3>2 DEF RecoverSignals, moves, exits
    <3>3. CASE recoverSignals = "next" BY <1>0, <1>6, <2>0, <3>3 DEF RecoverSignals, moves
    <3> QED BY <3>1, <3>2, <3>3
  <2>2. CASE UNCHANGED proc BY <2>1, <2>2, StartUpStep
  <2>3. CASE proc' = Killed(record.pid)
    <3>1. PICK h : Killed(record.pid) = [proc EXCEPT ![record.pid] = h] /\ Ages(record.pid, proc[record.pid], h)
      BY <2>0, KilledAges
    <3>2. UNCHANGED <<record, start, sup>> BY <1>6 DEF RecoverSignals
    <3> HIDE DEF StartUp
    <3>3. /\ proc' \in [Pids -> Groups] /\ GroupInv' /\ ProofInv'
          /\ \A q \in Pids : Released(proc'[q]) => Released(proc[q]) /\ proc'[q].born = proc[q].born
          /\ \A q \in Pids : proc'[q].kind = "foreign" => proc[q].kind = "foreign" /\ proc'[q].born = proc[q].born
          /\ start = "release" => proc'[sup.pid].born = proc[sup.pid].born
      BY <2>0, <2>3, <3>1, <3>2, AgedInv
    <3> QED BY <2>1, <3>3, StartUpFrame
  <2> QED BY <1>6, <2>2, <2>3 DEF RecoverSignals
<1>7. CASE RecoverAwaits(m)
  <2>0. main[m] = "await" BY <1>7 DEF RecoverAwaits
  <2>1. CASE groupEmpty(record.pid)
    <3>1. StartUp(m, "forget") /\ UNCHANGED proc BY <1>0, <1>7, <2>0, <2>1, Verdicts DEF RecoverAwaits, coreVars
    <3> QED BY <3>1, StartUpStep
  <2>2. CASE ~groupEmpty(record.pid)
    <3>1. StartUp(m, "failed") /\ UNCHANGED proc BY <1>0, <1>7, <2>2 DEF RecoverAwaits, exits, coreVars
    <3> QED BY <3>1, StartUpStep
  <2> QED BY <2>1, <2>2
<1>8. CASE RecoverForgets(m)
  <2>1. (StartUp(m, "recover") \/ StartUp(m, "failed")) /\ UNCHANGED proc
    BY <1>0, <1>8 DEF RecoverForgets, moves, exits, NoRecord
  <2> QED BY <2>1, StartUpStep
<1>9. CASE RecoverNetwork(m)
  <2>0. main[m] = "recover" /\ record.pid = 0 BY <1>9 DEF RecoverNetwork, RecoveryInv
  <2>1. \/ m = "restore" /\ StartUp(m, "stopped")
        \/ m = "daemon" /\ StartUp(m, "stale")
        \/ StartUp(m, "failed")
    BY <1>0, <1>9, <2>0 DEF RecoverNetwork, exits
  <2>2. UNCHANGED proc BY <1>9 DEF RecoverNetwork
  <2> QED BY <2>1, <2>2, StartUpStep
<1> QED BY <1>1, <1>2, <1>3, <1>4, <1>5, <1>6, <1>7, <1>8, <1>9 DEF mainStep

\* Binding and removing the socket keep the invariant.
LEMMA SocketStep ==
  ASSUME IInv, RemoveStaleServiceSocket \/ NewSocketServer
  PROVE  IInv'
<1> USE DEF IInv
<1>0. /\ sock \in {"none", "live", "stale", "swept"} /\ gate \in BOOLEAN /\ "daemon" \in Mains
      /\ sup.pid = 0 \/ main["daemon"] \in Serving
  BY DEF TypeOK, Mains, ServeInv, NoInstance
<1> USE DEF StartUp, LockMoves, Inside, Serving, Phases, Down
<1>1. CASE RemoveStaleServiceSocket
  <2>0. main["daemon"] = "stale" /\ record.pid = 0 BY <1>0, <1>1 DEF RemoveStaleServiceSocket, RecordInv
  <2>1. (StartUp("daemon", "bind") \/ StartUp("daemon", "failed")) /\ UNCHANGED proc
    BY <1>0, <1>1, <2>0 DEF RemoveStaleServiceSocket, exits, coreVars
  <2> QED BY <1>0, <2>1, StartUpStep
<1>2. CASE NewSocketServer
  <2>0. main["daemon"] = "bind" /\ record.pid = 0 BY <1>0, <1>2 DEF NewSocketServer, RecordInv
  <2>1. (StartUp("daemon", "serve") \/ StartUp("daemon", "failed")) /\ UNCHANGED proc
    BY <1>0, <1>2, <2>0 DEF NewSocketServer, exits
  <2> QED BY <1>0, <2>1, StartUpStep
<1> QED BY <1>1, <1>2

-----------------------------------------------------------------------------
(* Steps of the serving daemon *)

ConnStates == {"idle", "read", "connect", "disconnect", "reply"}

\* What a step of the serving daemon that touches no process keeps.
LEMMA ServeFrame ==
  ASSUME IInv, main["daemon"] \in Serving, NEW to \in Serving, main' = [main EXCEPT !["daemon"] = to],
         UNCHANGED <<proc, births, record, holder, checked>>, UNCHANGED faults \/ Fault,
         start' \in Starts, sup' \in Instances, sock' \in {"none", "live", "stale", "swept"}, gate' \in BOOLEAN,
         conns' \in [Conns -> ConnStates], ctl' \in Operations, net' \in {"clean", "product"},
         to \notin {"serve", "join"} => \A c \in Conns : conns'[c] = "idle",
         to \notin {"serve", "join"} => sock' = "none",
         start' = "release" => start' = start /\ sup' = sup,
         sup'.pid # sup.pid => sup'.pid = 0 /\ record.pid = 0,
         to = "prepared" => net' = "clean",
         OpInv', InstanceInv', GroupInv', ProofInv'
  PROVE  IInv'
<1> USE DEF IInv
<1>1. /\ main \in [Mains -> Phases] /\ main'["daemon"] = to /\ main' \in [Mains -> Phases]
      /\ \A q \in Mains : q # "daemon" => main'[q] = main[q]
      /\ "daemon" \in Mains /\ "restore" \in Mains
  BY DEF TypeOK, Phases, Mains, Serving
<1>2. LockInv'
  <2>1. LockMoves("daemon", to) BY DEF LockMoves, Inside
  <2> QED BY <1>1, <2>1, LockStep
<1>3. ServeInv' BY <1>1 DEF ServeInv, Serving
<1>4. RecordInv'
  <2>1. sup'.pid # 0 => record.pid \in {0, sup'.pid} BY DEF RecordInv
  <2>2. sup'.pid = 0 => record.pid = 0 BY DEF RecordInv
  <2> QED BY <2>1, <2>2 DEF RecordInv
<1>5. RecoveryInv'
  <2>1. \A m \in Mains : main'[m] \notin Inside \ Serving BY <1>1, ServingAlone
  <2> QED BY <2>1 DEF RecoveryInv, Inside, Serving
<1>6. NetInv' BY <1>1 DEF NetInv, Serving
<1>7. TypeOK'
  <2>1. faults' \in 0..MaxFaults /\ TypeOK BY FaultType
  <2> QED BY ONLY <1>1, <2>1, UNCHANGED <<proc, births, record, holder, checked>>, start' \in Starts, sup' \in Instances,
                  sock' \in {"none", "live", "stale", "swept"}, gate' \in BOOLEAN, conns' \in [Conns -> ConnStates],
                  ctl' \in Operations, net' \in {"clean", "product"}
           DEF TypeOK, Phases, Starts, ConnStates
<1> QED BY <1>2, <1>3, <1>4, <1>5, <1>6, <1>7

\* The same for a step that leaves run() where it is.
LEMMA CtlFrame ==
  ASSUME IInv, main["daemon"] \in Serving, UNCHANGED <<proc, births, record, main, holder, sock, gate, checked>>,
         UNCHANGED faults \/ Fault, start' \in Starts, sup' \in Instances,
         conns' \in [Conns -> ConnStates], ctl' \in Operations, net' \in {"clean", "product"},
         UNCHANGED conns \/ main["daemon"] \in {"serve", "join"},
         start' = "release" => start' = start /\ sup' = sup,
         sup'.pid # sup.pid => sup'.pid = 0 /\ record.pid = 0,
         main["daemon"] = "prepared" => net' = "clean",
         OpInv', InstanceInv', GroupInv', ProofInv'
  PROVE  IInv'
<1> USE DEF IInv
<1>1. main' = [main EXCEPT !["daemon"] = main["daemon"]] BY DEF TypeOK
<1>2. /\ sock' \in {"none", "live", "stale", "swept"} /\ gate' \in BOOLEAN
      /\ main["daemon"] \notin {"serve", "join"} => sock' = "none" /\ \A c \in Conns : conns'[c] = "idle"
  BY DEF TypeOK, ServeInv, Serving
<1> HIDE DEF IInv
<1> QED BY <1>1, <1>2, ServeFrame

\* A connection moves that does not own the operation.
LEMMA ConnMoves ==
  ASSUME IInv, NEW c \in Conns, NEW x \in ConnStates, conns' = [conns EXCEPT ![c] = x],
         ctl.who # c, main["daemon"] \in {"serve", "join"},
         UNCHANGED <<coreVars, main, holder, sock, gate, checked, ctl, net>>
  PROVE  IInv'
<1> USE DEF IInv
<1>0. UNCHANGED <<proc, births, record, start, sup, faults>> BY DEF coreVars
<1>1. TypeOK /\ conns \in [Conns -> ConnStates] BY DEF TypeOK, ConnStates
<1>2. conns' \in [Conns -> ConnStates] /\ \A d \in Conns : d # c => conns'[d] = conns[d] BY <1>1
<1>3. OpInv' BY <1>2 DEF OpInv
<1>4. InstanceInv' /\ GroupInv' /\ ProofInv' BY <1>0, Frames
<1>5. /\ start' \in Starts /\ sup' \in Instances /\ ctl' \in Operations /\ net' \in {"clean", "product"}
      /\ main["daemon"] \in Serving
  BY <1>0, <1>1 DEF TypeOK, Starts, Serving
<1> QED BY <1>0, <1>2, <1>3, <1>4, <1>5, CtlFrame

\* A controller that has an operation in progress.
LEMMA Busy ==
  ASSUME IInv, ctl.step # "none"
  PROVE  /\ main["daemon"] \in Serving /\ main["daemon"] # "prepared" /\ ctl.op # "none" /\ ctl.who # "none"
         /\ ctl.step # "start" => start = "idle"
<1>1. ctl # Idle BY DEF Idle
<1> QED BY <1>1, InstanceServes DEF IInv, OpInv, InstanceInv

\* A Connect takes the operation.
LEMMA ConnectBeginsStep ==
  ASSUME IInv, NEW c \in Conns, ConnectBegins(c)
  PROVE  IInv'
<1> USE DEF IInv
<1>0. conns[c] = "connect" /\ ctl.op = "none" /\ UNCHANGED <<coreVars, main, holder, sock, gate, checked, net>>
  BY DEF ConnectBegins
<1>1. ctl.who # c /\ main["daemon"] \in {"serve", "join"} /\ start = "idle"
  BY <1>0, ConnsAssumption DEF OpInv, ServeInv, InstanceInv
<1>2. CASE ctl.state \in {"connected", "failed_safe"}
  <2>1. conns' = [conns EXCEPT ![c] = "reply"] /\ UNCHANGED ctl BY <1>2 DEF ConnectBegins
  <2> QED BY <1>0, <1>1, <2>1, ConnMoves DEF ConnStates
<1>3. CASE ctl.state \notin {"connected", "failed_safe"}
  <2>0. UNCHANGED <<proc, births, record, start, sup, faults>> BY <1>0 DEF coreVars
  <2>1. /\ ctl' = [state |-> "connecting", op |-> "connect", who |-> c,
                   step |-> "capture", cancelled |-> main["daemon"] # "serve"]
        /\ UNCHANGED conns
    BY <1>3 DEF ConnectBegins
  <2>2. ctl' \in Operations /\ ctl'.op = "connect" /\ ctl'.who = c /\ ctl'.step = "capture"
    BY ONLY <2>1, c \in Conns DEF Operations
  <2>3. sup = NoInstance /\ sup.pid = 0 /\ sup.pc = "none"
    BY <1>0, <1>3 DEF OpInv, InstanceInv, NoInstance
  <2>4. InstanceInv' BY <1>1, <2>0, <2>2, <2>3 DEF InstanceInv
  <2>5. OpInv' BY <1>0, <1>1, <2>1, <2>2, ConnsAssumption DEF OpInv
  <2>6. GroupInv' /\ ProofInv' BY <2>0, Frames
  <2>7. /\ start' \in Starts /\ sup' \in Instances /\ conns' \in [Conns -> ConnStates]
        /\ net' \in {"clean", "product"} /\ main["daemon"] \in Serving
    BY <1>0, <1>1, <2>0, <2>1 DEF TypeOK, Starts, Serving, ConnStates
  <2> QED BY <1>0, <1>1, <2>0, <2>1, <2>2, <2>4, <2>5, <2>6, <2>7, CtlFrame
<1> QED BY <1>2, <1>3

\* disconnect: it takes the transition, or cancels the Connect it waits for.
LEMMA DisconnectStep ==
  ASSUME IInv, NEW who \in Conns \cup {"main", "monitor"}, disconnectBegins(who),
         UNCHANGED <<coreVars, main, holder, sock, gate, checked, conns, net>>,
         main["daemon"] \in Serving, ctl.op = "none" => main["daemon"] # "prepared",
         who \in Conns => conns[who] \in {"connect", "disconnect"},
         who = "main" => main["daemon"] = "cleanup"
  PROVE  IInv'
<1> USE DEF IInv
<1>0. UNCHANGED <<proc, births, record, start, sup, faults>> BY DEF coreVars
<1>1. main["daemon"] # "prepared" BY DEF OpInv
<1>2. TypeOK /\ ctl \in Operations BY DEF TypeOK
<1>3. GroupInv' /\ ProofInv' BY <1>0, Frames
<1>4. /\ start' \in Starts /\ sup' \in Instances /\ conns' \in [Conns -> ConnStates]
      /\ net' \in {"clean", "product"}
  BY <1>0, <1>2 DEF TypeOK, Starts, ConnStates
<1>5. ctl' \in Operations /\ OpInv' /\ InstanceInv'
  <2>1. CASE ctl.op = "none"
    <3>1. ctl' = [state |-> "restoring", op |-> "disconnect", who |-> who,
                  step |-> "stop", cancelled |-> FALSE]
      BY <2>1 DEF disconnectBegins
    <3>2. ctl' \in Operations /\ ctl'.op = "disconnect" /\ ctl'.who = who /\ ctl'.step = "stop"
      BY ONLY <3>1, who \in Conns \cup {"main", "monitor"} DEF Operations
    <3>3. start = "idle" BY <2>1 DEF OpInv, InstanceInv
    <3>4. OpInv' BY <1>1, <3>2, ConnsAssumption DEF OpInv
    <3>5. InstanceInv' BY <1>0, <3>2, <3>3 DEF InstanceInv
    <3> QED BY <3>2, <3>4, <3>5
  <2>2. CASE ctl.op # "none"
    <3>1. ctl' = [ctl EXCEPT !.cancelled = TRUE] BY <2>2 DEF disconnectBegins
    <3>2. /\ ctl' \in Operations /\ ctl'.op = ctl.op /\ ctl'.who = ctl.who /\ ctl'.step = ctl.step
          /\ ctl'.state = ctl.state
      BY ONLY <1>2, <3>1 DEF Operations
    <3> QED BY <1>0, <3>2 DEF OpInv, InstanceInv
  <2> QED BY <2>1, <2>2
<1> QED BY <1>0, <1>1, <1>3, <1>4, <1>5, CtlFrame

\* Every step of a connection keeps the invariant.
LEMMA ConnStep ==
  ASSUME IInv, NEW c \in Conns, Accept(c) \/ connStep(c)
  PROVE  IInv'
<1> USE DEF IInv
<1>0. /\ conns[c] # "idle" => main["daemon"] \in {"serve", "join"}
      /\ conns[c] \in {"idle", "read", "reply"} => ctl.who # c
  BY DEF ServeInv, OpInv
<1>1. CASE Accept(c) BY <1>0, <1>1, ConnMoves DEF Accept, ConnStates
<1>2. CASE DropConnection(c) BY <1>0, <1>2, ConnMoves DEF DropConnection, ConnStates
<1>3. CASE Dispatch(c) BY <1>0, <1>3, ConnMoves DEF Dispatch, ConnStates
<1>4. CASE Reply(c) BY <1>0, <1>4, ConnMoves DEF Reply, ConnStates
<1>5. CASE ConnectBegins(c) BY <1>5, ConnectBeginsStep
<1>6. CASE DisconnectBegins(c) BY <1>0, <1>6, DisconnectStep, ConnsAssumption DEF DisconnectBegins, Serving
<1>7. CASE WaiterGivesUp(c) BY <1>0, <1>7, ConnMoves DEF WaiterGivesUp, ConnStates
<1> QED BY <1>1, <1>2, <1>3, <1>4, <1>5, <1>6, <1>7 DEF connStep

\* The daemon goes from serving to its cleanup.
LEMMA ShutdownStep ==
  ASSUME IInv, StopServing \/ ServeReturns \/ GateStops
  PROVE  IInv'
<1> USE DEF IInv
<1>0. TypeOK /\ ctl \in Operations /\ UNCHANGED <<proc, births, record, start, sup, faults, holder, checked, conns, net>>
  BY DEF TypeOK, StopServing, ServeReturns, GateStops, coreVars
<1>1. \/ main["daemon"] = "serve" /\ main' = [main EXCEPT !["daemon"] = "join"] /\ UNCHANGED <<sock, gate, checked>>
         /\ ctl' = [ctl EXCEPT !.cancelled = ctl.op = "connect"]
      \/ main["daemon"] = "join" /\ main' = [main EXCEPT !["daemon"] = "gate"] /\ UNCHANGED <<gate, checked, ctl>>
         /\ sock' = "none" /\ \A c \in Conns : conns[c] = "idle"
      \/ main["daemon"] = "gate" /\ main' = [main EXCEPT !["daemon"] = "cleanup"] /\ UNCHANGED <<sock, ctl>>
         /\ gate' = TRUE
  BY DEF StopServing, ServeReturns, GateStops, Served
<1>2. /\ ctl' \in Operations /\ ctl'.op = ctl.op /\ ctl'.who = ctl.who /\ ctl'.step = ctl.step
      /\ ctl'.state = ctl.state
  <2>1. ctl' = ctl \/ ctl' = [ctl EXCEPT !.cancelled = ctl.op = "connect"] BY <1>1
  <2> QED BY ONLY <1>0, <2>1 DEF Operations
<1>3. InstanceInv' BY <1>0, <1>2 DEF InstanceInv
<1>4. GroupInv' /\ ProofInv' BY <1>0, Frames
<1>5. /\ start' \in Starts /\ sup' \in Instances /\ conns' \in [Conns -> ConnStates]
      /\ net' \in {"clean", "product"}
  BY <1>0 DEF TypeOK, Starts, ConnStates
<1>6. sock' \in {"none", "live", "stale", "swept"} /\ gate' \in BOOLEAN BY <1>0, <1>1 DEF TypeOK
<1>7. PICK to \in {"join", "gate", "cleanup"} :
        /\ main' = [main EXCEPT !["daemon"] = to] /\ main["daemon"] \in Serving /\ main["daemon"] # "cleanup"
        /\ to # "join" => sock' = "none" /\ \A c \in Conns : conns'[c] = "idle"
  BY <1>0, <1>1 DEF Serving, ServeInv
<1>8. main'["daemon"] = to BY <1>7 DEF TypeOK, Mains
<1>9. OpInv'
  <2>1. ctl.who # "main" BY <1>7 DEF OpInv
  <2> QED BY <1>0, <1>2, <1>7, <1>8, <2>1 DEF OpInv
<1> QED BY <1>0, <1>2, <1>3, <1>4, <1>5, <1>6, <1>7, <1>9, ServeFrame DEF Serving

\* A transition ends.
LEMMA FinishStep ==
  ASSUME IInv, NEW state \in {"prepared", "connected", "failed_safe"}, finishes(state),
         ctl.step \in {"ready", "stop", "restore"}, state = "connected" => ctl.op = "connect",
         UNCHANGED <<proc, births, record, start, sup, holder, sock, gate, checked>>, UNCHANGED faults \/ Fault,
         net' \in {net, "clean"}, state = "prepared" => sup = NoInstance /\ net' = "clean"
  PROVE  IInv'
<1> USE DEF IInv
<1>0. /\ main["daemon"] \in Serving /\ main["daemon"] # "prepared" /\ ctl.op # "none" /\ ctl.who # "none"
      /\ start = "idle"
  BY Busy
<1>1. TypeOK /\ main \in [Mains -> Phases] /\ "daemon" \in Mains BY DEF TypeOK, Phases, Mains
<1>2. ctl' = [Idle EXCEPT !.state = state] BY DEF finishes
<1>3. ctl' \in Operations /\ ctl'.op = "none" /\ ctl'.who = "none" /\ ctl'.step = "none" /\ ctl'.state = state
  BY ONLY <1>2, state \in {"prepared", "connected", "failed_safe"} DEF Idle, Operations
<1>4. ctl.who \notin Conns => ctl.op # "connect" BY DEF OpInv
<1>5. /\ conns' \in [Conns -> ConnStates]
      /\ main["daemon"] \notin {"serve", "join"} => \A c \in Conns : conns'[c] = "idle"
  <2>1. conns' = [c \in Conns |-> IF c = ctl.who \/ (ctl.op = "connect" /\ conns[c] = "connect")
                                    THEN "reply" ELSE conns[c]]
    BY DEF finishes
  <2>2. \A c \in Conns : conns'[c] \in ConnStates BY <1>1, <2>1 DEF TypeOK, ConnStates
  <2>3. conns' \in [Conns -> ConnStates] BY <2>1, <2>2
  <2>4. main["daemon"] \notin {"serve", "join"} => \A c \in Conns : conns[c] = "idle" /\ c # ctl.who
    BY DEF ServeInv, OpInv
  <2> QED BY <2>1, <2>3, <2>4
<1>6. PICK to \in Serving :
        /\ main' = [main EXCEPT !["daemon"] = to] /\ main'["daemon"] = to
        /\ to = "prepared" => state = "prepared"
        /\ to \in {"serve", "join"} => main["daemon"] = to
  <2>1. CASE ctl.who = "main"
    <3>1. state # "connected" BY <1>4, <2>1, ConnsAssumption
    <3>2. main' = [main EXCEPT !["daemon"] = state] BY <2>1 DEF finishes
    <3> QED BY <1>1, <3>1, <3>2 DEF Serving
  <2>2. CASE ctl.who # "main"
    <3>1. main' = main BY <2>2 DEF finishes
    <3>2. main' = [main EXCEPT !["daemon"] = main["daemon"]] BY <1>1, <3>1
    <3> QED BY <1>0, <3>1, <3>2
  <2> QED BY <2>1, <2>2
<1>7. ctl.who = "main" => main["daemon"] = "cleanup" BY DEF OpInv
<1>8. to \notin {"serve", "join"} => main["daemon"] \notin {"serve", "join"}
  <2>1. ctl.who # "main" => main' = main BY DEF finishes
  <2> QED BY <1>6, <1>7, <2>1
<1>9. OpInv' BY <1>3, <1>6, ConnsAssumption DEF OpInv
<1>10. InstanceInv' BY <1>0, <1>3 DEF InstanceInv
<1>11. GroupInv' /\ ProofInv' BY Frames
<1>12. /\ start' \in Starts /\ sup' \in Instances /\ net' \in {"clean", "product"}
       /\ sock' \in {"none", "live", "stale", "swept"} /\ gate' \in BOOLEAN
       /\ to \notin {"serve", "join"} => sock' = "none"
  BY <1>0, <1>1, <1>8 DEF TypeOK, Starts, ServeInv, Serving
<1> QED BY <1>0, <1>3, <1>5, <1>6, <1>8, <1>9, <1>10, <1>11, <1>12, ServeFrame

\* Connect goes from one step to the next, or turns to undoing itself.
LEMMA ConnectMoves ==
  ASSUME IInv, NEW x \in {"config", "start", "ready", "stop"}, ctl' = [ctl EXCEPT !.step = x],
         ctl.step \in {"capture", "config", "start", "ready"},
         UNCHANGED <<proc, births, record, sup, main, holder, sock, gate, checked, conns>>, UNCHANGED faults \/ Fault,
         start' = "idle" \/ (x = "start" /\ start' = "verify"),
         x \in {"config", "start"} => ctl.step \in {"capture", "config"},
         net' \in {"clean", "product"}
  PROVE  IInv'
<1> USE DEF IInv
<1>0. TypeOK /\ ctl \in Operations /\ ctl.op = "connect" BY DEF TypeOK, OpInv
<1>1. main["daemon"] \in Serving /\ main["daemon"] # "prepared" /\ ctl.who # "none" BY Busy
<1>2. ctl' \in Operations /\ ctl'.op = "connect" /\ ctl'.who = ctl.who /\ ctl'.step = x /\ ctl'.state = ctl.state
  BY ONLY <1>0, x \in {"config", "start", "ready", "stop"}, ctl' = [ctl EXCEPT !.step = x] DEF Operations
<1>3. OpInv' BY <1>0, <1>1, <1>2 DEF OpInv
<1>4. InstanceInv' BY <1>2 DEF InstanceInv
<1>5. GroupInv' /\ ProofInv' BY Frames
<1>6. start' \in Starts /\ sup' \in Instances /\ conns' \in [Conns -> ConnStates]
  BY <1>0 DEF TypeOK, Starts, ConnStates
<1> QED BY <1>1, <1>2, <1>3, <1>4, <1>5, <1>6, CtlFrame

\* The controller stops the core: asks, and takes the supervisor's answer.
LEMMA StopStep ==
  ASSUME IInv, StopCore
  PROVE  IInv'
<1> USE DEF IInv
<1>0. /\ ctl.step = "stop" /\ UNCHANGED <<proc, births, record, start, holder, sock, gate, checked, net>>
      /\ UNCHANGED faults \/ Fault
  BY DEF StopCore
<1>1. /\ main["daemon"] \in Serving /\ main["daemon"] # "prepared" /\ ctl.op # "none" /\ ctl.who # "none"
      /\ start = "idle"
  BY <1>0, Busy
<1>2. /\ TypeOK /\ ctl \in Operations /\ sup \in Instances /\ net' \in {"clean", "product"}
      /\ start' \in Starts /\ conns \in [Conns -> ConnStates]
  BY <1>0 DEF TypeOK, Starts, ConnStates
<1>3. CASE sup.pid # 0 /\ sup' = [sup EXCEPT !.asked = TRUE] /\ UNCHANGED <<ctl, conns, main>>
  <2>1. /\ sup' \in Instances /\ sup'.pid = sup.pid /\ sup'.pc = sup.pc /\ sup'.ok = sup.ok
        /\ sup'.result = sup.result
    BY ONLY <1>2, <1>3 DEF Instances
  <2>2. InstanceInv' BY <1>0, <1>1, <1>3, <2>1 DEF InstanceInv
  <2>3. GroupInv' BY <1>0, <2>1 DEF GroupInv, Unreaped
  <2>4. ProofInv' BY <1>0, <2>1 DEF ProofInv, groupEmpty, Released
  <2>5. OpInv' BY <1>3, Frames
  <2> QED BY <1>0, <1>1, <1>2, <1>3, <2>1, <2>2, <2>3, <2>4, <2>5, CtlFrame
<1>4. CASE /\ sup.pid = 0 \/ (sup.pc = "finished" /\ sup.result = "proven")
           /\ ctl' = [ctl EXCEPT !.step = "restore", !.state = "restoring"]
           /\ sup' = NoInstance /\ UNCHANGED <<conns, main>>
  <2>1. ctl' \in Operations /\ ctl'.op = ctl.op /\ ctl'.who = ctl.who /\ ctl'.step = "restore"
    BY ONLY <1>2, <1>4 DEF Operations
  <2>2. sup' \in Instances /\ sup'.pid = 0 /\ sup'.pc = "none" /\ sup'.result = "none"
    BY ONLY <1>4 DEF NoInstance, Instances
  <2>3. record.pid = 0 BY <1>1, <1>4 DEF RecordInv, ProofInv
  <2>4. InstanceInv' BY <1>0, <1>1, <1>4, <2>1, <2>2 DEF InstanceInv
  <2>5. GroupInv'
    <3>1. \A p \in Pids : proc[p].leader # "zombie" BY <1>4, PidTypes DEF GroupInv, Unreaped
    <3> QED BY <1>0, <2>2, <3>1 DEF GroupInv, Running
  <2>6. ProofInv' BY <2>2 DEF ProofInv
  <2>7. OpInv' BY <1>1, <1>4, <2>1 DEF OpInv
  <2> QED BY <1>0, <1>1, <1>2, <1>4, <2>1, <2>2, <2>3, <2>4, <2>5, <2>6, <2>7, CtlFrame
<1>5. CASE finishes("failed_safe") /\ UNCHANGED sup BY <1>0, <1>5, FinishStep
<1> QED BY <1>3, <1>4, <1>5 DEF StopCore

\* Every step of the controller's operation keeps the invariant.
LEMMA CtlStep ==
  ASSUME IInv, ctlStep \/ CleanupBegins
  PROVE  IInv'
<1> USE DEF IInv
<1>0. net \in {"clean", "product"} BY DEF TypeOK
<1>1. CASE ConnectCaptures
  <2>1. start = "idle" BY <1>1, Busy DEF ConnectCaptures
  <2> QED BY <1>0, <1>1, <2>1, ConnectMoves DEF ConnectCaptures
<1>2. CASE WriteInstalledConfig
  <2>1. start = "idle" BY <1>2, Busy DEF WriteInstalledConfig
  <2> QED BY <1>0, <1>2, <2>1, ConnectMoves DEF WriteInstalledConfig
<1>3. CASE ConnectStarted BY <1>0, <1>3, ConnectMoves DEF ConnectStarted
<1>4. CASE ConnectCompletes
  <2>0. ctl.step = "ready" /\ UNCHANGED <<proc, births, record, start, sup, holder, sock, gate, checked, net>>
    BY <1>4 DEF ConnectCompletes
  <2>1. ctl.op = "connect" /\ start = "idle" BY <2>0, Busy DEF OpInv
  <2>2. CASE finishes("connected") /\ UNCHANGED faults BY <2>0, <2>1, <2>2, FinishStep
  <2>3. CASE ctl' = [ctl EXCEPT !.step = "stop"] /\ UNCHANGED <<conns, main>> /\ (UNCHANGED faults \/ Fault)
    BY <1>0, <2>0, <2>1, <2>3, ConnectMoves
  <2> QED BY <1>4, <2>2, <2>3 DEF ConnectCompletes
<1>5. CASE StopCore BY <1>5, StopStep
<1>6. CASE RestoreNetwork
  <2>0. ctl.step = "restore" /\ UNCHANGED <<proc, births, record, start, sup, holder, sock, gate, checked>>
    BY <1>6 DEF RestoreNetwork
  <2>1. sup = NoInstance BY <2>0 DEF InstanceInv
  <2>2. CASE net' = "clean" /\ finishes("prepared") /\ UNCHANGED faults BY <2>0, <2>1, <2>2, FinishStep
  <2>3. CASE UNCHANGED net /\ finishes("failed_safe") /\ Fault BY <2>0, <2>3, FinishStep
  <2> QED BY <1>6, <2>2, <2>3 DEF RestoreNetwork
<1>7. CASE MonitorRestores
  <2>1. /\ ctl.state = "connected" /\ sup.pc = "finished" /\ disconnectBegins("monitor")
        /\ UNCHANGED <<coreVars, main, holder, sock, gate, checked, conns, net>>
    BY <1>7 DEF MonitorRestores
  <2>2. main["daemon"] \in Serving BY <2>1, SuperviseFacts
  <2>3. main["daemon"] # "prepared" BY <2>1 DEF OpInv
  <2> QED BY <2>1, <2>2, <2>3, DisconnectStep, ConnsAssumption
<1>8. CASE CleanupBegins
  <2>1. /\ main["daemon"] = "cleanup" /\ disconnectBegins("main")
        /\ UNCHANGED <<coreVars, main, holder, sock, gate, checked, conns, net>>
    BY <1>8 DEF CleanupBegins
  <2> QED BY <2>1, DisconnectStep, ConnsAssumption DEF Serving
<1> QED BY <1>1, <1>2, <1>3, <1>4, <1>5, <1>6, <1>7, <1>8 DEF ctlStep

-----------------------------------------------------------------------------
(* The end of a service, of a machine *)

\* What a dead service leaves: no zombie, no helper that waits, no new core.
LEMMA Orphans ==
  ASSUME IInv, ServiceDies
  PROVE  /\ proc' \in [Pids -> Groups]
         /\ \A p \in Pids : proc'[p].leader # "zombie"
         /\ \A p \in Pids : proc'[p].leader = "gone" /\ ~proc'[p].kids => proc'[p] = Free
         /\ \A p \in Pids : Released(proc'[p]) => Released(proc[p]) /\ proc'[p].born = proc[p].born
         /\ \A p \in Pids : proc'[p].kind = "foreign" => proc[p].kind = "foreign" /\ proc'[p].born = proc[p].born
<1> USE DEF IInv
<1> DEFINE After(p) == IF p # sup.pid THEN proc[p]
                       ELSE IF proc[p].leader = "zombie"
                              THEN Settle([proc[p] EXCEPT !.leader = "gone"])
                              ELSE [proc[p] EXCEPT !.gate = IF @ = "shut" THEN "eof" ELSE @]
<1>0. proc \in [Pids -> Groups] BY DEF TypeOK
<1>1. proc' = [p \in Pids |-> After(p)] BY DEF ServiceDies
<1>2. ASSUME NEW p \in Pids
      PROVE  /\ After(p) \in Groups /\ After(p).leader # "zombie"
             /\ After(p).leader = "gone" /\ ~After(p).kids => After(p) = Free
             /\ Released(After(p)) => Released(proc[p]) /\ After(p).born = proc[p].born
             /\ After(p).kind = "foreign" => proc[p].kind = "foreign" /\ After(p).born = proc[p].born
  <2> DEFINE g == proc[p]
  <2>0. g \in Groups /\ (g.leader = "gone" /\ ~g.kids => g = Free) BY <1>0 DEF GroupInv
  <2>1. CASE p # sup.pid
    <3>1. After(p) = g /\ g.leader # "zombie" BY <2>1 DEF GroupInv, Unreaped
    <3> QED BY <2>0, <3>1
  <2>2. CASE p = sup.pid /\ g.leader = "zombie"
    <3> DEFINE k == [g EXCEPT !.leader = "gone"]
    <3>1. k \in Groups /\ k.leader = "gone" /\ k.kind = g.kind /\ k.gate = g.gate /\ k.born = g.born
      BY ONLY <2>0 DEF Groups
    <3>2. After(p) = Settle(k) BY <2>2
    <3> HIDE DEF k, After
    <3> QED BY <3>1, <3>2, SettleAges, FreeType DEF Released
  <2>3. CASE p = sup.pid /\ g.leader # "zombie"
    <3> DEFINE k == [g EXCEPT !.gate = IF @ = "shut" THEN "eof" ELSE @]
    <3>1. /\ k \in Groups /\ k.leader = g.leader /\ k.kind = g.kind /\ k.kids = g.kids /\ k.born = g.born
          /\ k.gate = (IF g.gate = "shut" THEN "eof" ELSE g.gate)
      BY ONLY <2>0 DEF Groups
    <3>2. g.gate # "shut" => k = g BY ONLY <2>0 DEF Groups
    <3>3. After(p) = k BY <2>3
    <3> HIDE DEF k, After
    <3> QED BY <2>0, <2>3, <3>1, <3>2, <3>3, FreeType DEF Released
  <2> QED BY <2>1, <2>2, <2>3
<1> HIDE DEF After
<1>3. \A p \in Pids : proc'[p] = After(p) BY <1>1
<1>4. proc' \in [Pids -> Groups] BY <1>1, <1>2
<1> QED BY <1>2, <1>3, <1>4

\* The process of the daemon ends and takes what it kept in memory with it.
LEMMA DiesStep ==
  ASSUME IInv, ServiceDies, NEW to \in {"stopped", "failed"}, main' = [main EXCEPT !["daemon"] = to],
         LockMoves("daemon", to), conns' = [c \in Conns |-> "idle"], ctl' = Idle, UNCHANGED <<gate, checked, net>>,
         UNCHANGED faults \/ Fault, sock' \in {"none", "live", "stale", "swept"},
         to = "stopped" => main["daemon"] = "prepared" /\ sock' = "none"
  PROVE  IInv'
<1> USE DEF IInv
<1>0. sup' = NoInstance /\ start' = "idle" /\ UNCHANGED <<births, record>> BY DEF ServiceDies
<1>1. /\ proc' \in [Pids -> Groups]
      /\ \A p \in Pids : proc'[p].leader # "zombie"
      /\ \A p \in Pids : proc'[p].leader = "gone" /\ ~proc'[p].kids => proc'[p] = Free
      /\ \A p \in Pids : Released(proc'[p]) => Released(proc[p]) /\ proc'[p].born = proc[p].born
      /\ \A p \in Pids : proc'[p].kind = "foreign" => proc[p].kind = "foreign" /\ proc'[p].born = proc[p].born
  BY Orphans
<1>2. /\ TypeOK /\ main \in [Mains -> Phases] /\ main'["daemon"] = to /\ main' \in [Mains -> Phases]
      /\ main'["restore"] = main["restore"] /\ "daemon" \in Mains
  BY DEF TypeOK, Phases, Mains, Down
<1>3. sup'.pid = 0 /\ sup'.pc = "none" /\ sup'.result = "none" /\ sup' \in Instances
  BY ONLY <1>0 DEF NoInstance, Instances
<1>4. /\ ctl'.op = "none" /\ ctl'.who = "none" /\ ctl'.step = "none" /\ ctl'.state = "prepared"
      /\ ctl' \in Operations
  BY ONLY ctl' = Idle DEF Idle, Operations
<1>5. conns' \in [Conns -> ConnStates] /\ \A c \in Conns : conns'[c] = "idle" BY DEF ConnStates
<1>6. LockInv' /\ holder' \in Mains \cup {"none"} BY <1>2, LockStep
<1>7. ServeInv' BY <1>0, <1>2, <1>5 DEF ServeInv
<1>8. OpInv' BY <1>2, <1>4, ConnsAssumption DEF OpInv
<1>9. InstanceInv' BY <1>0, <1>3, <1>4 DEF InstanceInv
<1>10. GroupInv' BY <1>1, <1>3 DEF GroupInv, Running
<1>11. ProofInv' BY <1>3 DEF ProofInv
<1>12. RecordInv'
  <2>1. main["daemon"] = "prepared" => record.pid = 0
    BY DEF OpInv, InstanceInv, NoInstance, RecordInv, Serving
  <2> QED BY <1>0, <1>1, <1>2, <1>3, <2>1 DEF RecordInv, Serving
<1>13. RecoveryInv'
  <2>1. main["restore"] = "signal" => record.pid \in Pids BY PidTypes DEF RecoveryInv, Mains
  <2> QED BY <1>0, <1>1, <1>2, <2>1 DEF RecoveryInv, Mains
<1>14. NetInv' BY <1>2 DEF NetInv
<1>15. TypeOK'
  <2>1. faults' \in 0..MaxFaults BY FaultType
  <2> QED BY ONLY <1>0, <1>1, <1>2, <1>3, <1>4, <1>5, <1>6, <2>1, UNCHANGED <<gate, checked, net>>,
                  sock' \in {"none", "live", "stale", "swept"}
           DEF TypeOK, Phases, ConnStates
<1> QED BY <1>6, <1>7, <1>8, <1>9, <1>10, <1>11, <1>12, <1>13, <1>14, <1>15

\* The daemon returns after its cleanup, or dies at any step.
LEMMA DaemonEnds ==
  ASSUME IInv, CleanupReturns \/ DaemonDies
  PROVE  IInv'
<1> USE DEF IInv
<1>0. sock \in {"none", "live", "stale", "swept"} /\ "daemon" \in Mains BY DEF TypeOK, Mains
<1>1. CASE CleanupReturns
  <2>0. sock = "none" BY <1>1 DEF CleanupReturns, ServeInv
  <2> QED BY <1>0, <1>1, <2>0, DiesStep DEF CleanupReturns, exits, LockMoves, Inside, Serving
<1>2. CASE DaemonDies
  <2>1. LockMoves("daemon", "failed")
    BY <1>0, <1>2 DEF DaemonDies, LockMoves, LockInv, Inside, Serving, Down
  <2>2. sock' \in {"none", "live", "stale", "swept"} BY <1>0, <1>2 DEF DaemonDies
  <2> QED BY <1>2, <2>1, <2>2, DiesStep DEF DaemonDies
<1> QED BY <1>1, <1>2

\* The machine restarts: no process is left, the files are.
LEMMA RebootStep == ASSUME IInv, Reboot PROVE IInv'
<1> USE DEF IInv
<1>0. /\ proc' = [p \in Pids |-> Free] /\ sup' = NoInstance /\ start' = "idle" /\ UNCHANGED <<births, gate, net>>
      /\ checked' = 0 /\ record' = [record EXCEPT !.boot = record.pid = 0] /\ main' = [m \in Mains |-> "down"]
      /\ holder' = "none" /\ conns' = [c \in Conns |-> "idle"] /\ ctl' = Idle /\ Fault
  BY DEF Reboot, MachineRestarts
<1>1. TypeOK /\ record \in Records /\ sock' \in {"none", "live", "stale", "swept"} BY DEF TypeOK, Reboot
<1>2. record' \in Records BY ONLY <1>0, <1>1 DEF Records
<1>3. sup'.pid = 0 /\ sup'.pc = "none" /\ sup'.result = "none" /\ sup' \in Instances
  BY ONLY <1>0 DEF NoInstance, Instances
<1>4. /\ ctl'.op = "none" /\ ctl'.who = "none" /\ ctl'.step = "none" /\ ctl'.state = "prepared"
      /\ ctl' \in Operations
  BY ONLY <1>0 DEF Idle, Operations
<1>5. conns' \in [Conns -> ConnStates] /\ \A c \in Conns : conns'[c] = "idle" BY <1>0 DEF ConnStates
<1>6. \A m \in Mains : main'[m] = "down" BY <1>0
<1>7. main' \in [Mains -> Phases] /\ "daemon" \in Mains /\ "none" \notin Mains BY <1>0 DEF Phases, Down, Mains
<1>8. proc' \in [Pids -> Groups] /\ \A p \in Pids : proc'[p] = Free BY <1>0, FreeType
<1>9. LockInv' BY <1>0, <1>6, <1>7 DEF LockInv, Inside, Serving
<1>10. ServeInv' BY <1>0, <1>5, <1>6, <1>7 DEF ServeInv
<1>11. OpInv' BY <1>4, <1>6, <1>7, ConnsAssumption DEF OpInv
<1>12. InstanceInv' BY <1>0, <1>3, <1>4 DEF InstanceInv
<1>13. GroupInv' BY <1>3, <1>8, FreeType DEF GroupInv, Running
<1>14. ProofInv' BY <1>3 DEF ProofInv
<1>15. RecordInv' BY <1>0, <1>3, <1>6, <1>7, <1>8, FreeType DEF RecordInv, Released, Serving
<1>16. RecoveryInv' BY <1>6 DEF RecoveryInv
<1>17. NetInv' BY <1>6, <1>7 DEF NetInv
<1>18. TypeOK'
  <2>1. faults' \in 0..MaxFaults /\ checked' \in 0..births' BY <1>0, <1>1, FaultType DEF TypeOK
  <2> QED BY ONLY <1>0, <1>1, <1>2, <1>3, <1>4, <1>5, <1>7, <1>8, <2>1 DEF TypeOK, Phases, ConnStates
<1> QED BY <1>9, <1>10, <1>11, <1>12, <1>13, <1>14, <1>15, <1>16, <1>17, <1>18

\* The runtime directory comes back, and with it an empty socket path.
LEMMA DirectoryStep == ASSUME IInv, InstallerMakesDirectory PROVE IInv'
<1> USE DEF IInv
<1>1. /\ UNCHANGED <<proc, births, record, start, sup, faults, main, holder, gate, checked, conns, ctl, net>>
      /\ sock' = "none"
  BY DEF InstallerMakesDirectory, coreVars
<1>2. ServeInv' BY <1>1 DEF ServeInv
<1>3. TypeOK' BY <1>1 DEF TypeOK
<1> QED BY <1>1, <1>2, <1>3, Frames

-----------------------------------------------------------------------------
(* The theorems *)

\* A machine on which the product was never started satisfies the invariant.
LEMMA InitInv == Init => IInv
<1> SUFFICES ASSUME Init PROVE IInv OBVIOUS
<1>0. /\ proc = [p \in Pids |-> Free] /\ births = 0 /\ record = NoRecord /\ start = "idle" /\ sup = NoInstance
      /\ faults = 0 /\ main = [m \in Mains |-> "down"] /\ holder = "none" /\ sock = "none" /\ gate = FALSE
      /\ conns = [c \in Conns |-> "idle"] /\ ctl = Idle /\ net = "clean" /\ checked = 0
  BY DEF Init, CoreInit
<1>1. proc \in [Pids -> Groups] /\ \A p \in Pids : proc[p] = Free BY <1>0, FreeType
<1>2. sup.pid = 0 /\ sup.pc = "none" /\ sup.result = "none" /\ sup \in Instances
  BY ONLY <1>0 DEF NoInstance, Instances
<1>3. /\ ctl.op = "none" /\ ctl.who = "none" /\ ctl.step = "none" /\ ctl.state = "prepared" /\ ctl \in Operations
  BY ONLY <1>0 DEF Idle, Operations
<1>4. record.pid = 0 /\ record \in Records BY ONLY <1>0 DEF NoRecord, Records
<1>5. conns \in [Conns -> ConnStates] /\ \A c \in Conns : conns[c] = "idle" BY <1>0 DEF ConnStates
<1>6. /\ main \in [Mains -> Phases] /\ "daemon" \in Mains /\ "none" \notin Mains
      /\ \A m \in Mains : main[m] = "down"
  BY <1>0 DEF Phases, Down, Mains
<1>7. births \in Nat /\ checked \in 0..births /\ faults \in 0..MaxFaults BY <1>0, MaxFaultsAssumption
<1>8. TypeOK BY ONLY <1>0, <1>1, <1>2, <1>3, <1>4, <1>5, <1>6, <1>7 DEF TypeOK, Phases, ConnStates
<1>9. LockInv BY <1>0, <1>6 DEF LockInv, Inside, Serving
<1>10. ServeInv BY <1>0, <1>5, <1>6 DEF ServeInv
<1>11. OpInv BY <1>3, <1>6, ConnsAssumption DEF OpInv
<1>12. InstanceInv BY <1>0, <1>2, <1>3 DEF InstanceInv
<1>13. GroupInv BY <1>1, <1>2, FreeType DEF GroupInv, Running
<1>14. ProofInv BY <1>2 DEF ProofInv
<1>15. RecordInv BY <1>0, <1>1, <1>2, <1>4, FreeType DEF RecordInv, Released
<1>16. RecoveryInv BY <1>6 DEF RecoveryInv
<1>17. NetInv BY <1>0 DEF NetInv
<1> QED BY <1>8, <1>9, <1>10, <1>11, <1>12, <1>13, <1>14, <1>15, <1>16, <1>17 DEF IInv

\* Every step keeps the invariant.
LEMMA NextInv == IInv /\ [Next]_vars => IInv'
<1> SUFFICES ASSUME IInv, [Next]_vars PROVE IInv' OBVIOUS
<1>1. CASE \E m \in Mains : Launch(m) \/ mainStep(m) BY <1>1, MainStep
<1>2. CASE daemonStep
  BY <1>2, SocketStep, ShutdownStep, CtlStep, DaemonEnds DEF daemonStep
<1>3. CASE \E c \in Conns : Accept(c) \/ connStep(c) BY <1>3, ConnStep
<1>4. CASE StopServing BY <1>4, ShutdownStep
<1>5. CASE ctlStep BY <1>5, CtlStep
<1>6. CASE coreStep BY <1>6, StartStep, SuperviseStep DEF coreStep
<1>7. CASE \E p \in Pids : procStep(p) \/ othersStep(p)
  BY <1>7, ProcessStep, RecycleStep DEF procStep, othersStep
<1>8. CASE DaemonDies BY <1>8, DaemonEnds
<1>9. CASE Reboot BY <1>9, RebootStep
<1>10. CASE InstallerMakesDirectory BY <1>10, DirectoryStep
<1>11. CASE UNCHANGED vars
  <2>1. UNCHANGED <<proc, births, record, start, sup, faults, main, holder, sock, gate, checked, conns, ctl, net>>
    BY <1>11 DEF vars, coreVars, svcVars
  <2>2. TypeOK' BY <2>1 DEF TypeOK, IInv
  <2> QED BY <2>1, <2>2, Frames DEF IInv
<1> QED BY <1>1, <1>2, <1>3, <1>4, <1>5, <1>6, <1>7, <1>8, <1>9, <1>10, <1>11 DEF Next

\* The service keeps its inductive invariant: one program at a time beyond the
\* daemon lock, one instance at a time, and one record that names its core.
THEOREM ServiceInvariant == Spec => []IInv
<1>1. IInv /\ [Next]_vars => IInv' BY NextInv
<1> QED BY <1>1, InitInv, PTL DEF Spec

\* Every core, and every helper that was released to become one, is named by
\* the journal with its birth and this boot: saveCoreRecord comes before the
\* byte on the gate, and only a proof of an empty group removes the record.
THEOREM CoreJournaled == Spec => []CoreIsJournaled
<1>1. IInv => CoreIsJournaled BY DEF IInv, RecordInv, CoreIsJournaled, Released
<1> QED BY <1>1, ServiceInvariant, PTL

\* supervise never signals a group that is not the product's, and recoverCore only
\* one that took the recorded pid after the recheck.
THEOREM OwnSignals == Spec => []SignalsOwnOnly
<1>1. IInv => SignalsOwnOnly BY DEF IInv, GroupInv, RecoveryInv, SignalsOwnOnly, Running
<1> QED BY <1>1, ServiceInvariant, PTL

\* A daemon that returned without an error leaves neither core nor record nor
\* socket nor a network that is the product's.
THEOREM StoppedClean == Spec => []StoppedLeavesNothing
<1>1. IInv => StoppedLeavesNothing
  <2> SUFFICES ASSUME IInv, main["daemon"] = "stopped"
               PROVE  /\ net = "clean" /\ record.pid = 0 /\ sock = "none"
                      /\ \A p \in Pids : proc[p].kind # "core"
    BY DEF StoppedLeavesNothing
  <2>1. sup.pid = 0 BY DEF IInv, ServeInv, Serving, NoInstance
  <2>2. record.pid = 0 BY <2>1 DEF IInv, RecordInv
  <2>3. \A p \in Pids : proc[p].kind # "core" BY <2>2, PidTypes DEF IInv, RecordInv, Released
  <2> QED BY <2>2, <2>3 DEF IInv, NetInv, ServeInv
<1> QED BY <1>1, ServiceInvariant, PTL

\* The steps that hand the network back are taken when the journal is empty.
LEMMA HandBack ==
  ASSUME IInv, Next, net = "product", net' = "clean"
  PROVE  record.pid = 0
<1> USE DEF IInv
<1>1. net' # net OBVIOUS
<1>2. CASE \E m \in Mains : Launch(m) \/ mainStep(m)
  <2>1. PICK m \in Mains : RecoverNetwork(m)
    BY <1>1, <1>2 DEF mainStep, Launch, LoadInstalledServiceConfig, AcquireDaemonLock, RecoverLoads,
                      RecoverRechecks, RecoverSignals, RecoverAwaits, RecoverForgets
  <2> QED BY <2>1 DEF RecoverNetwork, RecoveryInv
<1>3. CASE ctlStep
  <2>1. RestoreNetwork
    BY <1>1, <1>3 DEF ctlStep, ConnectCaptures, WriteInstalledConfig, ConnectStarted, ConnectCompletes,
                      StopCore, MonitorRestores
  <2>2. sup.pid = 0 /\ main["daemon"] \in Serving
    BY <2>1, Busy DEF RestoreNetwork, InstanceInv, NoInstance
  <2> QED BY <2>2 DEF RecordInv
<1>4. ~daemonStep
  BY <1>1 DEF daemonStep, RemoveStaleServiceSocket, NewSocketServer, ServeReturns, GateStops,
              CleanupBegins, CleanupReturns
<1>5. \A c \in Conns : ~(Accept(c) \/ connStep(c))
  BY <1>1 DEF Accept, connStep, DropConnection, Dispatch, Reply, ConnectBegins, DisconnectBegins, WaiterGivesUp
<1>6. ~StopServing /\ ~DaemonDies /\ ~Reboot /\ ~InstallerMakesDirectory
  BY <1>1 DEF StopServing, DaemonDies, Reboot, InstallerMakesDirectory
<1>7. ~coreStep /\ \A p \in Pids : ~(procStep(p) \/ othersStep(p))
  BY <1>1 DEF coreStep, procStep, othersStep, svcVars
<1> QED BY <1>2, <1>3, <1>4, <1>5, <1>6, <1>7 DEF Next

\* Whichever program hands the network back, the daemon's Disconnect or a
\* start-up's Recover, no core and no descendant of one lives at that step.
THEOREM CoreBeforeNetwork == Spec => CoreGoneFirst
<1>1. ASSUME IInv, [Next]_vars
      PROVE  [net = "product" /\ net' = "clean" => \A p \in Pids : proc[p].kind # "core"]_vars
  <2>1. SUFFICES ASSUME Next, net = "product", net' = "clean", NEW p \in Pids PROVE proc[p].kind # "core"
    BY <1>1
  <2>2. record.pid = 0 /\ p # 0 BY <1>1, <2>1, HandBack, PidTypes
  <2> QED BY <1>1, <2>2 DEF IInv, RecordInv, Released
<1>2. IInv /\ [Next]_vars => [net = "product" /\ net' = "clean" => \A p \in Pids : proc[p].kind # "core"]_vars
  BY <1>1
<1> QED BY <1>2, ServiceInvariant, PTL DEF Spec, CoreGoneFirst

-----------------------------------------------------------------------------
(***************************************************************************)
(* The installer of the service: theorems about MacInstaller, for any      *)
(* number of installers, invocations and failures.  The service and its    *)
(* installer share no variable here.                                       *)
(*                                                                         *)
(* The argument follows installer.lock: an installer that does not hold it *)
(* has moved nothing (Blank), and the one that does goes past a check of   *)
(* the registration, the daemon or the network only when it passed         *)
(* (QuietAt).  What is in place, put aside and claimed at each step        *)
(* (Place, Claim) then says who owns the certificate.                      *)
(***************************************************************************)

\* What the proofs use of MacInstaller's assumptions.
InstallBounds == MaxRuns \in Nat /\ "none" \notin Installers

\* The steps of an invocation.
Stops   == {"stop", "unregister", "await", "restore"}
Fresh   == {"off", "preflight", "payload", "lock", "revalidate"}
Reads   == {"owner", "status", "disconnect"}
Stages  == {"moveOld", "movePlist", "moveStage", "writePlist", "undoNew"}
Boots   == {"bootstrap", "waitIdle", "checkCA", "recordCA", "addCA"}
Removes == {"receipt", "dropPlist", "dropRoot"}
Backs   == {"unca", "moveFailed", "failPlist", "moveBack"}
Ends    == {"undoOld", "undoPlist", "startOld"}
Pcs     == Stops \cup Fresh \cup Reads \cup {"stage"} \cup Stages
             \cup Boots \cup Removes \cup Backs \cup Ends
Outside == Fresh \ {"revalidate"}    \* without the lock

Runs == [pc : Pcs, id : 0..MaxRuns, mode : {"install", "uninstall"},
         phase : {"forward", "back", "uninstall"}, old : BOOLEAN, claims : BOOLEAN,
         addedNow : BOOLEAN, stage : Trees, backup : Trees,
         oldPlist : BOOLEAN, undone : BOOLEAN]

\* installer.lock: whoever is past it holds it.
Exclusive == \A i \in Installers : inst[i].pc \notin Outside <=> lock = i

\* From the moment the daemon's lock was free, to the start of a daemon.
Quiets == {"stage"} \cup Stages \cup Removes \cup Backs \cup Ends \cup {"bootstrap"}

QuietAt(pc) ==
  /\ pc \in {"await", "restore"} \cup Quiets => reg = "no"
  /\ pc \in {"restore"} \cup Quiets => daemon = "off"
  /\ pc \in Quiets => traffic = "clean"

\* A daemon that serves is registered; without a tree there is none.
MachineInv ==
  /\ daemon \in {"idle", "connected"} => reg = "yes"
  /\ root = NoTree => daemon = "off" /\ traffic = "clean"

Quiet == MachineInv /\ \A i \in Installers : QuietAt(inst[i].pc)

\* The new tree is in place, complete, with its plist.
Placed(m) == m.pc \in Boots \cup {"unca", "moveFailed"} \/ (m.pc \in Stops /\ m.phase = "back")

\* Nothing was moved yet.
Before(m) == \/ m.pc \in Reads \cup Removes \cup {"stage", "moveOld"}
             \/ m.pc \in Stops /\ m.phase # "back"

\* Versions are numbers of invocations, each used once.
Versions ==
  /\ root.ver <= runs
  /\ \A i \in Installers :
       /\ inst[i].id <= runs /\ inst[i].backup.ver <= runs
       /\ inst[i].pc # "off" => inst[i].id >= 1
       /\ inst[i].pc \in Stages => inst[i].stage.ver = inst[i].id
       /\ inst[i].pc \in Fresh \ {"off"} \/ Before(inst[i]) => root.ver # inst[i].id
       /\ \A j \in Installers : inst[i].pc # "off" /\ inst[j].pc # "off" =>
            /\ i # j => inst[i].id # inst[j].id
            /\ inst[i].backup.ver # inst[j].id

\* Where the trees are when an installer is at a step: whether there is an old
\* tree, whether one is in place, and that the old one was put aside.
Place(m) ==
  /\ m.pc \in Fresh => /\ ~m.old /\ m.stage = NoTree /\ m.backup = NoTree
                       /\ ~m.addedNow /\ m.phase # "back"
  /\ m.pc \in Reads => m.phase # "back"
  /\ Before(m) => (m.old <=> root # NoTree) /\ m.backup = NoTree
  /\ m.pc \in {"movePlist", "moveStage", "failPlist", "moveBack"} => root = NoTree
  /\ m.pc = "writePlist" => root # NoTree
  /\ Placed(m) => root # NoTree
  /\ Placed(m) \/ m.pc = "failPlist" => plist
  /\ m.old /\ Placed(m) => m.backup # NoTree
  /\ m.old /\ m.pc \in {"movePlist", "moveStage", "writePlist", "failPlist", "moveBack"}
       => m.backup # NoTree
  /\ m.old /\ m.pc = "undoNew" /\ root = m.stage => m.backup # NoTree
  /\ m.old /\ root = NoTree => m.backup # NoTree
  /\ ~m.old => m.backup = NoTree
  /\ m.addedNow => \/ m.pc \in {"addCA", "undoPlist", "startOld"} \cup Backs
                   \/ m.pc \in Stops /\ m.phase = "back"

Places == \A i \in Installers : Place(inst[i])

\* The certificate is in the keychain, the product added it, and no interruption
\* has cost the receipt.
Ours == cert /\ ~users /\ ~lost

\* What holds of the certificate when an installer is at a step.
Claim(m) ==
  /\ m.stage.claims \/ m.backup.claims \/ m.addedNow => ~users
  /\ m.addedNow => m.claims
  /\ m.pc \in {"recordCA", "addCA"} => ~cert
  /\ m.pc = "addCA" => root.claims /\ m.addedNow
  /\ m.addedNow /\ m.pc \in {"moveFailed", "failPlist", "moveBack", "undoPlist", "startOld"}
       => ~cert
  /\ Ours /\ m.pc \in {"moveOld", "movePlist", "moveStage"} => m.stage.claims
  /\ Ours /\ m.backup # NoTree => m.backup.claims \/ m.addedNow
  /\ Ours /\ ~m.old /\ m.pc \notin Fresh => m.addedNow
  /\ Ours => m.pc \notin {"dropPlist", "dropRoot"}

\* What is in place against what is in the keychain.
RootOwns ==
  /\ users => cert
  /\ root.claims => ~users
  /\ Ours /\ root # NoTree => root.claims

\* Some tree on the disk claims the certificate.
Claimed == \E t \in kept \cup {root} : t.claims

\* Without a tree, the plist is there, or the tree that was put aside is known.
Held ==
  Ours /\ root = NoTree =>
    plist \/ \E i \in Installers : lock = i /\ inst[i].backup # NoTree

Claims ==
  /\ RootOwns
  /\ cert /\ ~users => Claimed
  /\ Held
  /\ \A i \in Installers : Claim(inst[i])

Table == [Installers -> Runs]

\* The types of all variables but the count of faults.
Types == /\ root \in Trees /\ kept \in SUBSET Trees /\ plist \in BOOLEAN /\ inst \in Table
         /\ lock \in Installers \cup {"none"} /\ reg \in {"no", "yes", "leaving"}
         /\ daemon \in {"off", "idle", "connected", "stopping"}
         /\ traffic \in {"clean", "product"}
         /\ cert \in BOOLEAN /\ users \in BOOLEAN /\ lost \in BOOLEAN /\ runs \in 0..MaxRuns

\* What an installer's step leaves of its own variables, apart from pc and phase.
SameRun(i) == /\ inst'[i].id = inst[i].id /\ inst'[i].old = inst[i].old
              /\ inst'[i].claims = inst[i].claims /\ inst'[i].addedNow = inst[i].addedNow
              /\ inst'[i].stage = inst[i].stage /\ inst'[i].backup = inst[i].backup

Alone(i) == inst' \in Table /\ \A j \in Installers : j # i => inst'[j] = inst[j]

Becomes(i, pc, phase) == Alone(i) /\ inst'[i].pc = pc /\ inst'[i].phase = phase /\ SameRun(i)

\* An installer that is off is one of the runs, an absent tree one of the trees.
LEMMA OffType == ASSUME InstallBounds PROVE NoTree \in Trees /\ Off \in Runs
<1>1. NoTree \in Trees BY DEF InstallBounds, NoTree, Trees
<1>2. "off" \in Pcs BY DEF Pcs, Fresh
<1> QED BY <1>1, <1>2 DEF InstallBounds, Off, Runs

\* One installer's run is replaced, the others' are left.
LEMMA Replaced ==
  ASSUME inst \in Table, NEW i \in Installers, NEW m \in Runs, inst' = [inst EXCEPT ![i] = m]
  PROVE  Alone(i) /\ inst'[i] = m
BY DEF Table, Alone

\* returns ends a run.
LEMMA Returning ==
  ASSUME InstallBounds, inst \in Table, NEW i \in Installers, returns(i)
  PROVE  Alone(i) /\ inst'[i] = Off
BY OffType, Replaced DEF returns

\* goes moves an installer to another step and changes nothing else of its run.
LEMMA Going ==
  ASSUME inst \in Table, NEW i \in Installers, NEW p \in Pcs, goes(i, p)
  PROVE  Becomes(i, p, inst[i].phase)
<1> DEFINE m == [inst[i] EXCEPT !.pc = p]
<1>0. inst[i] \in Runs BY DEF Table
<1>1. m \in Runs /\ m.pc = p /\ m.phase = inst[i].phase /\ m.id = inst[i].id
      /\ m.old = inst[i].old
      /\ m.claims = inst[i].claims /\ m.addedNow = inst[i].addedNow /\ m.stage = inst[i].stage
      /\ m.backup = inst[i].backup
  BY <1>0 DEF Runs
<1>2. inst' = [inst EXCEPT ![i] = m] BY DEF goes
<1> HIDE DEF m
<1>3. Alone(i) /\ inst'[i] = m BY <1>1, <1>2, Replaced
<1> QED BY <1>1, <1>3 DEF Becomes, SameRun

\* backOut sends an installer back to stop, to undo what it activated.
LEMMA BackingOut ==
  ASSUME inst \in Table, NEW i \in Installers, backOut(i)
  PROVE  Becomes(i, "stop", "back")
<1> DEFINE n == [inst[i] EXCEPT !.pc = "stop"]
           m == [n EXCEPT !.phase = "back"]
<1>0. inst[i] \in Runs /\ "stop" \in Pcs BY DEF Table, Pcs, Stops
<1>1. n \in Runs /\ n.pc = "stop" /\ n.id = inst[i].id /\ n.old = inst[i].old
      /\ n.claims = inst[i].claims /\ n.addedNow = inst[i].addedNow /\ n.stage = inst[i].stage
      /\ n.backup = inst[i].backup
  BY <1>0 DEF Runs
<1>2. inst' = [inst EXCEPT ![i] = m] BY DEF backOut
<1> HIDE DEF n
<1>4. m \in Runs /\ m.pc = "stop" /\ m.phase = "back" /\ m.id = inst[i].id
      /\ m.old = inst[i].old
      /\ m.claims = inst[i].claims /\ m.addedNow = inst[i].addedNow /\ m.stage = inst[i].stage
      /\ m.backup = inst[i].backup
  BY <1>1 DEF Runs
<1> HIDE DEF m
<1>3. Alone(i) /\ inst'[i] = m BY <1>4, <1>2, Replaced
<1> QED BY <1>4, <1>3 DEF Becomes, SameRun

\* halfUndone: only undone changes besides pc.
LEMMA Undoing ==
  ASSUME inst \in Table, NEW i \in Installers, NEW p \in Pcs, halfUndone(i, p)
  PROVE  /\ Alone(i)
         /\ inst'[i].pc = p /\ inst'[i].phase = inst[i].phase /\ inst'[i].id = inst[i].id
         /\ inst'[i].old = inst[i].old
         /\ inst'[i].claims = inst[i].claims /\ inst'[i].addedNow = inst[i].addedNow
         /\ inst'[i].stage = inst[i].stage /\ inst'[i].backup = inst[i].backup
<1> DEFINE a == [inst[i] EXCEPT !.pc = p]
           b == [a EXCEPT !.undone = FALSE]
<1>0. inst[i] \in Runs BY DEF Table
<1>1. inst' = [inst EXCEPT ![i] = b] BY DEF halfUndone
<1>3. /\ a \in Runs /\ a.pc = p /\ a.phase = inst[i].phase /\ a.id = inst[i].id
         /\ a.old = inst[i].old
      /\ a.claims = inst[i].claims /\ a.addedNow = inst[i].addedNow /\ a.stage = inst[i].stage
      /\ a.backup = inst[i].backup
  BY <1>0 DEF Runs, Trees
<1> HIDE DEF a
<1>4. /\ b \in Runs /\ b.pc = p /\ b.phase = inst[i].phase /\ b.id = inst[i].id
         /\ b.old = inst[i].old
      /\ b.claims = inst[i].claims /\ b.addedNow = inst[i].addedNow /\ b.stage = inst[i].stage
      /\ b.backup = inst[i].backup
  BY <1>3 DEF Runs, Trees
<1> HIDE DEF b
<1>5. Alone(i) /\ inst'[i] = b BY <1>1, <1>4, Replaced
<1> QED BY <1>4, <1>5

\* MovePlist.
LEMMA PlistMoved ==
  ASSUME inst \in Table, NEW i \in Installers,
         inst' = [inst EXCEPT ![i].pc = "moveStage", ![i].oldPlist = plist], plist \in BOOLEAN
  PROVE  /\ Alone(i)
         /\ inst'[i].pc = "moveStage" /\ inst'[i].phase = inst[i].phase
         /\ inst'[i].id = inst[i].id /\ inst'[i].old = inst[i].old
         /\ inst'[i].claims = inst[i].claims /\ inst'[i].addedNow = inst[i].addedNow
         /\ inst'[i].stage = inst[i].stage /\ inst'[i].backup = inst[i].backup
<1> DEFINE a == [inst[i] EXCEPT !.pc = "moveStage"]
           b == [a EXCEPT !.oldPlist = plist]
<1>0. inst[i] \in Runs BY DEF Table
<1>1. inst' = [inst EXCEPT ![i] = b] OBVIOUS
<1>2. "moveStage" \in Pcs BY DEF Pcs, Stages
<1>3. /\ a \in Runs /\ a.pc = "moveStage" /\ a.phase = inst[i].phase /\ a.id = inst[i].id
         /\ a.old = inst[i].old
      /\ a.claims = inst[i].claims /\ a.addedNow = inst[i].addedNow /\ a.stage = inst[i].stage
      /\ a.backup = inst[i].backup
  BY <1>0, <1>2 DEF Runs, Trees
<1> HIDE DEF a
<1>4. /\ b \in Runs /\ b.pc = "moveStage" /\ b.phase = inst[i].phase /\ b.id = inst[i].id
         /\ b.old = inst[i].old
      /\ b.claims = inst[i].claims /\ b.addedNow = inst[i].addedNow /\ b.stage = inst[i].stage
      /\ b.backup = inst[i].backup
  BY <1>3, <1>2 DEF Runs, Trees
<1> HIDE DEF b
<1>5. Alone(i) /\ inst'[i] = b BY <1>1, <1>4, Replaced
<1> QED BY <1>4, <1>5

\* Revalidate.
LEMMA Validated ==
  ASSUME inst \in Table, NEW i \in Installers, NEW p \in Pcs,
         NEW ph \in {"forward", "uninstall"},
         inst' = [inst EXCEPT ![i].old = root # NoTree, ![i].phase = ph, ![i].pc = p]
  PROVE  /\ Alone(i)
         /\ inst'[i].pc = p /\ inst'[i].phase = ph /\ inst'[i].id = inst[i].id
         /\ inst'[i].old = (root # NoTree)
         /\ inst'[i].claims = inst[i].claims /\ inst'[i].addedNow = inst[i].addedNow
         /\ inst'[i].stage = inst[i].stage /\ inst'[i].backup = inst[i].backup
<1> DEFINE a == [inst[i] EXCEPT !.old = (root # NoTree)]
           b == [a EXCEPT !.phase = ph]
           c == [b EXCEPT !.pc = p]
<1>0. inst[i] \in Runs BY DEF Table
<1>1. inst' = [inst EXCEPT ![i] = c] OBVIOUS
<1>3. /\ a \in Runs /\ a.pc = inst[i].pc /\ a.phase = inst[i].phase /\ a.id = inst[i].id
         /\ a.old = (root # NoTree)
      /\ a.claims = inst[i].claims /\ a.addedNow = inst[i].addedNow /\ a.stage = inst[i].stage
      /\ a.backup = inst[i].backup
  BY <1>0 DEF Runs, Trees
<1> HIDE DEF a
<1>4. /\ b \in Runs /\ b.pc = inst[i].pc /\ b.phase = ph /\ b.id = inst[i].id
         /\ b.old = (root # NoTree)
      /\ b.claims = inst[i].claims /\ b.addedNow = inst[i].addedNow /\ b.stage = inst[i].stage
      /\ b.backup = inst[i].backup
  BY <1>3 DEF Runs, Trees
<1> HIDE DEF b
<1>5. /\ c \in Runs /\ c.pc = p /\ c.phase = ph /\ c.id = inst[i].id
         /\ c.old = (root # NoTree)
      /\ c.claims = inst[i].claims /\ c.addedNow = inst[i].addedNow /\ c.stage = inst[i].stage
      /\ c.backup = inst[i].backup
  BY <1>4 DEF Runs, Trees
<1> HIDE DEF c
<1>6. Alone(i) /\ inst'[i] = c BY <1>1, <1>5, Replaced
<1> QED BY <1>5, <1>6

\* PrepareStage.
LEMMA Staged ==
  ASSUME inst \in Table, NEW i \in Installers, NEW t \in Trees, t.claims \in BOOLEAN,
         inst' = [inst EXCEPT ![i].pc = "moveOld", ![i].stage = t, ![i].claims = t.claims]
  PROVE  /\ Alone(i)
         /\ inst'[i].pc = "moveOld" /\ inst'[i].phase = inst[i].phase
         /\ inst'[i].id = inst[i].id /\ inst'[i].old = inst[i].old
         /\ inst'[i].claims = t.claims /\ inst'[i].addedNow = inst[i].addedNow
         /\ inst'[i].stage = t /\ inst'[i].backup = inst[i].backup
<1> DEFINE a == [inst[i] EXCEPT !.pc = "moveOld"]
           b == [a EXCEPT !.stage = t]
           c == [b EXCEPT !.claims = t.claims]
<1>0. inst[i] \in Runs BY DEF Table
<1>1. inst' = [inst EXCEPT ![i] = c] OBVIOUS
<1>2. "moveOld" \in Pcs BY DEF Pcs, Stages
<1>3. /\ a \in Runs /\ a.pc = "moveOld" /\ a.phase = inst[i].phase /\ a.id = inst[i].id
         /\ a.old = inst[i].old
      /\ a.claims = inst[i].claims /\ a.addedNow = inst[i].addedNow /\ a.stage = inst[i].stage
      /\ a.backup = inst[i].backup
  BY <1>0, <1>2 DEF Runs, Trees
<1> HIDE DEF a
<1>4. /\ b \in Runs /\ b.pc = "moveOld" /\ b.phase = inst[i].phase /\ b.id = inst[i].id
         /\ b.old = inst[i].old
      /\ b.claims = inst[i].claims /\ b.addedNow = inst[i].addedNow /\ b.stage = t
      /\ b.backup = inst[i].backup
  BY <1>3, <1>2 DEF Runs, Trees
<1> HIDE DEF b
<1>5. /\ c \in Runs /\ c.pc = "moveOld" /\ c.phase = inst[i].phase /\ c.id = inst[i].id
         /\ c.old = inst[i].old
      /\ c.claims = t.claims /\ c.addedNow = inst[i].addedNow /\ c.stage = t
      /\ c.backup = inst[i].backup
  BY <1>4, <1>2 DEF Runs, Trees
<1> HIDE DEF c
<1>6. Alone(i) /\ inst'[i] = c BY <1>1, <1>5, Replaced
<1> QED BY <1>5, <1>6

\* MoveOld.
LEMMA OldMoved ==
  ASSUME inst \in Table, NEW i \in Installers, root \in Trees,
         inst' = [inst EXCEPT ![i].pc = "movePlist", ![i].backup = root]
  PROVE  /\ Alone(i)
         /\ inst'[i].pc = "movePlist" /\ inst'[i].phase = inst[i].phase
         /\ inst'[i].id = inst[i].id /\ inst'[i].old = inst[i].old
         /\ inst'[i].claims = inst[i].claims /\ inst'[i].addedNow = inst[i].addedNow
         /\ inst'[i].stage = inst[i].stage /\ inst'[i].backup = root
<1> DEFINE a == [inst[i] EXCEPT !.pc = "movePlist"]
           b == [a EXCEPT !.backup = root]
<1>0. inst[i] \in Runs BY DEF Table
<1>1. inst' = [inst EXCEPT ![i] = b] OBVIOUS
<1>2. "movePlist" \in Pcs BY DEF Pcs, Stages
<1>3. /\ a \in Runs /\ a.pc = "movePlist" /\ a.phase = inst[i].phase /\ a.id = inst[i].id
         /\ a.old = inst[i].old
      /\ a.claims = inst[i].claims /\ a.addedNow = inst[i].addedNow /\ a.stage = inst[i].stage
      /\ a.backup = inst[i].backup
  BY <1>0, <1>2 DEF Runs, Trees
<1> HIDE DEF a
<1>4. /\ b \in Runs /\ b.pc = "movePlist" /\ b.phase = inst[i].phase /\ b.id = inst[i].id
         /\ b.old = inst[i].old
      /\ b.claims = inst[i].claims /\ b.addedNow = inst[i].addedNow /\ b.stage = inst[i].stage
      /\ b.backup = root
  BY <1>3, <1>2 DEF Runs, Trees
<1> HIDE DEF b
<1>5. Alone(i) /\ inst'[i] = b BY <1>1, <1>4, Replaced
<1> QED BY <1>4, <1>5

\* RecordCA.
LEMMA Recorded ==
  ASSUME inst \in Table, NEW i \in Installers,
         inst' = [inst EXCEPT ![i].pc = "addCA", ![i].claims = TRUE, ![i].addedNow = TRUE]
  PROVE  /\ Alone(i)
         /\ inst'[i].pc = "addCA" /\ inst'[i].phase = inst[i].phase /\ inst'[i].id = inst[i].id
         /\ inst'[i].old = inst[i].old
         /\ inst'[i].claims = TRUE /\ inst'[i].addedNow = TRUE
         /\ inst'[i].stage = inst[i].stage /\ inst'[i].backup = inst[i].backup
<1> DEFINE a == [inst[i] EXCEPT !.pc = "addCA"]
           b == [a EXCEPT !.claims = TRUE]
           c == [b EXCEPT !.addedNow = TRUE]
<1>0. inst[i] \in Runs BY DEF Table
<1>1. inst' = [inst EXCEPT ![i] = c] OBVIOUS
<1>2. "addCA" \in Pcs BY DEF Pcs, Boots
<1>3. /\ a \in Runs /\ a.pc = "addCA" /\ a.phase = inst[i].phase /\ a.id = inst[i].id
         /\ a.old = inst[i].old
      /\ a.claims = inst[i].claims /\ a.addedNow = inst[i].addedNow /\ a.stage = inst[i].stage
      /\ a.backup = inst[i].backup
  BY <1>0, <1>2 DEF Runs, Trees
<1> HIDE DEF a
<1>4. /\ b \in Runs /\ b.pc = "addCA" /\ b.phase = inst[i].phase /\ b.id = inst[i].id
         /\ b.old = inst[i].old
      /\ b.claims = TRUE /\ b.addedNow = inst[i].addedNow /\ b.stage = inst[i].stage
      /\ b.backup = inst[i].backup
  BY <1>3, <1>2 DEF Runs, Trees
<1> HIDE DEF b
<1>5. /\ c \in Runs /\ c.pc = "addCA" /\ c.phase = inst[i].phase /\ c.id = inst[i].id
         /\ c.old = inst[i].old
      /\ c.claims = TRUE /\ c.addedNow = TRUE /\ c.stage = inst[i].stage
      /\ c.backup = inst[i].backup
  BY <1>4, <1>2 DEF Runs, Trees
<1> HIDE DEF c
<1>6. Alone(i) /\ inst'[i] = c BY <1>1, <1>5, Replaced
<1> QED BY <1>5, <1>6

\* ... with an error.
LEMMA RecordFailed ==
  ASSUME inst \in Table, NEW i \in Installers,
         inst' = [inst EXCEPT ![i].pc = "stop", ![i].phase = "back", ![i].claims = TRUE]
  PROVE  /\ Alone(i)
         /\ inst'[i].pc = "stop" /\ inst'[i].phase = "back" /\ inst'[i].id = inst[i].id
         /\ inst'[i].old = inst[i].old
         /\ inst'[i].claims = TRUE /\ inst'[i].addedNow = inst[i].addedNow
         /\ inst'[i].stage = inst[i].stage /\ inst'[i].backup = inst[i].backup
<1> DEFINE a == [inst[i] EXCEPT !.pc = "stop"]
           b == [a EXCEPT !.phase = "back"]
           c == [b EXCEPT !.claims = TRUE]
<1>0. inst[i] \in Runs BY DEF Table
<1>1. inst' = [inst EXCEPT ![i] = c] OBVIOUS
<1>2. "stop" \in Pcs BY DEF Pcs, Stops
<1>3. /\ a \in Runs /\ a.pc = "stop" /\ a.phase = inst[i].phase /\ a.id = inst[i].id
         /\ a.old = inst[i].old
      /\ a.claims = inst[i].claims /\ a.addedNow = inst[i].addedNow /\ a.stage = inst[i].stage
      /\ a.backup = inst[i].backup
  BY <1>0, <1>2 DEF Runs, Trees
<1> HIDE DEF a
<1>4. /\ b \in Runs /\ b.pc = "stop" /\ b.phase = "back" /\ b.id = inst[i].id
         /\ b.old = inst[i].old
      /\ b.claims = inst[i].claims /\ b.addedNow = inst[i].addedNow /\ b.stage = inst[i].stage
      /\ b.backup = inst[i].backup
  BY <1>3, <1>2 DEF Runs, Trees
<1> HIDE DEF b
<1>5. /\ c \in Runs /\ c.pc = "stop" /\ c.phase = "back" /\ c.id = inst[i].id
         /\ c.old = inst[i].old
      /\ c.claims = TRUE /\ c.addedNow = inst[i].addedNow /\ c.stage = inst[i].stage
      /\ c.backup = inst[i].backup
  BY <1>4, <1>2 DEF Runs, Trees
<1> HIDE DEF c
<1>6. Alone(i) /\ inst'[i] = c BY <1>1, <1>5, Replaced
<1> QED BY <1>5, <1>6

\* Off, launched.
LEMMA Launched ==
  ASSUME InstallBounds, Types, NEW i \in Installers, NEW mode \in {"install", "uninstall"},
         LaunchInstaller(i, mode)
  PROVE  /\ Alone(i) /\ inst'[i].pc = "preflight" /\ inst'[i].id = runs + 1
            /\ inst'[i].phase = "forward"
         /\ inst'[i].old = FALSE /\ inst'[i].claims = FALSE /\ inst'[i].addedNow = FALSE
         /\ inst'[i].stage = NoTree /\ inst'[i].backup = NoTree
<1> DEFINE a == [Off EXCEPT !.pc = "preflight"]
           b == [a EXCEPT !.id = runs + 1]
           c == [b EXCEPT !.mode = mode]
<1>0. inst \in Table /\ runs + 1 \in 0..MaxRuns BY DEF InstallBounds, Types, LaunchInstaller
<1>1. inst' = [inst EXCEPT ![i] = c] BY DEF LaunchInstaller
<1>2. "preflight" \in Pcs BY DEF Pcs, Fresh
<1>3. /\ a \in Runs /\ a.pc = "preflight" /\ a.phase = "forward" /\ a.old = FALSE
         /\ a.claims = FALSE
      /\ a.addedNow = FALSE /\ a.stage = NoTree /\ a.backup = NoTree
  BY <1>2, OffType DEF Off, Runs
<1> HIDE DEF a
<1>4. /\ b \in Runs /\ b.pc = "preflight" /\ b.id = runs + 1 /\ b.phase = "forward"
         /\ b.old = FALSE
      /\ b.claims = FALSE /\ b.addedNow = FALSE /\ b.stage = NoTree /\ b.backup = NoTree
  BY <1>0, <1>3 DEF Runs
<1> HIDE DEF b
<1>5. /\ c \in Runs /\ c.pc = "preflight" /\ c.id = runs + 1 /\ c.phase = "forward"
         /\ c.old = FALSE
      /\ c.claims = FALSE /\ c.addedNow = FALSE /\ c.stage = NoTree /\ c.backup = NoTree
  BY <1>4 DEF Runs
<1> HIDE DEF c
<1>6. Alone(i) /\ inst'[i] = c BY <1>0, <1>1, <1>5, Replaced
<1> QED BY <1>5, <1>6

\* The fields of a run that has ended.
LEMMA OffFields ==
  /\ Off.pc = "off" /\ Off.id = 0 /\ Off.phase = "forward" /\ Off.old = FALSE
  /\ Off.claims = FALSE
  /\ Off.addedNow = FALSE /\ Off.stage = NoTree /\ Off.backup = NoTree
BY DEF Off

\* The fields of the trees.
LEMMA TreeType ==
  /\ NoTree.ver = 0 /\ NoTree.claims = FALSE
  /\ \A t \in Trees : t.ver \in 0..MaxRuns /\ t.claims \in BOOLEAN
  /\ \A v \in 0..MaxRuns, c \in BOOLEAN : [ver |-> v, claims |-> c] \in Trees
  /\ \A t \in Trees : [t EXCEPT !.claims = TRUE] \in Trees
     /\ [t EXCEPT !.claims = TRUE].ver = t.ver
                      /\ [t EXCEPT !.claims = TRUE].claims = TRUE
BY DEF NoTree, Trees

\* The fields of the runs.
LEMMA RunType ==
  ASSUME inst \in Table, NEW i \in Installers
  PROVE  /\ inst[i] \in Runs /\ inst[i].pc \in Pcs /\ inst[i].id \in 0..MaxRuns
         /\ inst[i].phase \in {"forward", "back", "uninstall"}
         /\ inst[i].old \in BOOLEAN /\ inst[i].claims \in BOOLEAN
         /\ inst[i].addedNow \in BOOLEAN
         /\ inst[i].stage \in Trees /\ inst[i].backup \in Trees
BY DEF Table, Runs

\* Under the lock an installer goes on under it, or returns.
Outcome(i) ==
  /\ Alone(i) /\ inst[i].pc \notin Outside
  /\ \/ inst'[i].pc \notin Outside /\ UNCHANGED lock
     \/ inst'[i] = Off /\ lock' = IF lock = i THEN "none" ELSE lock

lockedStep(i) == \/ Revalidate(i) \/ InstallOwner(i) \/ Status(i) \/ Disconnect(i)
                 \/ stops(i) \/ activates(i) \/ starts(i) \/ removes(i)

\* Under the lock: that is what every step does.
LEMMA Outcomes ==
  ASSUME InstallBounds, Types, NEW i \in Installers, lockedStep(i) PROVE Outcome(i)
<1>0. inst \in Table /\ inst[i].pc \in Pcs /\ root \in Trees /\ plist \in BOOLEAN
  BY RunType DEF Types
<1>g. \A p \in Pcs : goes(i, p) => Alone(i) /\ inst'[i].pc = p BY <1>0, Going DEF Becomes
<1>r. returns(i) => Alone(i) /\ inst'[i] = Off /\ lock' = IF lock = i THEN "none" ELSE lock
  BY <1>0, Returning DEF returns
<1>b. backOut(i) => Alone(i) /\ inst'[i].pc = "stop" BY <1>0, BackingOut DEF Becomes
<1>h. \A p \in Pcs : halfUndone(i, p) => Alone(i) /\ inst'[i].pc = p BY <1>0, Undoing
<1> USE DEF Outcome, Outside, Stops, Fresh, Reads, Stages, Boots, Removes, Backs, Ends
<1>1. CASE Revalidate(i)
  <2> DEFINE ph == IF inst[i].mode = "install" THEN "forward" ELSE "uninstall"
             p == IF inst[i].mode = "install" THEN "owner" ELSE "disconnect"
  <2>1. CASE inst' = [inst EXCEPT ![i].old = root # NoTree, ![i].phase = ph, ![i].pc = p]
             /\ UNCHANGED lock
    <3>1. ph \in {"forward", "uninstall"} /\ p \in Pcs /\ p \notin Outside BY DEF Pcs
    <3> HIDE DEF ph, p
    <3>2. Alone(i) /\ inst'[i].pc = p BY <2>1, <3>1, <1>0, Validated
    <3> QED BY <1>1, <2>1, <3>1, <3>2 DEF Revalidate
  <2>2. CASE returns(i) BY <1>1, <2>2, <1>r DEF Revalidate
  <2> QED BY <1>1, <2>1, <2>2 DEF Revalidate, failsOut
<1>2. CASE InstallOwner(i)
  BY <1>2, <1>0, <1>g, <1>r, <1>b, <1>h DEF InstallOwner, verdict, failsOut, Pcs
<1>3. CASE Status(i) BY <1>3, <1>0, <1>g, <1>r, <1>b, <1>h DEF Status, failsOut, Pcs
<1>4. CASE Disconnect(i)
  BY <1>4, <1>0, <1>g, <1>r, <1>b, <1>h DEF Disconnect, failsOut, Pcs
<1>5. CASE StopBootout(i)
  BY <1>5, <1>0, <1>g, <1>r, <1>b, <1>h DEF StopBootout, failsOut, Pcs
<1>6. CASE WaitUnregistered(i)
  BY <1>6, <1>0, <1>g, <1>r, <1>b, <1>h DEF WaitUnregistered, failsOut, Pcs
<1>7. CASE AwaitDaemonLock(i)
  BY <1>7, <1>0, <1>g, <1>r, <1>b, <1>h DEF AwaitDaemonLock, failsOut, Pcs
<1>8. CASE Restore(i) BY <1>8, <1>0, <1>g, <1>r, <1>b, <1>h DEF Restore, failsOut, Pcs
<1>9. CASE PrepareStage(i)
  <2> DEFINE t == [ver |-> inst[i].id, claims |-> inst[i].old /\ root.claims]
  <2>1. CASE inst' = [inst EXCEPT ![i].pc = "moveOld", ![i].stage = t, ![i].claims = t.claims]
    <3>1. t \in Trees /\ t.claims \in BOOLEAN BY <1>0, RunType, TreeType
    <3> HIDE DEF t
    <3>2. Alone(i) /\ inst'[i].pc = "moveOld" BY <2>1, <3>1, <1>0, Staged
    <3> QED BY <1>9, <3>2 DEF PrepareStage
  <2>2. CASE goes(i, "startOld") BY <1>9, <2>2, <1>g DEF PrepareStage, Pcs
  <2> QED BY <1>9, <2>1, <2>2 DEF PrepareStage
<1>10. CASE MoveOld(i)
  <2>1. inst' = [inst EXCEPT ![i].pc = "movePlist", ![i].backup = root]
          => Alone(i) /\ inst'[i].pc = "movePlist"
    BY <1>0, OldMoved
  <2> QED BY <1>10, <2>1, <1>g DEF MoveOld, undo, Pcs
<1>11. CASE MovePlist(i)
  <2>1. inst' = [inst EXCEPT ![i].pc = "moveStage", ![i].oldPlist = plist]
          => Alone(i) /\ inst'[i].pc = "moveStage"
    BY <1>0, PlistMoved
  <2> QED BY <1>11, <2>1, <1>g DEF MovePlist, undo, Pcs
<1>12. CASE MoveStage(i) BY <1>12, <1>0, <1>g, <1>r, <1>b, <1>h DEF MoveStage, undo, Pcs
<1>13. CASE WritePlist(i) BY <1>13, <1>0, <1>g, <1>r, <1>b, <1>h DEF WritePlist, undo, Pcs
<1>14. CASE UndoNew(i) BY <1>14, <1>0, <1>g, <1>r, <1>b, <1>h DEF UndoNew, Pcs
<1>15. CASE UndoOld(i) BY <1>15, <1>0, <1>g, <1>r, <1>b, <1>h DEF UndoOld, Pcs
<1>16. CASE UndoPlist(i) BY <1>16, <1>0, <1>g, <1>r, <1>b, <1>h DEF UndoPlist, Pcs
<1>17. CASE Bootstrap(i) BY <1>17, <1>0, <1>g, <1>r, <1>b, <1>h DEF Bootstrap, Pcs
<1>18. CASE WaitIdle(i) BY <1>18, <1>0, <1>g, <1>r, <1>b, <1>h DEF WaitIdle, Pcs
<1>19. CASE CheckCA(i) BY <1>19, <1>0, <1>g, <1>r, <1>b, <1>h DEF CheckCA, Pcs
<1>20. CASE RecordCA(i)
  <2>1. inst' = [inst EXCEPT ![i].pc = "addCA", ![i].claims = TRUE, ![i].addedNow = TRUE]
          => Alone(i) /\ inst'[i].pc = "addCA"
    BY <1>0, Recorded
  <2>2. inst' = [inst EXCEPT ![i].pc = "stop", ![i].phase = "back", ![i].claims = TRUE]
          => Alone(i) /\ inst'[i].pc = "stop"
    BY <1>0, RecordFailed
  <2> QED BY <1>20, <2>1, <2>2 DEF RecordCA
<1>21. CASE AddCA(i) BY <1>21, <1>0, <1>g, <1>r, <1>b, <1>h DEF AddCA, Pcs
<1>22. CASE StartOld(i) BY <1>22, <1>0, <1>g, <1>r, <1>b, <1>h DEF StartOld, failsOut, Pcs
<1>23. CASE RollbackCA(i)
  BY <1>23, <1>0, <1>g, <1>r, <1>b, <1>h DEF RollbackCA, removesCA, failsOut, Pcs
<1>24. CASE RollbackRoot(i)
  BY <1>24, <1>0, <1>g, <1>r, <1>b, <1>h DEF RollbackRoot, failsOut, Pcs
<1>25. CASE RollbackPlist(i)
  BY <1>25, <1>0, <1>g, <1>r, <1>b, <1>h DEF RollbackPlist, failsOut, Pcs
<1>26. CASE RollbackOld(i)
  BY <1>26, <1>0, <1>g, <1>r, <1>b, <1>h DEF RollbackOld, failsOut, Pcs
<1>27. CASE UninstallCA(i)
  BY <1>27, <1>0, <1>g, <1>r, <1>b, <1>h DEF UninstallCA, removesCA, failsOut, Pcs
<1>28. CASE UninstallPlist(i)
  BY <1>28, <1>0, <1>g, <1>r, <1>b, <1>h DEF UninstallPlist, failsOut, Pcs
<1>29. CASE UninstallRoot(i)
  BY <1>29, <1>0, <1>g, <1>r, <1>b, <1>h DEF UninstallRoot, failsOut, Pcs
<1> QED BY <1>1, <1>2, <1>3, <1>4, <1>5, <1>6, <1>7, <1>8, <1>9, <1>10, <1>11, <1>12, <1>13,
    <1>14, <1>15, <1>16, <1>17, <1>18, <1>19, <1>20, <1>21, <1>22, <1>23, <1>24, <1>25, <1>26,
    <1>27, <1>28, <1>29 DEF lockedStep, stops, activates, starts, removes

\* The variables besides inst and lock.
RestType == /\ root \in Trees /\ kept \in SUBSET Trees /\ plist \in BOOLEAN
            /\ reg \in {"no", "yes", "leaving"}
            /\ daemon \in {"off", "idle", "connected", "stopping"}
            /\ traffic \in {"clean", "product"}
            /\ cert \in BOOLEAN /\ users \in BOOLEAN /\ lost \in BOOLEAN /\ runs \in 0..MaxRuns

\* They keep their types under the lock.
LEMMA LockedTypes ==
  ASSUME InstallBounds, Types, NEW i \in Installers, lockedStep(i) PROVE RestType'
<1>0. /\ NoTree \in Trees /\ inst[i].stage \in Trees /\ inst[i].backup \in Trees
         /\ inst[i].old \in BOOLEAN
      /\ inst[i].id \in 0..MaxRuns /\ inst[i].oldPlist \in BOOLEAN
  BY OffType, RunType DEF Types, Table, Runs
<1>1. [root EXCEPT !.claims = TRUE] \in Trees /\ root.claims \in BOOLEAN BY TreeType DEF Types
<1>2. [ver |-> inst[i].id, claims |-> inst[i].old /\ root.claims] \in Trees
  BY <1>0, <1>1, TreeType
<1> USE <1>0 DEF RestType, Types, disk, machine, keychain, others
<1>3. CASE Revalidate(i) BY <1>3 DEF Revalidate
<1>4. CASE InstallOwner(i) BY <1>4 DEF InstallOwner
<1>5. CASE Status(i) BY <1>5 DEF Status
<1>6. CASE Disconnect(i) BY <1>6 DEF Disconnect
<1>7. CASE StopBootout(i) BY <1>7 DEF StopBootout
<1>8. CASE WaitUnregistered(i) BY <1>8 DEF WaitUnregistered
<1>9. CASE AwaitDaemonLock(i) BY <1>9 DEF AwaitDaemonLock
<1>10. CASE Restore(i) BY <1>10 DEF Restore
<1>11. CASE PrepareStage(i) BY <1>11, <1>2 DEF PrepareStage
<1>12. CASE MoveOld(i) BY <1>12 DEF MoveOld
<1>13. CASE MovePlist(i) BY <1>13 DEF MovePlist
<1>14. CASE MoveStage(i) BY <1>14 DEF MoveStage
<1>15. CASE WritePlist(i) BY <1>15 DEF WritePlist
<1>16. CASE UndoNew(i) BY <1>16 DEF UndoNew
<1>17. CASE UndoOld(i) BY <1>17 DEF UndoOld
<1>18. CASE UndoPlist(i) BY <1>18 DEF UndoPlist
<1>19. CASE Bootstrap(i) BY <1>19 DEF Bootstrap
<1>20. CASE WaitIdle(i) BY <1>20 DEF WaitIdle
<1>21. CASE CheckCA(i) BY <1>21 DEF CheckCA
<1>22. CASE RecordCA(i) BY <1>22, <1>1 DEF RecordCA
<1>23. CASE AddCA(i) BY <1>23 DEF AddCA
<1>24. CASE StartOld(i) BY <1>24 DEF StartOld, interrupted
<1>25. CASE RollbackCA(i) BY <1>25 DEF RollbackCA, removesCA
<1>26. CASE RollbackRoot(i) BY <1>26 DEF RollbackRoot
<1>27. CASE RollbackPlist(i) BY <1>27 DEF RollbackPlist
<1>28. CASE RollbackOld(i) BY <1>28 DEF RollbackOld, interrupted
<1>29. CASE UninstallCA(i) BY <1>29 DEF UninstallCA, removesCA
<1>30. CASE UninstallPlist(i) BY <1>30 DEF UninstallPlist
<1>31. CASE UninstallRoot(i) BY <1>31 DEF UninstallRoot
<1> QED BY <1>3, <1>4, <1>5, <1>6, <1>7, <1>8, <1>9, <1>10, <1>11, <1>12, <1>13, <1>14, <1>15,
    <1>16, <1>17, <1>18, <1>19, <1>20, <1>21, <1>22, <1>23, <1>24, <1>25, <1>26, <1>27, <1>28,
    <1>29, <1>30, <1>31 DEF lockedStep, stops, activates, starts, removes

\* The steps of the machine, its user and its power.
machineStep == \/ DaemonStarts \/ UserConnects \/ UserDisconnects \/ DaemonStops
                  \/ Unregisters
               \/ DaemonKilled \/ UserEditsKeychain

\* The steps of an installer without the lock.
outsideStep(i) == \/ \E mode \in {"install", "uninstall"} : LaunchInstaller(i, mode)
                  \/ Preflight(i) \/ VerifyPayload(i) \/ TakeLock(i)

\* The five kinds of step.
LEMMA NextCases ==
  ASSUME [InstallNext]_installVars
  PROVE  \/ \E i \in Installers : lockedStep(i) \/ outsideStep(i) \/ InstallerDies(i)
         \/ machineStep \/ MachineReboots \/ UNCHANGED installVars
BY DEF InstallNext, prepares, lockedStep, outsideStep, machineStep

\* Before the lock an installer is launched, refuses, goes on, or takes the lock
\* when nobody has it; nothing but the installers and the lock changes.
LEMMA OutsideOutcome ==
  ASSUME InstallBounds, Types, NEW i \in Installers, outsideStep(i)
  PROVE  /\ Alone(i) /\ UNCHANGED <<disk, machine, keychain, lost>>
         /\ inst[i].pc \in Outside /\ inst'[i].pc \in Fresh
         /\ \/ inst'[i] = Off /\ lock' = IF lock = i THEN "none" ELSE lock
            \/ Becomes(i, inst'[i].pc, inst[i].phase) /\ inst'[i].pc \in Outside \ {"off"}
               /\ inst[i].pc # "off" /\ UNCHANGED lock
            \/ Becomes(i, "revalidate", inst[i].phase) /\ inst[i].pc # "off" /\ lock = "none"
               /\ lock' = i
            \/ /\ inst'[i].pc = "preflight" /\ inst'[i].phase = "forward"
                  /\ inst'[i].old = FALSE
               /\ inst'[i].claims = FALSE /\ inst'[i].addedNow = FALSE
               /\ inst'[i].stage = NoTree
               /\ inst'[i].backup = NoTree /\ inst'[i].id = runs + 1 /\ inst[i].pc = "off"
               /\ UNCHANGED lock
         /\ IF inst[i].pc = "off" THEN runs < MaxRuns /\ runs' = runs + 1 ELSE UNCHANGED runs
<1>0. inst \in Table BY DEF Types
<1>1. \A p \in Pcs : goes(i, p) => Becomes(i, p, inst[i].phase) /\ Alone(i) /\ inst'[i].pc = p
  BY <1>0, Going DEF Becomes
<1>2. returns(i) => Alone(i) /\ inst'[i] = Off /\ lock' = IF lock = i THEN "none" ELSE lock
  BY <1>0, Returning DEF returns
<1>o. Off.pc = "off" BY OffFields
<1>3. {"payload", "lock", "revalidate"} \subseteq Pcs BY DEF Pcs, Fresh
<1> USE DEF Outside, Fresh
<1>4. ASSUME NEW mode \in {"install", "uninstall"}, LaunchInstaller(i, mode)
      PROVE  /\ inst[i].pc = "off" /\ runs < MaxRuns /\ runs' = runs + 1
             /\ UNCHANGED <<disk, machine, keychain, lost, lock>>
  BY <1>4 DEF LaunchInstaller
<1>5. CASE \E mode \in {"install", "uninstall"} : LaunchInstaller(i, mode)
  <2>1. PICK mode \in {"install", "uninstall"} : LaunchInstaller(i, mode) BY <1>5
  <2> QED BY <1>4, <2>1, Launched
<1>6. CASE Preflight(i)
  <2>1. UNCHANGED <<disk, machine, keychain, lost, runs>> /\ inst[i].pc = "preflight"
    BY <1>6 DEF Preflight, others
  <2>2. returns(i) \/ \E p \in {"payload", "lock"} : goes(i, p) /\ UNCHANGED lock
    BY <1>6 DEF Preflight, verdict, failsOut
  <2> QED BY <1>1, <1>2, <1>3, <1>o, <2>1, <2>2
<1>7. CASE VerifyPayload(i)
  <2>1. UNCHANGED <<disk, machine, keychain, lost, runs>> /\ inst[i].pc = "payload"
    BY <1>7 DEF VerifyPayload, others
  <2>2. returns(i) \/ (goes(i, "lock") /\ UNCHANGED lock)
    BY <1>7 DEF VerifyPayload, verdict, failsOut
  <2> QED BY <1>1, <1>2, <1>3, <1>o, <2>1, <2>2
<1>8. CASE TakeLock(i)
  <2>1. UNCHANGED <<disk, machine, keychain, lost, runs>> /\ inst[i].pc = "lock"
    BY <1>8 DEF TakeLock, others
  <2>2. returns(i) \/ (goes(i, "revalidate") /\ lock = "none" /\ lock' = i)
    BY <1>8 DEF TakeLock
  <2> QED BY <1>1, <1>2, <1>3, <1>o, <2>1, <2>2
<1> QED BY <1>5, <1>6, <1>7, <1>8 DEF outsideStep

\* A death ends one run and frees its lock; the disk stays as it was.
LEMMA DeathOutcome ==
  ASSUME InstallBounds, Types, NEW i \in Installers, InstallerDies(i)
  PROVE  /\ Alone(i) /\ inst'[i] = Off /\ lock' = (IF lock = i THEN "none" ELSE lock)
            /\ interrupted(i)
         /\ UNCHANGED <<root, plist, kept, reg, daemon, traffic, cert, users, runs>>
BY Returning DEF Types, InstallerDies, returns, disk, machine, keychain

\* Every step keeps the types.
LEMMA TypesStep == ASSUME InstallBounds, Types, [InstallNext]_installVars PROVE Types'
<1>1. ASSUME NEW i \in Installers, lockedStep(i) PROVE Types'
  <2>1. inst' \in Table /\ lock' \in Installers \cup {"none"}
    BY <1>1, Outcomes DEF Outcome, Alone, Types
  <2>2. RestType' BY <1>1, LockedTypes
  <2> QED BY <2>1, <2>2 DEF Types, RestType
<1>2. ASSUME NEW i \in Installers, outsideStep(i) PROVE Types'
  <2>1. inst' \in Table /\ lock' \in Installers \cup {"none"}
    BY <1>2, OutsideOutcome DEF Alone, Types
  <2>2. UNCHANGED <<disk, machine, keychain, lost>> BY <1>2, OutsideOutcome
  <2>4. UNCHANGED runs \/ (runs < MaxRuns /\ runs' = runs + 1) BY <1>2, OutsideOutcome
  <2>3. runs' \in 0..MaxRuns BY <2>4 DEF InstallBounds, Types
  <2> QED BY <2>1, <2>2, <2>3 DEF Types, disk, machine, keychain
<1>3. ASSUME NEW i \in Installers, InstallerDies(i) PROVE Types'
  <2>1. inst' \in Table /\ lock' \in Installers \cup {"none"}
    BY <1>3, DeathOutcome DEF Alone, Types
  <2>2. lost' \in BOOLEAN BY <1>3, DeathOutcome DEF interrupted, Types
  <2> QED BY <1>3, <2>1, <2>2, DeathOutcome DEF Types
<1>4. CASE machineStep
  BY <1>4 DEF machineStep, Types, DaemonStarts, UserConnects, UserDisconnects,
     DaemonStops, Unregisters,
              DaemonKilled, UserEditsKeychain, disk, machine, keychain, others
<1>5. CASE MachineReboots
  <2>1. inst' \in Table BY <1>5, OffType DEF MachineReboots, Table
  <2>2. lost' \in BOOLEAN BY <1>5 DEF MachineReboots, interrupted, Types
  <2> QED BY <1>5, <2>1, <2>2 DEF MachineReboots, Types, disk, keychain
<1>6. CASE UNCHANGED installVars BY <1>6 DEF installVars, Types
<1> QED BY <1>1, <1>2, <1>3, <1>4, <1>5, <1>6, NextCases

\* Every step keeps the lock exclusive.
LEMMA ExclusiveStep ==
  ASSUME InstallBounds, Types, Exclusive, [InstallNext]_installVars PROVE Exclusive'
<1> USE OffFields DEF InstallBounds, Exclusive
<1>0. "off" \in Outside /\ "preflight" \in Outside /\ "revalidate" \notin Outside
  BY DEF Outside, Fresh
<1>1. ASSUME NEW i \in Installers, lockedStep(i) PROVE Exclusive'
  BY <1>0, <1>1, Outcomes DEF Outcome, Alone
<1>2. ASSUME NEW i \in Installers, outsideStep(i) PROVE Exclusive'
  BY <1>0, <1>2, OutsideOutcome DEF Alone, Becomes
<1>3. ASSUME NEW i \in Installers, InstallerDies(i) PROVE Exclusive'
  BY <1>0, <1>3, DeathOutcome DEF Alone
<1>4. CASE machineStep
  BY <1>4 DEF machineStep, DaemonStarts, UserConnects, UserDisconnects, DaemonStops,
     Unregisters,
              DaemonKilled, UserEditsKeychain
<1>5. CASE MachineReboots BY <1>0, <1>5 DEF MachineReboots
<1>6. CASE UNCHANGED installVars BY <1>6 DEF installVars
<1> QED BY <1>1, <1>2, <1>3, <1>4, <1>5, <1>6, NextCases

-----------------------------------------------------------------------------
(* Trees are exchanged in quiet *)

\* The pcs an installer can go to from where it is.
LEMMA PcAfter ==
  ASSUME InstallBounds, Types, NEW i \in Installers
  PROVE  /\ \A p \in Pcs : goes(i, p) => inst'[i].pc = p
         /\ \A p \in Pcs : halfUndone(i, p) => inst'[i].pc = p
         /\ returns(i) => inst'[i].pc = "off"
         /\ backOut(i) => inst'[i].pc = "stop"
         /\ Revalidate(i) => inst'[i].pc \in {"off", "owner", "disconnect"}
         /\ RecordCA(i) => inst'[i].pc \in {"addCA", "stop"}
<1>0. inst \in Table /\ {"owner", "disconnect"} \subseteq Pcs BY DEF Types, Pcs, Reads
<1>1. returns(i) => inst'[i].pc = "off" BY <1>0, Returning, OffFields
<1>2. ASSUME Revalidate(i) PROVE inst'[i].pc \in {"off", "owner", "disconnect"}
  <2> DEFINE ph == IF inst[i].mode = "install" THEN "forward" ELSE "uninstall"
             p == IF inst[i].mode = "install" THEN "owner" ELSE "disconnect"
  <2>1. CASE inst' = [inst EXCEPT ![i].old = root # NoTree, ![i].phase = ph, ![i].pc = p]
    <3>1. ph \in {"forward", "uninstall"} /\ p \in {"owner", "disconnect"} OBVIOUS
    <3> HIDE DEF ph, p
    <3> QED BY <2>1, <3>1, <1>0, Validated
  <2> QED BY <1>1, <1>2, <2>1 DEF Revalidate, failsOut
<1>3. ASSUME RecordCA(i) PROVE inst'[i].pc \in {"addCA", "stop"}
  BY <1>0, <1>3, Recorded, RecordFailed DEF RecordCA
<1> QED BY <1>0, <1>1, <1>2, <1>3, Going, Undoing, BackingOut DEF Becomes

\* An installer's step under the lock keeps it quiet: it goes past a check of the
\* registration, the daemon or the network only when that check passed.
LEMMA LockedQuiet ==
  ASSUME InstallBounds, Types, MachineInv, NEW i \in Installers, QuietAt(inst[i].pc),
         lockedStep(i)
  PROVE  MachineInv' /\ QuietAt(inst[i].pc)'
<1>0. /\ \A p \in Pcs : goes(i, p) => inst'[i].pc = p
      /\ \A p \in Pcs : halfUndone(i, p) => inst'[i].pc = p
      /\ returns(i) => inst'[i].pc = "off"
      /\ backOut(i) => inst'[i].pc = "stop"
      /\ Revalidate(i) => inst'[i].pc \in {"off", "owner", "disconnect"}
      /\ RecordCA(i) => inst'[i].pc \in {"addCA", "stop"}
  BY PcAfter
<1>c. [root EXCEPT !.claims = TRUE] # NoTree BY TreeType DEF Types
<1> USE DEF QuietAt, MachineInv, Quiets, Stages, Removes, Backs, Ends, disk, machine,
    keychain, others
<1>1. CASE Revalidate(i)
  BY <1>0, <1>1 DEF Revalidate, registered, Pcs, Stops, Fresh, Reads, Boots
<1>2. CASE InstallOwner(i)
  BY <1>0, <1>2 DEF InstallOwner, verdict, failsOut, registered, Pcs, Stops, Fresh,
     Reads, Boots
<1>3. CASE Status(i)
  BY <1>0, <1>3 DEF Status, failsOut, registered, Pcs, Stops, Fresh, Reads, Boots
<1>4. CASE Disconnect(i)
  BY <1>0, <1>4 DEF Disconnect, failsOut, registered, Pcs, Stops, Fresh, Reads, Boots
<1>5. CASE StopBootout(i)
  BY <1>0, <1>5 DEF StopBootout, failsOut, registered, Pcs, Stops, Fresh, Reads, Boots
<1>6. CASE WaitUnregistered(i)
  BY <1>0, <1>6 DEF WaitUnregistered, failsOut, registered, Pcs, Stops, Fresh, Reads,
     Boots
<1>7. CASE AwaitDaemonLock(i)
  BY <1>0, <1>7 DEF AwaitDaemonLock, failsOut, registered, Pcs, Stops, Fresh, Reads, Boots
<1>8. CASE Restore(i)
  BY <1>0, <1>8 DEF Restore, failsOut, registered, Pcs, Stops, Fresh, Reads, Boots
<1>9. CASE PrepareStage(i)
  BY <1>0, <1>9 DEF PrepareStage, registered, Pcs, Stops, Fresh, Reads, Boots
<1>10. CASE MoveOld(i)
  BY <1>0, <1>10 DEF MoveOld, undo, registered, Pcs, Stops, Fresh, Reads, Boots
<1>11. CASE MovePlist(i)
  BY <1>0, <1>11 DEF MovePlist, undo, registered, Pcs, Stops, Fresh, Reads, Boots
<1>12. CASE MoveStage(i)
  BY <1>0, <1>12 DEF MoveStage, undo, registered, Pcs, Stops, Fresh, Reads, Boots
<1>13. CASE WritePlist(i)
  BY <1>0, <1>13 DEF WritePlist, undo, registered, Pcs, Stops, Fresh, Reads, Boots
<1>14. CASE UndoNew(i)
  BY <1>0, <1>14 DEF UndoNew, registered, Pcs, Stops, Fresh, Reads, Boots
<1>15. CASE UndoOld(i)
  BY <1>0, <1>15 DEF UndoOld, registered, Pcs, Stops, Fresh, Reads, Boots
<1>16. CASE UndoPlist(i)
  BY <1>0, <1>16 DEF UndoPlist, registered, Pcs, Stops, Fresh, Reads, Boots
<1>17. CASE Bootstrap(i)
  BY <1>0, <1>17 DEF Bootstrap, registered, Pcs, Stops, Fresh, Reads, Boots
<1>18. CASE WaitIdle(i)
  BY <1>0, <1>18 DEF WaitIdle, registered, Pcs, Stops, Fresh, Reads, Boots
<1>19. CASE CheckCA(i)
  BY <1>0, <1>19 DEF CheckCA, registered, Pcs, Stops, Fresh, Reads, Boots
<1>20. CASE RecordCA(i)
  BY <1>0, <1>20, <1>c DEF RecordCA, registered, Pcs, Stops, Fresh, Reads, Boots
<1>21. CASE AddCA(i) BY <1>0, <1>21 DEF AddCA, registered, Pcs, Stops, Fresh, Reads, Boots
<1>22. CASE StartOld(i)
  BY <1>0, <1>22 DEF StartOld, failsOut, registered, Pcs, Stops, Fresh, Reads, Boots
<1>23. CASE RollbackCA(i)
  BY <1>0, <1>23 DEF RollbackCA, removesCA, failsOut, registered, Pcs, Stops, Fresh,
     Reads, Boots
<1>24. CASE RollbackRoot(i)
  BY <1>0, <1>24 DEF RollbackRoot, failsOut, registered, Pcs, Stops, Fresh, Reads, Boots
<1>25. CASE RollbackPlist(i)
  BY <1>0, <1>25 DEF RollbackPlist, failsOut, registered, Pcs, Stops, Fresh, Reads, Boots
<1>26. CASE RollbackOld(i)
  BY <1>0, <1>26 DEF RollbackOld, failsOut, registered, Pcs, Stops, Fresh, Reads, Boots
<1>27. CASE UninstallCA(i)
  BY <1>0, <1>27 DEF UninstallCA, removesCA, failsOut, registered, Pcs, Stops, Fresh,
     Reads, Boots
<1>28. CASE UninstallPlist(i)
  BY <1>0, <1>28 DEF UninstallPlist, failsOut, registered, Pcs, Stops, Fresh, Reads, Boots
<1>29. CASE UninstallRoot(i)
  BY <1>0, <1>29 DEF UninstallRoot, failsOut, registered, Pcs, Stops, Fresh, Reads, Boots
<1> QED BY <1>1, <1>2, <1>3, <1>4, <1>5, <1>6, <1>7, <1>8, <1>9, <1>10, <1>11, <1>12, <1>13,
    <1>14, <1>15, <1>16, <1>17, <1>18, <1>19, <1>20, <1>21, <1>22, <1>23, <1>24, <1>25, <1>26,
    <1>27, <1>28, <1>29 DEF lockedStep, stops, activates, starts, removes

\* Nothing else registers or starts a daemon meanwhile.
LEMMA QuietStep == ASSUME InstallBounds, Types, Exclusive, Quiet, [InstallNext]_installVars PROVE Quiet'
<1> USE DEF Quiet
<1>o. "off" \in Outside /\ \A p \in Fresh : QuietAt(p) /\ QuietAt(p)'
  BY DEF Outside, Fresh, QuietAt, Quiets, Stages, Removes, Backs, Ends
<1>p. Outside \subseteq Fresh /\ Off.pc = "off" /\ "revalidate" \in Fresh
      /\ "preflight" \in Fresh
  BY OffFields DEF Outside, Fresh
<1>1. ASSUME NEW i \in Installers, lockedStep(i) PROVE Quiet'
  <2>1. MachineInv' /\ QuietAt(inst[i].pc)'
    BY <1>1, LockedQuiet
  <2>2. Alone(i) /\ inst[i].pc \notin Outside BY <1>1, Outcomes DEF Outcome
  <2>3. ASSUME NEW j \in Installers, j # i PROVE QuietAt(inst[j].pc)'
    <3>1. inst'[j] = inst[j] /\ inst[j].pc \in Outside BY <2>2, <2>3 DEF Exclusive, Alone
    <3> QED BY <1>o, <1>p, <3>1 DEF QuietAt
  <2> QED BY <2>1, <2>3
<1>2. ASSUME NEW i \in Installers, outsideStep(i) PROVE Quiet'
  <2>1. Alone(i) /\ UNCHANGED <<root, reg, daemon, traffic>>
    BY <1>2, OutsideOutcome DEF disk, machine
  <2>2. inst'[i].pc \in Fresh BY <1>2, OutsideOutcome
  <2>3. QuietAt(inst[i].pc)' BY <1>o, <2>1, <2>2 DEF QuietAt
  <2> QED BY <2>1, <2>3 DEF Alone, QuietAt, MachineInv
<1>3. ASSUME NEW i \in Installers, InstallerDies(i) PROVE Quiet'
  <2>1. Alone(i) /\ inst'[i].pc = "off" /\ UNCHANGED <<root, reg, daemon, traffic>>
    BY <1>3, <1>p, DeathOutcome
  <2>2. QuietAt(inst[i].pc)' BY <1>o, <1>p, <2>1 DEF QuietAt
  <2> QED BY <2>1, <2>2 DEF Alone, QuietAt, MachineInv
<1>4. CASE machineStep
  <2>1. UNCHANGED <<root, inst>>
    BY <1>4 DEF machineStep, DaemonStarts, UserConnects, UserDisconnects, DaemonStops,
       Unregisters,
                DaemonKilled, UserEditsKeychain, disk
  <2>2. MachineInv'
    BY <1>4 DEF Types, MachineInv, machineStep, DaemonStarts, UserConnects,
       UserDisconnects, DaemonStops,
                Unregisters, DaemonKilled, UserEditsKeychain, disk, machine
  <2>3. ASSUME NEW i \in Installers PROVE QuietAt(inst[i].pc)'
    BY <1>4, <2>1 DEF Types, QuietAt, MachineInv, machineStep, DaemonStarts, UserConnects,
       UserDisconnects,
                DaemonStops, Unregisters, DaemonKilled, UserEditsKeychain, disk,
                machine, Quiets
  <2> QED BY <2>2, <2>3
<1>5. CASE MachineReboots
  <2>1. \A i \in Installers : inst'[i].pc = "off" BY <1>5, <1>p DEF MachineReboots
  <2>2. \A i \in Installers : QuietAt(inst[i].pc)' BY <1>o, <1>p, <2>1 DEF QuietAt
  <2>3. MachineInv' BY <1>5 DEF MachineReboots, MachineInv, disk
  <2> QED BY <2>2, <2>3
<1>6. CASE UNCHANGED installVars BY <1>6 DEF installVars, MachineInv, QuietAt
<1> QED BY <1>1, <1>2, <1>3, <1>4, <1>5, <1>6, NextCases

\* A step that exchanges trees finds the machine quiet.
LEMMA QuietSwap ==
  ASSUME InstallBounds, Types, Quiet, [InstallNext]_installVars, root'.ver # root.ver
  PROVE  reg = "no" /\ daemon = "off" /\ traffic = "clean"
<1>0. UNCHANGED root => root'.ver = root.ver OBVIOUS
<1>1. ASSUME NEW i \in Installers, lockedStep(i) PROVE inst[i].pc \in Quiets
  <2>1. [root EXCEPT !.claims = TRUE].ver = root.ver BY TreeType DEF Types
  <2>2. RecordCA(i) => root'.ver = root.ver BY <2>1 DEF RecordCA
  <2>3. lockedStep(i) => UNCHANGED root \/ RecordCA(i) \/ inst[i].pc \in Quiets
    BY DEF lockedStep, stops, activates, starts, removes, Revalidate, InstallOwner,
       Status, Disconnect,
           StopBootout, WaitUnregistered, AwaitDaemonLock, Restore, PrepareStage,
           MoveOld, MovePlist,
           MoveStage, WritePlist, UndoNew, UndoOld, UndoPlist, Bootstrap,
           WaitIdle, CheckCA, AddCA,
           StartOld, RollbackCA, RollbackRoot, RollbackPlist, RollbackOld,
           UninstallCA, UninstallPlist,
           UninstallRoot, Quiets, Stages, Removes, Backs, Ends, disk
  <2> QED BY <1>0, <1>1, <2>2, <2>3
<1>2. ASSUME NEW i \in Installers, outsideStep(i) \/ InstallerDies(i) PROVE UNCHANGED root
  BY <1>2, OutsideOutcome, DeathOutcome DEF disk
<1>3. machineStep \/ MachineReboots \/ UNCHANGED installVars => UNCHANGED root
  BY DEF machineStep, DaemonStarts, UserConnects, UserDisconnects, DaemonStops,
     Unregisters,
         DaemonKilled, UserEditsKeychain, MachineReboots, disk, installVars
<1> QED BY <1>0, <1>1, <1>2, <1>3, NextCases DEF Quiet, QuietAt

-----------------------------------------------------------------------------
(* Versions *)

\* What each form of assignment makes of an installer.
Forms(i) ==
  /\ \A p \in Pcs : goes(i, p) \/ halfUndone(i, p) => Becomes(i, p, inst[i].phase)
  /\ backOut(i) => Becomes(i, "stop", "back")
  /\ returns(i) => inst'[i] = Off

\* Those are the forms of the simple steps.
LEMMA FormsHold == ASSUME InstallBounds, Types, NEW i \in Installers PROVE Forms(i)
<1>0. inst \in Table BY DEF Types
<1>1. ASSUME NEW p \in Pcs, halfUndone(i, p) PROVE Becomes(i, p, inst[i].phase)
  BY <1>0, <1>1, Undoing DEF Becomes, SameRun
<1> QED BY <1>0, <1>1, Going, BackingOut, Returning DEF Forms

\* MovePlist goes on to the stage or to its undo.
LEMMA PlistForm ==
  ASSUME Types, NEW i \in Installers, MovePlist(i)
  PROVE  Becomes(i, "moveStage", inst[i].phase) \/ Becomes(i, "undoNew", inst[i].phase)
<1>0. inst \in Table /\ plist \in BOOLEAN /\ "undoNew" \in Pcs BY DEF Types, Pcs, Stages
<1>1. CASE inst' = [inst EXCEPT ![i].pc = "moveStage", ![i].oldPlist = plist]
  BY <1>0, <1>1, PlistMoved DEF Becomes, SameRun
<1>2. CASE undo(i) BY <1>0, <1>2, Going DEF undo
<1> QED BY <1>1, <1>2 DEF MovePlist

\* Revalidate refuses, or learns whether there is an old tree.
LEMMA RevalidateForm ==
  ASSUME InstallBounds, Types, NEW i \in Installers, Revalidate(i)
  PROVE  \/ inst'[i] = Off
         \/ /\ ~orphan /\ inst'[i].pc \in {"owner", "disconnect"} /\ inst'[i].phase # "back"
            /\ inst'[i].old = (root # NoTree) /\ inst'[i].id = inst[i].id
            /\ inst'[i].claims = inst[i].claims
            /\ inst'[i].addedNow = inst[i].addedNow /\ inst'[i].stage = inst[i].stage
            /\ inst'[i].backup = inst[i].backup /\ UNCHANGED lock
<1> DEFINE ph == IF inst[i].mode = "install" THEN "forward" ELSE "uninstall"
           p == IF inst[i].mode = "install" THEN "owner" ELSE "disconnect"
<1>0. inst \in Table /\ {"owner", "disconnect"} \subseteq Pcs BY DEF Types, Pcs, Reads
<1>1. CASE inst' = [inst EXCEPT ![i].old = root # NoTree, ![i].phase = ph, ![i].pc = p]
           /\ ~orphan /\ UNCHANGED lock
  <2>1. ph \in {"forward", "uninstall"} /\ p \in {"owner", "disconnect"} OBVIOUS
  <2> HIDE DEF ph, p
  <2>2. /\ inst'[i].pc = p /\ inst'[i].phase = ph /\ inst'[i].old = (root # NoTree)
        /\ inst'[i].id = inst[i].id /\ inst'[i].claims = inst[i].claims
        /\ inst'[i].addedNow = inst[i].addedNow /\ inst'[i].stage = inst[i].stage
        /\ inst'[i].backup = inst[i].backup
    BY <1>1, <2>1, <1>0, Validated
  <2> QED BY <1>1, <2>1, <2>2
<1>2. returns(i) => inst'[i] = Off BY <1>0, Returning
<1> QED BY <1>1, <1>2 DEF Revalidate, failsOut

\* PrepareStage makes a tree with a claim carried over, or gives up.
LEMMA StageForm ==
  ASSUME Types, NEW i \in Installers, PrepareStage(i)
  PROVE  \/ Becomes(i, "startOld", inst[i].phase) /\ UNCHANGED kept
         \/ /\ inst'[i].pc = "moveOld" /\ inst'[i].phase = inst[i].phase
               /\ inst'[i].id = inst[i].id
            /\ inst'[i].old = inst[i].old /\ inst'[i].addedNow = inst[i].addedNow
            /\ inst'[i].backup = inst[i].backup /\ inst'[i].stage.ver = inst[i].id
            /\ inst'[i].stage.claims = (inst[i].old /\ root.claims)
            /\ kept' = kept \cup {inst'[i].stage}
<1> DEFINE t == [ver |-> inst[i].id, claims |-> inst[i].old /\ root.claims]
<1>0. inst \in Table /\ "startOld" \in Pcs /\ root \in Trees BY DEF Types, Pcs, Ends
<1>1. t \in Trees /\ t.claims \in BOOLEAN /\ t.ver = inst[i].id
      /\ t.claims = (inst[i].old /\ root.claims)
  BY <1>0, RunType, TreeType
<1>2. CASE inst' = [inst EXCEPT ![i].pc = "moveOld", ![i].stage = t, ![i].claims = t.claims]
           /\ kept' = kept \cup {t}
  <2> HIDE DEF t
  <2>1. /\ inst'[i].pc = "moveOld" /\ inst'[i].phase = inst[i].phase /\ inst'[i].id = inst[i].id
        /\ inst'[i].old = inst[i].old /\ inst'[i].addedNow = inst[i].addedNow
        /\ inst'[i].backup = inst[i].backup /\ inst'[i].stage = t
    BY <1>0, <1>1, <1>2, Staged
  <2> QED BY <1>1, <1>2, <2>1
<1>3. CASE goes(i, "startOld") /\ UNCHANGED kept BY <1>0, <1>3, Going
<1> QED BY <1>2, <1>3 DEF PrepareStage

\* MoveOld puts the tree in place aside as the backup.
LEMMA MoveOldForm ==
  ASSUME Types, NEW i \in Installers, MoveOld(i)
  PROVE  \/ Becomes(i, "undoNew", inst[i].phase) /\ inst[i].old /\ UNCHANGED <<root, kept>>
         \/ Becomes(i, "movePlist", inst[i].phase) /\ ~inst[i].old /\ UNCHANGED <<root, kept>>
         \/ /\ inst'[i].pc = "movePlist" /\ inst'[i].phase = inst[i].phase
               /\ inst'[i].id = inst[i].id
            /\ inst'[i].old = inst[i].old /\ inst'[i].claims = inst[i].claims
            /\ inst'[i].addedNow = inst[i].addedNow
            /\ inst'[i].backup = root /\ inst'[i].stage = inst[i].stage /\ inst[i].old
            /\ root' = NoTree /\ kept' = kept \cup {root}
<1>0. inst \in Table /\ {"undoNew", "movePlist"} \subseteq Pcs /\ root \in Trees
  BY DEF Types, Pcs, Stages
<1>1. inst' = [inst EXCEPT ![i].pc = "movePlist", ![i].backup = root] =>
        /\ inst'[i].pc = "movePlist" /\ inst'[i].phase = inst[i].phase
        /\ inst'[i].id = inst[i].id
        /\ inst'[i].old = inst[i].old /\ inst'[i].claims = inst[i].claims
        /\ inst'[i].addedNow = inst[i].addedNow
        /\ inst'[i].backup = root /\ inst'[i].stage = inst[i].stage
  BY <1>0, OldMoved
<1>2. \A p \in Pcs : goes(i, p) => Becomes(i, p, inst[i].phase) BY <1>0, Going
<1> QED BY <1>0, <1>1, <1>2 DEF MoveOld, undo

\* RecordCA leaves the receipt as it was or makes it claim the certificate.
LEMMA RecordForm ==
  ASSUME Types, NEW i \in Installers, RecordCA(i)
  PROVE  /\ inst'[i].id = inst[i].id /\ inst'[i].old = inst[i].old /\ inst'[i].claims = TRUE
         /\ inst'[i].stage = inst[i].stage /\ inst'[i].backup = inst[i].backup
         /\ \/ inst'[i].pc = "addCA" /\ inst'[i].phase = inst[i].phase
               /\ inst'[i].addedNow = TRUE
               /\ root' = [root EXCEPT !.claims = TRUE]
            \/ inst'[i].pc = "stop" /\ inst'[i].phase = "back"
               /\ inst'[i].addedNow = inst[i].addedNow
         /\ root' \in {root, [root EXCEPT !.claims = TRUE]}
<1>0. inst \in Table BY DEF Types
<1> QED BY <1>0, Recorded, RecordFailed DEF RecordCA

\* Under the lock: the versions that come into place, and those put aside.
VersionStep(i) ==
  /\ UNCHANGED runs
  /\ inst'[i] = Off \/ inst'[i].id = inst[i].id
  /\ inst'[i].backup = NoTree \/ inst'[i].backup = inst[i].backup
     \/ (Before(inst[i]) /\ inst'[i].backup = root)
  /\ inst'[i].pc \in Stages => inst'[i].stage.ver = inst[i].id
  /\ inst'[i].pc \in Fresh \ {"off"} \/ Before(inst[i])' =>
       root'.ver = root.ver /\ (inst[i].pc \in Fresh \ {"off"} \/ Before(inst[i]))
  /\ \/ root'.ver = root.ver \/ root'.ver = 0 \/ root'.ver = inst[i].backup.ver
     \/ root'.ver = inst[i].id

\* Under the lock: that is what every step does to the versions.
LEMMA LockedVersions ==
  ASSUME InstallBounds, Types, Versions, NEW i \in Installers, lockedStep(i)
  PROVE  VersionStep(i)
<1>0. Forms(i) BY FormsHold
<1>1. /\ inst[i].pc \in Stages => inst[i].stage.ver = inst[i].id
      /\ inst[i].pc \in Pcs
  BY RunType DEF Versions, Types
<1>2. NoTree.ver = 0 /\ [root EXCEPT !.claims = TRUE].ver = root.ver BY TreeType DEF Types
<1>3. Off.pc = "off" /\ Off.backup = NoTree BY OffFields
<1>v. Revalidate(i) =>
         \/ inst'[i] = Off
         \/ /\ inst'[i].pc \in {"owner", "disconnect"} /\ inst'[i].id = inst[i].id
            /\ inst'[i].backup = inst[i].backup
  BY RevalidateForm
<1>s. PrepareStage(i) =>
         \/ Becomes(i, "startOld", inst[i].phase)
         \/ /\ inst'[i].pc = "moveOld" /\ inst'[i].id = inst[i].id
            /\ inst'[i].backup = inst[i].backup /\ inst'[i].stage.ver = inst[i].id
  BY StageForm
<1>m. MoveOld(i) =>
         \/ (Becomes(i, "undoNew", inst[i].phase) \/ Becomes(i, "movePlist", inst[i].phase))
            /\ UNCHANGED root
         \/ /\ inst'[i].pc = "movePlist" /\ inst'[i].id = inst[i].id
            /\ inst'[i].backup = root /\ inst'[i].stage = inst[i].stage /\ root' = NoTree
  BY MoveOldForm
<1>p. MovePlist(i) => Becomes(i, "moveStage", inst[i].phase)
      \/ Becomes(i, "undoNew", inst[i].phase)
  BY PlistForm
<1>c. RecordCA(i) =>
         /\ inst'[i].id = inst[i].id /\ inst'[i].stage = inst[i].stage
         /\ inst'[i].backup = inst[i].backup
         /\ inst'[i].pc = "addCA" \/ (inst'[i].pc = "stop" /\ inst'[i].phase = "back")
         /\ root' \in {root, [root EXCEPT !.claims = TRUE]}
  BY RecordForm
<1> USE DEF VersionStep, Before, Becomes, SameRun, Forms, Stages, Fresh, Removes, Reads, Stops,
    disk, others
<1>4. CASE Revalidate(i)
  BY <1>4, <1>0, <1>1, <1>2, <1>3, <1>v DEF Revalidate, Pcs, Boots, Backs, Ends
<1>5. CASE InstallOwner(i)
  BY <1>5, <1>0, <1>1, <1>2, <1>3 DEF InstallOwner, verdict, failsOut, Pcs, Boots, Backs,
     Ends
<1>6. CASE Status(i)
  BY <1>6, <1>0, <1>1, <1>2, <1>3 DEF Status, failsOut, Pcs, Boots, Backs, Ends
<1>7. CASE Disconnect(i)
  BY <1>7, <1>0, <1>1, <1>2, <1>3 DEF Disconnect, failsOut, Pcs, Boots, Backs, Ends
<1>8. CASE StopBootout(i)
  BY <1>8, <1>0, <1>1, <1>2, <1>3 DEF StopBootout, failsOut, Pcs, Boots, Backs, Ends
<1>9. CASE WaitUnregistered(i)
  BY <1>9, <1>0, <1>1, <1>2, <1>3 DEF WaitUnregistered, failsOut, Pcs, Boots, Backs, Ends
<1>10. CASE AwaitDaemonLock(i)
  BY <1>10, <1>0, <1>1, <1>2, <1>3 DEF AwaitDaemonLock, failsOut, Pcs, Boots, Backs, Ends
<1>11. CASE Restore(i)
  BY <1>11, <1>0, <1>1, <1>2, <1>3 DEF Restore, failsOut, Pcs, Boots, Backs, Ends
<1>12. CASE PrepareStage(i)
  BY <1>12, <1>0, <1>1, <1>2, <1>3, <1>s DEF PrepareStage, Pcs, Boots, Backs, Ends
<1>13. CASE MoveOld(i)
  BY <1>13, <1>0, <1>1, <1>2, <1>3, <1>m DEF MoveOld, undo, Pcs, Boots, Backs, Ends
<1>14. CASE MovePlist(i)
  BY <1>14, <1>0, <1>1, <1>2, <1>3, <1>p DEF MovePlist, undo, Pcs, Boots, Backs, Ends
<1>15. CASE MoveStage(i)
  BY <1>15, <1>0, <1>1, <1>2, <1>3 DEF MoveStage, undo, Pcs, Boots, Backs, Ends
<1>16. CASE WritePlist(i)
  BY <1>16, <1>0, <1>1, <1>2, <1>3 DEF WritePlist, undo, Pcs, Boots, Backs, Ends
<1>17. CASE UndoNew(i) BY <1>17, <1>0, <1>1, <1>2, <1>3 DEF UndoNew, Pcs, Boots, Backs, Ends
<1>18. CASE UndoOld(i) BY <1>18, <1>0, <1>1, <1>2, <1>3 DEF UndoOld, Pcs, Boots, Backs, Ends
<1>19. CASE UndoPlist(i)
  BY <1>19, <1>0, <1>1, <1>2, <1>3 DEF UndoPlist, Pcs, Boots, Backs, Ends
<1>20. CASE Bootstrap(i)
  BY <1>20, <1>0, <1>1, <1>2, <1>3 DEF Bootstrap, Pcs, Boots, Backs, Ends
<1>21. CASE WaitIdle(i)
  BY <1>21, <1>0, <1>1, <1>2, <1>3 DEF WaitIdle, Pcs, Boots, Backs, Ends
<1>22. CASE CheckCA(i) BY <1>22, <1>0, <1>1, <1>2, <1>3 DEF CheckCA, Pcs, Boots, Backs, Ends
<1>23. CASE RecordCA(i)
  BY <1>23, <1>0, <1>1, <1>2, <1>3, <1>c DEF RecordCA, Pcs, Boots, Backs, Ends
<1>24. CASE AddCA(i) BY <1>24, <1>0, <1>1, <1>2, <1>3 DEF AddCA, Pcs, Boots, Backs, Ends
<1>25. CASE StartOld(i)
  BY <1>25, <1>0, <1>1, <1>2, <1>3 DEF StartOld, failsOut, Pcs, Boots, Backs, Ends
<1>26. CASE RollbackCA(i)
  BY <1>26, <1>0, <1>1, <1>2, <1>3 DEF RollbackCA, removesCA, failsOut, Pcs, Boots, Backs,
     Ends
<1>27. CASE RollbackRoot(i)
  BY <1>27, <1>0, <1>1, <1>2, <1>3 DEF RollbackRoot, failsOut, Pcs, Boots, Backs, Ends
<1>28. CASE RollbackPlist(i)
  BY <1>28, <1>0, <1>1, <1>2, <1>3 DEF RollbackPlist, failsOut, Pcs, Boots, Backs, Ends
<1>29. CASE RollbackOld(i)
  BY <1>29, <1>0, <1>1, <1>2, <1>3 DEF RollbackOld, failsOut, Pcs, Boots, Backs, Ends
<1>30. CASE UninstallCA(i)
  BY <1>30, <1>0, <1>1, <1>2, <1>3 DEF UninstallCA, removesCA, failsOut, Pcs, Boots,
     Backs, Ends
<1>31. CASE UninstallPlist(i)
  BY <1>31, <1>0, <1>1, <1>2, <1>3 DEF UninstallPlist, failsOut, Pcs, Boots, Backs, Ends
<1>32. CASE UninstallRoot(i)
  BY <1>32, <1>0, <1>1, <1>2, <1>3 DEF UninstallRoot, failsOut, Pcs, Boots, Backs, Ends
<1> QED BY <1>4, <1>5, <1>6, <1>7, <1>8, <1>9, <1>10, <1>11, <1>12, <1>13, <1>14, <1>15, <1>16,
    <1>17, <1>18, <1>19, <1>20, <1>21, <1>22, <1>23, <1>24, <1>25, <1>26, <1>27, <1>28, <1>29,
    <1>30, <1>31, <1>32 DEF lockedStep, stops, activates, starts, removes

\* No two invocations or trees share a version, after any step.
LEMMA VersionsStep ==
  ASSUME InstallBounds, Types, Exclusive, Versions, [InstallNext]_installVars PROVE Versions'
<1>t. /\ runs \in Nat /\ root.ver \in Nat /\ NoTree.ver = 0
      /\ \A i \in Installers : inst[i].id \in Nat /\ inst[i].backup.ver \in Nat
         /\ inst[i].stage.ver \in Nat
  BY RunType, TreeType DEF InstallBounds, Types
<1>o. Off.pc = "off" /\ Off.id = 0 /\ Off.backup = NoTree BY OffFields
<1>f. Outside \subseteq Fresh /\ "off" \in Outside /\ "off" \notin Stages /\ ~Before(Off)
      /\ \A p \in Fresh : p \notin Stages
  BY OffFields DEF Outside, Fresh, Stages, Before, Stops, Reads, Removes
<1>b. \A i \in Installers : inst[i].pc \in Fresh => ~Before(inst[i])
  BY DEF Before, Fresh, Stages, Stops, Reads, Removes
<1>1. ASSUME NEW i \in Installers, lockedStep(i) PROVE Versions'
  <2>1. VersionStep(i) BY <1>1, LockedVersions
  <2>2. inst[i].pc # "off" /\ \A j \in Installers : j # i => inst'[j] = inst[j]
        /\ inst[j].pc \in Outside
    BY <1>1, <1>f, Outcomes DEF Outcome, Alone, Exclusive
  <2>3. \A j \in Installers : inst'[j].pc # "off" => inst[j].pc # "off"
        /\ inst'[j].id = inst[j].id
    BY <1>o, <2>1, <2>2 DEF VersionStep
  <2>4. root'.ver <= runs BY <1>t, <2>1 DEF VersionStep, Versions
  <2>5. \A j \in Installers : inst'[j].id <= runs /\ inst'[j].backup.ver <= runs
                              /\ (inst'[j].pc # "off" => inst'[j].id >= 1)
    BY <1>t, <1>o, <2>1, <2>2, <2>3 DEF VersionStep, Versions
  <2>6. \A j \in Installers : inst'[j].pc \in Stages => inst'[j].stage.ver = inst'[j].id
    BY <1>f, <1>o, <2>1, <2>2 DEF VersionStep
  <2>7. \A j \in Installers : root.ver = inst[j].id => j = i \/ inst[j].pc = "off"
    BY <1>f, <2>2 DEF Versions
  <2>8. \A j \in Installers : (inst[j].pc \in Fresh \ {"off"} \/ Before(inst[j]))' =>
        root'.ver # inst'[j].id
    <3>1. ASSUME NEW j \in Installers, j # i, inst[j].pc # "off" PROVE root'.ver # inst[j].id
      BY <1>t, <2>1, <2>2, <2>7, <3>1 DEF VersionStep, Versions
    <3>2. (inst[i].pc \in Fresh \ {"off"} \/ Before(inst[i]))' => root'.ver # inst'[i].id
      BY <1>o, <1>f, <2>1, <2>3 DEF VersionStep, Versions, Before
    <3>3. \A j \in Installers : j # i => (Before(inst[j])' <=> Before(inst[j]))
      BY <2>2 DEF Before
    <3> QED BY <1>b, <1>f, <2>2, <3>1, <3>2, <3>3
  <2>9. \A j, k \in Installers : inst'[j].pc # "off" /\ inst'[k].pc # "off" =>
            /\ j # k => inst'[j].id # inst'[k].id
            /\ inst'[j].backup.ver # inst'[k].id
    <3>1. ASSUME NEW k \in Installers, inst[k].pc # "off", Before(inst[i])
          PROVE  root.ver # inst[k].id
      BY <2>7, <3>1 DEF Versions
    <3>2. ASSUME NEW k \in Installers, inst[k].pc # "off" PROVE inst'[i].backup.ver # inst[k].id
      BY <1>t, <2>1, <2>2, <3>1, <3>2 DEF VersionStep, Versions
    <3> QED BY <2>2, <2>3, <3>2 DEF Versions
  <2>10. UNCHANGED runs BY <2>1 DEF VersionStep
  <2> QED BY <2>4, <2>5, <2>6, <2>8, <2>9, <2>10 DEF Versions
<1>2. ASSUME NEW i \in Installers, outsideStep(i) PROVE Versions'
  <2>1. Alone(i) /\ UNCHANGED root /\ inst[i].pc \in Outside /\ inst'[i].pc \in Fresh
    BY <1>2, OutsideOutcome DEF disk
  <2>2. \/ inst'[i].pc = "off" /\ inst'[i].id = 0 /\ inst'[i].backup = NoTree
        \/ /\ inst[i].pc # "off" /\ inst'[i].id = inst[i].id /\ inst'[i].backup = inst[i].backup
        \/ /\ inst[i].pc = "off" /\ inst'[i].id = runs + 1 /\ inst'[i].backup = NoTree
    BY <1>2, <1>o, OutsideOutcome DEF Becomes, SameRun
  <2>3. UNCHANGED runs \/ (inst[i].pc = "off" /\ runs' = runs + 1) BY <1>2, OutsideOutcome
  <2>4. inst[i].pc = "off" => runs' = runs + 1 BY <1>2, OutsideOutcome
  <2>5. \A j \in Installers : j # i => (Before(inst[j])' <=> Before(inst[j]))
    BY <2>1 DEF Before, Alone
  <2>6. ~Before(inst[i])' BY <2>1 DEF Before, Fresh, Stages, Stops, Reads, Removes
  <2>7. runs <= runs' /\ runs' \in Nat BY <1>t, <2>3
  <2>8. \A j \in Installers : inst'[j].id <= runs' /\ inst'[j].backup.ver <= runs'
                              /\ (inst'[j].pc # "off" => inst'[j].id >= 1)
    <3>1. \A j \in Installers : inst[j].id <= runs' /\ inst[j].backup.ver <= runs'
      BY <1>t, <2>7 DEF Versions
    <3>2. inst'[i].id <= runs' /\ inst'[i].backup.ver <= runs'
          /\ (inst'[i].pc # "off" => inst'[i].id >= 1)
      BY <1>t, <2>2, <2>4, <2>7, <3>1 DEF Versions
    <3> QED BY <2>1, <3>1, <3>2 DEF Alone, Versions
  <2>9. inst'[i].pc # "off" => \/ inst[i].pc # "off" /\ inst'[i].id = inst[i].id
                               \/ inst'[i].id = runs + 1
    BY <2>2
  <2>10. \A j \in Installers : (inst[j].pc \in Fresh \ {"off"} \/ Before(inst[j]))' =>
         root'.ver # inst'[j].id
    <3>1. inst'[i].pc # "off" => root'.ver # inst'[i].id
      BY <1>f, <1>t, <2>1, <2>9 DEF Versions
    <3> QED BY <2>1, <2>5, <2>6, <3>1 DEF Versions, Alone
  <2>11. \A j, k \in Installers : inst'[j].pc # "off" /\ inst'[k].pc # "off" =>
            /\ j # k => inst'[j].id # inst'[k].id
            /\ inst'[j].backup.ver # inst'[k].id
    <3>1. ASSUME NEW j \in Installers, j # i, inst[j].pc # "off", inst'[i].pc # "off"
          PROVE  inst'[i].id # inst[j].id /\ inst[j].backup.ver # inst'[i].id
      BY <1>t, <2>9, <3>1 DEF Versions
    <3>2. ASSUME NEW k \in Installers, inst'[k].pc # "off", inst'[i].pc # "off"
          PROVE  inst'[i].backup.ver # inst'[k].id
      <4>1. CASE inst'[i].backup = NoTree BY <1>t, <2>8, <3>2, <4>1
      <4>2. CASE inst'[i].backup = inst[i].backup /\ inst[i].pc # "off"
                 /\ inst'[i].id = inst[i].id
        BY <2>1, <3>2, <4>2 DEF Versions, Alone
      <4> QED BY <2>2, <3>2, <4>1, <4>2
    <3> QED BY <2>1, <3>1, <3>2 DEF Versions, Alone
  <2>12. \A j \in Installers : inst'[j].pc \in Stages => inst'[j].stage.ver = inst'[j].id
    BY <1>f, <2>1 DEF Versions, Alone
  <2>13. root'.ver <= runs' BY <1>t, <2>1, <2>7 DEF Versions
  <2> QED BY <2>8, <2>10, <2>11, <2>12, <2>13 DEF Versions
<1>3. ASSUME NEW i \in Installers, InstallerDies(i) PROVE Versions'
  <2>1. Alone(i) /\ inst'[i] = Off /\ UNCHANGED <<root, runs>> BY <1>3, DeathOutcome
  <2>2. \A j \in Installers : j # i => (Before(inst[j])' <=> Before(inst[j]))
    BY <2>1 DEF Before, Alone
  <2>3. ~Before(inst[i])' BY <1>f, <2>1 DEF Before
  <2> QED BY <1>t, <1>o, <1>f, <2>1, <2>2, <2>3 DEF Versions, Alone
<1>4. CASE machineStep
  <2>1. UNCHANGED <<root, inst, runs>>
    BY <1>4 DEF machineStep, DaemonStarts, UserConnects, UserDisconnects, DaemonStops,
       Unregisters,
                DaemonKilled, UserEditsKeychain, disk, others
  <2> QED BY <2>1 DEF Versions, Before
<1>5. CASE MachineReboots
  <2>1. UNCHANGED <<root, runs>> /\ \A i \in Installers : inst'[i] = Off
    BY <1>5 DEF MachineReboots, disk
  <2>2. \A i \in Installers : ~Before(inst[i])' BY <1>f, <2>1 DEF Before
  <2> QED BY <1>t, <1>o, <1>f, <2>1, <2>2 DEF Versions
<1>6. CASE UNCHANGED installVars BY <1>6 DEF installVars, Versions, Before
<1> QED BY <1>1, <1>2, <1>3, <1>4, <1>5, <1>6, NextCases

-----------------------------------------------------------------------------
(* Where the trees are *)

\* Under the lock an installer knows where the trees are, after each of its steps.
LEMMA LockedPlace ==
  ASSUME InstallBounds, Types, Versions, NEW i \in Installers, Place(inst[i]), lockedStep(i)
  PROVE  Place(inst[i])'
<1>0. Forms(i) BY FormsHold
<1>1. /\ inst[i].pc \in Stages => inst[i].stage # NoTree
      /\ inst[i].pc \in Stages /\ Before(inst[i]) => root # inst[i].stage
      /\ inst[i].pc \in Pcs /\ inst[i].phase \in {"forward", "back", "uninstall"}
      /\ inst[i].old \in BOOLEAN /\ inst[i].addedNow \in BOOLEAN
  <2>1. "off" \notin Stages BY DEF Stages
  <2>2. NoTree.ver = 0 BY TreeType
  <2>3. inst[i].id \in Nat /\ inst[i].pc \in Pcs
        /\ inst[i].phase \in {"forward", "back", "uninstall"}
        /\ inst[i].old \in BOOLEAN /\ inst[i].addedNow \in BOOLEAN
    BY RunType DEF InstallBounds, Types
  <2> QED BY <2>1, <2>2, <2>3 DEF Versions
<1>2. [root EXCEPT !.claims = TRUE] # NoTree BY TreeType DEF Types
<1>3. /\ Off.pc = "off" /\ Off.backup = NoTree /\ Off.stage = NoTree
         /\ Off.phase = "forward"
      /\ Off.old = FALSE /\ Off.addedNow = FALSE
  BY OffFields
<1>v. Revalidate(i) =>
         \/ inst'[i] = Off
         \/ /\ inst'[i].pc \in {"owner", "disconnect"} /\ inst'[i].phase # "back"
            /\ inst'[i].old = (root # NoTree) /\ inst'[i].addedNow = inst[i].addedNow
            /\ inst'[i].backup = inst[i].backup
  BY RevalidateForm
<1>s. PrepareStage(i) =>
         \/ Becomes(i, "startOld", inst[i].phase)
         \/ /\ inst'[i].pc = "moveOld" /\ inst'[i].phase = inst[i].phase
            /\ inst'[i].old = inst[i].old /\ inst'[i].addedNow = inst[i].addedNow
            /\ inst'[i].backup = inst[i].backup
  BY StageForm
<1>m. MoveOld(i) =>
         \/ Becomes(i, "undoNew", inst[i].phase) /\ inst[i].old /\ UNCHANGED root
         \/ Becomes(i, "movePlist", inst[i].phase) /\ ~inst[i].old /\ UNCHANGED root
         \/ /\ inst'[i].pc = "movePlist" /\ inst'[i].phase = inst[i].phase
            /\ inst'[i].old = inst[i].old /\ inst'[i].addedNow = inst[i].addedNow
            /\ inst'[i].backup = root /\ inst[i].old /\ root' = NoTree
  BY MoveOldForm
<1>p. MovePlist(i) => Becomes(i, "moveStage", inst[i].phase)
      \/ Becomes(i, "undoNew", inst[i].phase)
  BY PlistForm
<1>c. RecordCA(i) =>
         /\ inst'[i].old = inst[i].old /\ inst'[i].backup = inst[i].backup
         /\ \/ inst'[i].pc = "addCA" /\ inst'[i].phase = inst[i].phase
               /\ inst'[i].addedNow = TRUE
            \/ inst'[i].pc = "stop" /\ inst'[i].phase = "back"
               /\ inst'[i].addedNow = inst[i].addedNow
         /\ root' \in {root, [root EXCEPT !.claims = TRUE]}
  BY RecordForm
<1> USE DEF Place, Placed, Before, Becomes, SameRun, Forms, Stages, Fresh, Removes, Reads,
    Stops, Boots, Backs, disk
<1>4. CASE Revalidate(i) BY <1>4, <1>0, <1>1, <1>2, <1>3, <1>v DEF Revalidate, Pcs, Ends
<1>5. CASE InstallOwner(i)
  BY <1>5, <1>0, <1>1, <1>2, <1>3 DEF InstallOwner, verdict, failsOut, Pcs, Ends
<1>6. CASE Status(i) BY <1>6, <1>0, <1>1, <1>2, <1>3 DEF Status, failsOut, Pcs, Ends
<1>7. CASE Disconnect(i)
  BY <1>7, <1>0, <1>1, <1>2, <1>3 DEF Disconnect, failsOut, Pcs, Ends
<1>8. CASE StopBootout(i)
  BY <1>8, <1>0, <1>1, <1>2, <1>3 DEF StopBootout, failsOut, Pcs, Ends
<1>9. CASE WaitUnregistered(i)
  BY <1>9, <1>0, <1>1, <1>2, <1>3 DEF WaitUnregistered, failsOut, Pcs, Ends
<1>10. CASE AwaitDaemonLock(i)
  BY <1>10, <1>0, <1>1, <1>2, <1>3 DEF AwaitDaemonLock, failsOut, Pcs, Ends
<1>11. CASE Restore(i) BY <1>11, <1>0, <1>1, <1>2, <1>3 DEF Restore, failsOut, Pcs, Ends
<1>12. CASE PrepareStage(i)
  BY <1>12, <1>0, <1>1, <1>2, <1>3, <1>s DEF PrepareStage, Pcs, Ends
<1>13. CASE MoveOld(i) BY <1>13, <1>0, <1>1, <1>2, <1>3, <1>m DEF MoveOld, undo, Pcs, Ends
<1>14. CASE MovePlist(i)
  BY <1>14, <1>0, <1>1, <1>2, <1>3, <1>p DEF MovePlist, undo, Pcs, Ends
<1>15. CASE MoveStage(i) BY <1>15, <1>0, <1>1, <1>2, <1>3 DEF MoveStage, undo, Pcs, Ends
<1>16. CASE WritePlist(i) BY <1>16, <1>0, <1>1, <1>2, <1>3 DEF WritePlist, undo, Pcs, Ends
<1>17. CASE UndoNew(i) BY <1>17, <1>0, <1>1, <1>2, <1>3 DEF UndoNew, Pcs, Ends
<1>18. CASE UndoOld(i) BY <1>18, <1>0, <1>1, <1>2, <1>3 DEF UndoOld, Pcs, Ends
<1>19. CASE UndoPlist(i) BY <1>19, <1>0, <1>1, <1>2, <1>3 DEF UndoPlist, Pcs, Ends
<1>20. CASE Bootstrap(i) BY <1>20, <1>0, <1>1, <1>2, <1>3 DEF Bootstrap, Pcs, Ends
<1>21. CASE WaitIdle(i) BY <1>21, <1>0, <1>1, <1>2, <1>3 DEF WaitIdle, Pcs, Ends
<1>22. CASE CheckCA(i) BY <1>22, <1>0, <1>1, <1>2, <1>3 DEF CheckCA, Pcs, Ends
<1>23. CASE RecordCA(i) BY <1>23, <1>0, <1>1, <1>2, <1>3, <1>c DEF RecordCA, Pcs, Ends
<1>24. CASE AddCA(i) BY <1>24, <1>0, <1>1, <1>2, <1>3 DEF AddCA, Pcs, Ends
<1>25. CASE StartOld(i) BY <1>25, <1>0, <1>1, <1>2, <1>3 DEF StartOld, failsOut, Pcs, Ends
<1>26. CASE RollbackCA(i)
  BY <1>26, <1>0, <1>1, <1>2, <1>3 DEF RollbackCA, removesCA, failsOut, Pcs, Ends
<1>27. CASE RollbackRoot(i)
  BY <1>27, <1>0, <1>1, <1>2, <1>3 DEF RollbackRoot, failsOut, Pcs, Ends
<1>28. CASE RollbackPlist(i)
  <2>1. inst[i].pc = "failPlist" /\ UNCHANGED root BY <1>28 DEF RollbackPlist
  <2>2. CASE goes(i, "moveBack") /\ plist' = FALSE BY <2>1, <2>2, <1>0, <1>1 DEF Pcs
  <2>3. CASE returns(i) BY <2>3, <1>0, <1>3
  <2> QED BY <1>28, <2>2, <2>3 DEF RollbackPlist, failsOut
<1>29. CASE RollbackOld(i)
  BY <1>29, <1>0, <1>1, <1>2, <1>3 DEF RollbackOld, failsOut, Pcs, Ends
<1>30. CASE UninstallCA(i)
  BY <1>30, <1>0, <1>1, <1>2, <1>3 DEF UninstallCA, removesCA, failsOut, Pcs, Ends
<1>31. CASE UninstallPlist(i)
  BY <1>31, <1>0, <1>1, <1>2, <1>3 DEF UninstallPlist, failsOut, Pcs, Ends
<1>32. CASE UninstallRoot(i)
  BY <1>32, <1>0, <1>1, <1>2, <1>3 DEF UninstallRoot, failsOut, Pcs, Ends
<1> QED BY <1>4, <1>5, <1>6, <1>7, <1>8, <1>9, <1>10, <1>11, <1>12, <1>13, <1>14, <1>15, <1>16,
    <1>17, <1>18, <1>19, <1>20, <1>21, <1>22, <1>23, <1>24, <1>25, <1>26, <1>27, <1>28, <1>29,
    <1>30, <1>31, <1>32 DEF lockedStep, stops, activates, starts, removes

\* An installer that has moved nothing is in its place whatever the disk holds.
Blank(m) == ~m.old /\ m.stage = NoTree /\ m.backup = NoTree /\ ~m.addedNow
  /\ m.phase # "back"

\* It is so now,
LEMMA BlankPlace ==
  ASSUME NEW m, m.pc \in Fresh, Blank(m)
  PROVE  Place(m)
BY DEF Blank, Place, Placed, Before, Stages, Fresh, Removes, Reads, Stops, Boots, Backs

\* and after a step.
LEMMA BlankPlaceNext ==
  ASSUME NEW i \in Installers, inst'[i].pc \in Fresh, Blank(inst'[i])
  PROVE  Place(inst[i])'
BY DEF Blank, Place, Placed, Before, Stages, Fresh, Removes, Reads, Stops, Boots, Backs

\* Before its checks under the lock an installer has moved nothing.
LEMMA FreshBlank ==
  ASSUME NEW m, m.pc \in Fresh, Place(m)
  PROVE  Blank(m)
BY DEF Place, Blank

\* Nor has one that is off.
LEMMA OffBlank == Off.pc \in Fresh /\ Blank(Off)
BY OffFields DEF Blank, Fresh

\* Nor one that took a step before the lock.
LEMMA OutsideBlank ==
  ASSUME InstallBounds, Types, NEW i \in Installers, Blank(inst[i]), outsideStep(i)
  PROVE  inst'[i].pc \in Fresh /\ Blank(inst'[i])
<1>1. inst'[i].pc \in Fresh BY OutsideOutcome
<1>2. \/ inst'[i] = Off
      \/ /\ inst'[i].old = inst[i].old /\ inst'[i].addedNow = inst[i].addedNow
         /\ inst'[i].stage = inst[i].stage /\ inst'[i].backup = inst[i].backup
         /\ inst'[i].phase = inst[i].phase
      \/ /\ inst'[i].phase = "forward" /\ inst'[i].old = FALSE /\ inst'[i].addedNow = FALSE
         /\ inst'[i].stage = NoTree /\ inst'[i].backup = NoTree
  BY OutsideOutcome DEF Becomes, SameRun
<1> QED BY <1>1, <1>2, OffBlank DEF Blank

\* Every installer knows where the trees are, after any step.
LEMMA PlacesStep ==
  ASSUME InstallBounds, Types, Exclusive, Versions, Places, [InstallNext]_installVars PROVE Places'
<1>f. Outside \subseteq Fresh BY DEF Outside
<1>1. ASSUME NEW i \in Installers, lockedStep(i) PROVE Places'
  <2>1. Place(inst[i])' BY <1>1, LockedPlace DEF Places
  <2>2. \A j \in Installers : j # i => inst'[j] = inst[j] /\ inst[j].pc \in Fresh
    BY <1>1, <1>f, Outcomes DEF Outcome, Alone, Exclusive
  <2>3. ASSUME NEW j \in Installers, j # i PROVE Place(inst[j])'
    <3>1. Blank(inst[j]) BY <2>2, <2>3, FreshBlank DEF Places
    <3> QED BY <2>2, <2>3, <3>1, BlankPlaceNext
  <2> QED BY <2>1, <2>3 DEF Places
<1>2. ASSUME NEW i \in Installers, outsideStep(i) PROVE Places'
  <2>1. Alone(i) /\ UNCHANGED <<root, plist>> /\ inst[i].pc \in Fresh
    BY <1>2, <1>f, OutsideOutcome DEF disk
  <2>2. Blank(inst[i]) BY <2>1, FreshBlank DEF Places
  <2>3. Place(inst[i])' BY <1>2, <2>2, OutsideBlank, BlankPlaceNext
  <2>4. \A j \in Installers : j # i => Place(inst[j])'
    BY <2>1 DEF Places, Alone, Place, Placed, Before
  <2> QED BY <2>3, <2>4 DEF Places
<1>3. ASSUME NEW i \in Installers, InstallerDies(i) PROVE Places'
  <2>1. Alone(i) /\ UNCHANGED <<root, plist>> /\ inst'[i] = Off BY <1>3, DeathOutcome
  <2>2. Place(inst[i])' BY <2>1, OffBlank, BlankPlaceNext
  <2>3. \A j \in Installers : j # i => Place(inst[j])'
    BY <2>1 DEF Places, Alone, Place, Placed, Before
  <2> QED BY <2>2, <2>3 DEF Places
<1>4. CASE machineStep
  <2>1. UNCHANGED <<root, plist, inst>>
    BY <1>4 DEF machineStep, DaemonStarts, UserConnects, UserDisconnects, DaemonStops,
       Unregisters,
                DaemonKilled, UserEditsKeychain, disk
  <2> QED BY <2>1 DEF Places, Place, Placed, Before
<1>5. CASE MachineReboots
  <2>1. \A i \in Installers : inst'[i] = Off BY <1>5 DEF MachineReboots
  <2> QED BY <2>1, OffBlank, BlankPlaceNext DEF Places
<1>6. CASE UNCHANGED installVars BY <1>6 DEF installVars, Places, Place, Placed, Before
<1> QED BY <1>1, <1>2, <1>3, <1>4, <1>5, <1>6, NextCases

-----------------------------------------------------------------------------
(* Who owns the certificate *)

\* Moving trees about loses no claim: a tree that goes is put beside the root.
LEMMA LockedClaimed ==
  ASSUME Types, NEW i \in Installers, Place(inst[i]), Claimed, lockedStep(i)
  PROVE  Claimed'
<1>1. inst[i].pc \in {"moveStage", "moveBack"} => root = NoTree BY DEF Place
<1>2. NoTree.claims = FALSE /\ [root EXCEPT !.claims = TRUE].claims = TRUE
  BY TreeType DEF Types
<1> USE DEF Claimed, disk
<1>4. CASE Revalidate(i) BY <1>4, <1>1, <1>2 DEF Revalidate
<1>5. CASE InstallOwner(i) BY <1>5, <1>1, <1>2 DEF InstallOwner
<1>6. CASE Status(i) BY <1>6, <1>1, <1>2 DEF Status
<1>7. CASE Disconnect(i) BY <1>7, <1>1, <1>2 DEF Disconnect
<1>8. CASE StopBootout(i) BY <1>8, <1>1, <1>2 DEF StopBootout
<1>9. CASE WaitUnregistered(i) BY <1>9, <1>1, <1>2 DEF WaitUnregistered
<1>10. CASE AwaitDaemonLock(i) BY <1>10, <1>1, <1>2 DEF AwaitDaemonLock
<1>11. CASE Restore(i) BY <1>11, <1>1, <1>2 DEF Restore
<1>12. CASE PrepareStage(i) BY <1>12, <1>1, <1>2 DEF PrepareStage
<1>13. CASE MoveOld(i) BY <1>13, <1>1, <1>2 DEF MoveOld
<1>14. CASE MovePlist(i) BY <1>14, <1>1, <1>2 DEF MovePlist
<1>15. CASE MoveStage(i) BY <1>15, <1>1, <1>2 DEF MoveStage
<1>16. CASE WritePlist(i) BY <1>16, <1>1, <1>2 DEF WritePlist
<1>17. CASE UndoNew(i) BY <1>17, <1>1, <1>2 DEF UndoNew
<1>18. CASE UndoOld(i) BY <1>18, <1>1, <1>2 DEF UndoOld
<1>19. CASE UndoPlist(i) BY <1>19, <1>1, <1>2 DEF UndoPlist
<1>20. CASE Bootstrap(i) BY <1>20, <1>1, <1>2 DEF Bootstrap
<1>21. CASE WaitIdle(i) BY <1>21, <1>1, <1>2 DEF WaitIdle
<1>22. CASE CheckCA(i) BY <1>22, <1>1, <1>2 DEF CheckCA
<1>23. CASE RecordCA(i) BY <1>23, <1>1, <1>2 DEF RecordCA
<1>24. CASE AddCA(i) BY <1>24, <1>1, <1>2 DEF AddCA
<1>25. CASE StartOld(i) BY <1>25, <1>1, <1>2 DEF StartOld
<1>26. CASE RollbackCA(i) BY <1>26, <1>1, <1>2 DEF RollbackCA
<1>27. CASE RollbackRoot(i) BY <1>27, <1>1, <1>2 DEF RollbackRoot
<1>28. CASE RollbackPlist(i) BY <1>28, <1>1, <1>2 DEF RollbackPlist
<1>29. CASE RollbackOld(i) BY <1>29, <1>1, <1>2 DEF RollbackOld
<1>30. CASE UninstallCA(i) BY <1>30, <1>1, <1>2 DEF UninstallCA
<1>31. CASE UninstallPlist(i) BY <1>31, <1>1, <1>2 DEF UninstallPlist
<1>32. CASE UninstallRoot(i) BY <1>32, <1>1, <1>2 DEF UninstallRoot
<1> QED BY <1>4, <1>5, <1>6, <1>7, <1>8, <1>9, <1>10, <1>11, <1>12, <1>13, <1>14, <1>15, <1>16,
    <1>17, <1>18, <1>19, <1>20, <1>21, <1>22, <1>23, <1>24, <1>25, <1>26, <1>27, <1>28, <1>29,
    <1>30, <1>31, <1>32 DEF lockedStep, stops, activates, starts, removes

\* Under the lock: what comes into place claims a certificate of the product, and
\* none of the user's.
LEMMA LockedRootOwns ==
  ASSUME Types, RootOwns, NEW i \in Installers, Place(inst[i]), Claim(inst[i]), lockedStep(i)
  PROVE  RootOwns'
<1>1. /\ inst[i].addedNow => ~users
      /\ inst[i].pc = "recordCA" => ~users
      /\ inst[i].pc = "addCA" => root.claims /\ inst[i].addedNow
      /\ inst[i].stage.claims => ~users
      /\ inst[i].backup.claims => ~users
  BY DEF Claim, RootOwns
<1>2. NoTree.claims = FALSE /\ [root EXCEPT !.claims = TRUE].claims = TRUE
  BY TreeType DEF Types
<1>3. /\ Ours /\ inst[i].pc = "moveStage" => inst[i].stage.claims
      /\ Ours /\ inst[i].pc \in {"undoOld", "moveBack"} /\ inst[i].backup # NoTree =>
         inst[i].backup.claims
  BY DEF Claim, Place, Ours, Backs, Stops
<1> USE DEF RootOwns, Ours, disk, keychain, others
<1>4. CASE Revalidate(i) BY <1>4, <1>1, <1>2, <1>3 DEF Revalidate
<1>5. CASE InstallOwner(i) BY <1>5, <1>1, <1>2, <1>3 DEF InstallOwner
<1>6. CASE Status(i) BY <1>6, <1>1, <1>2, <1>3 DEF Status
<1>7. CASE Disconnect(i) BY <1>7, <1>1, <1>2, <1>3 DEF Disconnect
<1>8. CASE StopBootout(i) BY <1>8, <1>1, <1>2, <1>3 DEF StopBootout
<1>9. CASE WaitUnregistered(i) BY <1>9, <1>1, <1>2, <1>3 DEF WaitUnregistered
<1>10. CASE AwaitDaemonLock(i) BY <1>10, <1>1, <1>2, <1>3 DEF AwaitDaemonLock
<1>11. CASE Restore(i) BY <1>11, <1>1, <1>2, <1>3 DEF Restore
<1>12. CASE PrepareStage(i) BY <1>12, <1>1, <1>2, <1>3 DEF PrepareStage
<1>13. CASE MoveOld(i) BY <1>13, <1>1, <1>2, <1>3 DEF MoveOld
<1>14. CASE MovePlist(i) BY <1>14, <1>1, <1>2, <1>3 DEF MovePlist
<1>15. CASE MoveStage(i) BY <1>15, <1>1, <1>2, <1>3 DEF MoveStage
<1>16. CASE WritePlist(i) BY <1>16, <1>1, <1>2, <1>3 DEF WritePlist
<1>17. CASE UndoNew(i) BY <1>17, <1>1, <1>2, <1>3 DEF UndoNew
<1>18. CASE UndoOld(i) BY <1>18, <1>1, <1>2, <1>3 DEF UndoOld
<1>19. CASE UndoPlist(i) BY <1>19, <1>1, <1>2, <1>3 DEF UndoPlist
<1>20. CASE Bootstrap(i) BY <1>20, <1>1, <1>2, <1>3 DEF Bootstrap
<1>21. CASE WaitIdle(i) BY <1>21, <1>1, <1>2, <1>3 DEF WaitIdle
<1>22. CASE CheckCA(i) BY <1>22, <1>1, <1>2, <1>3 DEF CheckCA
<1>23. CASE RecordCA(i) BY <1>23, <1>1, <1>2, <1>3 DEF RecordCA
<1>24. CASE AddCA(i) BY <1>24, <1>1, <1>2, <1>3 DEF AddCA
<1>25. CASE StartOld(i) BY <1>25, <1>1, <1>2, <1>3 DEF StartOld, interrupted
<1>26. CASE RollbackCA(i) BY <1>26, <1>1, <1>2, <1>3 DEF RollbackCA, removesCA
<1>27. CASE RollbackRoot(i) BY <1>27, <1>1, <1>2, <1>3 DEF RollbackRoot
<1>28. CASE RollbackPlist(i) BY <1>28, <1>1, <1>2, <1>3 DEF RollbackPlist
<1>29. CASE RollbackOld(i) BY <1>29, <1>1, <1>2, <1>3 DEF RollbackOld, interrupted
<1>30. CASE UninstallCA(i) BY <1>30, <1>1, <1>2, <1>3 DEF UninstallCA, removesCA
<1>31. CASE UninstallPlist(i) BY <1>31, <1>1, <1>2, <1>3 DEF UninstallPlist
<1>32. CASE UninstallRoot(i) BY <1>32, <1>1, <1>2, <1>3 DEF UninstallRoot
<1> QED BY <1>4, <1>5, <1>6, <1>7, <1>8, <1>9, <1>10, <1>11, <1>12, <1>13, <1>14, <1>15, <1>16,
    <1>17, <1>18, <1>19, <1>20, <1>21, <1>22, <1>23, <1>24, <1>25, <1>26, <1>27, <1>28, <1>29,
    <1>30, <1>31, <1>32 DEF lockedStep, stops, activates, starts, removes

\* Without a tree, the plist is there, or the tree that was put aside is known.
LEMMA LockedPlist ==
  ASSUME InstallBounds, Types, NEW i \in Installers, Place(inst[i]), Claim(inst[i]),
         lockedStep(i),
         Ours /\ root = NoTree => plist \/ inst[i].backup # NoTree
  PROVE  Ours' /\ root' = NoTree => plist' \/ inst'[i].backup # NoTree
<1>0. Forms(i) BY FormsHold
<1>1. [root EXCEPT !.claims = TRUE] # NoTree BY TreeType DEF Types
<1>2. /\ Before(inst[i]) \/ inst[i].pc \in Fresh => inst[i].backup = NoTree
      /\ Placed(inst[i]) \/ inst[i].pc = "writePlist" => root # NoTree
      /\ Placed(inst[i]) \/ inst[i].pc = "failPlist" => plist
      /\ inst[i].pc = "moveOld" /\ inst[i].old => root # NoTree
      /\ inst[i].pc \in {"moveStage", "moveBack"} => root = NoTree
  BY DEF Place, Before
<1>3. /\ Ours /\ inst[i].pc \in {"movePlist", "failPlist"} => inst[i].backup # NoTree
      /\ Ours /\ inst[i].pc = "undoNew" /\ root = inst[i].stage => inst[i].backup # NoTree
      /\ Ours => inst[i].pc \notin {"dropPlist", "dropRoot"}
  BY DEF Claim, Place, Ours, Backs, Stops, Fresh
<1>m. MoveOld(i) => \/ UNCHANGED root /\ inst'[i].backup = inst[i].backup
                    \/ inst'[i].backup = root /\ inst[i].old
  BY MoveOldForm DEF Becomes, SameRun
<1>p. MovePlist(i) => inst'[i].backup = inst[i].backup BY PlistForm DEF Becomes, SameRun
<1>s. PrepareStage(i) => inst'[i].backup = inst[i].backup BY StageForm DEF Becomes, SameRun
<1>c. RecordCA(i) => inst'[i].backup = inst[i].backup BY RecordForm
<1>v. Revalidate(i) => inst'[i] = Off \/ inst'[i].backup = inst[i].backup BY RevalidateForm
<1> USE DEF Ours, disk, keychain, others, Before, Placed, Fresh, Reads, Removes, Stops,
    Boots, Forms, Becomes, SameRun
<1>4. CASE Revalidate(i)
  BY <1>4, <1>0, <1>1, <1>2, <1>3, <1>v DEF Revalidate, Pcs, Stages, Backs, Ends
<1>5. CASE InstallOwner(i)
  BY <1>5, <1>0, <1>1, <1>2, <1>3 DEF InstallOwner, verdict, failsOut, Pcs, Stages, Backs,
     Ends
<1>6. CASE Status(i)
  BY <1>6, <1>0, <1>1, <1>2, <1>3 DEF Status, failsOut, Pcs, Stages, Backs, Ends
<1>7. CASE Disconnect(i)
  BY <1>7, <1>0, <1>1, <1>2, <1>3 DEF Disconnect, failsOut, Pcs, Stages, Backs, Ends
<1>8. CASE StopBootout(i)
  BY <1>8, <1>0, <1>1, <1>2, <1>3 DEF StopBootout, failsOut, Pcs, Stages, Backs, Ends
<1>9. CASE WaitUnregistered(i)
  BY <1>9, <1>0, <1>1, <1>2, <1>3 DEF WaitUnregistered, failsOut, Pcs, Stages, Backs, Ends
<1>10. CASE AwaitDaemonLock(i)
  BY <1>10, <1>0, <1>1, <1>2, <1>3 DEF AwaitDaemonLock, failsOut, Pcs, Stages, Backs, Ends
<1>11. CASE Restore(i)
  BY <1>11, <1>0, <1>1, <1>2, <1>3 DEF Restore, failsOut, Pcs, Stages, Backs, Ends
<1>12. CASE PrepareStage(i)
  BY <1>12, <1>0, <1>1, <1>2, <1>3, <1>s DEF PrepareStage, Pcs, Stages, Backs, Ends
<1>13. CASE MoveOld(i)
  BY <1>13, <1>0, <1>1, <1>2, <1>3, <1>m DEF MoveOld, undo, Pcs, Stages, Backs, Ends
<1>14. CASE MovePlist(i)
  BY <1>14, <1>0, <1>1, <1>2, <1>3, <1>p DEF MovePlist, undo, Pcs, Stages, Backs, Ends
<1>15. CASE MoveStage(i)
  BY <1>15, <1>0, <1>1, <1>2, <1>3 DEF MoveStage, undo, Pcs, Stages, Backs, Ends
<1>16. CASE WritePlist(i)
  BY <1>16, <1>0, <1>1, <1>2, <1>3 DEF WritePlist, undo, Pcs, Stages, Backs, Ends
<1>17. CASE UndoNew(i)
  BY <1>17, <1>0, <1>1, <1>2, <1>3 DEF UndoNew, Pcs, Stages, Backs, Ends
<1>18. CASE UndoOld(i)
  BY <1>18, <1>0, <1>1, <1>2, <1>3 DEF UndoOld, Pcs, Stages, Backs, Ends
<1>19. CASE UndoPlist(i)
  BY <1>19, <1>0, <1>1, <1>2, <1>3 DEF UndoPlist, Pcs, Stages, Backs, Ends
<1>20. CASE Bootstrap(i)
  BY <1>20, <1>0, <1>1, <1>2, <1>3 DEF Bootstrap, Pcs, Stages, Backs, Ends
<1>21. CASE WaitIdle(i)
  BY <1>21, <1>0, <1>1, <1>2, <1>3 DEF WaitIdle, Pcs, Stages, Backs, Ends
<1>22. CASE CheckCA(i)
  BY <1>22, <1>0, <1>1, <1>2, <1>3 DEF CheckCA, Pcs, Stages, Backs, Ends
<1>23. CASE RecordCA(i)
  BY <1>23, <1>0, <1>1, <1>2, <1>3, <1>c DEF RecordCA, Pcs, Stages, Backs, Ends
<1>24. CASE AddCA(i) BY <1>24, <1>0, <1>1, <1>2, <1>3 DEF AddCA, Pcs, Stages, Backs, Ends
<1>25. CASE StartOld(i)
  BY <1>25, <1>0, <1>1, <1>2, <1>3 DEF StartOld, failsOut, interrupted, Pcs, Stages,
     Backs, Ends
<1>26. CASE RollbackCA(i)
  BY <1>26, <1>0, <1>1, <1>2, <1>3 DEF RollbackCA, removesCA, failsOut, Pcs, Stages,
     Backs, Ends
<1>27. CASE RollbackRoot(i)
  BY <1>27, <1>0, <1>1, <1>2, <1>3 DEF RollbackRoot, failsOut, Pcs, Stages, Backs, Ends
<1>28. CASE RollbackPlist(i)
  BY <1>28, <1>0, <1>1, <1>2, <1>3 DEF RollbackPlist, failsOut, Pcs, Stages, Backs, Ends
<1>29. CASE RollbackOld(i)
  BY <1>29, <1>0, <1>1, <1>2, <1>3 DEF RollbackOld, failsOut, interrupted, Pcs, Stages,
     Backs, Ends
<1>30. CASE UninstallCA(i)
  BY <1>30, <1>0, <1>1, <1>2, <1>3 DEF UninstallCA, removesCA, failsOut, Pcs, Stages,
     Backs, Ends
<1>31. CASE UninstallPlist(i)
  BY <1>31, <1>0, <1>1, <1>2, <1>3 DEF UninstallPlist, failsOut, Pcs, Stages, Backs, Ends
<1>32. CASE UninstallRoot(i)
  BY <1>32, <1>0, <1>1, <1>2, <1>3 DEF UninstallRoot, failsOut, Pcs, Stages, Backs, Ends
<1> QED BY <1>4, <1>5, <1>6, <1>7, <1>8, <1>9, <1>10, <1>11, <1>12, <1>13, <1>14, <1>15, <1>16,
    <1>17, <1>18, <1>19, <1>20, <1>21, <1>22, <1>23, <1>24, <1>25, <1>26, <1>27, <1>28, <1>29,
    <1>30, <1>31, <1>32 DEF lockedStep, stops, activates, starts, removes

\* What an installer knows of the certificate, step by step under the lock.
LEMMA LockedClaim ==
  ASSUME InstallBounds, Types, RootOwns, NEW i \in Installers, Place(inst[i]), Claim(inst[i]),
         lockedStep(i),
         Ours /\ root = NoTree => plist \/ inst[i].backup # NoTree
  PROVE  Claim(inst[i])'
<1>0. Forms(i) BY FormsHold
<1>1. /\ NoTree.claims = FALSE /\ [root EXCEPT !.claims = TRUE].claims = TRUE
      /\ Off.pc = "off" /\ Off.backup = NoTree /\ Off.stage = NoTree
      /\ Off.addedNow = FALSE
      /\ inst[i].claims \in BOOLEAN /\ inst[i].addedNow \in BOOLEAN /\ cert \in BOOLEAN
  BY TreeType, OffFields, RunType DEF Types
<1>2. /\ inst[i].pc \in Fresh => inst[i].backup = NoTree /\ inst[i].stage = NoTree
         /\ ~inst[i].addedNow
      /\ inst[i].addedNow => inst[i].pc \in {"addCA", "undoPlist", "startOld"} \cup Backs \cup Stops
      /\ Before(inst[i]) => (inst[i].old <=> root # NoTree)
      /\ Before(inst[i]) => ~inst[i].addedNow
  BY DEF Place, Before, Fresh, Reads, Removes, Stops, Backs
<1>s. PrepareStage(i) =>
         \/ Becomes(i, "startOld", inst[i].phase)
         \/ /\ inst'[i].pc = "moveOld" /\ inst'[i].old = inst[i].old
            /\ inst'[i].addedNow = inst[i].addedNow /\ inst'[i].backup = inst[i].backup
            /\ inst'[i].stage.claims = (inst[i].old /\ root.claims)
  BY StageForm
<1>m. MoveOld(i) =>
         \/ Becomes(i, "undoNew", inst[i].phase) \/ Becomes(i, "movePlist", inst[i].phase)
         \/ /\ inst'[i].pc = "movePlist" /\ inst'[i].old = inst[i].old
               /\ inst'[i].claims = inst[i].claims
            /\ inst'[i].addedNow = inst[i].addedNow /\ inst'[i].backup = root
            /\ inst'[i].stage = inst[i].stage
  BY MoveOldForm
<1>p. MovePlist(i) => Becomes(i, "moveStage", inst[i].phase)
      \/ Becomes(i, "undoNew", inst[i].phase)
  BY PlistForm
<1>c. RecordCA(i) =>
         /\ inst'[i].old = inst[i].old /\ inst'[i].claims = TRUE
         /\ inst'[i].stage = inst[i].stage
         /\ inst'[i].backup = inst[i].backup
         /\ \/ inst'[i].pc = "addCA" /\ inst'[i].addedNow = TRUE
               /\ root' = [root EXCEPT !.claims = TRUE]
            \/ inst'[i].pc = "stop" /\ inst'[i].addedNow = inst[i].addedNow
  BY RecordForm
<1>v. Revalidate(i) =>
         \/ inst'[i] = Off
         \/ /\ ~orphan /\ inst'[i].pc \in {"owner", "disconnect"}
               /\ inst'[i].old = (root # NoTree)
            /\ inst'[i].addedNow = inst[i].addedNow /\ inst'[i].stage = inst[i].stage
            /\ inst'[i].backup = inst[i].backup
  BY RevalidateForm
<1> USE DEF Claim, RootOwns, Ours, disk, keychain, others, Forms, Becomes, SameRun, Fresh,
    Stops
<1>4. CASE Revalidate(i)
  BY <1>4, <1>0, <1>1, <1>2, <1>v DEF Revalidate, orphan, Pcs, Before, Reads, Removes,
     Boots, Stages, Backs, Ends
<1>5. CASE InstallOwner(i)
  BY <1>5, <1>0, <1>1, <1>2 DEF InstallOwner, verdict, failsOut, Pcs, Before, Reads,
     Removes, Boots, Stages, Backs, Ends
<1>6. CASE Status(i)
  BY <1>6, <1>0, <1>1, <1>2 DEF Status, failsOut, Pcs, Before, Reads, Removes, Boots,
     Stages, Backs, Ends
<1>7. CASE Disconnect(i)
  BY <1>7, <1>0, <1>1, <1>2 DEF Disconnect, failsOut, Pcs, Before, Reads, Removes, Boots,
     Stages, Backs, Ends
<1>8. CASE StopBootout(i)
  BY <1>8, <1>0, <1>1, <1>2 DEF StopBootout, failsOut, Pcs, Before, Reads, Removes, Boots,
     Stages, Backs, Ends
<1>9. CASE WaitUnregistered(i)
  BY <1>9, <1>0, <1>1, <1>2 DEF WaitUnregistered, failsOut, Pcs, Before, Reads, Removes,
     Boots, Stages, Backs, Ends
<1>10. CASE AwaitDaemonLock(i)
  BY <1>10, <1>0, <1>1, <1>2 DEF AwaitDaemonLock, failsOut, Pcs, Before, Reads, Removes,
     Boots, Stages, Backs, Ends
<1>11. CASE Restore(i)
  BY <1>11, <1>0, <1>1, <1>2 DEF Restore, failsOut, Pcs, Before, Reads, Removes, Boots,
     Stages, Backs, Ends
<1>12. CASE PrepareStage(i)
  BY <1>12, <1>0, <1>1, <1>2, <1>s DEF PrepareStage, Pcs, Before, Reads, Removes, Boots,
     Stages, Backs, Ends
<1>13. CASE MoveOld(i)
  BY <1>13, <1>0, <1>1, <1>2, <1>m DEF MoveOld, undo, Pcs, Before, Reads, Removes, Boots,
     Stages, Backs, Ends
<1>14. CASE MovePlist(i)
  BY <1>14, <1>0, <1>1, <1>2, <1>p DEF MovePlist, undo, Pcs, Before, Reads, Removes, Boots,
     Stages, Backs, Ends
<1>15. CASE MoveStage(i)
  BY <1>15, <1>0, <1>1, <1>2 DEF MoveStage, undo, Pcs, Before, Reads, Removes, Boots,
     Stages, Backs, Ends
<1>16. CASE WritePlist(i)
  BY <1>16, <1>0, <1>1, <1>2 DEF WritePlist, undo, Pcs, Before, Reads, Removes, Boots,
     Stages, Backs, Ends
<1>17. CASE UndoNew(i)
  BY <1>17, <1>0, <1>1, <1>2 DEF UndoNew, Pcs, Before, Reads, Removes, Boots, Stages, Backs,
     Ends
<1>18. CASE UndoOld(i)
  BY <1>18, <1>0, <1>1, <1>2 DEF UndoOld, Pcs, Before, Reads, Removes, Boots, Stages, Backs,
     Ends
<1>19. CASE UndoPlist(i)
  BY <1>19, <1>0, <1>1, <1>2 DEF UndoPlist, Pcs, Before, Reads, Removes, Boots, Stages, Backs,
     Ends
<1>20. CASE Bootstrap(i)
  BY <1>20, <1>0, <1>1, <1>2 DEF Bootstrap, Pcs, Before, Reads, Removes, Boots, Stages, Backs,
     Ends
<1>21. CASE WaitIdle(i)
  BY <1>21, <1>0, <1>1, <1>2 DEF WaitIdle, Pcs, Before, Reads, Removes, Boots, Stages, Backs,
     Ends
<1>22. CASE CheckCA(i)
  BY <1>22, <1>0, <1>1, <1>2 DEF CheckCA, Pcs, Before, Reads, Removes, Boots, Stages, Backs,
     Ends
<1>23. CASE RecordCA(i)
  BY <1>23, <1>0, <1>1, <1>2, <1>c DEF RecordCA, Pcs, Before, Reads, Removes, Boots, Stages,
     Backs, Ends
<1>24. CASE AddCA(i)
  BY <1>24, <1>0, <1>1, <1>2 DEF AddCA, Pcs, Before, Reads, Removes, Boots, Stages, Backs,
     Ends
<1>25. CASE StartOld(i)
  BY <1>25, <1>0, <1>1, <1>2 DEF StartOld, failsOut, interrupted, Pcs, Before, Reads,
     Removes, Boots, Stages, Backs, Ends
<1>26. CASE RollbackCA(i)
  <2>1. inst[i].pc = "unca" /\ UNCHANGED <<root, users, lost>>
    BY <1>26 DEF RollbackCA, removesCA
  <2>2. CASE cert' = (cert /\ ~(inst[i].addedNow /\ inst[i].claims)) /\ goes(i, "moveFailed")
    <3>1. inst[i].addedNow => inst[i].claims OBVIOUS
    <3>2. (inst[i].addedNow => ~cert') /\ (cert' => cert) BY <1>1, <2>2, <3>1
    <3>3. Becomes(i, "moveFailed", inst[i].phase) BY <1>0, <2>2 DEF Pcs, Backs
    <3> QED BY <1>1, <2>1, <3>2, <3>3
  <2>3. CASE returns(i) BY <1>0, <1>1, <2>3
  <2> QED BY <1>26, <2>2, <2>3 DEF RollbackCA, removesCA, failsOut
<1>27. CASE RollbackRoot(i)
  BY <1>27, <1>0, <1>1, <1>2 DEF RollbackRoot, failsOut, Pcs, Before, Reads, Removes, Boots,
     Stages, Backs, Ends
<1>28. CASE RollbackPlist(i)
  BY <1>28, <1>0, <1>1, <1>2 DEF RollbackPlist, failsOut, Pcs, Before, Reads, Removes,
     Boots, Stages, Backs, Ends
<1>29. CASE RollbackOld(i)
  BY <1>29, <1>0, <1>1, <1>2 DEF RollbackOld, failsOut, interrupted, Pcs, Before, Reads,
     Removes, Boots, Stages, Backs, Ends
<1>30. CASE UninstallCA(i)
  BY <1>30, <1>0, <1>1, <1>2 DEF UninstallCA, removesCA, failsOut, Pcs, Before, Reads,
     Removes, Boots, Stages, Backs, Ends
<1>31. CASE UninstallPlist(i)
  BY <1>31, <1>0, <1>1, <1>2 DEF UninstallPlist, failsOut, Pcs, Before, Reads, Removes,
     Boots, Stages, Backs, Ends
<1>32. CASE UninstallRoot(i)
  BY <1>32, <1>0, <1>1, <1>2 DEF UninstallRoot, failsOut, Pcs, Before, Reads, Removes,
     Boots, Stages, Backs, Ends
<1> QED BY <1>4, <1>5, <1>6, <1>7, <1>8, <1>9, <1>10, <1>11, <1>12, <1>13, <1>14, <1>15, <1>16,
    <1>17, <1>18, <1>19, <1>20, <1>21, <1>22, <1>23, <1>24, <1>25, <1>26, <1>27, <1>28, <1>29,
    <1>30, <1>31, <1>32 DEF lockedStep, stops, activates, starts, removes

\* Only the keychain's step under the lock adds the certificate, claimed before.
LEMMA LockedKeychain ==
  ASSUME NEW i \in Installers, Claim(inst[i]), lockedStep(i)
  PROVE  UNCHANGED users /\ (cert' => cert \/ root'.claims)
<1>1. inst[i].pc = "addCA" => root.claims BY DEF Claim
<1> USE DEF disk, keychain
<1>2. CASE Revalidate(i) BY <1>2 DEF Revalidate
<1>3. CASE InstallOwner(i) BY <1>3 DEF InstallOwner
<1>4. CASE Status(i) BY <1>4 DEF Status
<1>5. CASE Disconnect(i) BY <1>5 DEF Disconnect
<1>6. CASE StopBootout(i) BY <1>6 DEF StopBootout
<1>7. CASE WaitUnregistered(i) BY <1>7 DEF WaitUnregistered
<1>8. CASE AwaitDaemonLock(i) BY <1>8 DEF AwaitDaemonLock
<1>9. CASE Restore(i) BY <1>9 DEF Restore
<1>10. CASE PrepareStage(i) BY <1>10 DEF PrepareStage
<1>11. CASE MoveOld(i) BY <1>11 DEF MoveOld
<1>12. CASE MovePlist(i) BY <1>12 DEF MovePlist
<1>13. CASE MoveStage(i) BY <1>13 DEF MoveStage
<1>14. CASE WritePlist(i) BY <1>14 DEF WritePlist
<1>15. CASE UndoNew(i) BY <1>15 DEF UndoNew
<1>16. CASE UndoOld(i) BY <1>16 DEF UndoOld
<1>17. CASE UndoPlist(i) BY <1>17 DEF UndoPlist
<1>18. CASE Bootstrap(i) BY <1>18 DEF Bootstrap
<1>19. CASE WaitIdle(i) BY <1>19 DEF WaitIdle
<1>20. CASE CheckCA(i) BY <1>20 DEF CheckCA
<1>21. CASE RecordCA(i) BY <1>21 DEF RecordCA
<1>22. CASE AddCA(i) BY <1>22, <1>1 DEF AddCA
<1>23. CASE StartOld(i) BY <1>23 DEF StartOld
<1>24. CASE RollbackCA(i) BY <1>24 DEF RollbackCA, removesCA
<1>25. CASE RollbackRoot(i) BY <1>25 DEF RollbackRoot
<1>26. CASE RollbackPlist(i) BY <1>26 DEF RollbackPlist
<1>27. CASE RollbackOld(i) BY <1>27 DEF RollbackOld
<1>28. CASE UninstallCA(i) BY <1>28 DEF UninstallCA, removesCA
<1>29. CASE UninstallPlist(i) BY <1>29 DEF UninstallPlist
<1>30. CASE UninstallRoot(i) BY <1>30 DEF UninstallRoot
<1> QED BY <1>2, <1>3, <1>4, <1>5, <1>6, <1>7, <1>8, <1>9, <1>10, <1>11, <1>12, <1>13, <1>14,
    <1>15, <1>16, <1>17, <1>18, <1>19, <1>20, <1>21, <1>22, <1>23, <1>24, <1>25, <1>26, <1>27,
    <1>28, <1>29, <1>30 DEF lockedStep, stops, activates, starts, removes

\* An installer that has moved nothing says nothing of the certificate.
LEMMA BlankClaim ==
  ASSUME NEW i \in Installers, inst'[i].pc \in Fresh, Blank(inst'[i])
  PROVE  Claim(inst[i])'
BY TreeType DEF Blank, Claim, Fresh

\* The ownership of the certificate, step by step.
LEMMA ClaimsStep ==
  ASSUME InstallBounds, Types, Exclusive, Versions, Places, Claims, [InstallNext]_installVars
  PROVE  Claims'
<1>f. Outside \subseteq Fresh BY DEF Outside
<1>b. \A i \in Installers : inst[i].pc \in Fresh => Blank(inst[i]) BY FreshBlank DEF Places
<1>n. Blank(Off) /\ Off.pc \in Fresh /\ Off.backup = NoTree BY OffBlank, OffFields
<1>1. ASSUME NEW i \in Installers, lockedStep(i) PROVE Claims'
  <2>1. Outcome(i) /\ lock = i BY <1>1, Outcomes DEF Outcome, Exclusive
  <2>2. /\ Place(inst[i]) /\ Claim(inst[i]) /\ RootOwns
        /\ Ours /\ root = NoTree => plist \/ inst[i].backup # NoTree
    BY <2>1 DEF Places, Claims, Held
  <2>3. RootOwns' BY <1>1, <2>2, LockedRootOwns
  <2>4. (cert /\ ~users => Claimed)'
    <3>1. UNCHANGED users /\ (cert' => cert \/ root'.claims) BY <1>1, <2>2, LockedKeychain
    <3>2. Claimed => Claimed' BY <1>1, <2>2, LockedClaimed
    <3>3. root'.claims => Claimed' BY DEF Claimed
    <3> QED BY <3>1, <3>2, <3>3 DEF Claims
  <2>5. Held'
    <3>1. Ours' /\ root' = NoTree => plist' \/ inst'[i].backup # NoTree
      BY <1>1, <2>2, LockedPlist
    <3>2. inst'[i].backup # NoTree => lock' = i BY <1>n, <2>1 DEF Outcome
    <3> QED BY <3>1, <3>2 DEF Held
  <2>6. Claim(inst[i])' BY <1>1, <2>2, LockedClaim
  <2>7. ASSUME NEW j \in Installers, j # i PROVE Claim(inst[j])'
    <3>1. inst'[j] = inst[j] /\ inst[j].pc \in Fresh
      BY <1>f, <2>1, <2>7 DEF Outcome, Alone, Exclusive
    <3> QED BY <1>b, <3>1, BlankClaim
  <2> QED BY <2>3, <2>4, <2>5, <2>6, <2>7 DEF Claims
<1>2. ASSUME NEW i \in Installers, outsideStep(i) PROVE Claims'
  <2>1. /\ Alone(i) /\ UNCHANGED <<root, plist, kept, cert, users, lost>>
        /\ inst[i].pc \in Fresh /\ (lock' = lock \/ lock = "none" \/ lock = i)
    BY <1>2, <1>f, OutsideOutcome DEF disk, keychain
  <2>2. inst[i].backup = NoTree /\ Blank(inst[i]) BY <1>b, <2>1 DEF Blank
  <2>3. RootOwns' /\ (cert /\ ~users => Claimed)' BY <2>1 DEF RootOwns, Ours, Claimed, Claims
  <2>4. Held'
    <3>1. ASSUME NEW k \in Installers, lock = k, inst[k].backup # NoTree
          PROVE  lock' = k /\ inst'[k].backup # NoTree
      BY <2>1, <2>2, <3>1 DEF InstallBounds, Alone
    <3> QED BY <2>1, <3>1 DEF Held, Ours, Claims
  <2>5. Claim(inst[i])' BY <1>2, <2>2, OutsideBlank, BlankClaim
  <2>6. \A j \in Installers : j # i => Claim(inst[j])' BY <2>1 DEF Claims, Alone, Claim, Ours
  <2> QED BY <2>3, <2>4, <2>5, <2>6 DEF Claims
<1>3. ASSUME NEW i \in Installers, InstallerDies(i) PROVE Claims'
  <2>1. /\ Alone(i) /\ UNCHANGED <<root, plist, kept, cert, users>> /\ inst'[i] = Off
           /\ interrupted(i)
        /\ lock' = (IF lock = i THEN "none" ELSE lock)
    BY <1>3, DeathOutcome
  <2>2. Ours' => Ours /\ (root = NoTree => plist \/ inst[i].backup = NoTree)
    BY <2>1 DEF Ours, interrupted
  <2>3. RootOwns' /\ (cert /\ ~users => Claimed)' BY <2>1, <2>2 DEF RootOwns, Claimed, Claims
  <2>4. Held'
    <3>1. ASSUME NEW k \in Installers, k # i, lock = k, inst[k].backup # NoTree
          PROVE  lock' = k /\ inst'[k].backup # NoTree
      BY <2>1, <3>1 DEF Alone
    <3>2. Ours' /\ root = NoTree =>
            plist \/ \E k \in Installers : k # i /\ lock = k /\ inst[k].backup # NoTree
      BY <2>2 DEF Held, Claims
    <3> QED BY <2>1, <3>1, <3>2 DEF Held
  <2>5. Claim(inst[i])' BY <1>n, <2>1, BlankClaim
  <2>6. \A j \in Installers : j # i => Claim(inst[j])' BY <2>1, <2>2 DEF Claims, Alone, Claim
  <2> QED BY <2>3, <2>4, <2>5, <2>6 DEF Claims
<1>4. CASE UserEditsKeychain
  <2>1. /\ lock = "none" /\ cert' = ~cert /\ users' = (~cert /\ ~root.claims)
        /\ UNCHANGED <<root, plist, kept, inst, lock, lost>>
    BY <1>4 DEF UserEditsKeychain, disk, others
  <2>2. \A i \in Installers : inst'[i].pc \in Fresh /\ Blank(inst'[i])
    BY <1>f, <1>b, <2>1 DEF InstallBounds, Exclusive
  <2>3. NoTree.claims = FALSE /\ cert \in BOOLEAN BY TreeType DEF Types
  <2>4. (users' => cert') /\ (root.claims => ~users') /\ (cert' /\ ~users' => root.claims)
    BY <2>1, <2>3
  <2>5. RootOwns' /\ (cert /\ ~users => Claimed)' BY <2>1, <2>4 DEF RootOwns, Ours, Claimed
  <2>6. Held' BY <2>1, <2>3, <2>4 DEF Held, Ours
  <2> QED BY <2>2, <2>5, <2>6, BlankClaim DEF Claims
<1>5. CASE machineStep /\ ~UserEditsKeychain
  <2>1. UNCHANGED <<root, plist, kept, inst, lock, cert, users, lost>>
    BY <1>5 DEF machineStep, DaemonStarts, UserConnects, UserDisconnects, DaemonStops,
       Unregisters,
                DaemonKilled, disk, keychain, others
  <2> QED BY <2>1 DEF Claims, RootOwns, Claimed, Held, Claim, Ours
<1>6. CASE MachineReboots
  <2>1. /\ UNCHANGED <<root, plist, kept, cert, users>> /\ lock' = "none"
        /\ \A i \in Installers : inst'[i] = Off
        /\ IF lock = "none" THEN UNCHANGED lost ELSE interrupted(lock)
    BY <1>6 DEF MachineReboots, disk, keychain
  <2>2. Ours' => Ours BY <2>1 DEF Ours, interrupted
  <2>3. RootOwns' /\ (cert /\ ~users => Claimed)' BY <2>1, <2>2 DEF RootOwns, Claimed, Claims
  <2>4. Ours' /\ root = NoTree => plist
    <3>1. CASE lock = "none" BY <2>2, <3>1 DEF InstallBounds, Held, Claims
    <3>2. CASE lock # "none"
      <4>1. interrupted(lock) BY <2>1, <3>2
      <4> QED BY <2>2, <4>1 DEF Held, Claims, interrupted, Ours
    <3> QED BY <3>1, <3>2
  <2>5. Held' BY <2>1, <2>4 DEF Held
  <2> QED BY <1>n, <2>1, <2>3, <2>5, BlankClaim DEF Claims
<1>7. CASE UNCHANGED installVars BY <1>7 DEF installVars, Claims, RootOwns, Claimed, Held, Claim, Ours
<1> QED BY <1>1, <1>2, <1>3, <1>4, <1>5, <1>6, <1>7, NextCases

-----------------------------------------------------------------------------
(* The theorems *)

\* All of it together: installer.lock, the stopped daemon, the versions, the
\* places of the trees, the ownership of the certificate.
InstallInv == Types /\ Exclusive /\ Quiet /\ Versions /\ Places /\ Claims

\* It holds before the first installer runs.
LEMMA InstallStarts == ASSUME InstallBounds, InstallInit PROVE InstallInv
<1>1. \A i \in Installers : inst[i] = Off BY DEF InstallInit
<1>2. Types
  <2>1. inst \in Table BY OffType DEF InstallInit, Table
  <2>2. runs \in 0..MaxRuns BY DEF InstallBounds, InstallInit
  <2>3. cert \in BOOLEAN /\ users \in BOOLEAN /\ plist \in BOOLEAN /\ lost \in BOOLEAN
    BY DEF InstallInit
  <2>4. root \in Trees /\ kept \in SUBSET Trees BY OffType DEF InstallInit
  <2>5. lock = "none" /\ reg = "no" /\ daemon = "off" /\ traffic = "clean" BY DEF InstallInit
  <2> QED BY <2>1, <2>2, <2>3, <2>4, <2>5 DEF Types
<1>o. Off.pc = "off" /\ Off.id = 0 /\ Off.backup = NoTree /\ Off.stage = NoTree
      /\ ~Off.addedNow
  BY OffFields
<1>t. NoTree.ver = 0 /\ NoTree.claims = FALSE BY TreeType
<1>3. Exclusive BY <1>1, <1>o DEF InstallBounds, InstallInit, Exclusive, Outside, Fresh
<1>4. Quiet
  BY <1>1, <1>o DEF InstallInit, Quiet, MachineInv, QuietAt, Quiets, Stages, Removes, Backs, Ends
<1>5. Versions
  BY <1>1, <1>o, <1>t DEF InstallInit, Versions, Stages, Fresh, Before, Stops, Reads, Removes
<1>6. Places BY <1>1, OffBlank, BlankPlace DEF Places
<1>7. \A i \in Installers : Claim(inst[i]) BY <1>1, <1>o, <1>t DEF Claim, Fresh
<1>8. RootOwns /\ (cert /\ ~users => Claimed) /\ Held
  <2>1. (users <=> cert) /\ root = NoTree BY DEF InstallInit
  <2> QED BY <1>t, <2>1 DEF RootOwns, Ours, Held
<1> QED BY <1>2, <1>3, <1>4, <1>5, <1>6, <1>7, <1>8 DEF InstallInv, Claims

\* And every step keeps it.
LEMMA InstallGoesOn == ASSUME InstallBounds, InstallInv, [InstallNext]_installVars PROVE InstallInv'
BY TypesStep, ExclusiveStep, QuietStep, VersionsStep, PlacesStep, ClaimsStep DEF InstallInv

\* The inductive invariant.
LEMMA InstallInvariant == ASSUME InstallBounds PROVE InstallSpec => []InstallInv
<1>1. InstallInit => InstallInv BY InstallStarts
<1>2. InstallInv /\ [InstallNext]_installVars => InstallInv' BY InstallGoesOn
<1> QED BY <1>1, <1>2, PTL DEF InstallSpec

\* Trees are exchanged only when no daemon runs or can be started, and the
\* network is the user's again: for any number of installers, runs and faults.
THEOREM SwapsQuiet == InstallSpec => SwapsAreQuiet
<1>0. InstallBounds BY RunsAssumption, NamesAssumption DEF InstallBounds
<1>1. InstallInv /\ [InstallNext]_installVars =>
      [root'.ver # root.ver => reg = "no" /\ daemon = "off" /\ traffic = "clean"]_installVars
  BY <1>0, QuietSwap DEF InstallInv
<1>2. InstallSpec => []InstallInv BY <1>0, InstallInvariant
<1> QED BY <1>1, <1>2, PTL DEF InstallSpec, SwapsAreQuiet

\* The certificate in the keychain is the user's, or a receipt claims it.
THEOREM CertificateOwned == InstallSpec => []CertificateIsOwned
<1>0. InstallBounds BY RunsAssumption, NamesAssumption DEF InstallBounds
<1>1. InstallInv => CertificateIsOwned
  BY DEF InstallInv, Claims, RootOwns, Claimed, Ours, CertificateIsOwned
<1>2. InstallSpec => []InstallInv BY <1>0, InstallInvariant
<1> QED BY <1>1, <1>2, PTL

=============================================================================
