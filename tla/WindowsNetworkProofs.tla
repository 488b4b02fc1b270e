------------------------ MODULE WindowsNetworkProofs ------------------------
(***************************************************************************)
(* Theorems about WindowsNetwork, for any adapters, resolver lists and     *)
(* number of faults, and about ClientView, below.                          *)
(*                                                                         *)
(* The record of a transaction is m.current, in memory.  What the manager  *)
(* knows of the adapters it aimed at the TUN depends on where the          *)
(* controller's transaction is and on whether m.current owns the TUN:      *)
(* Pointed, then Resetting, then Withdrawn.                                *)
(***************************************************************************)
EXTENDS WindowsNetwork, ClientView, TLAPS

Pcs == {"boot", "idle", "prepare", "capture", "captured", "wait", "activate", "point",
        "activated", "up", "stop", "restore", "reconcile", "list", "reset", "residue", "failed"}
TUNs == {"none", "phantom", "starting", "wrong", "ready"}
Maps == UNION {[S -> Settings] : S \in SUBSET Adapters}
Fingerprints == [dns : Maps, tun : TUNs \cup {"unread"}]
Snapshots    == [dns : Maps, owned : BOOLEAN, held : BOOLEAN]

SystemType == /\ present \subseteq Adapters /\ dns \in [Adapters -> Settings] /\ tun \in TUNs
              /\ core \in BOOLEAN /\ user \in [Adapters -> Choices]
ManagerType == /\ prepared \in Fingerprints /\ current \in Snapshots
               /\ monitor \in {"off", "unread", "watching", "reported"} /\ watched \in Fingerprints
CallType == /\ prep \in [Preparers -> {"off", "recover", "baseline", "fingerprint", "store"}]
            /\ read \in [Preparers -> Fingerprints] /\ pc \in Pcs /\ todo \subseteq Adapters
GhostType == /\ mine \subseteq Adapters /\ changed \in BOOLEAN /\ faults \in 0..MaxFaults

TypeOK == SystemType /\ ManagerType /\ CallType /\ GhostType

\* The setting of an adapter once it was aimed at the TUN, or reset.
Setting(a, ours) == dns[a] = IF a \in later THEN user[a] ELSE ours

\* Every adapter of the transaction is on the TUN's resolver and is listed.
Pointed == \A a \in mine \ excused : a \in present /\ Setting(a, "tun")

\* Restore has those still to do on its list.
Resetting == \A a \in mine \ excused : IF a \in todo THEN a \notin later ELSE Setting(a, "auto")

Withdrawn == \A a \in mine \ excused : Setting(a, "auto")

Holding == {"captured", "wait", "activate", "point", "activated", "up", "stop", "restore"}
Aimed   == {"activate", "point", "activated", "up"}

\* The core's TUN is up from WaitTUNReady to StopCore.
TUNInv ==
  /\ pc \in Aimed \/ monitor # "off" => core /\ tun = "ready"
  /\ monitor # "off" => pc \in {"up", "stop"}
  /\ pc = "wait" => core

\* m.current is held exactly while a transaction is, and owns the TUN after
\* WaitTUNReady; only Prepare's caller can leave the state prepare.
CurrentInv ==
  /\ pc \notin Holding => current = NoSnapshot
  /\ pc \in {"captured", "wait"} => ~current.owned
  /\ pc \in Aimed => current.owned
  /\ prep["connect"] # "off" => pc = "prepare"

Owning == pc \in Aimed \cup {"list"} \/ (pc \in {"stop", "restore"} /\ current.owned)

DNSInv ==
  /\ Owning => Pointed
  /\ pc \in {"captured", "wait", "activate"} => mine = {}
  /\ pc = "point" => todo \ excused \subseteq present
  /\ pc = "reset" => Resetting
  /\ ~Owning /\ pc # "reset" => Withdrawn

\* The baseline of the monitor is what it would read now, or something changed.
MonitorInv ==
  /\ monitor = "watching" => changed \/ Fingerprint = watched
  /\ monitor = "reported" => changed

IInv == TypeOK /\ TUNInv /\ CurrentInv /\ DNSInv /\ MonitorInv

-----------------------------------------------------------------------------
(* Types *)

\* The empty snapshot and fingerprint are of their types.
LEMMA RecordTypes ==
  /\ Nothing \in Fingerprints /\ NoSnapshot \in Snapshots
  /\ \A f \in Fingerprints : snapshotFromPrepared(f) \in Snapshots /\ ~snapshotFromPrepared(f).owned
  /\ \A s \in Snapshots : [s EXCEPT !.owned = TRUE] \in Snapshots /\ [s EXCEPT !.owned = TRUE].owned
  /\ ~NoSnapshot.owned /\ DOMAIN NoSnapshot.dns = {}
<1>1. NoAdapters \in Maps
  <2>1. NoAdapters \in [{} -> Settings] BY DEF NoAdapters
  <2>2. {} \in SUBSET Adapters OBVIOUS
  <2> QED BY <2>1, <2>2 DEF Maps
<1>2. DOMAIN NoAdapters = {} BY DEF NoAdapters
<1> QED BY <1>1, <1>2 DEF Nothing, NoSnapshot, Fingerprints, Snapshots, snapshotFromPrepared

\* What a read of the machine returns is a fingerprint.
LEMMA FingerprintType == ASSUME SystemType PROVE Fingerprint \in Fingerprints
<1>1. [a \in present |-> dns[a]] \in [present -> Settings] BY DEF SystemType
<1>2. [a \in present |-> dns[a]] \in Maps BY <1>1 DEF Maps, SystemType
<1> QED BY <1>2 DEF Fingerprint, Fingerprints, SystemType, TUNs

\* A machine before the service started has its types.
LEMMA TypeInit == ASSUME Init PROVE TypeOK
<1>1. Choices \subseteq Settings BY DEF Settings
<1>2. user \in [Adapters -> Choices] BY DEF Init
<1>3. SystemType BY <1>1, <1>2 DEF Init, SystemType, TUNs
<1>4. ManagerType BY RecordTypes DEF Init, ManagerType
<1>5. CallType BY RecordTypes DEF Init, CallType, Pcs
<1>6. GhostType
  <2>1. mine = {} /\ changed = FALSE /\ faults = 0 BY DEF Init
  <2>2. faults \in 0..MaxFaults BY <2>1, BoundsAssumption
  <2>3. changed \in BOOLEAN /\ mine \subseteq Adapters BY <2>1
  <2> QED BY <2>2, <2>3 DEF GhostType
<1> QED BY <1>3, <1>4, <1>5, <1>6 DEF TypeOK

\* The steps that leave the system and the user alone.
LEMMA SystemStep == ASSUME TypeOK, [Next]_vars PROVE SystemType'
<1> USE DEF TypeOK, SystemType
<1>1. CASE \E p \in Preparers : RecoverPhantom(p)
  BY <1>1 DEF RecoverPhantom, recoveredTUN, TUNs, ghosts
<1>2. CASE \E p \in Preparers : ReadBaseline(p) \/ ReadFingerprint(p) \/ StorePrepared(p)
  BY <1>2 DEF ReadBaseline, ReadFingerprint, StorePrepared, system, ghosts
<1>3. CASE StartCore \/ TUNAppears \/ TUNVanishes \/ StopCore
  BY <1>3 DEF StartCore, TUNAppears, TUNVanishes, StopCore, TUNs, ghosts
<1>4. CASE PointAtTUN \/ ResetResolver
  <2>1. "tun" \in Settings /\ "auto" \in Settings BY DEF Settings, Choices
  <2>2. UNCHANGED <<present, tun, core, user>> BY <1>4 DEF PointAtTUN, ResetResolver
  <2>3. CASE PointAtTUN
    BY <2>1, <2>2, <2>3 DEF PointAtTUN, setInterfaceDNS, CallType
  <2>4. CASE ResetResolver
    <3>1. \A a \in Adapters : captured(a) => current.dns[a] \in Settings
      BY DEF captured, ManagerType, Snapshots, Maps
    <3>2. \A a \in todo : (IF captured(a) THEN current.dns[a] ELSE "auto") \in Settings
      BY <2>1, <3>1 DEF CallType
    <3>3. dns' = dns \/ \E a \in todo : dns' = [dns EXCEPT ![a] = IF captured(a) THEN current.dns[a] ELSE "auto"]
      BY <2>4 DEF ResetResolver, setInterfaceDNS
    <3>4. dns' \in [Adapters -> Settings] BY <3>2, <3>3 DEF CallType
    <3> QED BY <2>2, <3>4
  <2> QED BY <1>4, <2>3, <2>4
<1>5. CASE UserSetsDNS
  <2>1. Choices \subseteq Settings BY DEF Settings
  <2> QED BY <1>5, <2>1 DEF UserSetsDNS
<1>6. CASE Plug BY <1>6 DEF Plug
<1>7. CASE Crash BY <1>7 DEF Crash, TUNs
<1>8. CASE \/ Capture \/ WaitTUNReady \/ WaitGivesUp \/ ListForActivate \/ StartMonitor \/ Restore
           \/ Reconcile \/ ListForRestore \/ Residue \/ ServiceStarts \/ Monitor \/ Connect \/ Leave
           \/ RestoreAgain \/ UNCHANGED vars
  <2>1. UNCHANGED <<present, dns, tun, core, user>>
    BY <1>8 DEF Capture, WaitTUNReady, WaitGivesUp, ListForActivate, StartMonitor, Restore, Reconcile,
       ListForRestore, Residue, ServiceStarts, Monitor, MonitorReads, MonitorTick, Connect, Leave,
       RestoreAgain, vars, system, ghosts
  <2> QED BY <2>1
<1> QED BY <1>1, <1>2, <1>3, <1>4, <1>5, <1>6, <1>7, <1>8 DEF Next, Prepare, Transaction

\* Every step keeps the manager's fields in their types.
LEMMA ManagerStep == ASSUME TypeOK, [Next]_vars PROVE ManagerType'
<1> USE RecordTypes DEF TypeOK, ManagerType
<1>1. CASE \E p \in Preparers : RecoverPhantom(p) \/ ReadBaseline(p) \/ ReadFingerprint(p)
  BY <1>1 DEF RecoverPhantom, ReadBaseline, ReadFingerprint, manager, watch
<1>2. CASE \E p \in Preparers : StorePrepared(p) BY <1>2 DEF StorePrepared, watch, CallType
<1>3. CASE Capture BY <1>3 DEF Capture, watch
<1>4. CASE WaitTUNReady BY <1>4 DEF WaitTUNReady, watch
<1>5. CASE Restore BY <1>5 DEF Restore, watch
<1>6. CASE StartMonitor BY <1>6 DEF StartMonitor, manager
<1>7. CASE Monitor
  <2>1. UNCHANGED <<prepared, current>> BY <1>7 DEF Monitor, MonitorReads, MonitorTick, manager
  <2> QED BY <1>7, <2>1, FingerprintType DEF Monitor, MonitorReads, MonitorTick, monitorBaseline
<1>8. CASE StopCore \/ Crash BY <1>8 DEF StopCore, Crash, manager
<1>9. CASE \/ StartCore \/ WaitGivesUp \/ ListForActivate \/ PointAtTUN \/ Reconcile \/ ListForRestore
           \/ ResetResolver \/ Residue \/ ServiceStarts \/ Connect \/ Leave \/ RestoreAgain
           \/ TUNAppears \/ TUNVanishes \/ UserSetsDNS \/ Plug \/ UNCHANGED vars
  <2>1. UNCHANGED <<prepared, current, monitor, watched>>
    BY <1>9 DEF StartCore, WaitGivesUp, ListForActivate, PointAtTUN, Reconcile, ListForRestore,
       ResetResolver, Residue, ServiceStarts, Connect, Leave, RestoreAgain, TUNAppears, TUNVanishes,
       UserSetsDNS, Plug, vars, manager, watch
  <2> QED BY <2>1
<1> QED BY <1>1, <1>2, <1>3, <1>4, <1>5, <1>6, <1>7, <1>8, <1>9 DEF Next, Prepare, Transaction

\* Every step keeps the locals of the calls in their types.
LEMMA CallStep == ASSUME TypeOK, [Next]_vars PROVE CallType'
<1> USE RecordTypes DEF TypeOK, CallType, Pcs
<1>1. ASSUME NEW p \in Preparers, RecoverPhantom(p) \/ ReadBaseline(p)
      PROVE  CallType'
  BY <1>1 DEF RecoverPhantom, ReadBaseline, giveUp
<1>2. ASSUME NEW p \in Preparers, ReadFingerprint(p) PROVE CallType'
  BY <1>2, FingerprintType DEF ReadFingerprint, giveUp
<1>3. ASSUME NEW p \in Preparers, StorePrepared(p) PROVE CallType'
  BY <1>3 DEF StorePrepared
<1>4. CASE Connect \/ ServiceStarts BY <1>4 DEF Connect, ServiceStarts
<1>5. CASE Crash BY <1>5 DEF Crash
<1>6. CASE \/ Capture \/ StartCore \/ WaitTUNReady \/ WaitGivesUp \/ StartMonitor \/ StopCore \/ Restore
           \/ Reconcile \/ Residue \/ Leave \/ RestoreAgain
  <2>1. UNCHANGED <<prep, read, todo>> /\ pc' \in Pcs
    BY <1>6 DEF Capture, StartCore, WaitTUNReady, WaitGivesUp, StartMonitor, StopCore, Restore,
       Reconcile, Residue, Leave, RestoreAgain, preps
  <2> QED BY <2>1
<1>7. CASE ListForActivate \/ PointAtTUN \/ ListForRestore \/ ResetResolver
  <2>1. UNCHANGED <<prep, read>> /\ pc' \in Pcs
    BY <1>7 DEF ListForActivate, PointAtTUN, ListForRestore, ResetResolver, preps
  <2>2. todo' \subseteq Adapters
    BY <1>7 DEF ListForActivate, PointAtTUN, ListForRestore, ResetResolver, SystemType
  <2> QED BY <2>1, <2>2
<1>8. CASE \/ Monitor \/ TUNAppears \/ TUNVanishes \/ UserSetsDNS \/ Plug \/ UNCHANGED vars
  <2>1. UNCHANGED <<prep, read, pc, todo>>
    BY <1>8 DEF Monitor, MonitorReads, MonitorTick, TUNAppears, TUNVanishes, UserSetsDNS, Plug, vars,
       preps, call
  <2> QED BY <2>1
<1> QED BY <1>1, <1>2, <1>3, <1>4, <1>5, <1>6, <1>7, <1>8 DEF Next, Prepare, Transaction

\* The count of failures stays within its bound.
LEMMA FaultType == ASSUME GhostType, Fine \/ Fault PROVE faults' \in 0..MaxFaults
BY BoundsAssumption DEF GhostType, Fine, Fault

\* A step fails in no way or is counted.
LEMMA FaultStep == ASSUME [Next]_vars PROVE Fine \/ Fault
<1>1. CASE Prepare
  BY <1>1 DEF Prepare, RecoverPhantom, ReadBaseline, ReadFingerprint, StorePrepared, Fine
<1>2. CASE Transaction
  BY <1>2 DEF Transaction, Capture, StartCore, WaitTUNReady, WaitGivesUp, ListForActivate, PointAtTUN,
     StartMonitor, StopCore, Restore, Reconcile, ListForRestore, ResetResolver, Residue,
     ServiceStarts, Fine
<1>3. CASE Monitor \/ Connect \/ Leave \/ RestoreAgain \/ TUNAppears \/ TUNVanishes \/ UserSetsDNS
           \/ Plug \/ Crash \/ UNCHANGED vars
  BY <1>3 DEF Monitor, MonitorReads, MonitorTick, Connect, Leave, RestoreAgain, TUNAppears,
     TUNVanishes, UserSetsDNS, Plug, Crash, vars, Fine
<1> QED BY <1>1, <1>2, <1>3 DEF Next

\* Every step keeps the history variables in their types.
LEMMA GhostStep == ASSUME TypeOK, [Next]_vars PROVE GhostType'
<1> USE DEF TypeOK, GhostType
<1>1. faults' \in 0..MaxFaults BY FaultType, FaultStep
<1>2. changed' \in BOOLEAN
  <2>1. CASE Prepare
    BY <2>1 DEF Prepare, RecoverPhantom, ReadBaseline, ReadFingerprint, StorePrepared, ghosts
  <2>2. CASE Transaction
    BY <2>2 DEF Transaction, Capture, StartCore, WaitTUNReady, WaitGivesUp, ListForActivate, PointAtTUN,
       StartMonitor, StopCore, Restore, Reconcile, ListForRestore, ResetResolver, Residue,
       ServiceStarts, ghosts
  <2>3. CASE Monitor \/ Connect \/ Leave \/ RestoreAgain \/ TUNAppears \/ TUNVanishes \/ UserSetsDNS
             \/ Plug \/ Crash \/ UNCHANGED vars
    BY <2>3 DEF Monitor, MonitorReads, MonitorTick, Connect, Leave, RestoreAgain, TUNAppears,
       TUNVanishes, UserSetsDNS, Plug, Crash, vars, ghosts
  <2> QED BY <2>1, <2>2, <2>3 DEF Next
<1>3. mine' \subseteq Adapters
  <2>1. CASE Prepare
    BY <2>1 DEF Prepare, RecoverPhantom, ReadBaseline, ReadFingerprint, StorePrepared, ghosts
  <2>2. CASE PointAtTUN BY <2>2 DEF PointAtTUN, CallType
  <2>3. CASE Transaction /\ ~PointAtTUN
    BY <2>3 DEF Transaction, Capture, StartCore, WaitTUNReady, WaitGivesUp, ListForActivate,
       StartMonitor, StopCore, Restore, Reconcile, ListForRestore, ResetResolver, Residue,
       ServiceStarts, ghosts, forget
  <2>4. CASE Monitor \/ Connect \/ Leave \/ RestoreAgain \/ TUNAppears \/ TUNVanishes \/ UserSetsDNS
             \/ Plug \/ Crash \/ UNCHANGED vars
    BY <2>4 DEF Monitor, MonitorReads, MonitorTick, Connect, Leave, RestoreAgain, TUNAppears,
       TUNVanishes, UserSetsDNS, Plug, Crash, vars, ghosts, forget
  <2> QED BY <2>1, <2>2, <2>3, <2>4 DEF Next
<1> QED BY <1>1, <1>2, <1>3

\* Every step keeps the types.
LEMMA TypeStep == ASSUME TypeOK, [Next]_vars PROVE TypeOK'
BY SystemStep, ManagerStep, CallStep, GhostStep DEF TypeOK

-----------------------------------------------------------------------------
(* The core's TUN, m.current and the monitor *)

\* Every step keeps TUNInv.
LEMMA TUNStep == ASSUME IInv, [Next]_vars PROVE TUNInv'
<1> USE DEF IInv, TUNInv, Aimed
<1>0. CurrentInv OBVIOUS
<1>1. ASSUME NEW p \in Preparers, RecoverPhantom(p) PROVE TUNInv'
  <2>1. pc' = pc \/ (pc = "prepare" /\ pc' = "reconcile")
    BY <1>1 DEF RecoverPhantom, giveUp, CurrentInv
  <2>2. UNCHANGED <<core, monitor>> /\ (core => tun' = tun) BY <1>1 DEF RecoverPhantom, watch
  <2> QED BY <2>1, <2>2
<1>2. ASSUME NEW p \in Preparers, ReadBaseline(p) \/ ReadFingerprint(p) \/ StorePrepared(p)
      PROVE  TUNInv'
  <2>1. pc' = pc \/ (pc = "prepare" /\ pc' \in {"reconcile", "capture"})
    BY <1>2 DEF ReadBaseline, ReadFingerprint, StorePrepared, giveUp, CurrentInv
  <2>2. UNCHANGED <<core, monitor, tun>>
    BY <1>2 DEF ReadBaseline, ReadFingerprint, StorePrepared, system, watch
  <2> QED BY <2>1, <2>2
<1>3. CASE StartCore \/ TUNAppears \/ TUNVanishes BY <1>3 DEF StartCore, TUNAppears, TUNVanishes, watch, call
<1>4. CASE StartMonitor \/ StopCore \/ Crash BY <1>4 DEF StartMonitor, StopCore, Crash, system
<1>5. CASE Monitor BY <1>5 DEF Monitor, MonitorReads, MonitorTick, system, call
<1>6. CASE PointAtTUN \/ ResetResolver BY <1>6 DEF PointAtTUN, ResetResolver, watch
<1>7. CASE UserSetsDNS \/ Plug BY <1>7 DEF UserSetsDNS, Plug, watch, call
<1>8. CASE WaitTUNReady BY <1>8 DEF WaitTUNReady, tunFound, validTUNIdentity, system, watch
<1>9. CASE \/ Capture \/ WaitGivesUp \/ ListForActivate \/ Restore \/ Reconcile \/ ListForRestore
           \/ Residue \/ ServiceStarts \/ Connect \/ Leave \/ RestoreAgain
  BY <1>9 DEF Capture, WaitGivesUp, ListForActivate, Restore, Reconcile, ListForRestore, Residue,
     ServiceStarts, Connect, Leave, RestoreAgain, system, watch
<1>10. CASE UNCHANGED vars BY <1>10 DEF vars, system, watch, call
<1> QED BY <1>1, <1>2, <1>3, <1>4, <1>5, <1>6, <1>7, <1>8, <1>9, <1>10 DEF Next, Prepare, Transaction

\* Every step keeps CurrentInv.
LEMMA CurrentStep == ASSUME IInv, [Next]_vars PROVE CurrentInv'
<1> USE RecordTypes DEF IInv, CurrentInv, Holding, Aimed
<1>0. /\ prep \in [Preparers -> {"off", "recover", "baseline", "fingerprint", "store"}]
      /\ "connect" \in Preparers /\ prepared \in Fingerprints /\ current \in Snapshots
  BY DEF TypeOK, CallType, ManagerType, Preparers
<1>1. ASSUME NEW p \in Preparers, RecoverPhantom(p) \/ ReadBaseline(p) \/ ReadFingerprint(p)
             \/ StorePrepared(p)
      PROVE  CurrentInv'
  <2>1. current' = current /\ prep[p] # "off"
    BY <1>1 DEF RecoverPhantom, ReadBaseline, ReadFingerprint, StorePrepared, manager
  <2>2. \E v : prep' = [prep EXCEPT ![p] = v]
    BY <1>1 DEF RecoverPhantom, ReadBaseline, ReadFingerprint, StorePrepared, giveUp
  <2>3. \/ pc' = pc
        \/ p = "connect" /\ pc' \in {"reconcile", "capture"} /\ prep' = [prep EXCEPT ![p] = "off"]
    BY <1>1 DEF RecoverPhantom, ReadBaseline, ReadFingerprint, StorePrepared, giveUp
  <2>4. prep'["connect"] # "off" => prep["connect"] # "off" BY <1>0, <2>1, <2>2
  <2> QED BY <1>0, <2>1, <2>3, <2>4
<1>2. CASE Connect \/ ServiceStarts
  BY <1>0, <1>2 DEF Connect, ServiceStarts, manager
<1>3. CASE Crash BY <1>0, <1>3 DEF Crash
<1>4. CASE Capture BY <1>0, <1>4 DEF Capture, preps
<1>5. CASE WaitTUNReady BY <1>0, <1>5 DEF WaitTUNReady, preps
<1>6. CASE Restore BY <1>6 DEF Restore, preps
<1>7. CASE \/ StartCore \/ WaitGivesUp \/ ListForActivate \/ PointAtTUN \/ StartMonitor \/ StopCore
           \/ Reconcile \/ ListForRestore \/ ResetResolver \/ Residue \/ Leave \/ RestoreAgain
  <2>1. UNCHANGED <<current, prep>>
    BY <1>7 DEF StartCore, WaitGivesUp, ListForActivate, PointAtTUN, StartMonitor, StopCore, Reconcile,
       ListForRestore, ResetResolver, Residue, Leave, RestoreAgain, manager, preps
  <2> QED
    BY <1>7, <2>1 DEF StartCore, WaitGivesUp, ListForActivate, PointAtTUN, StartMonitor, StopCore,
       Reconcile, ListForRestore, ResetResolver, Residue, Leave, RestoreAgain
<1>8. CASE \/ Monitor \/ TUNAppears \/ TUNVanishes \/ UserSetsDNS \/ Plug \/ UNCHANGED vars
  <2>1. UNCHANGED <<current, prep, pc>>
    BY <1>8 DEF Monitor, MonitorReads, MonitorTick, TUNAppears, TUNVanishes, UserSetsDNS, Plug, vars,
       manager, preps, call
  <2> QED BY <2>1
<1> QED BY <1>1, <1>2, <1>3, <1>4, <1>5, <1>6, <1>7, <1>8 DEF Next, Prepare, Transaction

\* While the monitor runs only users and Windows change what it reads.
LEMMA MonitorStep == ASSUME IInv, [Next]_vars PROVE MonitorInv'
<1> USE DEF IInv, TUNInv, MonitorInv
<1>1. ASSUME UNCHANGED <<present, dns, monitor, watched, changed>>, monitor # "off" => tun' = tun
      PROVE  MonitorInv'
  BY <1>1 DEF Fingerprint, visible
<1>2. ASSUME NEW p \in Preparers, RecoverPhantom(p) PROVE MonitorInv'
  BY <1>1, <1>2 DEF RecoverPhantom, recoveredTUN, watch, ghosts
<1>3. CASE MonitorReads
  BY <1>3 DEF MonitorReads, monitorBaseline, Fingerprint, visible, system, ghosts
<1>4. CASE MonitorTick BY <1>4 DEF MonitorTick, ghosts
<1>5. CASE StartMonitor \/ StopCore \/ Crash BY <1>5 DEF StartMonitor, StopCore, Crash
<1>6. CASE UserSetsDNS \/ Plug BY <1>6 DEF UserSetsDNS, Plug, watch
<1>7. CASE PointAtTUN \/ ResetResolver BY <1>7 DEF PointAtTUN, ResetResolver, watch
<1>8. CASE StartCore \/ TUNAppears \/ TUNVanishes
  BY <1>1, <1>8 DEF StartCore, TUNAppears, TUNVanishes, watch, ghosts
<1>9. CASE \/ \E p \in Preparers : ReadBaseline(p) \/ ReadFingerprint(p) \/ StorePrepared(p)
           \/ Capture \/ WaitTUNReady \/ WaitGivesUp \/ ListForActivate \/ Restore \/ Reconcile
           \/ ListForRestore \/ Residue \/ ServiceStarts \/ Connect \/ Leave \/ RestoreAgain
           \/ UNCHANGED vars
  <2>1. UNCHANGED <<present, dns, monitor, watched, changed, tun>>
    BY <1>9 DEF ReadBaseline, ReadFingerprint, StorePrepared, Capture, WaitTUNReady, WaitGivesUp,
       ListForActivate, Restore, Reconcile, ListForRestore, Residue, ServiceStarts, Connect, Leave,
       RestoreAgain, vars, system, watch, ghosts
  <2> QED BY <1>1, <2>1
<1> QED BY <1>2, <1>3, <1>4, <1>5, <1>6, <1>7, <1>8, <1>9 DEF Next, Prepare, Transaction, Monitor

-----------------------------------------------------------------------------
(* The resolvers *)

\* A step that touches no resolver, adapter or list: only where the transaction
\* is, and whether it owns the TUN, can matter.
LEMMA DNSFrame ==
  ASSUME UNCHANGED <<present, dns, user, mine, later, excused, todo>>
  PROVE  Pointed' = Pointed /\ Resetting' = Resetting /\ Withdrawn' = Withdrawn
BY DEF Pointed, Resetting, Withdrawn, Setting

\* The transaction moves on and leaves adapters and history alone.
LEMMA DNSMoves ==
  ASSUME IInv, UNCHANGED <<present, dns, user, mine, later, excused, todo>>,
         \/ UNCHANGED <<pc, current>>
         \/ ~Owning /\ ~Owning' /\ pc # "reset" /\ pc' # "reset"
            /\ (pc \in {"captured", "wait"} \/ pc' \notin {"captured", "wait", "activate"})
         \/ Owning /\ Owning' /\ pc' \notin {"captured", "wait", "activate", "point"}
  PROVE  DNSInv'
<1> USE DNSFrame DEF IInv, DNSInv
<1>1. CASE UNCHANGED <<pc, current>> BY <1>1 DEF Owning
<1>2. CASE ~Owning /\ ~Owning' /\ pc # "reset" /\ pc' # "reset"
            /\ (pc \in {"captured", "wait"} \/ pc' \notin {"captured", "wait", "activate"})
  BY <1>2 DEF Owning, Aimed
<1>3. CASE Owning /\ Owning' /\ pc' \notin {"captured", "wait", "activate", "point"}
  BY <1>3 DEF Owning, Aimed
<1> QED BY <1>1, <1>2, <1>3

\* One adapter is aimed at the TUN's resolver.
LEMMA PointAtTUNStep == ASSUME IInv, PointAtTUN PROVE DNSInv'
<1> USE DEF IInv, DNSInv, Owning, Aimed
<1>1. UNCHANGED <<present, user, excused, current>> /\ pc = "point" /\ Pointed /\ todo \ excused \subseteq present
  BY DEF PointAtTUN, manager
<1>2. CASE \E a \in todo :
             /\ todo' = todo \ {a} /\ UNCHANGED pc
             /\ dns' = setInterfaceDNS(a, "tun")
             /\ mine' = mine \cup {a} /\ later' = later \ {a}
  <2>1. PICK a \in todo :
             /\ todo' = todo \ {a} /\ UNCHANGED pc
             /\ dns' = setInterfaceDNS(a, "tun")
             /\ mine' = mine \cup {a} /\ later' = later \ {a}
    BY <1>2
  <2>2. dns \in [Adapters -> Settings] /\ todo \subseteq Adapters /\ mine \subseteq Adapters
    BY DEF TypeOK, SystemType, CallType, GhostType
  <2>3. dns'[a] = "tun" /\ \A b \in Adapters : b # a => dns'[b] = dns[b]
    BY <2>1, <2>2 DEF setInterfaceDNS
  <2>4. Pointed' BY <1>1, <2>1, <2>2, <2>3 DEF Pointed, Setting
  <2> QED BY <1>1, <2>1, <2>4
<1>3. CASE todo = {} /\ pc' = "activated" /\ UNCHANGED <<todo, dns, mine, later>>
  BY <1>1, <1>3, DNSMoves
<1>4. CASE pc' = "stop" /\ todo' = {} /\ UNCHANGED <<dns, mine, later>>
  <2>1. current.owned' BY <1>1 DEF CurrentInv
  <2>2. Pointed' BY <1>1, <1>4 DEF Pointed, Setting
  <2> QED BY <1>1, <1>4, <2>1, <2>2
<1> QED BY <1>2, <1>3, <1>4 DEF PointAtTUN

\* Restore lists the adapters it has to reset.
LEMMA ListForRestoreStep == ASSUME IInv, ListForRestore PROVE DNSInv'
<1> USE DEF IInv, DNSInv, Owning, Aimed
<1>1. UNCHANGED <<present, dns, user, current>> /\ pc = "list" /\ Pointed /\ current = NoSnapshot
  BY DEF ListForRestore, system, manager, CurrentInv, Holding
<1>2. \A a \in Adapters : ~captured(a) BY <1>1, RecordTypes DEF captured
<1>3. CASE /\ pc' = "reset" /\ todo' = {a \in present : captured(a) \/ dns[a] = "tun"}
           /\ UNCHANGED <<mine, later, excused>>
  <2>1. mine \subseteq Adapters /\ \A a \in Adapters : user[a] # "tun"
    BY StaticAssumption DEF TypeOK, SystemType, GhostType, Choices
  <2>2. Resetting' BY <1>1, <1>2, <1>3, <2>1 DEF Pointed, Resetting, Setting
  <2> QED BY <1>3, <2>2
<1>4. CASE pc' = "failed" /\ forget
  <2>1. Withdrawn' BY <1>4 DEF forget, Withdrawn
  <2> QED BY <1>4, <2>1
<1> QED BY <1>3, <1>4 DEF ListForRestore

\* Restore resets one adapter.
LEMMA ResetResolverStep == ASSUME IInv, ResetResolver PROVE DNSInv'
<1> USE DEF IInv, DNSInv, Owning, Aimed
<1>1. UNCHANGED <<present, user, current>> /\ pc = "reset" /\ Resetting /\ current = NoSnapshot
  BY DEF ResetResolver, manager, CurrentInv, Holding
<1>2. CASE \E a \in todo :
             /\ dns' = setInterfaceDNS(a, IF captured(a) THEN current.dns[a] ELSE "auto")
             /\ todo' = todo \ {a} /\ UNCHANGED <<pc, mine, later, excused>>
  <2>1. PICK a \in todo :
             /\ dns' = setInterfaceDNS(a, IF captured(a) THEN current.dns[a] ELSE "auto")
             /\ todo' = todo \ {a} /\ UNCHANGED <<pc, mine, later, excused>>
    BY <1>2
  <2>2. dns \in [Adapters -> Settings] /\ todo \subseteq Adapters /\ mine \subseteq Adapters
    BY DEF TypeOK, SystemType, CallType, GhostType
  <2>3. ~captured(a) BY <1>1, RecordTypes DEF captured
  <2>4. dns'[a] = "auto" /\ \A b \in Adapters : b # a => dns'[b] = dns[b]
    BY <2>1, <2>2, <2>3 DEF setInterfaceDNS
  <2>5. Resetting' BY <1>1, <2>1, <2>2, <2>4 DEF Resetting, Setting
  <2> QED BY <1>1, <2>1, <2>5
<1>3. CASE todo = {} /\ pc' = "residue" /\ UNCHANGED <<dns, todo, mine, later, excused>>
  <2>1. Withdrawn' BY <1>1, <1>3 DEF Resetting, Withdrawn, Setting
  <2> QED BY <1>3, <2>1
<1>4. CASE pc' = "failed" /\ forget
  <2>1. Withdrawn' BY <1>4 DEF forget, Withdrawn
  <2> QED BY <1>4, <2>1
<1> QED BY <1>2, <1>3, <1>4 DEF ResetResolver

\* A user's choice is remembered as one, or excuses the adapter.
LEMMA UserSetsDNSStep == ASSUME IInv, UserSetsDNS PROVE DNSInv'
<1> USE DEF IInv, DNSInv
<1>1. PICK a \in present, v \in Choices :
        /\ dns' = [dns EXCEPT ![a] = v] /\ user' = [user EXCEPT ![a] = v]
        /\ later' = later \cup ({a} \cap mine)
        /\ excused' = IF pc \in {"list", "reset"} THEN excused \cup {a} ELSE excused
        /\ UNCHANGED <<present, current, pc, todo, mine>>
  BY DEF UserSetsDNS, manager, call
<1>2. /\ dns \in [Adapters -> Settings] /\ user \in [Adapters -> Choices] /\ mine \subseteq Adapters
      /\ a \in Adapters
  BY DEF TypeOK, SystemType, GhostType
<1>3. /\ dns'[a] = v /\ user'[a] = v
      /\ \A b \in Adapters : b # a => dns'[b] = dns[b] /\ user'[b] = user[b]
  BY <1>1, <1>2
<1>4. excused \subseteq excused' /\ \A b \in mine \ excused' : b # a => (b \in later' <=> b \in later)
  BY <1>1
<1>5. Pointed => Pointed' BY <1>1, <1>2, <1>3, <1>4 DEF Pointed, Setting
<1>6. Withdrawn => Withdrawn' BY <1>1, <1>2, <1>3, <1>4 DEF Withdrawn, Setting
<1>7. pc = "reset" /\ Resetting => Resetting' BY <1>1, <1>2, <1>3, <1>4 DEF Resetting, Setting
<1>8. Owning' = Owning BY <1>1 DEF Owning
<1> QED BY <1>1, <1>4, <1>5, <1>6, <1>7, <1>8

\* An adapter appears or goes away.
LEMMA PlugStep == ASSUME IInv, Plug PROVE DNSInv'
<1> USE DEF IInv, DNSInv
<1>1. PICK a \in Adapters :
        /\ present' \in {present \cup {a}, present \ {a}}
        /\ excused' = excused \cup ({a} \cap (mine \cup todo))
        /\ UNCHANGED <<dns, user, current, pc, todo, mine, later>>
  BY DEF Plug, manager, call
<1>2. Pointed => Pointed' BY <1>1 DEF Pointed, Setting
<1>3. Withdrawn => Withdrawn' BY <1>1 DEF Withdrawn, Setting
<1>4. Resetting => Resetting' BY <1>1 DEF Resetting, Setting
<1>5. todo \ excused \subseteq present => (todo \ excused \subseteq present)' BY <1>1
<1>6. Owning' = Owning BY <1>1 DEF Owning
<1> QED BY <1>1, <1>2, <1>3, <1>4, <1>5, <1>6

\* Every step keeps DNSInv.
LEMMA DNSStep == ASSUME IInv, [Next]_vars PROVE DNSInv'
<1> USE DEF IInv
<1>0. CurrentInv /\ DNSInv /\ current \in Snapshots BY DEF TypeOK, ManagerType
<1>1. ASSUME NEW p \in Preparers, RecoverPhantom(p) \/ ReadBaseline(p) \/ ReadFingerprint(p)
             \/ StorePrepared(p)
      PROVE  DNSInv'
  <2>1. UNCHANGED <<present, dns, user, mine, later, excused, todo, current>>
    BY <1>1 DEF RecoverPhantom, ReadBaseline, ReadFingerprint, StorePrepared, system, manager, ghosts
  <2>2. pc' = pc \/ (pc = "prepare" /\ pc' \in {"reconcile", "capture"})
    BY <1>0, <1>1 DEF RecoverPhantom, ReadBaseline, ReadFingerprint, StorePrepared, giveUp, CurrentInv
  <2> QED BY <2>1, <2>2, DNSMoves DEF Owning, Aimed
<1>2. CASE Connect \/ ServiceStarts \/ Reconcile \/ Residue
  BY <1>2, DNSMoves DEF Connect, ServiceStarts, Reconcile, Residue, system, ghosts, Owning, Aimed
<1>3. CASE Capture
  <2>1. CASE UNCHANGED <<mine, later, excused>> /\ pc' = "reconcile"
    BY <1>3, <2>1, DNSMoves DEF Capture, system, Owning, Aimed
  <2>2. CASE forget /\ pc' = "captured"
    BY <2>2 DEF forget, DNSInv, Withdrawn, Owning, Aimed
  <2> QED BY <1>3, <2>1, <2>2 DEF Capture
<1>4. CASE StartCore \/ WaitGivesUp
  <2>1. /\ UNCHANGED <<present, dns, user, mine, later, excused, todo, current>>
        /\ pc \in {"captured", "wait"} /\ pc' \in {"wait", "stop"}
    BY <1>4 DEF StartCore, WaitGivesUp, system, manager, ghosts
  <2>2. ~Owning /\ ~Owning' BY <1>0, <2>1 DEF CurrentInv, Owning, Aimed
  <2> QED BY <2>1, <2>2, DNSMoves
<1>5. CASE WaitTUNReady
  <2>1. UNCHANGED <<present, dns, user, mine, later, excused, todo>> /\ pc = "wait"
    BY <1>5 DEF WaitTUNReady, system, ghosts
  <2>2. CASE pc' = "activate"
    BY <1>0, <2>1, <2>2 DEF DNSInv, Pointed, Owning, Aimed
  <2>3. CASE pc' = "stop" /\ current' = current
    BY <1>0, <2>1, <2>3, DNSMoves DEF CurrentInv, Owning, Aimed
  <2> QED BY <1>5, <2>2, <2>3 DEF WaitTUNReady
<1>6. CASE ListForActivate
  <2>1. /\ UNCHANGED <<present, dns, user, mine, later, excused, current>> /\ pc = "activate"
        /\ pc' \in {"point", "stop"} /\ (pc' = "point" => todo' = present)
    BY <1>6 DEF ListForActivate, system, manager, ghosts
  <2>2. mine = {} /\ current.owned' BY <1>0, <2>1 DEF DNSInv, CurrentInv, Aimed
  <2> QED BY <2>1, <2>2 DEF DNSInv, Pointed, Owning, Aimed
<1>7. CASE StartMonitor \/ Leave
  <2>1. /\ UNCHANGED <<present, dns, user, mine, later, excused, todo, current>>
        /\ pc \in {"activated", "up"} /\ pc' \in {"up", "stop"}
    BY <1>7 DEF StartMonitor, Leave, system, manager, ghosts
  <2>2. Owning /\ Owning' BY <1>0, <2>1 DEF CurrentInv, Owning, Aimed
  <2> QED BY <2>1, <2>2, DNSMoves
<1>8. CASE StopCore
  BY <1>8, DNSMoves DEF StopCore, manager, Owning, Aimed
<1>9. CASE Restore
  BY <1>9, DNSMoves, RecordTypes DEF Restore, system, ghosts, Owning, Aimed
<1>10. CASE RestoreAgain
  <2>1. /\ UNCHANGED <<present, dns, user, mine, later, excused, todo, current>>
        /\ pc = "failed" /\ pc' = "restore"
    BY <1>10 DEF RestoreAgain, system, manager, ghosts
  <2>2. ~current.owned BY <1>0, <2>1, RecordTypes DEF CurrentInv, Holding
  <2> QED BY <2>1, <2>2, DNSMoves DEF Owning, Aimed
<1>11. CASE Crash BY <1>11 DEF Crash, forget, DNSInv, Withdrawn, Owning, Aimed
<1>12. CASE Monitor \/ TUNAppears \/ TUNVanishes \/ UNCHANGED vars
  BY <1>12, DNSMoves DEF Monitor, MonitorReads, MonitorTick, TUNAppears, TUNVanishes, vars, system,
     manager, call, ghosts
<1> QED
  BY <1>1, <1>2, <1>3, <1>4, <1>5, <1>6, <1>7, <1>8, <1>9, <1>10, <1>11, <1>12, PointAtTUNStep,
     ListForRestoreStep, ResetResolverStep, UserSetsDNSStep, PlugStep
  DEF Next, Prepare, Transaction

-----------------------------------------------------------------------------
(* Theorems *)

\* IInv holds in every reachable state.
LEMMA Inductive == Spec => []IInv
<1>1. Init => IInv
  <2> SUFFICES ASSUME Init PROVE IInv OBVIOUS
  <2>1. TypeOK BY TypeInit
  <2>2. TUNInv /\ MonitorInv BY DEF Init, TUNInv, MonitorInv, Aimed
  <2>3. CurrentInv BY DEF Init, CurrentInv, Aimed, Holding, Preparers
  <2>4. pc = "boot" /\ mine = {} BY DEF Init
  <2>5. DNSInv BY <2>4 DEF DNSInv, Owning, Aimed, Withdrawn
  <2> QED BY <2>1, <2>2, <2>3, <2>5 DEF IInv
<1>2. IInv /\ [Next]_vars => IInv'
  BY TypeStep, TUNStep, CurrentStep, MonitorStep, DNSStep DEF IInv
<1> QED BY <1>1, <1>2, PTL DEF Spec

\* A Restore that succeeded leaves no adapter of the transaction on the TUN's
\* resolver, and does not undo what the user chose in the meantime, on every
\* path through Connect's failures (network_poc_windows.go, Restore).
THEOREM ResolversWithdrawn == Spec => []TUNIsWithdrawn
<1>1. IInv => TUNIsWithdrawn
  <2> SUFFICES ASSUME IInv, pc = "idle", NEW a \in mine \ excused
               PROVE  dns[a] # "tun" /\ (a \in later => dns[a] = user[a])
    BY DEF TUNIsWithdrawn
  <2>1. Setting(a, "auto") BY DEF IInv, DNSInv, Owning, Aimed, Withdrawn
  <2>2. user[a] # "tun"
    BY StaticAssumption DEF IInv, TypeOK, SystemType, GhostType, Choices
  <2> QED BY <2>1, <2>2 DEF Setting
<1> QED BY <1>1, Inductive, PTL

\* The runtime monitor reports only what changed after it took its baseline:
\* nothing the connection itself does is drift (network_monitor.go).
THEOREM MonitorIsTruthful == Spec => []NoFalseAlarm
<1>1. IInv => NoFalseAlarm BY DEF IInv, MonitorInv, NoFalseAlarm
<1> QED BY <1>1, Inductive, PTL


-----------------------------------------------------------------------------
(***************************************************************************)
(* The client and the service's pipe: theorems about ClientView, for any   *)
(* callers, proxy settings and numbers of clicks, clients and failures.    *)
(* They share nothing with the network manager.                            *)
(*                                                                         *)
(* The invariant of a session adds to ProxyIsReturned only that a guard    *)
(* dies with its client.  The rest is update(): it takes and gives back    *)
(* on the edge of "connected", so the order of the answers is immaterial.  *)
(***************************************************************************)

Transitions  == [state : States, op : {"none", "connect", "disconnect"},
                 who : Callers \cup {"none", "main", "monitor"}, cancelled : BOOLEAN]
RequestsHeld == [Callers -> {"none", "connect", "disconnect", "status"}]
CallsSeen    == [Callers -> {"none", "connect", "disconnect", "status"}
                              \cup States \cup Errors]

\* With no client running nothing is taken: the guard lives in the process.
SessionInv == ClientTypeOK /\ (life = "off" => ~guard.taken) /\ ProxyIsReturned

\* A failure is one more within the bound.
LEMMA FaultCounts ==
  ASSUME failures \in 0..MaxFailures, Failure PROVE failures' \in 0..MaxFailures
BY MaxFailuresAssumption DEF Failure

USE DEF Transitions, RequestsHeld, CallsSeen

\* A controller between transitions is of its type.
LEMMA IdleType ==
  ASSUME NEW s \in States
  PROVE Idle(s) \in Transitions
BY DEF Idle, Transitions

\* processEnds, however it came about.
LEMMA EndsType ==
  ASSUME ServiceTypeOK, processEnds, failures' \in 0..MaxFailures PROVE ServiceTypeOK'
<1>1. Idle("prepared") \in Transitions
  BY IdleType DEF States
<1>2. calls' \in CallsSeen
  BY DEF ServiceTypeOK, processEnds, Errors, CallsSeen
<1> QED BY <1>1, <1>2 DEF ServiceTypeOK, processEnds

\* The answer of a request, delivered or not decoded.
LEMMA AnswerType ==
  ASSUME ServiceTypeOK, NEW c \in Callers, NEW s \in States,
         answers(c, s)
  PROVE  /\ reqs' \in RequestsHeld
         /\ calls' \in CallsSeen
         /\ failures' \in 0..MaxFailures
<1>1. reqs' \in RequestsHeld
  BY DEF ServiceTypeOK, answers
<1>2. CASE calls' = [calls EXCEPT ![c] = IF Waiting(c) THEN s ELSE @] /\ UNCHANGED failures
  BY <1>1, <1>2 DEF ServiceTypeOK
<1>3. CASE Waiting(c) /\ calls' = [calls EXCEPT ![c] = "invalid"] /\ Failure
  <2>1. failures' \in 0..MaxFailures BY <1>3, FaultCounts DEF ServiceTypeOK
  <2> QED BY <1>1, <1>3, <2>1 DEF ServiceTypeOK, Errors
<1> QED BY <1>2, <1>3 DEF answers

\* The end of a transition answers everyone who waits for it.
LEMMA FinishType ==
  ASSUME ServiceTypeOK, NEW s \in States, finishes(s), failures' \in 0..MaxFailures
  PROVE  ServiceTypeOK'
<1>1. ctl' \in Transitions
  BY IdleType DEF finishes
<1>2. reqs' \in RequestsHeld
  BY DEF ServiceTypeOK, finishes
<1>3. calls' \in CallsSeen
  BY DEF ServiceTypeOK, finishes
<1>4. svc' \in {"down", "recover", "running", "stop", "disconnect", "exit"}
  BY DEF ServiceTypeOK, finishes
<1> QED BY <1>1, <1>2, <1>3, <1>4 DEF ServiceTypeOK

\* A Disconnect begins, or cancels the transition under way.
LEMMA DisconnectType ==
  ASSUME ServiceTypeOK, NEW w \in Callers \cup {"main", "monitor"}, disconnectBegins(w)
  PROVE  ctl' \in Transitions
<1>1. CASE ctl.op = "none"
  <2>1. ctl' = [state |-> "restoring", op |-> "disconnect", who |-> w, cancelled |-> FALSE]
    BY <1>1 DEF disconnectBegins
  <2> QED BY <2>1 DEF States
<1>2. CASE ctl.op # "none"
  <2>1. ctl' = [ctl EXCEPT !.cancelled = TRUE] BY <1>2 DEF disconnectBegins
  <2> QED BY <2>1 DEF ServiceTypeOK
<1> QED BY <1>1, <1>2

\* Every step of the service keeps its types.
LEMMA ServiceTypes ==
  ASSUME ServiceTypeOK, serviceStep PROVE ServiceTypeOK'
<1> USE DEF ServiceTypeOK
<1>0. failures \in 0..MaxFailures OBVIOUS
<1>1. CASE StartService BY <1>1 DEF StartService
<1>2. CASE Recover
  <2>1. CASE processEnds /\ Failure BY <2>1, <1>0, FaultCounts, EndsType
  <2>2. CASE svc' = "running" /\ ctl' = Idle("prepared") /\ UNCHANGED <<reqs, calls, failures>>
    BY <2>2, IdleType DEF States
  <2> QED BY <1>2, <2>1, <2>2 DEF Recover
<1>3. CASE StopBackgroundPreparation BY <1>3 DEF StopBackgroundPreparation
<1>4. CASE StopDisconnects
  <2>1. ctl' \in Transitions
    BY <1>4, DisconnectType DEF StopDisconnects
  <2> QED BY <1>4, <2>1 DEF StopDisconnects
<1>5. CASE ProcessExits BY <1>0, <1>5, EndsType DEF ProcessExits
<1>6. CASE StopRequested
  <2>1. failures' \in 0..MaxFailures BY <1>6, <1>0, FaultCounts DEF StopRequested
  <2> QED BY <1>6, <2>1 DEF StopRequested
<1>7. CASE ServiceDies BY <1>0, <1>7, FaultCounts, EndsType DEF ServiceDies
<1>8. ASSUME NEW c \in Callers, requestStep(c) \/ TimesOut(c) PROVE ServiceTypeOK'
  <2>1. CASE Accept(c)
    <3>1. calls[c] \in {"connect", "disconnect", "status"} BY <2>1 DEF Accept, Waiting
    <3>2. failures' \in 0..MaxFailures BY <2>1, <1>0, FaultCounts DEF Accept
    <3> QED BY <2>1, <3>1, <3>2 DEF Accept, Errors
  <2>2. CASE Refuse(c) BY <2>2 DEF Refuse, Errors
  <2>3. CASE StatusAnswers(c)
    <3>1. ctl.state \in States OBVIOUS
    <3>2. answers(c, ctl.state) /\ UNCHANGED <<svc, ctl>> BY <2>3 DEF StatusAnswers
    <3> QED BY <3>1, <3>2, AnswerType
  <2>4. CASE ConnectBegins(c)
    <3>1. CASE ctl.state \in {"connected", "failed_safe"}
      <4>1. ctl.state \in States OBVIOUS
      <4>2. answers(c, ctl.state) /\ UNCHANGED <<svc, ctl>>
        BY <2>4, <3>1 DEF ConnectBegins
      <4> QED BY <4>1, <4>2, AnswerType
    <3>2. CASE ctl.state \notin {"connected", "failed_safe"}
      <4>1. ctl' = [state |-> "connecting", op |-> "connect", who |-> c, cancelled |-> FALSE]
            /\ UNCHANGED <<svc, reqs, calls, failures>>
        BY <2>4, <3>2 DEF ConnectBegins
      <4>2. ctl' \in Transitions
        BY <4>1 DEF States
      <4> QED BY <4>1, <4>2
    <3> QED BY <3>1, <3>2
  <2>5. CASE DisconnectBegins(c)
    <3>1. ctl' \in Transitions
      BY <2>5, DisconnectType DEF DisconnectBegins
    <3> QED BY <2>5, <3>1 DEF DisconnectBegins
  <2>6. CASE TimesOut(c)
    <3>1. failures' \in 0..MaxFailures BY <2>6, <1>0, FaultCounts DEF TimesOut
    <3> QED BY <2>6, <3>1 DEF TimesOut, Errors
  <2> QED BY <1>8, <2>1, <2>2, <2>3, <2>4, <2>5, <2>6 DEF requestStep
<1>9. CASE ConnectEnds
  <2>1. failures' \in 0..MaxFailures BY <1>9, <1>0, FaultCounts DEF ConnectEnds
  <2>2. \E s \in States : finishes(s) BY <1>9 DEF ConnectEnds, States
  <2> HIDE DEF ServiceTypeOK
  <2> QED BY <2>1, <2>2, FinishType
<1>10. CASE DisconnectEnds
  <2>1. failures' \in 0..MaxFailures BY <1>10, <1>0, FaultCounts DEF DisconnectEnds
  <2>2. \E s \in States : finishes(s) BY <1>10 DEF DisconnectEnds, States
  <2> HIDE DEF ServiceTypeOK
  <2> QED BY <2>1, <2>2, FinishType
<1>11. CASE MonitorDisconnects
  <2>1. failures' \in 0..MaxFailures BY <1>11, <1>0, FaultCounts DEF MonitorDisconnects
  <2>2. ctl' \in Transitions
    BY <1>11, DisconnectType DEF MonitorDisconnects
  <2> QED BY <1>11, <2>1, <2>2 DEF MonitorDisconnects
<1> HIDE DEF ServiceTypeOK
<1> QED BY <1>1, <1>2, <1>3, <1>4, <1>5, <1>6, <1>7, <1>8, <1>9, <1>10, <1>11
        DEF serviceStep, executeStep, controllerStep

\* A click is a request and a busy view.
LEMMA ClickStep ==
  ASSUME ClientTypeOK, NEW c \in Callers,
         NEW a \in {"connect", "disconnect"}, click(c, a)
  PROVE  ClientTypeOK'
<1>1. calls' \in CallsSeen BY DEF click, requests, ClientTypeOK, ServiceTypeOK, Errors
<1>2. clicked' \in 0..MaxClicks BY ClientBoundsAssumption DEF click, ClientTypeOK
<1>3. view' \in [status : Shown, busy : BOOLEAN] BY DEF click, ClientTypeOK
<1> QED BY <1>1, <1>2, <1>3 DEF click, ClientTypeOK, ServiceTypeOK

\* proxyGuard's take and giveBack.
LEMMA GuardTypes ==
  ASSUME ClientTypeOK, Take \/ GiveBack
  PROVE  /\ guard' \in [taken : BOOLEAN, saved : ProxySettings] /\ proxy' \in ProxySettings
         /\ pardoned' \in BOOLEAN /\ failures' \in 0..MaxFailures
<1>0. failures \in 0..MaxFailures BY DEF ClientTypeOK, ServiceTypeOK
<1>1. failures' \in 0..MaxFailures BY <1>0, FaultCounts DEF Take, GiveBack
<1>2. guard' \in [taken : BOOLEAN, saved : ProxySettings]
  <2>1. guard' = guard \/ guard' = NoGuard \/ guard' = [taken |-> TRUE, saved |-> proxy]
    BY DEF Take, GiveBack
  <2>2. NoGuard \in [taken : BOOLEAN, saved : ProxySettings] BY DEF NoGuard, ProxySettings
  <2>3. [taken |-> TRUE, saved |-> proxy] \in [taken : BOOLEAN, saved : ProxySettings]
    BY DEF ClientTypeOK
  <2> QED BY <2>1, <2>2, <2>3 DEF ClientTypeOK
<1>3. proxy' \in ProxySettings BY DEF Take, GiveBack, ClientTypeOK, ProxySettings
<1>4. pardoned' \in BOOLEAN BY DEF Take, GiveBack, ClientTypeOK
<1> QED BY <1>1, <1>2, <1>3, <1>4

\* update(), whoever calls it.
LEMMA UpdateTypes ==
  ASSUME ClientTypeOK, NEW s \in Shown, update(s),
         calls' \in CallsSeen,
         UNCHANGED <<svc, ctl, reqs, life, chosen, clicked, launched>>
  PROVE  ClientTypeOK'
<1>1. /\ guard' \in [taken : BOOLEAN, saved : ProxySettings] /\ proxy' \in ProxySettings
      /\ pardoned' \in BOOLEAN /\ failures' \in 0..MaxFailures
  <2>1. CASE Take \/ GiveBack BY <2>1, GuardTypes
  <2>2. CASE UNCHANGED <<guard, proxy, pardoned, failures>> BY <2>2 DEF ClientTypeOK, ServiceTypeOK
  <2> QED BY <2>1, <2>2 DEF update
<1>2. view' \in [status : Shown, busy : BOOLEAN] BY DEF update
<1> QED BY <1>1, <1>2 DEF ClientTypeOK, ServiceTypeOK

\* What a client's answer does to the proxy: given back with the connection, or
\* taken with it.
LEMMA UpdateKeepsProxy ==
  ASSUME ClientTypeOK, ProxyIsReturned, NEW s, update(s), life # "off",
         UNCHANGED <<life, chosen>>
  PROVE  ProxyIsReturned'
<1>1. view'.status = s BY DEF update
<1>2. CASE s = "connected" /\ view.status # "connected" /\ Take
  BY <1>1, <1>2 DEF Take, ProxyIsReturned, ClientTypeOK
<1>3. CASE s # "connected" /\ view.status = "connected" /\ GiveBack
  BY <1>1, <1>3 DEF GiveBack, NoGuard, ProxyIsReturned, ClientTypeOK
<1>4. CASE /\ (s = "connected") = (view.status = "connected")
           /\ UNCHANGED <<guard, proxy, pardoned, failures>>
  BY <1>1, <1>4 DEF ProxyIsReturned
<1> QED BY <1>2, <1>3, <1>4 DEF update

\* A caller takes its answer to update().
LEMMA ReturnKeepsInv ==
  ASSUME SessionInv, NEW c \in Callers, NEW s \in Shown,
         update(s), life # "off",
         calls' = [calls EXCEPT ![c] = "none"],
             UNCHANGED <<svc, ctl, reqs, life, chosen, clicked, launched>>
  PROVE  SessionInv'
<1>1. calls' \in CallsSeen BY DEF SessionInv, ClientTypeOK, ServiceTypeOK
<1>2. ClientTypeOK' BY <1>1, UpdateTypes DEF SessionInv
<1>3. ProxyIsReturned' BY UpdateKeepsProxy DEF SessionInv
<1> QED BY <1>2, <1>3 DEF SessionInv

\* The client's process ends, of itself or killed.
LEMMA EndKeepsInv ==
  ASSUME SessionInv, clientEnds, failures' \in 0..MaxFailures PROVE SessionInv'
<1>1. ClientTypeOK'
  BY DEF SessionInv, ClientTypeOK, ServiceTypeOK, clientEnds, NoGuard, ProxySettings
<1>2. ProxyIsReturned'
  BY DEF SessionInv, ProxyIsReturned, ClientTypeOK, clientEnds, NoGuard
<1> QED BY <1>1, <1>2 DEF SessionInv, clientEnds, NoGuard

\* Every step of the service, the client and the user keeps the invariant.
LEMMA SessionStep ==
  ASSUME SessionInv,
         [ClientNext]_sessionVars
  PROVE  SessionInv'
<1>0. /\ ClientTypeOK /\ ServiceTypeOK /\ failures \in 0..MaxFailures
      /\ "poll" \in Callers /\ Clicks \subseteq Callers
  BY CallersAssumption DEF SessionInv, ClientTypeOK, ServiceTypeOK
<1>1. CASE serviceStep /\ UNCHANGED clientVars
  <2>1. ServiceTypeOK' BY <1>0, <1>1, ServiceTypes
  <2> QED BY <1>1, <2>1 DEF SessionInv, ClientTypeOK, ProxyIsReturned, clientVars
<1>2. CASE LaunchClient
  <2>1. ClientTypeOK'
    BY <1>0, <1>2, ClientBoundsAssumption
       DEF ClientTypeOK, ServiceTypeOK, LaunchClient, svcVars, Shown, States
  <2>2. ProxyIsReturned' BY <1>2 DEF SessionInv, LaunchClient, ProxyIsReturned
  <2> QED BY <1>2, <2>1, <2>2 DEF SessionInv, LaunchClient
<1>3. CASE RefreshBegins
  <2>1. calls' \in CallsSeen
    BY <1>0, <1>3 DEF ServiceTypeOK, RefreshBegins, requests, Errors
  <2> QED BY <1>3, <2>1 DEF SessionInv, ClientTypeOK, ServiceTypeOK, ProxyIsReturned,
          RefreshBegins, clientVars
<1>4. CASE RefreshReturns
  <2> DEFINE s == CASE calls["poll"] = "unavailable" -> "disconnected"
              [] calls["poll"] = "invalid" -> "failed"
              [] OTHER -> calls["poll"]
  <2>1. s \in Shown BY <1>4 DEF RefreshReturns, returned, Shown, Errors
  <2>2. update(s) /\ life # "off" /\ calls' = [calls EXCEPT !["poll"] = "none"]
        /\ UNCHANGED <<svc, ctl, reqs, life, chosen, clicked, launched>>
    BY <1>4 DEF RefreshReturns
  <2> HIDE DEF s
  <2> QED BY <1>0, <2>1, <2>2, ReturnKeepsInv
<1>5. CASE CloseWindow
  BY <1>5 DEF CloseWindow, SessionInv, ClientTypeOK, ServiceTypeOK, ProxyIsReturned,
         svcVars
<1>6. CASE CloseReturns
  <2>1. /\ guard' \in [taken : BOOLEAN, saved : ProxySettings] /\ proxy' \in ProxySettings
        /\ pardoned' \in BOOLEAN /\ failures' \in 0..MaxFailures
    BY <1>0, <1>6, GuardTypes DEF CloseReturns
  <2>2. ClientTypeOK' BY <1>0, <1>6, <2>1 DEF ClientTypeOK, ServiceTypeOK, CloseReturns
  <2>3. ProxyIsReturned'
    BY <1>6 DEF SessionInv, ProxyIsReturned, ClientTypeOK, CloseReturns, GiveBack,
           NoGuard
  <2> QED BY <1>6, <2>2, <2>3 DEF SessionInv, CloseReturns
<1>7. CASE ClientExits BY <1>0, <1>7, EndKeepsInv DEF ClientExits
<1>8. CASE ClientKilled BY <1>0, <1>8, EndKeepsInv, FaultCounts DEF ClientKilled
<1>9. ASSUME NEW c \in Clicks, Toggle(c) \/ RestoreClicked(c) PROVE SessionInv'
  <2>1. \E a \in {"connect", "disconnect"} : click(c, a) BY <1>9 DEF Toggle, RestoreClicked
  <2>2. PICK a \in {"connect", "disconnect"} : click(c, a) BY <2>1
  <2>3. ClientTypeOK' BY <1>0, <2>2, ClickStep
  <2>4. view'.status = view.status BY <1>0, <2>2 DEF click, ClientTypeOK
  <2> QED BY <2>2, <2>3, <2>4 DEF SessionInv, ProxyIsReturned, click
<1>10. ASSUME NEW c \in Clicks, ClickReturns(c) PROVE SessionInv'
  <2> DEFINE s == IF calls[c] \in Errors THEN "prepared" ELSE calls[c]
  <2>1. s \in Shown BY <1>10 DEF ClickReturns, returned, Shown, States
  <2>2. update(s) /\ life # "off" /\ calls' = [calls EXCEPT ![c] = "none"]
        /\ UNCHANGED <<svc, ctl, reqs, life, chosen, clicked, launched>>
    BY <1>10 DEF ClickReturns
  <2> HIDE DEF s
  <2> QED BY <1>0, <2>1, <2>2, ReturnKeepsInv
<1>11. ASSUME NEW p \in ProxySettings, UserSetsProxy(p) PROVE SessionInv'
  <2>1. failures' \in 0..MaxFailures BY <1>0, <1>11, FaultCounts DEF UserSetsProxy
  <2>2. ClientTypeOK' BY <1>0, <1>11, <2>1 DEF ClientTypeOK, ServiceTypeOK, UserSetsProxy
  <2> QED BY <1>11, <2>2 DEF SessionInv, ProxyIsReturned, ClientTypeOK, UserSetsProxy
<1>12. CASE UNCHANGED sessionVars
  BY <1>12 DEF SessionInv, ClientTypeOK, ServiceTypeOK, ProxyIsReturned, sessionVars, svcVars,
         clientVars
<1> QED BY <1>1, <1>2, <1>3, <1>4, <1>5, <1>6, <1>7, <1>8, <1>9, <1>10, <1>11, <1>12
        DEF ClientNext, pollStep, closeStep

\* It holds throughout.
LEMMA SessionHolds == ClientSpec => []SessionInv
<1>1. ClientInit => SessionInv
  <2> SUFFICES ASSUME ClientInit PROVE SessionInv OBVIOUS
  <2>1. ServiceTypeOK
    BY IdleType, MaxFailuresAssumption
       DEF ClientInit, ServiceInit, ServiceTypeOK, States
  <2>2. ClientTypeOK
    <3>1. clicked \in 0..MaxClicks /\ launched \in 0..MaxLaunches
      BY ClientBoundsAssumption DEF ClientInit
    <3>2. view \in [status : Shown, busy : BOOLEAN] BY DEF ClientInit, Shown, States
    <3>3. guard \in [taken : BOOLEAN, saved : ProxySettings]
      BY DEF ClientInit, NoGuard, ProxySettings
    <3> QED BY <2>1, <3>1, <3>2, <3>3 DEF ClientInit, ClientTypeOK, ProxySettings
  <2> QED BY <2>2 DEF SessionInv, ClientInit, NoGuard, ProxyIsReturned
<1>2. SessionInv /\ [ClientNext]_sessionVars => SessionInv' BY SessionStep
<1> QED BY <1>1, <1>2, PTL DEF ClientSpec

\* Whatever the order of polls, clicks and answers, the service, the calls, the
\* view and the guard keep their types.
THEOREM ClientTypeCorrect == ClientSpec => []ClientTypeOK
<1>1. SessionInv => ClientTypeOK BY DEF SessionInv
<1> QED BY <1>1, SessionHolds, PTL

\* Whichever goroutine's update() comes last, the guard holds the user's own
\* setting, and only while the window shows a connection or is closing;
\* otherwise the registry has it.
THEOREM ProxyComesBack == ClientSpec => []ProxyIsReturned
<1>1. SessionInv => ProxyIsReturned BY DEF SessionInv
<1> QED BY <1>1, SessionHolds, PTL

=============================================================================
