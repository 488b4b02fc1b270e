---------------------------- MODULE RuntimeOwner ----------------------------
(***************************************************************************)
(* internal/runtimeowner: publication of credential.bin and sing-box.json. *)
(* A durable ledger names every file that may hold a secret before the     *)
(* file exists.  Several processes publish under one named mutex; each may *)
(* die after any step, and every file operation may fail.  The uninstaller *)
(* removes what the ledger names.                                          *)
(***************************************************************************)
EXTENDS Naturals, FiniteSets

CONSTANTS
  Procs,       \* processes that publish: the service, the provisioner
  MaxPublish,  \* bound on publications
  MaxFaults,   \* bound on failing operations and deaths
  Installer    \* "script" (install-client.ps1) or "msi" (installer-verifier)

ASSUME BoundsAssumption == MaxPublish \in Nat /\ MaxFaults \in Nat
ASSUME ProcsAssumption == "free" \notin Procs
ASSUME InstallerAssumption == Installer \in {"script", "msi"}

Targets == {"credential.bin", "sing-box.json"}

\* The script deletes sing-box.json only and refuses to run for other files.
Supported == IF Installer = "script" THEN {"sing-box.json"} ELSE Targets

Absent  == 0               \* no such file
Junk    == MaxPublish + 1  \* partly written or partly wiped
Content == 0..(MaxPublish + 1)
Phases  == {"none", "prepared", "temporary-written", "publishing", "published"}

VARIABLES
  ledger,     \* runtime-owned.json
  file,       \* target -> its canonical file and the files of its intent
  lock,       \* the mutex: a process, or Free
  pc, tgt, previous, hadPrevious, content,  \* locals of the publishing processes
  versions,   \* publications so far
  committed,  \* what the last publication that was not taken back left
  lost,       \* targets whose file a failed ReplaceFileW had moved aside
  faults

vars == <<ledger, file, lock, pc, tgt, previous, hadPrevious, content, versions,
          committed, lost, faults>>

Free     == "free"
Ledgers  == [exists : BOOLEAN, intent : [Targets -> Phases], finalized : SUBSET Targets]
NoLedger == [exists |-> FALSE, intent |-> [t \in Targets |-> "none"], finalized |-> {}]
Files    == [canonical : Content, temporary : Content, backup : Content, replaced : Content]
NoFile   == [canonical |-> Absent, temporary |-> Absent, backup |-> Absent,
             replaced |-> Absent]

Pcs == {"idle", "intent", "temporary", "writing", "written", "publishing", "publish",
        "published", "finalize", "wipe", "complete", "undo", "revert", "restoreledger"}

TypeOK ==
  /\ ledger \in Ledgers /\ file \in [Targets -> Files] /\ lock \in Procs \cup {Free}
  /\ pc \in [Procs -> Pcs] /\ tgt \in [Procs -> Targets] /\ previous \in [Procs -> Ledgers]
  /\ hadPrevious \in [Procs -> BOOLEAN] /\ content \in [Procs -> 0..MaxPublish]
  /\ versions \in 0..MaxPublish /\ committed \in [Targets -> 0..MaxPublish]
  /\ lost \subseteq Targets /\ faults \in 0..MaxFaults

Init ==
  /\ ledger = NoLedger /\ file = [t \in Targets |-> NoFile] /\ lock = Free
  /\ pc = [p \in Procs |-> "idle"] /\ tgt = [p \in Procs |-> "sing-box.json"]
  /\ previous = [p \in Procs |-> NoLedger] /\ hadPrevious = [p \in Procs |-> FALSE]
  /\ content = [p \in Procs |-> 0] /\ versions = 0
  /\ committed = [t \in Targets |-> Absent] /\ lost = {} /\ faults = 0

-----------------------------------------------------------------------------
(* Helpers *)

Fine  == UNCHANGED faults
Fault == faults < MaxFaults /\ faults' = faults + 1

Goto(p, to) == pc' = [pc EXCEPT ![p] = to]
\* Publish returns; its locals end.
Return(p) ==
  /\ Goto(p, "idle") /\ lock' = Free
  /\ tgt' = [tgt EXCEPT ![p] = "sing-box.json"] /\ content' = [content EXCEPT ![p] = 0]
  /\ previous' = [previous EXCEPT ![p] = NoLedger]
  /\ hadPrevious' = [hadPrevious EXCEPT ![p] = FALSE]
Continue(p, to) == Goto(p, to) /\ UNCHANGED <<lock, tgt, content, previous, hadPrevious>>

\* The ledger is replaced by a rename; one that fails may have happened.
writeLedger(l)      == Fine /\ ledger' = l
writeLedgerFails(l) == Fault /\ ledger' \in {ledger, l}

withPhase(t, phase) == [ledger EXCEPT !.exists = TRUE, !.intent[t] = phase]

\* secureRemove of the files ns of target t: overwrite, then delete.
wipe(t, ns) ==
  Fine /\ file' = [file EXCEPT ![t] = [n \in DOMAIN NoFile |->
                                        IF n \in ns THEN Absent ELSE file[t][n]]]
wipeFails(t, ns) ==
  /\ Fault
  /\ \E bad \in SUBSET {n \in ns : file[t][n] # Absent}, zeroed \in BOOLEAN :
       /\ bad # {}
       /\ file' = [file EXCEPT ![t] = [n \in DOMAIN NoFile |->
                                        CASE n \in bad -> IF zeroed THEN Junk ELSE file[t][n]
                                          [] n \in ns \ bad -> Absent
                                          [] OTHER -> file[t][n]]]

Transient == {"temporary", "backup", "replaced"}

-----------------------------------------------------------------------------
(* publishAt *)

\* Under the lock, an unresolved intent of the same target is refused.
publishAt(p, t) ==
  /\ pc[p] = "idle" /\ lock = Free /\ versions < MaxPublish
  /\ ledger.intent[t] = "none"
  /\ lock' = p /\ Goto(p, "intent") /\ tgt' = [tgt EXCEPT ![p] = t]
  /\ previous' = [previous EXCEPT ![p] = ledger]
  /\ versions' = versions + 1 /\ content' = [content EXCEPT ![p] = versions + 1]
  /\ Fine /\ UNCHANGED <<ledger, file, hadPrevious, committed, lost>>

temporaryFirst(p) ==
  /\ pc[p] = "intent" /\ Continue(p, "temporary")
  /\ file' = [file EXCEPT ![tgt[p]].temporary = Junk]
  /\ Fine /\ UNCHANGED <<ledger, versions, committed, lost>>

recordIntent(p) ==
  /\ pc[p] = "intent"
  /\ LET l == withPhase(tgt[p], "prepared") IN
     \/ writeLedger(l) /\ Continue(p, "temporary")
     \/ writeLedgerFails(l) /\ Return(p)
  /\ UNCHANGED <<file, versions, committed, lost>>

createTemporary(p) ==
  /\ pc[p] = "temporary" /\ Continue(p, "writing")
  /\ file' = [file EXCEPT ![tgt[p]].temporary = Junk]
  /\ Fine /\ UNCHANGED <<ledger, versions, committed, lost>>

writeTemporary(p) ==
  /\ pc[p] = "writing"
  /\ \/ /\ file' = [file EXCEPT ![tgt[p]].temporary = content[p]]
        /\ Continue(p, "written") /\ Fine
     \/ Continue(p, "undo") /\ Fault /\ UNCHANGED file
  /\ UNCHANGED <<ledger, versions, committed, lost>>

recordPhase(p, from, phase, to) ==
  /\ pc[p] = from
  /\ LET l == withPhase(tgt[p], phase) IN
     \/ writeLedger(l) /\ Continue(p, to)
     \/ writeLedgerFails(l) /\ Continue(p, "undo")
  /\ UNCHANGED <<file, versions, committed, lost>>

\* ReplaceFileW that fails half way (ERROR_UNABLE_TO_MOVE_REPLACEMENT_2): the
\* replaced file already has its backup name, the replacement still its own.
movedAside(f, backup) == [f EXCEPT !.canonical = Absent, ![backup] = f.canonical]

\* publishFile: a rename if there is no canonical file, else ReplaceFileW, which
\* fails with or without effect; every error is taken for "not published".
publishFile(p) ==
  /\ pc[p] = "publish"
  /\ LET f == file[tgt[p]] IN
     \/ /\ file' = [file EXCEPT ![tgt[p]] =
                      [f EXCEPT !.canonical = f.temporary, !.temporary = Absent,
                                !.backup = f.canonical]]
        /\ hadPrevious' = [hadPrevious EXCEPT ![p] = (f.canonical # Absent)]
        /\ Goto(p, "published") /\ Fine /\ UNCHANGED <<lock, tgt, content, previous, lost>>
     \/ Continue(p, "undo") /\ Fault /\ UNCHANGED <<file, lost>>
     \/ /\ f.canonical # Absent /\ Continue(p, "undo") /\ Fault
        /\ file' = [file EXCEPT ![tgt[p]] = movedAside(f, "backup")]
        /\ lost' = lost \cup {tgt[p]}
  /\ UNCHANGED <<ledger, versions, committed>>

recordPublished(p) ==
  /\ pc[p] = "published"
  /\ LET l == withPhase(tgt[p], "published") IN
     \/ writeLedger(l) /\ Continue(p, "finalize")
     \/ writeLedgerFails(l) /\ Continue(p, "revert")
  /\ UNCHANGED <<file, versions, committed, lost>>

\* The canonical file is finalized while the intent still owns the others.
finalize(p) ==
  /\ pc[p] = "finalize"
  /\ LET l == [ledger EXCEPT !.finalized = @ \cup {tgt[p]}] IN
     \/ /\ writeLedger(l) /\ Continue(p, "wipe")
        /\ committed' = [committed EXCEPT ![tgt[p]] = content[p]] /\ lost' = lost \ {tgt[p]}
     \/ writeLedgerFails(l) /\ Continue(p, "revert") /\ UNCHANGED <<committed, lost>>
  /\ UNCHANGED <<file, versions>>

wipePaths(p) ==
  /\ pc[p] = "wipe"
  /\ \/ wipe(tgt[p], Transient) /\ Continue(p, "complete")
     \/ wipeFails(tgt[p], Transient) /\ Return(p)
  /\ UNCHANGED <<ledger, versions, committed, lost>>

complete(p) ==
  /\ pc[p] = "complete"
  /\ LET l == [ledger EXCEPT !.intent[tgt[p]] = "none"] IN
     (writeLedger(l) \/ writeLedgerFails(l)) /\ Return(p)
  /\ UNCHANGED <<file, versions, committed, lost>>

-----------------------------------------------------------------------------
(* Compensation *)

\* Before publication: the transient files go first, then the intent.
compensateBeforePublish(p) ==
  /\ pc[p] = "undo"
  /\ \/ wipe(tgt[p], Transient) /\ Continue(p, "restoreledger")
     \/ wipeFails(tgt[p], Transient) /\ Return(p)
  /\ UNCHANGED <<ledger, versions, committed, lost>>

\* restoreFile: the published file moves aside and the backup comes back.
restored(f) == [f EXCEPT !.canonical = f.backup, !.backup = Absent, !.replaced = f.canonical]

\* What is left when every wipe of compensateAfterPublish succeeds.
reverted(p, f) ==
  IF hadPrevious[p] THEN [NoFile EXCEPT !.canonical = f.canonical]
                    ELSE NoFile

keepPublished(p) ==
  /\ pc[p] = "revert"
  /\ file' = [file EXCEPT ![tgt[p]] = [NoFile EXCEPT !.canonical = file[tgt[p]].canonical]]
  /\ Continue(p, "restoreledger") /\ Fine
  /\ UNCHANGED <<ledger, versions, committed, lost>>

\* After publication: the old file is put back (or the new one wiped) and every
\* transient file wiped, also when putting back failed, without effect or half
\* way; any error keeps the intent.
compensateAfterPublish(p) ==
  /\ pc[p] = "revert"
  /\ LET f == file[tgt[p]]
         good == IF hadPrevious[p] THEN restored(f) ELSE f
         Put(h) == file' = [file EXCEPT ![tgt[p]] = h] IN
     \/ Put(reverted(p, good)) /\ Continue(p, "restoreledger") /\ Fine
     \/ \E g \in {good, f, movedAside(f, "replaced")}, bad \in SUBSET DOMAIN NoFile :
          /\ hadPrevious[p] \/ g = f
          /\ g # good \/ bad # {}
          /\ \A n \in bad : g[n] # Absent
          /\ "canonical" \in bad => ~hadPrevious[p]
          /\ Put([n \in DOMAIN NoFile |-> IF n \in bad THEN g[n] ELSE reverted(p, g)[n]])
          /\ Return(p) /\ Fault
  /\ UNCHANGED <<ledger, versions, committed, lost>>

restoreLedger(p) ==
  /\ pc[p] = "restoreledger"
  /\ (writeLedger(previous[p]) \/ writeLedgerFails(previous[p])) /\ Return(p)
  /\ UNCHANGED <<file, versions, committed, lost>>

\* The process dies; the next to wait for the mutex gets it as abandoned.
Die(p) ==
  /\ pc[p] # "idle" /\ Goto(p, "idle")
  /\ lock' = IF lock = p THEN Free ELSE lock
  /\ tgt' = [tgt EXCEPT ![p] = "sing-box.json"] /\ content' = [content EXCEPT ![p] = 0]
  /\ previous' = [previous EXCEPT ![p] = NoLedger]
  /\ hadPrevious' = [hadPrevious EXCEPT ![p] = FALSE]
  /\ Fault /\ UNCHANGED <<ledger, file, versions, committed, lost>>

-----------------------------------------------------------------------------
(* Uninstalling, after the publishing processes were stopped *)

Intended == {t \in Targets : ledger.intent[t] # "none"}

\* What the cleanup deletes of target t.
cleaned(t) ==
  [n \in DOMAIN NoFile |->
    IF \/ n \in Transient /\ t \in Intended
       \/ n = "canonical" /\ (t \in ledger.finalized
                              \/ (Installer = "script" /\ t \in Intended))
    THEN Absent ELSE file[t][n]]

\* Clear-OwnedSensitiveRuntimeFiles and cleanupRuntime: files without an owner
\* stop it; the ledger goes last.
cleanup ==
  /\ ledger.exists /\ \A p \in Procs : pc[p] = "idle"
  /\ Intended \cup ledger.finalized \subseteq Supported
  /\ \A t \in Supported : file[t].canonical # Absent => t \in Intended \cup ledger.finalized
  /\ file' = [t \in Targets |-> cleaned(t)] /\ ledger' = NoLedger
  /\ committed' = [t \in Targets |-> Absent] /\ lost' = {}
  /\ Fine /\ UNCHANGED <<lock, pc, tgt, previous, hadPrevious, content, versions>>

-----------------------------------------------------------------------------

step(p) ==
  \/ recordIntent(p) \/ createTemporary(p) \/ writeTemporary(p)
  \/ recordPhase(p, "written", "temporary-written", "publishing")
  \/ recordPhase(p, "publishing", "publishing", "publish")
  \/ publishFile(p) \/ recordPublished(p) \/ finalize(p) \/ wipePaths(p) \/ complete(p)
  \/ compensateBeforePublish(p) \/ compensateAfterPublish(p) \/ restoreLedger(p)

Next ==
  \/ \E p \in Procs, t \in Targets : publishAt(p, t)
  \/ \E p \in Procs : step(p) \/ Die(p)
  \/ cleanup

Spec == Init /\ [][Next]_vars

-----------------------------------------------------------------------------
(* Properties *)

\* "A durable ledger owns every canonical and transient pathname" (package
\* comment): after a failure or a death at any step, and after uninstalling,
\* a file that may hold a secret is named by the ledger on disk.
LedgerOwnsFiles ==
  \A t \in Targets :
    /\ (\E n \in Transient : file[t][n] # Absent) => ledger.intent[t] # "none"
    /\ file[t].canonical # Absent => t \in Intended \cup ledger.finalized

\* The file a target has when no publication is in progress: the last committed
\* one, unless ReplaceFileW lost it.
settled(t) == IF t \in lost THEN Absent ELSE committed[t]

\* "Atomically publishes": without an open intent the canonical file is what the
\* last publication that was not taken back wrote, whole.  The one exception is
\* a ReplaceFileW that failed half way: it moved the old file to the backup,
\* which compensateBeforePublish wipes, and the target is missing (never partly
\* written, never the new file) until the next publication.
PublishIsAtomic == \A t \in Targets : ledger.intent[t] = "none" => file[t].canonical = settled(t)

=============================================================================
