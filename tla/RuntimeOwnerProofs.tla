------------------------- MODULE RuntimeOwnerProofs -------------------------
(***************************************************************************)
(* Theorems about RuntimeOwner, for any number of processes, publications  *)
(* and faults.                                                             *)
(*                                                                         *)
(* What a death leaves behind is safe because of what the dying process    *)
(* knew at each of its steps.  Journaled is what holds of a target at      *)
(* every moment; AtStep adds what the owner of the mutex knows at its      *)
(* control point about the files of its target and about the ledger it     *)
(* may have to put back.                                                   *)
(***************************************************************************)
EXTENDS RuntimeOwner, TLAPS

Clean(t) == \A n \in Transient : file[t][n] = Absent

\* A target without an intent has no transient file and the canonical file it
\* should have, and the ledger finalized what was published.
Journaled(t) ==
  /\ ledger.intent[t] = "none" => Clean(t) /\ file[t].canonical = settled(t)
  /\ committed[t] # Absent => t \in ledger.finalized

\* The control points from which a publication may be taken back.
Revocable == {"intent", "temporary", "writing", "written", "publishing", "publish",
              "published", "finalize", "undo", "revert", "restoreledger"}

\* The ledger p read differs from the one on disk for its own target only.
Remembers(p) ==
  /\ previous[p].intent[tgt[p]] = "none"
  /\ committed[tgt[p]] # Absent => tgt[p] \in previous[p].finalized
  /\ \A u \in Targets \ {tgt[p]} : /\ previous[p].intent[u] = ledger.intent[u]
                                   /\ u \in previous[p].finalized <=> u \in ledger.finalized

AtStep(p) ==
  /\ pc[p] # "idle" => lock = p
  /\ pc[p] \in Revocable => Remembers(p)
  /\ pc[p] \notin {"idle", "intent"} => ledger.intent[tgt[p]] # "none"
  /\ pc[p] \notin {"idle", "published", "finalize", "revert"} =>
       file[tgt[p]].canonical = settled(tgt[p])
  /\ pc[p] \in {"written", "publishing", "publish"} => file[tgt[p]].temporary = content[p]
  /\ pc[p] \in {"published", "finalize", "revert"} =>
       /\ file[tgt[p]].canonical = content[p] /\ file[tgt[p]].backup = settled(tgt[p])
       /\ hadPrevious[p] = (settled(tgt[p]) # Absent)
  /\ pc[p] \in {"complete", "restoreledger"} => Clean(tgt[p])

IInv ==
  /\ TypeOK
  /\ \A t \in Targets : Journaled(t)
  /\ \A p \in Procs : AtStep(p)

USE DEF settled

-----------------------------------------------------------------------------
(* Type correctness *)

Names == {"canonical", "temporary", "backup", "replaced"}

\* The record of a target's files is a function on their names.
LEMMA FileForms ==
  /\ DOMAIN NoFile = Names
  /\ \A f : f \in Files <=> f \in [Names -> Content]
BY DEF NoFile, Files, Names

\* The empty ledger and the absent files are of their types.
LEMMA EmptyForms == NoLedger \in Ledgers /\ NoFile \in Files
BY BoundsAssumption DEF Ledgers, NoLedger, NoFile, Files, Phases, Content, Absent

\* Recording, finalizing and dropping an intent gives a ledger.
LEMMA LedgerForms ==
  ASSUME NEW l \in Ledgers, NEW t \in Targets, NEW phase \in Phases
  PROVE  /\ [l EXCEPT !.exists = TRUE, !.intent[t] = phase] \in Ledgers
         /\ [l EXCEPT !.intent[t] = phase] \in Ledgers
         /\ [l EXCEPT !.finalized = @ \cup {t}] \in Ledgers
<1>1. [l EXCEPT !.exists = TRUE, !.intent[t] = phase] \in Ledgers BY DEF Ledgers
<1>2. [l EXCEPT !.intent[t] = phase] \in Ledgers BY DEF Ledgers
<1>3. [l EXCEPT !.finalized = @ \cup {t}] \in Ledgers BY DEF Ledgers
<1> QED BY <1>1, <1>2, <1>3

\* A machine without runtime files satisfies the invariant.
LEMMA InitInv == Init => IInv
<1> SUFFICES ASSUME Init PROVE IInv OBVIOUS
<1> USE DEF Init
<1>1. TypeOK BY EmptyForms, BoundsAssumption DEF TypeOK, Targets, Pcs, Absent, Free
<1>2. \A t \in Targets : Journaled(t) BY DEF Journaled, Clean, NoLedger, NoFile, Transient
<1>3. \A p \in Procs : AtStep(p) BY DEF AtStep, Revocable
<1> QED BY <1>1, <1>2, <1>3 DEF IInv

LocalsOK ==
  /\ lock \in Procs \cup {Free} /\ pc \in [Procs -> Pcs] /\ tgt \in [Procs -> Targets]
  /\ previous \in [Procs -> Ledgers] /\ hadPrevious \in [Procs -> BOOLEAN]
  /\ content \in [Procs -> 0..MaxPublish]

\* A call that returns resets its locals.
LEMMA ReturnType ==
  ASSUME TypeOK, NEW p \in Procs, Return(p)
  PROVE  LocalsOK'
<1> USE DEF TypeOK, Return, Goto
<1>1. "idle" \in Pcs /\ "sing-box.json" \in Targets /\ 0 \in 0..MaxPublish
  BY BoundsAssumption DEF Pcs, Targets
<1> QED BY <1>1, EmptyForms DEF LocalsOK

\* A call that goes on keeps the types of the control points.
LEMMA ContinueType ==
  ASSUME TypeOK, NEW p \in Procs, NEW to \in Pcs, Continue(p, to)
  PROVE  LocalsOK'
BY DEF TypeOK, Continue, Goto, LocalsOK

\* The count of failures stays within its bound.
LEMMA FaultType ==
  ASSUME TypeOK, Fine \/ Fault
  PROVE  faults' \in 0..MaxFaults
BY BoundsAssumption DEF TypeOK, Fine, Fault

\* Writing a ledger keeps the types.
LEMMA LedgerType ==
  ASSUME TypeOK, NEW l \in Ledgers, writeLedger(l) \/ writeLedgerFails(l)
  PROVE  ledger' \in Ledgers /\ faults' \in 0..MaxFaults /\ ledger' \in {ledger, l}
BY FaultType DEF TypeOK, writeLedger, writeLedgerFails

\* A phase is recorded for one target; the rest of the ledger stays.
LEMMA PhaseForms ==
  ASSUME TypeOK, NEW p \in Procs, NEW phase \in Phases
  PROVE  /\ withPhase(tgt[p], phase) \in Ledgers
         /\ withPhase(tgt[p], phase).intent[tgt[p]] = phase
         /\ \A u \in Targets \ {tgt[p]} : withPhase(tgt[p], phase).intent[u] = ledger.intent[u]
         /\ withPhase(tgt[p], phase).finalized = ledger.finalized
<1>1. withPhase(tgt[p], phase) \in Ledgers BY LedgerForms DEF TypeOK, withPhase
<1> QED BY <1>1 DEF TypeOK, withPhase, Ledgers

\* Writing one file of a target keeps the types.
LEMMA FileType ==
  ASSUME TypeOK, NEW t \in Targets, NEW f \in Files, file' = [file EXCEPT ![t] = f]
  PROVE  file' \in [Targets -> Files]
BY DEF TypeOK

\* Wiping touches the named files of one target and nothing else.
LEMMA WipeEffect ==
  ASSUME TypeOK, NEW t \in Targets, NEW ns, wipe(t, ns) \/ wipeFails(t, ns)
  PROVE  /\ file' \in [Targets -> Files] /\ faults' \in 0..MaxFaults
         /\ \A u \in Targets \ {t} : file'[u] = file[u]
         /\ \A n \in Names \ ns : file'[t][n] = file[t][n]
         /\ wipe(t, ns) => \A n \in Names \cap ns : file'[t][n] = Absent
<1> USE DEF TypeOK
<1>0. file[t] \in [Names -> Content] /\ Absent \in Content /\ Junk \in Content
  BY FileForms, BoundsAssumption DEF Content, Absent, Junk
<1>1. faults' \in 0..MaxFaults BY FaultType DEF wipe, wipeFails
<1>2. PICK g : /\ file' = [file EXCEPT ![t] = g] /\ g \in [Names -> Content]
               /\ \A n \in Names \ ns : g[n] = file[t][n]
               /\ wipe(t, ns) => \A n \in Names \cap ns : g[n] = Absent
  <2>1. CASE wipe(t, ns)
    <3> DEFINE g == [n \in Names |-> IF n \in ns THEN Absent ELSE file[t][n]]
    <3>1. file' = [file EXCEPT ![t] = g] BY <2>1, FileForms DEF wipe
    <3>2. g \in [Names -> Content] BY <1>0
    <3>3. /\ \A n \in Names \ ns : g[n] = file[t][n]
          /\ \A n \in Names \cap ns : g[n] = Absent
      OBVIOUS
    <3> HIDE DEF g
    <3> QED BY <3>1, <3>2, <3>3
  <2>2. CASE wipeFails(t, ns) /\ ~wipe(t, ns)
    <3>1. PICK bad \in SUBSET {n \in ns : file[t][n] # Absent}, zeroed \in BOOLEAN :
            file' = [file EXCEPT ![t] = [n \in Names |->
                        CASE n \in bad -> IF zeroed THEN Junk ELSE file[t][n]
                          [] n \in ns \ bad -> Absent
                          [] OTHER -> file[t][n]]]
      BY <2>2, FileForms DEF wipeFails
    <3> DEFINE g == [n \in Names |->
                        CASE n \in bad -> IF zeroed THEN Junk ELSE file[t][n]
                          [] n \in ns \ bad -> Absent
                          [] OTHER -> file[t][n]]
    <3>2. g \in [Names -> Content] BY <1>0
    <3>3. \A n \in Names \ ns : g[n] = file[t][n] OBVIOUS
    <3> QED BY <2>2, <3>1, <3>2, <3>3
  <2> QED BY <2>1, <2>2
<1>3. g \in Files BY <1>2, FileForms
<1>4. file' \in [Targets -> Files] BY <1>2, <1>3, FileType
<1> QED BY <1>1, <1>2, <1>4

-----------------------------------------------------------------------------
(* Steps of one publishing process *)

\* While p is at work, or nobody is, the other processes are idle, and what
\* holds of them does not depend on what p changes.
LEMMA OwnerStep ==
  ASSUME IInv, NEW p \in Procs, lock \in {p, Free}, TypeOK', Continue(p, pc'[p]) \/ Return(p) \/
           \A q \in Procs \ {p} : pc'[q] = pc[q],
         \A t \in Targets : Journaled(t)', AtStep(p)'
  PROVE  IInv'
<1>1. \A q \in Procs \ {p} : pc'[q] = pc[q]
  BY DEF Continue, Return, Goto, IInv, TypeOK
<1>2. \A q \in Procs \ {p} : pc[q] = "idle"
  BY ProcsAssumption DEF IInv, AtStep, Free
<1>3. \A q \in Procs \ {p} : AtStep(q)'
  BY <1>1, <1>2 DEF AtStep, Revocable
<1> QED BY <1>3 DEF IInv

\* Facts every step of p needs.
LEMMA AtWork ==
  ASSUME IInv, NEW p \in Procs, pc[p] # "idle"
  PROVE  /\ lock = p /\ tgt[p] \in Targets /\ file[tgt[p]] \in Files /\ ledger \in Ledgers
         /\ ledger.intent \in [Targets -> Phases] /\ ledger.finalized \subseteq Targets
         /\ previous[p] \in Ledgers /\ content[p] \in 0..MaxPublish
         /\ committed \in [Targets -> 0..MaxPublish]
BY DEF IInv, TypeOK, AtStep, Ledgers

\* publishAt takes the mutex and reads the ledger.
LEMMA PublishAtStep ==
  ASSUME IInv, NEW p \in Procs, NEW t \in Targets, publishAt(p, t)
  PROVE  IInv'
<1> USE DEF publishAt
<1>1. TypeOK'
  <2>1. versions + 1 \in 0..MaxPublish BY BoundsAssumption DEF IInv, TypeOK
  <2> QED BY <2>1 DEF IInv, TypeOK, Goto, Pcs, Fine
<1>2. \A u \in Targets : Journaled(u)' BY DEF IInv, Journaled, Clean
<1>3. AtStep(p)'
  BY DEF IInv, TypeOK, Journaled, AtStep, Remembers, Goto, Revocable, Pcs
<1>4. \A q \in Procs \ {p} : pc'[q] = pc[q] BY DEF IInv, TypeOK, Goto
<1> QED BY <1>1, <1>2, <1>3, <1>4, OwnerStep

\* The intent is in the ledger before any file exists.
LEMMA RecordIntentStep ==
  ASSUME IInv, NEW p \in Procs, recordIntent(p)
  PROVE  IInv'
<1> DEFINE l == withPhase(tgt[p], "prepared")
<1>0. /\ pc[p] = "intent" /\ UNCHANGED <<file, versions, committed, lost>>
      /\ \/ writeLedger(l) /\ Continue(p, "temporary")
         \/ writeLedgerFails(l) /\ Return(p)
  BY DEF recordIntent
<1>1. l \in Ledgers /\ ledger' \in {ledger, l} /\ ledger' \in Ledgers /\ faults' \in 0..MaxFaults
  BY <1>0, PhaseForms, LedgerType DEF IInv, Phases
<1>2. TypeOK'
  <2>1. LocalsOK' BY <1>0, ContinueType, ReturnType DEF IInv, Pcs
  <2> QED BY <1>0, <1>1, <2>1 DEF IInv, TypeOK, LocalsOK
<1>f. /\ l.intent[tgt[p]] = "prepared" /\ l.finalized = ledger.finalized
      /\ \A u \in Targets \ {tgt[p]} : l.intent[u] = ledger.intent[u]
  BY PhaseForms DEF IInv, Phases
<1> HIDE DEF l
<1>3. \A u \in Targets : Journaled(u)'
  BY <1>0, <1>1, <1>f, AtWork DEF IInv, Journaled, Clean
<1>4. AtStep(p)'
  <2>1. CASE Return(p) BY <2>1 DEF IInv, TypeOK, Return, Goto, AtStep, Revocable
  <2>2. CASE writeLedger(l) /\ Continue(p, "temporary")
    BY <1>0, <1>f, <2>2, AtWork DEF IInv, TypeOK, Continue, Goto, AtStep, Revocable, Remembers,
       Journaled, writeLedger
  <2> QED BY <1>0, <2>1, <2>2
<1> QED BY <1>0, <1>2, <1>3, <1>4, AtWork, OwnerStep DEF Continue, Goto, IInv, TypeOK

\* The temporary file is created.
LEMMA CreateTemporaryStep ==
  ASSUME IInv, NEW p \in Procs, createTemporary(p)
  PROVE  IInv'
<1> USE DEF createTemporary
<1>0. file' = [file EXCEPT ![tgt[p]] = [file[tgt[p]] EXCEPT !.temporary = Junk]]
      /\ [file[tgt[p]] EXCEPT !.temporary = Junk] \in Files
  BY AtWork, BoundsAssumption DEF Files, Junk, Content
<1>1. TypeOK'
  <2>1. LocalsOK' BY ContinueType DEF IInv, Pcs
  <2>2. file' \in [Targets -> Files] BY <1>0, FileType, AtWork DEF IInv
  <2> QED BY <2>1, <2>2, FaultType DEF IInv, TypeOK, LocalsOK
<1>2. \A u \in Targets : Journaled(u)'
  BY <1>0, AtWork DEF IInv, TypeOK, Journaled, Clean, AtStep
<1>3. AtStep(p)'
  BY <1>0, AtWork DEF IInv, TypeOK, AtStep, Continue, Goto, Revocable, Remembers, Files
<1> QED BY <1>1, <1>2, <1>3, AtWork, OwnerStep DEF Continue, Goto, IInv, TypeOK

\* The temporary file is written, or the write fails.
LEMMA WriteTemporaryStep ==
  ASSUME IInv, NEW p \in Procs, writeTemporary(p)
  PROVE  IInv'
<1> DEFINE f == [file[tgt[p]] EXCEPT !.temporary = content[p]]
<1>0. /\ pc[p] = "writing" /\ UNCHANGED <<ledger, versions, committed, lost>>
      /\ \/ file' = [file EXCEPT ![tgt[p]] = f] /\ Continue(p, "written") /\ Fine
         \/ Continue(p, "undo") /\ Fault /\ UNCHANGED file
  BY AtWork DEF writeTemporary
<1>1. f \in Files /\ f.temporary = content[p] /\ f.canonical = file[tgt[p]].canonical
  BY <1>0, AtWork, BoundsAssumption DEF Files, Content
<1> HIDE DEF f
<1>2. TypeOK'
  <2>1. LocalsOK' BY <1>0, ContinueType DEF IInv, Pcs
  <2>2. file' \in [Targets -> Files] BY <1>0, <1>1, FileType, AtWork DEF IInv, TypeOK
  <2> QED BY <1>0, <2>1, <2>2, FaultType DEF IInv, TypeOK, LocalsOK
<1>3. \A u \in Targets : Journaled(u)'
  BY <1>0, <1>1, AtWork DEF IInv, TypeOK, Journaled, Clean, AtStep
<1>4. AtStep(p)'
  BY <1>0, <1>1, AtWork DEF IInv, TypeOK, AtStep, Continue, Goto, Revocable, Remembers
<1> QED BY <1>0, <1>2, <1>3, <1>4, AtWork, OwnerStep DEF Continue, Goto, IInv, TypeOK

\* A later phase of the intent is recorded, or may have been.
LEMMA PhaseStep ==
  ASSUME IInv, NEW p \in Procs, NEW phase \in Phases \ {"none"}, NEW from, NEW to, NEW bad,
         <<from, to, bad>> \in {<<"written", "publishing", "undo">>,
           <<"publishing", "publish", "undo">>, <<"published", "finalize", "revert">>},
         pc[p] = from, UNCHANGED <<file, versions, committed, lost>>,
         \/ writeLedger(withPhase(tgt[p], phase)) /\ Continue(p, to)
         \/ writeLedgerFails(withPhase(tgt[p], phase)) /\ Continue(p, bad)
  PROVE  IInv'
<1> DEFINE l == withPhase(tgt[p], phase)
<1>1. l \in Ledgers /\ ledger' \in {ledger, l} /\ ledger' \in Ledgers /\ faults' \in 0..MaxFaults
  BY PhaseForms, LedgerType DEF IInv
<1>2. TypeOK'
  <2>1. LocalsOK' BY ContinueType DEF IInv, Pcs
  <2> QED BY <1>1, <2>1 DEF IInv, TypeOK, LocalsOK
<1>3. /\ l.intent[tgt[p]] # "none" /\ l.finalized = ledger.finalized
      /\ \A u \in Targets \ {tgt[p]} : l.intent[u] = ledger.intent[u]
  BY PhaseForms DEF IInv
<1> HIDE DEF l
<1>4. \A u \in Targets : Journaled(u)'
  BY <1>1, <1>3, AtWork DEF IInv, Journaled, Clean, AtStep
<1>5. AtStep(p)'
  BY <1>1, <1>3, AtWork DEF IInv, TypeOK, Continue, Goto, AtStep, Revocable, Remembers
<1> QED BY <1>2, <1>4, <1>5, AtWork, OwnerStep DEF Continue, Goto, IInv, TypeOK

\* A ReplaceFileW that fails half way leaves no canonical file.
LEMMA MovedForms ==
  ASSUME NEW f \in Files, NEW n \in Transient
  PROVE  movedAside(f, n) \in Files /\ movedAside(f, n).canonical = Absent
<1>1. f \in [Names -> Content] /\ n \in Names /\ n # "canonical" /\ "canonical" \in Names
  BY FileForms DEF Names, Transient
<1>2. Absent \in Content BY BoundsAssumption DEF Content, Absent
<1>3. movedAside(f, n) \in [Names -> Content] /\ movedAside(f, n)["canonical"] = Absent
  BY <1>1, <1>2 DEF movedAside
<1> QED BY <1>3, FileForms

\* The temporary file becomes the canonical one, which becomes the backup; a
\* failure may leave the canonical file under the backup's name.
LEMMA PublishFileStep ==
  ASSUME IInv, NEW p \in Procs, publishFile(p)
  PROVE  IInv'
<1> DEFINE f == file[tgt[p]]
           g == [f EXCEPT !.canonical = f.temporary, !.temporary = Absent, !.backup = f.canonical]
           m == movedAside(f, "backup")
<1>0. /\ pc[p] = "publish" /\ UNCHANGED <<ledger, versions, committed>>
      /\ \/ /\ file' = [file EXCEPT ![tgt[p]] = g]
            /\ hadPrevious' = [hadPrevious EXCEPT ![p] = (f.canonical # Absent)]
            /\ Goto(p, "published") /\ Fine /\ UNCHANGED <<lock, tgt, content, previous, lost>>
         \/ Continue(p, "undo") /\ Fault /\ UNCHANGED <<file, lost>>
         \/ /\ Continue(p, "undo") /\ Fault /\ file' = [file EXCEPT ![tgt[p]] = m]
            /\ lost' = lost \cup {tgt[p]}
  BY DEF publishFile
<1>1. g \in Files /\ g.canonical = f.temporary /\ g.backup = f.canonical
  <2>1. f \in Files BY <1>0, AtWork
  <2>2. Absent \in Content BY BoundsAssumption DEF Content, Absent
  <2> HIDE DEF f
  <2>3. f.temporary \in Content /\ f.canonical \in Content BY <2>1 DEF Files
  <2>4. g \in Files BY <2>1, <2>2, <2>3 DEF Files
  <2> QED BY <2>1, <2>4 DEF Files
<1>m. m \in Files /\ m.canonical = Absent
  <2>1. f \in Files BY <1>0, AtWork
  <2> QED BY <2>1, MovedForms DEF Transient
<1> HIDE DEF g, m
<1>2. TypeOK'
  <2>1. LocalsOK'
    <3>1. CASE Continue(p, "undo") BY <3>1, ContinueType DEF IInv, Pcs
    <3> QED BY <1>0, <3>1 DEF IInv, TypeOK, LocalsOK, Goto, Pcs
  <2>2. file' \in [Targets -> Files] BY <1>0, <1>1, <1>m, FileType, AtWork DEF IInv, TypeOK
  <2>3. lost' \subseteq Targets BY <1>0, AtWork DEF IInv, TypeOK
  <2> QED BY <1>0, <2>1, <2>2, <2>3, FaultType DEF IInv, TypeOK, LocalsOK
<1>3. \A u \in Targets : Journaled(u)'
  <2>1. ledger.intent[tgt[p]] # "none" BY <1>0 DEF IInv, AtStep
  <2>2. \A u \in Targets \ {tgt[p]} : file'[u] = file[u] /\ (u \in lost' <=> u \in lost)
    BY <1>0 DEF IInv, TypeOK
  <2> QED BY <1>0, <2>1, <2>2 DEF IInv, Journaled, Clean
<1>4. AtStep(p)'
  <2>1. CASE Continue(p, "undo") /\ UNCHANGED <<file, lost>>
    BY <1>0, <2>1, AtWork DEF IInv, TypeOK, AtStep, Continue, Goto, Revocable, Remembers
  <2>3. CASE Continue(p, "undo") /\ file' = [file EXCEPT ![tgt[p]] = m]
             /\ lost' = lost \cup {tgt[p]}
    <3>1. pc'[p] = "undo" /\ file'[tgt[p]] = m /\ lock' = lock /\ tgt' = tgt /\ previous' = previous
      BY <1>0, <2>3, AtWork DEF IInv, TypeOK, Continue, Goto
    <3>2. Remembers(p) /\ lock = p /\ ledger.intent[tgt[p]] # "none"
      BY <1>0 DEF IInv, AtStep, Revocable
    <3>3. Remembers(p)' BY <1>0, <3>1, <3>2 DEF Remembers
    <3> QED BY <1>0, <1>m, <2>3, <3>1, <3>2, <3>3 DEF AtStep
  <2>2. CASE Goto(p, "published") /\ file' = [file EXCEPT ![tgt[p]] = g]
             /\ hadPrevious' = [hadPrevious EXCEPT ![p] = (f.canonical # Absent)]
             /\ UNCHANGED <<lock, tgt, content, previous, lost>>
    <3>1. /\ pc'[p] = "published" /\ file'[tgt[p]] = g
          /\ hadPrevious'[p] = (f.canonical # Absent)
      BY <2>2, AtWork, <1>0 DEF IInv, TypeOK, Goto
    <3>2. /\ f.canonical = settled(tgt[p]) /\ f.temporary = content[p] /\ Remembers(p)
          /\ lock = p /\ ledger.intent[tgt[p]] # "none"
      BY <1>0 DEF IInv, AtStep, Revocable
    <3>3. Remembers(p)' BY <1>0, <2>2, <3>2 DEF Remembers
    <3> QED BY <1>0, <1>1, <2>2, <3>1, <3>2, <3>3 DEF AtStep
  <2> QED BY <1>0, <2>1, <2>2, <2>3
<1> QED BY <1>0, <1>2, <1>3, <1>4, AtWork, OwnerStep DEF Continue, Goto, IInv, TypeOK

\* The ledger finalizes the publication: from here it counts.
LEMMA FinalizeStep ==
  ASSUME IInv, NEW p \in Procs, finalize(p)
  PROVE  IInv'
<1> DEFINE l == [ledger EXCEPT !.finalized = @ \cup {tgt[p]}]
<1>0. /\ pc[p] = "finalize" /\ UNCHANGED <<file, versions>>
      /\ \/ /\ writeLedger(l) /\ Continue(p, "wipe")
            /\ committed' = [committed EXCEPT ![tgt[p]] = content[p]] /\ lost' = lost \ {tgt[p]}
         \/ writeLedgerFails(l) /\ Continue(p, "revert") /\ UNCHANGED <<committed, lost>>
  BY DEF finalize
<1>1. /\ l \in Ledgers /\ l.intent = ledger.intent
      /\ l.finalized = ledger.finalized \cup {tgt[p]}
  <2>1. ledger \in Ledgers /\ tgt[p] \in Targets BY <1>0, AtWork
  <2>2. "none" \in Phases BY DEF Phases
  <2>3. l \in Ledgers BY <2>1, <2>2, LedgerForms
  <2> QED BY <2>1, <2>3 DEF Ledgers
<1> HIDE DEF l
<1>2. ledger' \in {ledger, l} /\ ledger' \in Ledgers /\ faults' \in 0..MaxFaults
  BY <1>0, <1>1, LedgerType DEF IInv
<1>3. TypeOK'
  <2>1. LocalsOK' BY <1>0, ContinueType DEF IInv, Pcs
  <2>2. committed' \in [Targets -> 0..MaxPublish] /\ lost' \subseteq Targets
    BY <1>0, AtWork DEF IInv, TypeOK
  <2> QED BY <1>0, <1>2, <2>1, <2>2 DEF IInv, TypeOK, LocalsOK
<1>4. \A u \in Targets : Journaled(u)'
  BY <1>0, <1>1, <1>2, AtWork DEF IInv, Journaled, Clean, AtStep, writeLedger
<1>5. AtStep(p)'
  <2>1. CASE /\ Continue(p, "wipe") /\ lost' = lost \ {tgt[p]}
             /\ committed' = [committed EXCEPT ![tgt[p]] = content[p]]
    BY <1>0, <1>1, <1>2, <2>1, AtWork DEF IInv, TypeOK, Continue, Goto, AtStep, Revocable
  <2>2. CASE Continue(p, "revert") /\ UNCHANGED <<committed, lost>>
    BY <1>0, <1>1, <1>2, <2>2, AtWork DEF IInv, TypeOK, Continue, Goto, AtStep, Revocable, Remembers
  <2> QED BY <1>0, <2>1, <2>2
<1> QED BY <1>0, <1>3, <1>4, <1>5, AtWork, OwnerStep DEF Continue, Goto, IInv, TypeOK

\* The transient files are wiped, and some may remain.
LEMMA WipePathsStep ==
  ASSUME IInv, NEW p \in Procs, wipePaths(p) \/ compensateBeforePublish(p)
  PROVE  IInv'
<1>0. /\ pc[p] \in {"wipe", "undo"} /\ UNCHANGED <<ledger, versions, committed, lost>>
      /\ \/ /\ wipe(tgt[p], Transient)
            /\ Continue(p, IF pc[p] = "wipe" THEN "complete" ELSE "restoreledger")
         \/ wipeFails(tgt[p], Transient) /\ Return(p)
  BY DEF wipePaths, compensateBeforePublish
<1>1. /\ file' \in [Targets -> Files] /\ faults' \in 0..MaxFaults
      /\ \A u \in Targets \ {tgt[p]} : file'[u] = file[u]
      /\ file'[tgt[p]]["canonical"] = file[tgt[p]]["canonical"]
      /\ wipe(tgt[p], Transient) => \A n \in Transient : file'[tgt[p]][n] = Absent
  BY <1>0, AtWork, WipeEffect DEF IInv, Names, Transient
<1>2. TypeOK'
  <2>1. LocalsOK' BY <1>0, ContinueType, ReturnType DEF IInv, Pcs
  <2> QED BY <1>0, <1>1, <2>1 DEF IInv, TypeOK, LocalsOK
<1>3. ledger.intent[tgt[p]] # "none" BY <1>0 DEF IInv, AtStep
<1>4. \A u \in Targets : Journaled(u)'
  BY <1>0, <1>1, <1>3 DEF IInv, Journaled, Clean
<1>5. AtStep(p)'
  <2>1. CASE Return(p) BY <2>1 DEF IInv, TypeOK, Return, Goto, AtStep, Revocable
  <2>2. CASE wipe(tgt[p], Transient)
             /\ Continue(p, IF pc[p] = "wipe" THEN "complete" ELSE "restoreledger")
    BY <1>0, <1>1, <1>3, <2>2, AtWork
    DEF IInv, TypeOK, Continue, Goto, AtStep, Revocable, Remembers, Clean
  <2> QED BY <1>0, <2>1, <2>2
<1> QED BY <1>0, <1>2, <1>4, <1>5, AtWork, OwnerStep DEF Continue, Goto, IInv, TypeOK

\* The intent is dropped when nothing transient is left.
LEMMA CompleteStep ==
  ASSUME IInv, NEW p \in Procs, complete(p)
  PROVE  IInv'
<1> DEFINE l == [ledger EXCEPT !.intent[tgt[p]] = "none"]
<1>0. /\ pc[p] = "complete" /\ UNCHANGED <<file, versions, committed, lost>> /\ Return(p)
      /\ writeLedger(l) \/ writeLedgerFails(l)
  BY DEF complete
<1>1. /\ l \in Ledgers /\ l.finalized = ledger.finalized
      /\ \A u \in Targets \ {tgt[p]} : l.intent[u] = ledger.intent[u]
  <2>1. ledger \in Ledgers /\ tgt[p] \in Targets BY <1>0, AtWork
  <2>2. "none" \in Phases BY DEF Phases
  <2>3. l \in Ledgers BY <2>1, <2>2, LedgerForms
  <2> QED BY <2>1, <2>3 DEF Ledgers
<1> HIDE DEF l
<1>2. ledger' \in {ledger, l} /\ ledger' \in Ledgers /\ faults' \in 0..MaxFaults
  BY <1>0, <1>1, LedgerType DEF IInv
<1>3. TypeOK'
  <2>1. LocalsOK' BY <1>0, ReturnType DEF IInv
  <2> QED BY <1>0, <1>2, <2>1 DEF IInv, TypeOK, LocalsOK
<1>4. \A u \in Targets : Journaled(u)'
  BY <1>0, <1>1, <1>2, AtWork DEF IInv, Journaled, Clean, AtStep
<1>5. AtStep(p)' BY <1>0 DEF IInv, TypeOK, Return, Goto, AtStep, Revocable
<1> QED BY <1>0, <1>3, <1>4, <1>5, AtWork, OwnerStep

\* The ledger read at the beginning is put back.
LEMMA RestoreLedgerStep ==
  ASSUME IInv, NEW p \in Procs, restoreLedger(p)
  PROVE  IInv'
<1>0. /\ pc[p] = "restoreledger" /\ UNCHANGED <<file, versions, committed, lost>> /\ Return(p)
      /\ writeLedger(previous[p]) \/ writeLedgerFails(previous[p])
  BY DEF restoreLedger
<1>1. /\ ledger' \in {ledger, previous[p]} /\ ledger' \in Ledgers /\ faults' \in 0..MaxFaults
  BY <1>0, AtWork, LedgerType DEF IInv
<1>2. TypeOK'
  <2>1. LocalsOK' BY <1>0, ReturnType DEF IInv
  <2> QED BY <1>0, <1>1, <2>1 DEF IInv, TypeOK, LocalsOK
<1>3. Remembers(p) /\ Clean(tgt[p]) /\ file[tgt[p]].canonical = settled(tgt[p])
  BY <1>0 DEF IInv, AtStep, Revocable
<1>4. \A u \in Targets : Journaled(u)'
  BY <1>0, <1>1, <1>3, AtWork DEF IInv, Journaled, Clean, Remembers
<1>5. AtStep(p)' BY <1>0 DEF IInv, TypeOK, Return, Goto, AtStep, Revocable
<1> QED BY <1>0, <1>2, <1>4, <1>5, AtWork, OwnerStep

\* A process dies at any step and frees the mutex.
LEMMA DieStep ==
  ASSUME IInv, NEW p \in Procs, Die(p)
  PROVE  IInv'
<1> USE DEF Die
<1>1. lock = p BY AtWork
<1>2. Return(p) BY <1>1 DEF Return
<1>3. TypeOK'
  <2>1. LocalsOK' BY <1>2, ReturnType DEF IInv
  <2> QED BY <2>1, FaultType DEF IInv, TypeOK, LocalsOK
<1>4. \A u \in Targets : Journaled(u)' BY DEF IInv, Journaled, Clean
<1>5. AtStep(p)' BY <1>2 DEF IInv, TypeOK, Return, Goto, AtStep, Revocable
<1> QED BY <1>1, <1>2, <1>3, <1>4, <1>5, OwnerStep

\* What putting the old file back and wiping the others makes of a target's files.
LEMMA RevertForms ==
  ASSUME NEW p \in Procs, NEW f \in Files
  PROVE  /\ restored(f) \in Files /\ restored(f).canonical = f.backup
         /\ reverted(p, f) \in Files /\ \A n \in Transient : reverted(p, f)[n] = Absent
         /\ reverted(p, f).canonical = IF hadPrevious[p] THEN f.canonical ELSE Absent
<1>0. Absent \in Content BY BoundsAssumption DEF Content, Absent
<1>1. f.canonical \in Content /\ f.backup \in Content BY DEF Files
<1>2. restored(f) \in Files BY <1>0, <1>1 DEF Files, restored
<1>3. restored(f).canonical = f.backup BY DEF Files, restored
<1>4. reverted(p, f) \in Files BY <1>1, EmptyForms DEF Files, reverted
<1>5. \A n \in Transient : reverted(p, f)[n] = Absent
  BY DEF reverted, NoFile, Transient
<1>6. reverted(p, f).canonical = IF hadPrevious[p] THEN f.canonical ELSE Absent
  BY DEF reverted, NoFile
<1> QED BY <1>2, <1>3, <1>4, <1>5, <1>6

\* A published file that was not finalized is taken back.
LEMMA CompensateAfterPublishStep ==
  ASSUME IInv, NEW p \in Procs, compensateAfterPublish(p)
  PROVE  IInv'
<1> DEFINE f == file[tgt[p]]
           g == IF hadPrevious[p] THEN restored(f) ELSE f
           m == movedAside(f, "replaced")
           Put(h) == file' = [file EXCEPT ![tgt[p]] = h]
<1>0. /\ pc[p] = "revert" /\ UNCHANGED <<ledger, versions, committed, lost>>
      /\ \/ Put(reverted(p, g)) /\ Continue(p, "restoreledger") /\ Fine
         \/ \E x \in {g, f, m}, bad \in SUBSET Names :
              /\ Put([n \in Names |-> IF n \in bad THEN x[n] ELSE reverted(p, x)[n]])
              /\ Return(p) /\ Fault
  BY FileForms DEF compensateAfterPublish
<1>1. f \in Files /\ g \in Files /\ m \in Files /\ reverted(p, g) \in Files
  <2>1. f \in Files BY <1>0, AtWork
  <2>2. g \in Files BY <2>1, RevertForms
  <2>3. m \in Files BY <2>1, MovedForms DEF Transient
  <2> QED BY <2>1, <2>2, <2>3, RevertForms
<1>2. /\ reverted(p, g).canonical = settled(tgt[p])
      /\ \A n \in Transient : reverted(p, g)[n] = Absent
  <2>1. f.backup = settled(tgt[p]) /\ hadPrevious[p] = (settled(tgt[p]) # Absent)
    BY <1>0 DEF IInv, AtStep
  <2> QED BY <1>1, <2>1, RevertForms
<1>3. \E h \in Files : Put(h)
  <2>1. ASSUME NEW x \in Files, NEW bad \in SUBSET Names,
               Put([n \in Names |-> IF n \in bad THEN x[n] ELSE reverted(p, x)[n]])
        PROVE  \E h \in Files : Put(h)
    <3> DEFINE h == [n \in Names |-> IF n \in bad THEN x[n] ELSE reverted(p, x)[n]]
    <3>1. x \in [Names -> Content] /\ reverted(p, x) \in [Names -> Content]
      BY RevertForms, FileForms
    <3>2. h \in [Names -> Content] BY <3>1
    <3>3. h \in Files BY <3>2, FileForms
    <3> QED BY <2>1, <3>3
  <2>2. CASE Put(reverted(p, g)) BY <1>1, <2>2
  <2>3. CASE ~Put(reverted(p, g))
    <3> HIDE DEF g, m
    <3>1. PICK x \in {g, f, m}, bad \in SUBSET Names :
            Put([n \in Names |-> IF n \in bad THEN x[n] ELSE reverted(p, x)[n]])
      BY <1>0, <2>3
    <3>2. x \in Files BY <1>1, <3>1
    <3> QED BY <2>1, <3>1, <3>2
  <2> QED BY <2>2, <2>3
<1>4. PICK h \in Files : Put(h) BY <1>3
<1>5. TypeOK'
  <2>1. LocalsOK' BY <1>0, ContinueType, ReturnType DEF IInv, Pcs
  <2>2. file' \in [Targets -> Files] BY <1>0, <1>4, AtWork, FileType DEF IInv
  <2> QED BY <1>0, <2>1, <2>2, FaultType DEF IInv, TypeOK, LocalsOK
<1>6. \A u \in Targets : Journaled(u)'
  BY <1>0, <1>4, AtWork DEF IInv, TypeOK, Journaled, Clean, AtStep
<1>7. AtStep(p)'
  <2>1. CASE Return(p) BY <2>1 DEF IInv, TypeOK, Return, Goto, AtStep, Revocable
  <2>2. CASE Put(reverted(p, g)) /\ Continue(p, "restoreledger")
    <3>1. pc'[p] = "restoreledger" /\ lock' = p /\ tgt' = tgt /\ previous' = previous
      BY <1>0, <2>2, AtWork DEF IInv, TypeOK, Continue, Goto
    <3>2. file'[tgt[p]] = reverted(p, g) BY <1>0, <2>2, AtWork DEF IInv, TypeOK
    <3>3. Remembers(p) /\ ledger.intent[tgt[p]] # "none" BY <1>0 DEF IInv, AtStep, Revocable
    <3>4. Remembers(p)' BY <1>0, <3>1, <3>3 DEF Remembers
    <3>5. Clean(tgt[p])' BY <1>2, <3>1, <3>2 DEF Clean
    <3> HIDE DEF g
    <3> QED BY <1>0, <1>2, <3>1, <3>2, <3>3, <3>4, <3>5 DEF AtStep, Revocable
  <2> QED BY <1>0, <2>1, <2>2
<1> QED BY <1>0, <1>5, <1>6, <1>7, AtWork, OwnerStep DEF Continue, Goto, IInv, TypeOK

-----------------------------------------------------------------------------
(* Uninstalling *)

\* install-client.ps1 refuses to run for a file it cannot delete, and deletes
\* the canonical file of an open intent.  (The MSI's cleanup does not, so this
\* step is proved for the script.)
LEMMA CleanupStep ==
  ASSUME Installer = "script", IInv, cleanup
  PROVE  IInv'
<1> USE DEF cleanup
<1>1. \A t \in Targets : cleaned(t) = NoFile
  <2> SUFFICES ASSUME NEW t \in Targets PROVE cleaned(t) = NoFile OBVIOUS
  <2>1. file[t] \in [Names -> Content] BY FileForms DEF IInv, TypeOK
  <2>2. NoFile \in [Names -> Content] BY FileForms, EmptyForms
  <2>3. \A n \in Names : NoFile[n] = Absent BY DEF NoFile, Names
  <2>4. cleaned(t) = [n \in Names |->
           IF \/ n \in Transient /\ t \in Intended
              \/ n = "canonical" /\ (t \in ledger.finalized \/ t \in Intended)
           THEN Absent ELSE file[t][n]]
    BY FileForms DEF cleaned
  <2>5. \A n \in Names : cleaned(t)[n] = Absent
    BY <2>4 DEF IInv, Journaled, Clean, Intended, Names, Transient
  <2> QED BY <2>2, <2>3, <2>4, <2>5
<1>2. file' = [t \in Targets |-> NoFile] BY <1>1
<1>3. TypeOK' BY <1>2, EmptyForms, BoundsAssumption DEF IInv, TypeOK, Fine, Absent
<1>4. \A t \in Targets : Journaled(t)' BY <1>2 DEF Journaled, Clean, NoLedger, NoFile, Transient
<1>5. \A p \in Procs : AtStep(p)' BY DEF AtStep, Revocable
<1> QED BY <1>3, <1>4, <1>5 DEF IInv

-----------------------------------------------------------------------------

\* Every step keeps the invariant.
LEMMA InvStep == Installer = "script" /\ IInv /\ [Next]_vars => IInv'
<1> SUFFICES ASSUME Installer = "script", IInv, [Next]_vars PROVE IInv' OBVIOUS
<1>1. ASSUME NEW p \in Procs, step(p) PROVE IInv'
  <2>1. CASE recordIntent(p) BY <2>1, RecordIntentStep
  <2>2. CASE createTemporary(p) BY <2>2, CreateTemporaryStep
  <2>3. CASE writeTemporary(p) BY <2>3, WriteTemporaryStep
  <2>4. CASE \/ recordPhase(p, "written", "temporary-written", "publishing")
             \/ recordPhase(p, "publishing", "publishing", "publish")
             \/ recordPublished(p)
    BY <2>4, PhaseStep DEF recordPhase, recordPublished, Phases
  <2>5. CASE publishFile(p) BY <2>5, PublishFileStep
  <2>6. CASE finalize(p) BY <2>6, FinalizeStep
  <2>7. CASE wipePaths(p) \/ compensateBeforePublish(p) BY <2>7, WipePathsStep
  <2>8. CASE complete(p) BY <2>8, CompleteStep
  <2>9. CASE compensateAfterPublish(p) BY <2>9, CompensateAfterPublishStep
  <2>10. CASE restoreLedger(p) BY <2>10, RestoreLedgerStep
  <2> QED BY <1>1, <2>1, <2>2, <2>3, <2>4, <2>5, <2>6, <2>7, <2>8, <2>9, <2>10 DEF step
<1>2. CASE UNCHANGED vars
  BY <1>2 DEF vars, IInv, TypeOK, Journaled, Clean, AtStep, Remembers
<1> QED BY <1>1, <1>2, PublishAtStep, DieStep, CleanupStep DEF Next

\* What publishAt and its compensations (owner.go) know at each step holds at
\* each step, and every variable keeps its type.
THEOREM Invariant ==
  ASSUME Installer = "script"
  PROVE  Spec => []IInv
<1>1. IInv /\ [Next]_vars => IInv' BY InvStep
<1> QED BY <1>1, InitInv, PTL DEF Spec

\* "A durable ledger owns every canonical and transient pathname" (owner.go):
\* after any number of publications by any number of processes, each of which
\* may fail or die at any step, and after uninstalling with the script.
THEOREM LedgerOwns ==
  ASSUME Installer = "script"
  PROVE  Spec => []LedgerOwnsFiles
<1>1. IInv => LedgerOwnsFiles
  BY DEF IInv, Journaled, LedgerOwnsFiles, Clean, Intended
<1> QED BY <1>1, Invariant, PTL

\* "Atomically publishes" (owner.go): without an open intent the canonical file
\* is whole and of the last publication that was not taken back, or it is missing
\* because ReplaceFileW had moved it aside when it failed.
THEOREM PublishAtomic ==
  ASSUME Installer = "script"
  PROVE  Spec => []PublishIsAtomic
<1>1. IInv => PublishIsAtomic BY DEF IInv, Journaled, PublishIsAtomic
<1> QED BY <1>1, Invariant, PTL

=============================================================================
