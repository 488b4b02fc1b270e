--------------------------- MODULE LineProbeProofs ---------------------------
(***************************************************************************)
(* Theorems about LineProbe, for any targets, callers, round goroutines and*)
(* number of connections.                                                  *)
(*                                                                         *)
(* A quality reaches the controller through a round that was begun long    *)
(* before; the invariant says which session such a round can belong to, and*)
(* that counters of failures never run ahead of the session's rounds.      *)
(***************************************************************************)
EXTENDS LineProbe, FiniteSetTheorems, TLAPS

\* Start is called, a session exists and a round runs only for a generation
\* that the controller has reached, a round for no later one than the session.
Ordered ==
  /\ state # "idle" => generation >= 1
  /\ current <= generation
  /\ \A g \in starting : g <= generation
  /\ \A s \in Slots : round[s].pc # "free" => round[s].gen \in 1..current

\* Three failures in a row take three rounds of the session.
Counted ==
  /\ \A t \in Targets : failures[t] <= completed
  /\ quality = "failed" => completed >= 3
  /\ \A s \in Slots : round[s].pc \in {"publish", "store"} /\ round[s].gen = current
       /\ round[s].quality = "failed" => completed >= 3

IInv == TypeOK /\ Ordered /\ Counted /\ QualityIsOfThisConnection

-----------------------------------------------------------------------------

\* A scheduler without a session satisfies the invariant.
LEMMA InitInv == Init => IInv
<1> SUFFICES ASSUME Init PROVE IInv OBVIOUS
<1> USE LineProbeAssumption DEF Init
<1>1. TypeOK BY DEF TypeOK, Gens, Qualities, NoFailures, NoRound, Rounds
<1>2. Ordered BY DEF Ordered, NoRound
<1>3. Counted BY DEF Counted, NoRound, NoFailures
<1>4. QualityIsOfThisConnection BY DEF QualityIsOfThisConnection
<1> QED BY <1>1, <1>2, <1>3, <1>4 DEF IInv

\* Aggregate.Update reports "failed" only if it did so before or some target
\* failed in two rounds already.
LEMMA FailedIsSustained ==
  ASSUME TypeOK, NEW results \in [Targets -> Outcomes], Update(results) = "failed"
  PROVE  quality = "failed" \/ \E t \in Targets : failures[t] >= 2
<1> DEFINE sustained == {t \in Targets : counted(failures, results)[t] >= 3}
           half == Cardinality(Targets) \div 2
<1>1. Cardinality(sustained) > half \/ quality = "failed" BY DEF Update
<1>2. half \in Nat
  <2>1. Cardinality(Targets) \in Nat BY LineProbeAssumption, FS_CardinalityType
  <2> QED BY <2>1
<1>3. CASE Cardinality(sustained) > half
  <2>1. Cardinality(sustained) # 0
    <3>1. IsFiniteSet(sustained) BY LineProbeAssumption, FS_Subset
    <3>2. Cardinality(sustained) \in Nat BY <3>1, FS_CardinalityType
    <3> HIDE DEF sustained, half
    <3> QED BY <1>2, <1>3, <3>2
  <2>2. sustained # {} BY <2>1, FS_EmptySet
  <2>3. PICK t \in Targets : counted(failures, results)[t] >= 3 BY <2>2
  <2>4. failures[t] \in 0..3 BY DEF TypeOK
  <2>5. failures[t] >= 2 BY <2>3, <2>4 DEF counted
  <2> QED BY <2>5
<1> QED BY <1>1, <1>3

\* Aggregate.Update returns a quality.
LEMMA UpdateType ==
  ASSUME TypeOK, NEW results \in [Targets -> Outcomes]
  PROVE  Update(results) \in Qualities
BY DEF TypeOK, Update, Qualities

-----------------------------------------------------------------------------
(* Every step preserves IInv *)

\* The controller moves on: it never shows a quality it had before.
LEMMA ControllerStep ==
  ASSUME IInv, Connect \/ Connected \/ Disconnect \/ automaticRestore \/ CancelLifetime
  PROVE  IInv'
<1> USE LineProbeAssumption DEF IInv
<1>0. /\ UNCHANGED <<current, active, failures, quality, completed, last, round, waiting>>
      /\ state' \in {"idle", "connecting", "connected", "restoring"}
      /\ generation' \in {generation, generation + 1} /\ generation' \in 0..MaxGen
  BY DEF Connect, Connected, Disconnect, automaticRestore, CancelLifetime, aggregate, TypeOK
<1>1. live' \in [Gens -> BOOLEAN] /\ starting' \subseteq Gens /\ \A g \in starting' : g <= generation'
  <2>1. CASE Connected
    <3>1. state = "connecting" BY <2>1 DEF Connected
    <3>2. starting' = starting \cup {generation} /\ generation' = generation BY <2>1 DEF Connected
    <3>3. live' \in [Gens -> BOOLEAN] BY <2>1 DEF Connected, TypeOK
    <3>4. generation \in Gens BY <3>1 DEF TypeOK, Gens, Ordered
    <3> QED BY <3>2, <3>3, <3>4 DEF TypeOK, Ordered, Gens
  <2>2. CASE CancelLifetime BY <2>2 DEF CancelLifetime, TypeOK, Ordered
  <2>3. CASE Connect \/ Disconnect \/ automaticRestore
    <3>1. live' = live /\ starting' = starting BY <2>3 DEF Connect, Disconnect, automaticRestore
    <3>2. live \in [Gens -> BOOLEAN] /\ starting \subseteq Gens /\ generation \in Nat BY DEF TypeOK
    <3>3. \A g \in starting : g \in Int /\ g <= generation BY <3>2 DEF Ordered, Gens
    <3> QED BY <1>0, <3>1, <3>2, <3>3
  <2> QED BY <2>1, <2>2, <2>3
<1>2. lineQuality' = "unknown"
  BY DEF Connect, Connected, Disconnect, automaticRestore, CancelLifetime, QualityIsOfThisConnection
<1>3. TypeOK' BY <1>0, <1>1, <1>2 DEF TypeOK, Qualities
<1>4. Ordered'
  <2>1. state' # "idle" => generation' >= 1
    BY DEF Ordered, TypeOK, Connect, Connected, Disconnect, automaticRestore, CancelLifetime
  <2>2. current' <= generation' BY <1>0 DEF Ordered, TypeOK
  <2> QED BY <1>0, <1>1, <2>1, <2>2 DEF Ordered
<1>5. Counted' BY <1>0 DEF Counted
<1> QED BY <1>2, <1>3, <1>4, <1>5 DEF QualityIsOfThisConnection

\* A round of generation g begins in slot s.
LEMMA Begun ==
  ASSUME IInv, NEW g \in Gens, NEW s \in Slots, round' = begun(g, s)
  PROVE  /\ round'[s].pc = "probing" /\ round'[s].gen = g
         /\ \A r \in Slots : r # s => round'[r] = round[r]
         /\ round' \in [Slots -> Rounds]
<1> DEFINE n == [NoRound EXCEPT !.pc = "probing", !.gen = g]
<1>1. NoRound \in Rounds BY LineProbeAssumption DEF NoRound, Rounds, Qualities
<1>2. n \in Rounds /\ n.pc = "probing" /\ n.gen = g
  <2>1. g \in 0..MaxGen BY LineProbeAssumption DEF Gens
  <2> QED BY ONLY <1>1, <2>1 DEF Rounds
<1>3. round \in [Slots -> Rounds] BY DEF IInv, TypeOK
<1>4. round' = [round EXCEPT ![s] = n] BY DEF begun
<1> HIDE DEF n
<1>5. round' \in [Slots -> Rounds] /\ round'[s] = n /\ \A r \in Slots : r # s => round'[r] = round[r]
  BY <1>2, <1>3, <1>4
<1> QED BY <1>2, <1>5

\* A new session has an empty Aggregate, and no round of it exists yet.
LEMMA StartInv ==
  ASSUME IInv, NEW g \in Gens, NEW s \in Slots, Start(g, s)
  PROVE  IInv'
<1> USE LineProbeAssumption DEF IInv
<1>0. /\ g \in starting /\ starting' = starting \ {g}
      /\ UNCHANGED <<state, generation, lineQuality, live, waiting>>
  BY DEF Start, controller
<1>1. CASE UNCHANGED <<current, aggregate, last, round, active>>
  <2>1. TypeOK' BY <1>0, <1>1 DEF TypeOK, aggregate
  <2>2. Ordered' BY <1>0, <1>1 DEF Ordered
  <2>3. Counted' BY <1>1 DEF Counted, aggregate
  <2>4. QualityIsOfThisConnection' BY <1>0, <1>1 DEF QualityIsOfThisConnection, aggregate
  <2> QED BY <2>1, <2>2, <2>3, <2>4
<1>2. CASE /\ current < g /\ newSession(g) /\ last' = [gen |-> g, results |-> FALSE]
           /\ round' = begun(g, s) /\ active' = s
  <2>1. /\ round'[s].pc = "probing" /\ round'[s].gen = g
        /\ \A r \in Slots : r # s => round'[r] = round[r]
        /\ round' \in [Slots -> Rounds]
    BY <1>2, Begun
  <2>2. /\ current' = g /\ failures' = NoFailures /\ quality' = "unknown" /\ completed' = 0
    BY <1>2 DEF newSession
  <2>3. /\ g \in Int /\ generation \in Int /\ current \in Int /\ g <= generation
        /\ current \in 0..MaxGen /\ g \in 1..MaxGen
    BY <1>0 DEF TypeOK, Ordered, Gens
  <2>4. \A r \in Slots : round'[r].pc # "free" =>
          /\ round'[r].gen \in 1..g
          /\ round'[r].pc \in {"publish", "store"} => round'[r].gen # g
    <3> SUFFICES ASSUME NEW r \in Slots, round'[r].pc # "free"
                 PROVE  /\ round'[r].gen \in 1..g
                        /\ round'[r].pc \in {"publish", "store"} => round'[r].gen # g
      OBVIOUS
    <3>1. CASE r = s BY <2>1, <2>3, <3>1
    <3>2. CASE r # s
      <4>1. round[r].gen \in 1..current BY <2>1, <3>2 DEF Ordered
      <4> QED BY <1>2, <2>1, <2>3, <3>2, <4>1
    <3> QED BY <3>1, <3>2
  <2>5. TypeOK'
    <3>1. current' \in 0..MaxGen /\ last' \in [gen : 0..MaxGen, results : BOOLEAN]
      BY <1>2, <2>2, <2>3
    <3>2. failures' \in [Targets -> 0..3] /\ quality' \in Qualities /\ completed' \in 0..3
      BY <2>2 DEF NoFailures, Qualities
    <3>3. starting' \subseteq Gens /\ active' \in Slots \cup {NoSlot} BY <1>0, <1>2 DEF TypeOK
    <3> QED BY <1>0, <2>1, <3>1, <3>2, <3>3 DEF TypeOK
  <2>6. Ordered' BY <1>0, <2>2, <2>3, <2>4 DEF Ordered
  <2>7. Counted' BY <2>2, <2>4 DEF Counted, NoFailures
  <2>8. QualityIsOfThisConnection'
    <3>1. lineQuality = "unknown" BY <1>2, <2>3 DEF QualityIsOfThisConnection
    <3> QED BY <1>0, <3>1 DEF QualityIsOfThisConnection
  <2> QED BY <2>5, <2>6, <2>7, <2>8
<1>3. \/ UNCHANGED <<current, aggregate, last, round, active>>
      \/ /\ current < g /\ newSession(g) /\ last' = [gen |-> g, results |-> FALSE]
         /\ round' = begun(g, s) /\ active' = s
  <2>1. current \in Int /\ g \in Int BY DEF TypeOK, Gens
  <2>2. ~(current >= g) => current < g BY <2>1
  <2> QED BY <2>2 DEF Start
<1> QED BY <1>1, <1>2, <1>3

\* The interval timer and Manual begin a round of the session, or join its one.
LEMMA BeginInv ==
  ASSUME IInv, NEW s \in Slots, Interval(s) \/ \E c \in Callers : Manual(c, s)
  PROVE  IInv'
<1> USE LineProbeAssumption DEF IInv
<1>0. /\ UNCHANGED <<state, generation, lineQuality, live, starting, current, failures, quality,
                     completed, last>>
      /\ current # 0 /\ beginLocked(current, s)
      /\ waiting' = waiting \/ \E c \in Callers : waiting' = [waiting EXCEPT ![c] = s]
  BY DEF Interval, Manual, controller, aggregate
<1>1. waiting' \in [Callers -> Slots \cup {NoSlot}] BY <1>0 DEF TypeOK
<1>2. current \in Gens /\ current \in 1..current BY <1>0 DEF TypeOK, Gens
<1>3. /\ active' \in Slots \cup {NoSlot}
      /\ round' \in [Slots -> Rounds]
      /\ \A r \in Slots : \/ round'[r] = round[r]
                          \/ round'[r].pc = "probing" /\ round'[r].gen = current
  <2>1. CASE UNCHANGED <<round, active>> BY <2>1 DEF TypeOK
  <2>2. CASE round' = begun(current, s) /\ active' = s BY <1>2, <2>2, Begun
  <2> QED BY <1>0, <2>1, <2>2 DEF beginLocked
<1>4. TypeOK' BY <1>0, <1>1, <1>3 DEF TypeOK
<1>5. Ordered' BY <1>0, <1>2, <1>3 DEF Ordered
<1>6. Counted' BY <1>0, <1>3 DEF Counted
<1>7. QualityIsOfThisConnection' BY <1>0 DEF QualityIsOfThisConnection
<1> QED BY <1>4, <1>5, <1>6, <1>7

\* A caller of Manual that goes away changes nothing of a round.
LEMMA GiveUpInv ==
  ASSUME IInv, NEW c \in Callers, ManualGivesUp(c)
  PROVE  IInv'
<1> USE DEF IInv
<1>0. /\ UNCHANGED <<state, generation, lineQuality, live, starting, current, active, failures,
                     quality, completed, last, round>>
      /\ waiting' \in [Callers -> Slots \cup {NoSlot}]
  BY DEF ManualGivesUp, controller, aggregate, TypeOK
<1>1. TypeOK' BY <1>0 DEF TypeOK
<1>2. Ordered' /\ Counted' /\ QualityIsOfThisConnection'
  BY <1>0 DEF Ordered, Counted, QualityIsOfThisConnection
<1> QED BY <1>1, <1>2

\* A round that returns leaves nothing behind.
LEMMA Finished ==
  ASSUME IInv, NEW s \in Slots, finished(s)
  PROVE  /\ waiting' \in [Callers -> Slots \cup {NoSlot}]
         /\ round' \in [Slots -> Rounds]
         /\ \A r \in Slots : round'[r] = round[r] \/ round'[r].pc = "free"
<1> USE LineProbeAssumption
<1>1. waiting' \in [Callers -> Slots \cup {NoSlot}] BY DEF finished, IInv, TypeOK
<1>2. NoRound \in Rounds /\ NoRound.pc = "free" BY DEF NoRound, Rounds, Qualities
<1>3. round' = [round EXCEPT ![s] = NoRound] BY DEF finished
<1> QED BY <1>1, <1>2, <1>3 DEF IInv, TypeOK

\* The probes of a round return and the Aggregate counts them.
LEMMA RoundEndsInv ==
  ASSUME IInv, NEW s \in Slots, NEW results \in [Targets -> Outcomes], roundEnds(s, results)
  PROVE  IInv'
<1> USE LineProbeAssumption DEF IInv
<1>0. /\ UNCHANGED <<state, generation, lineQuality, live, starting, current, active, last>>
      /\ round[s].pc = "probing"
  BY DEF roundEnds, controller
<1>1. CASE aggregated(s, results) /\ current = round[s].gen
  <2> DEFINE q == Update(results)
  <2>1. /\ failures' = counted(failures, results) /\ quality' = q
        /\ completed' = IF completed < 3 THEN completed + 1 ELSE 3
        /\ round' = [round EXCEPT ![s].pc = "publish", ![s].quality = q]
        /\ waiting' = waiting
    BY <1>1 DEF aggregated
  <2>2. q \in Qualities BY UpdateType
  <2>3. q = "failed" => completed' >= 3
    <3> SUFFICES ASSUME q = "failed" PROVE completed' >= 3 OBVIOUS
    <3>1. quality = "failed" \/ \E t \in Targets : failures[t] >= 2 BY FailedIsSustained
    <3>2. completed \in 0..3 /\ \A t \in Targets : failures[t] \in 0..3 /\ failures[t] <= completed
      BY DEF TypeOK, Counted
    <3>3. completed >= 2 BY <3>1, <3>2 DEF Counted
    <3> QED BY <2>1, <3>2, <3>3
  <2> HIDE DEF q
  <2>4. completed \in 0..3 /\ completed' \in 0..3 /\ completed' >= completed
    BY <2>1 DEF TypeOK
  <2>5. \A t \in Targets : failures'[t] \in 0..3 /\ failures'[t] <= completed'
    <3> SUFFICES ASSUME NEW t \in Targets PROVE failures'[t] \in 0..3 /\ failures'[t] <= completed'
      OBVIOUS
    <3>1. failures[t] \in 0..3 /\ failures[t] <= completed BY DEF TypeOK, Counted
    <3>2. failures'[t] = IF results[t] # "bad" THEN 0
                         ELSE IF failures[t] < 3 THEN failures[t] + 1 ELSE 3
      BY <2>1 DEF counted
    <3> QED BY <2>1, <2>4, <3>1, <3>2
  <2>6. /\ round' \in [Slots -> Rounds]
        /\ \A r \in Slots : r # s => round'[r] = round[r]
        /\ round'[s].gen = round[s].gen /\ round'[s].quality = q
    BY <2>1, <2>2 DEF TypeOK, Rounds
  <2>7. TypeOK'
    <3>1. failures' \in [Targets -> 0..3] BY <2>1, <2>5 DEF counted
    <3> QED BY <1>0, <2>1, <2>2, <2>4, <2>6, <3>1 DEF TypeOK
  <2>8. Ordered' BY <1>0, <2>6 DEF Ordered
  <2>9. Counted' BY <1>0, <2>1, <2>3, <2>4, <2>5, <2>6 DEF Counted
  <2>10. QualityIsOfThisConnection' BY <1>0, <2>4 DEF QualityIsOfThisConnection
  <2> QED BY <2>7, <2>8, <2>9, <2>10
<1>2. CASE finished(s) /\ UNCHANGED aggregate
  <2>1. TypeOK' BY <1>0, <1>2, Finished DEF TypeOK, aggregate
  <2>2. Ordered' BY <1>0, <1>2, Finished DEF Ordered
  <2>3. Counted' BY <1>0, <1>2, Finished DEF Counted, aggregate
  <2>4. QualityIsOfThisConnection' BY <1>0, <1>2 DEF QualityIsOfThisConnection, aggregate
  <2> QED BY <2>1, <2>2, <2>3, <2>4
<1> QED BY <1>1, <1>2 DEF roundEnds

\* UpdateLineQuality accepts a quality only for the generation connected now,
\* and a round of that generation belongs to the current session.
LEMMA PublishInv ==
  ASSUME IInv, NEW s \in Slots, publish(s)
  PROVE  IInv'
<1> USE LineProbeAssumption DEF IInv
<1> DEFINE ok == round[s].gen = generation /\ state = "connected"
<1>0. /\ UNCHANGED <<state, generation, live, starting, current, active, failures, quality,
                     completed, last, waiting>>
      /\ round[s].pc = "publish"
      /\ lineQuality' = IF ok THEN round[s].quality ELSE lineQuality
      /\ round' = [round EXCEPT ![s].pc = "store", ![s].accepted = ok]
  BY DEF publish, aggregate
<1>1. ok \in BOOLEAN OBVIOUS
<1> HIDE DEF ok
<1>2. /\ round' \in [Slots -> Rounds]
      /\ \A r \in Slots : r # s => round'[r] = round[r]
      /\ round'[s].gen = round[s].gen /\ round'[s].quality = round[s].quality
  BY <1>0, <1>1 DEF TypeOK, Rounds
<1>3. TypeOK'
  <2>1. lineQuality' \in Qualities BY <1>0 DEF TypeOK, Rounds
  <2> QED BY <1>0, <1>2, <2>1 DEF TypeOK
<1>4. Ordered' BY <1>0, <1>2 DEF Ordered
<1>5. Counted' BY <1>0, <1>2 DEF Counted
<1>6. QualityIsOfThisConnection'
  <2>1. CASE ok
    <3>1. round[s].gen = generation /\ state = "connected" BY <2>1 DEF ok
    <3>2. round[s].gen \in 1..current /\ current <= generation BY <1>0 DEF Ordered
    <3>3. current = generation BY <3>1, <3>2 DEF TypeOK
    <3>4. round[s].quality = "failed" => completed >= 3 BY <1>0, <3>1, <3>3 DEF Counted
    <3> QED BY <1>0, <2>1, <3>1, <3>3, <3>4 DEF QualityIsOfThisConnection
  <2>2. CASE ~ok BY <1>0, <2>2 DEF QualityIsOfThisConnection
  <2> QED BY <2>1, <2>2
<1> QED BY <1>3, <1>4, <1>5, <1>6

\* A round stores its result in the session it belongs to, or nowhere.
LEMMA StoreInv ==
  ASSUME IInv, NEW s \in Slots, store(s)
  PROVE  IInv'
<1> USE DEF IInv
<1>0. /\ UNCHANGED <<state, generation, lineQuality, live, starting, current, failures, quality,
                     completed>>
      /\ finished(s) /\ active' \in {active, NoSlot}
      /\ last' \in {last, [gen |-> current, results |-> TRUE]}
  BY DEF store, controller, aggregate
<1>1. last' \in [gen : 0..MaxGen, results : BOOLEAN]
  <2>1. last \in [gen : 0..MaxGen, results : BOOLEAN] /\ current \in 0..MaxGen BY DEF TypeOK
  <2>2. [gen |-> current, results |-> TRUE] \in [gen : 0..MaxGen, results : BOOLEAN] BY <2>1
  <2> QED BY ONLY <1>0, <2>1, <2>2
<1>2. TypeOK' BY <1>0, <1>1, Finished DEF TypeOK
<1>3. Ordered' BY <1>0, Finished DEF Ordered
<1>4. Counted' BY <1>0, Finished DEF Counted
<1>5. QualityIsOfThisConnection' BY <1>0 DEF QualityIsOfThisConnection
<1> QED BY <1>2, <1>3, <1>4, <1>5

\* Every step keeps the invariant.
LEMMA StepInv == IInv /\ [Next]_vars => IInv'
<1> SUFFICES ASSUME IInv, [Next]_vars PROVE IInv' OBVIOUS
<1>1. CASE UNCHANGED vars
  <2>1. UNCHANGED <<state, generation, lineQuality, live, starting, current, active, failures,
                    quality, completed, last, round, waiting>>
    BY <1>1 DEF vars, controller, aggregate
  <2>2. TypeOK' BY <2>1 DEF IInv, TypeOK
  <2>3. Ordered' /\ Counted' /\ QualityIsOfThisConnection'
    BY <2>1 DEF IInv, Ordered, Counted, QualityIsOfThisConnection
  <2> QED BY <2>2, <2>3 DEF IInv
<1>2. CASE \E g \in Gens : StartStep(g) BY <1>2, StartInv DEF StartStep
<1>3. CASE IntervalStep \/ \E c \in Callers : \E s \in Slots : Manual(c, s)
  BY <1>3, BeginInv DEF IntervalStep
<1>4. CASE \E s \in Slots : roundStep(s)
  BY <1>4, RoundEndsInv, PublishInv, StoreInv DEF roundStep
<1>5. CASE \E c \in Callers : ManualGivesUp(c) BY <1>5, GiveUpInv
<1> QED BY <1>1, <1>2, <1>3, <1>4, <1>5, ControllerStep DEF Next

-----------------------------------------------------------------------------
(* The theorems *)

\* A quality the controller shows is of the connection it shows it for, and
\* "failed" rests on three rounds of that connection, in whatever order Start,
\* a late round's UpdateLineQuality and the next connection come.
THEOREM QualityIsCurrent == Spec => []QualityIsOfThisConnection
<1>1. IInv => QualityIsOfThisConnection BY DEF IInv
<1> QED BY <1>1, InitInv, StepInv, PTL DEF Spec

=============================================================================
