------------------------------ MODULE LineProbe ------------------------------
(***************************************************************************)
(* internal/lineprobe: rounds of probes for the connected generation, their*)
(* aggregation into a line quality and its publication to the controller.  *)
(* The controller publishes "connected" before it calls Start and          *)
(* "restoring" before it cancels the generation's context, so Start, a     *)
(* round, Manual and the next connection overlap in every order.           *)
(***************************************************************************)
EXTENDS Integers, FiniteSets

CONSTANTS
  Targets,   \* the fixed probe targets
  Callers,   \* goroutines that call Manual
  Slots,     \* round goroutines that may exist at a time
  MaxGen     \* bound on connections

ASSUME LineProbeAssumption ==
  /\ IsFiniteSet(Targets) /\ Targets # {} /\ IsFiniteSet(Slots) /\ MaxGen \in Nat

Gens      == 1..MaxGen
Outcomes  == {"fast", "slow", "bad"}   \* below 1000 ms, above, not reachable or 5xx
Qualities == {"unknown", "good", "slow", "failed"}

VARIABLES
  state, generation, lineQuality,  \* the controller
  live,      \* generation -> is its context not cancelled?
  starting,  \* generations whose call of Start is still to come
  current,   \* the scheduler's session: its generation, or 0
  active,    \* the session's round, or NoSlot
  failures, quality,  \* the session's Aggregate
  completed, \* rounds the session aggregated, up to 3 (ghost)
  last,      \* the stored Snapshot
  round,     \* slot -> the goroutine runRound
  waiting    \* caller -> the slot whose round it waits for, or NoSlot

controller == <<state, generation, lineQuality, live>>
aggregate  == <<failures, quality, completed>>
vars == <<controller, starting, current, active, aggregate, last, round, waiting>>

NoSlot  == "none"
NoRound == [pc |-> "free", gen |-> 0, quality |-> "unknown", accepted |-> FALSE]
Rounds  == [pc : {"free", "probing", "publish", "store"}, gen : 0..MaxGen,
            quality : Qualities, accepted : BOOLEAN]
NoFailures == [t \in Targets |-> 0]

TypeOK ==
  /\ state \in {"idle", "connecting", "connected", "restoring"} /\ generation \in 0..MaxGen
  /\ lineQuality \in Qualities /\ live \in [Gens -> BOOLEAN] /\ starting \subseteq Gens
  /\ current \in 0..MaxGen /\ active \in Slots \cup {NoSlot}
  /\ failures \in [Targets -> 0..3] /\ quality \in Qualities /\ completed \in 0..3
  /\ last \in [gen : 0..MaxGen, results : BOOLEAN]
  /\ round \in [Slots -> Rounds]
  /\ waiting \in [Callers -> Slots \cup {NoSlot}]

Init ==
  /\ state = "idle" /\ generation = 0 /\ lineQuality = "unknown"
  /\ live = [g \in Gens |-> FALSE] /\ starting = {} /\ current = 0 /\ active = NoSlot
  /\ failures = NoFailures /\ quality = "unknown" /\ completed = 0
  /\ last = [gen |-> 0, results |-> FALSE]
  /\ round = [s \in Slots |-> NoRound] /\ waiting = [c \in Callers |-> NoSlot]

-----------------------------------------------------------------------------
(* The controller, as far as the scheduler sees it *)

Connect ==
  /\ state = "idle" /\ generation < MaxGen
  /\ state' = "connecting" /\ generation' = generation + 1 /\ lineQuality' = "unknown"
  /\ UNCHANGED <<live, starting, current, active, aggregate, last, round, waiting>>

\* The status is published; the call of Start follows outside the lock.
Connected ==
  /\ state = "connecting" /\ state' = "connected"
  /\ live' = [live EXCEPT ![generation] = TRUE] /\ starting' = starting \cup {generation}
  /\ UNCHANGED <<generation, lineQuality, current, active, aggregate, last, round, waiting>>

\* A Disconnect is a generation of its own.
Disconnect ==
  /\ state = "connected" /\ generation < MaxGen
  /\ state' = "restoring" /\ generation' = generation + 1 /\ lineQuality' = "unknown"
  /\ UNCHANGED <<live, starting, current, active, aggregate, last, round, waiting>>

automaticRestore ==
  /\ state = "connected" /\ state' = "restoring" /\ lineQuality' = "unknown"
  /\ UNCHANGED <<generation, live, starting, current, active, aggregate, last, round, waiting>>

\* The lifetime's context is cancelled before the restore ends.
CancelLifetime ==
  /\ state = "restoring" /\ state' = "idle" /\ live' = [g \in Gens |-> FALSE]
  /\ UNCHANGED <<generation, lineQuality, starting, current, active, aggregate, last, round,
                 waiting>>

-----------------------------------------------------------------------------
(* Scheduler *)

begun(g, s) == [round EXCEPT ![s] = [NoRound EXCEPT !.pc = "probing", !.gen = g]]

\* A session has one round; a second caller joins it.
beginLocked(g, s) ==
  \/ active # NoSlot /\ s = active /\ UNCHANGED <<round, active>>
  \/ active = NoSlot /\ round[s].pc = "free" /\ round' = begun(g, s) /\ active' = s

keepAggregate(g) == current' = g /\ completed' = 0 /\ UNCHANGED <<failures, quality>>

\* A session object of its own, with an empty Aggregate.
newSession(g) == current' = g /\ failures' = NoFailures /\ quality' = "unknown" /\ completed' = 0

\* A call that comes after its generation ended, or after a newer one's, does
\* nothing.  The session before it was cancelled with its generation.
Start(g, s) ==
  /\ g \in starting /\ starting' = starting \ {g}
  /\ IF ~live[g] \/ current >= g
     THEN UNCHANGED <<current, aggregate, last, round, active>>
     ELSE /\ newSession(g) /\ last' = [gen |-> g, results |-> FALSE]
          /\ round[s].pc = "free" /\ round' = begun(g, s) /\ active' = s
  /\ UNCHANGED <<controller, waiting>>

\* The interval timer of the session.
Interval(s) ==
  /\ current # 0 /\ live[current] /\ beginLocked(current, s)
  /\ UNCHANGED <<controller, starting, current, aggregate, last, waiting>>

\* Manual joins or begins a round.  Without a live session it returns at once.
Manual(c, s) ==
  /\ waiting[c] = NoSlot /\ current # 0 /\ live[current] /\ beginLocked(current, s)
  /\ waiting' = [waiting EXCEPT ![c] = s]
  /\ UNCHANGED <<controller, starting, current, aggregate, last>>

\* Its own context ends, or the generation's.
ManualGivesUp(c) ==
  /\ waiting[c] # NoSlot /\ waiting' = [waiting EXCEPT ![c] = NoSlot]
  /\ UNCHANGED <<controller, starting, current, active, aggregate, last, round>>

\* runRound returns: its done channel is closed.
finished(s) ==
  /\ round' = [round EXCEPT ![s] = NoRound]
  /\ waiting' = [c \in Callers |-> IF waiting[c] = s THEN NoSlot ELSE waiting[c]]

-----------------------------------------------------------------------------
(* Aggregate.Update *)

counted(f, results) ==
  [t \in Targets |-> IF results[t] # "bad" THEN 0 ELSE IF f[t] < 3 THEN f[t] + 1 ELSE 3]

\* The median of an even number of latencies is the upper one.
Update(results) ==
  LET sustained == {t \in Targets : counted(failures, results)[t] >= 3}
      answered  == {t \in Targets : results[t] # "bad"}
      fast      == {t \in Targets : results[t] = "fast"}
      half      == Cardinality(Targets) \div 2 IN
  IF Cardinality(sustained) > half THEN "failed"
  ELSE IF Cardinality(answered) <= half THEN quality
  ELSE IF Cardinality(fast) <= Cardinality(answered) \div 2 THEN "slow" ELSE "good"

aggregated(s, results) ==
  /\ failures' = counted(failures, results) /\ quality' = Update(results)
  /\ completed' = IF completed < 3 THEN completed + 1 ELSE 3
  /\ round' = [round EXCEPT ![s].pc = "publish", ![s].quality = Update(results)]
  /\ UNCHANGED waiting

\* All probes answered or the budget ended; the rest count as timed out.  The
\* round is dropped if its session is not the current live one.
roundEnds(s, results) ==
  /\ round[s].pc = "probing"
  /\ IF live[round[s].gen] /\ current = round[s].gen
     THEN aggregated(s, results)
     ELSE finished(s) /\ UNCHANGED aggregate
  /\ UNCHANGED <<controller, starting, current, active, last>>

\* UpdateLineQuality, called without the scheduler's mutex: accepted only for
\* the generation that is connected now.
publish(s) ==
  /\ round[s].pc = "publish"
  /\ LET ok == round[s].gen = generation /\ state = "connected" IN
     /\ lineQuality' = IF ok THEN round[s].quality ELSE lineQuality
     /\ round' = [round EXCEPT ![s].pc = "store", ![s].accepted = ok]
  /\ UNCHANGED <<state, generation, live, starting, current, active, aggregate, last, waiting>>

storeKeepsActive(s) ==
  /\ round[s].pc = "store" /\ finished(s)
  /\ last' = IF current = round[s].gen /\ live[current] /\ round[s].accepted
             THEN [gen |-> current, results |-> TRUE] ELSE last
  /\ UNCHANGED <<controller, starting, current, active, aggregate>>

\* The results are stored and the session may begin another round.
store(s) ==
  /\ round[s].pc = "store" /\ finished(s)
  /\ IF current = round[s].gen /\ live[current]
     THEN /\ last' = IF round[s].accepted THEN [gen |-> current, results |-> TRUE] ELSE last
          /\ active' = NoSlot
     ELSE UNCHANGED <<last, active>>
  /\ UNCHANGED <<controller, starting, current, aggregate>>

-----------------------------------------------------------------------------

roundStep(s) == (\E results \in [Targets -> Outcomes] : roundEnds(s, results)) \/ publish(s) \/ store(s)

StartStep(g) == \E s \in Slots : Start(g, s)
IntervalStep == \E s \in Slots : Interval(s)

Next ==
  \/ Connect \/ Connected \/ Disconnect \/ automaticRestore \/ CancelLifetime
  \/ \E g \in Gens : StartStep(g)
  \/ IntervalStep
  \/ \E s \in Slots : roundStep(s)
  \/ \E c \in Callers : ManualGivesUp(c) \/ \E s \in Slots : Manual(c, s)

\* Goroutines that can run do run; nobody has to connect or call Manual.
Fairness ==
  /\ \A s \in Slots : WF_vars(roundStep(s))
  /\ (\A g \in Gens : WF_vars(StartStep(g))) /\ WF_vars(IntervalStep)

Spec == Init /\ [][Next]_vars /\ Fairness

-----------------------------------------------------------------------------
(* Properties *)

\* UpdateLineQuality "cannot revive stale results": whatever round finishes
\* late and in whatever order Start is called, the controller shows a quality
\* only while connected and only from the session of this very connection, and
\* "failed" only after three of its rounds ("abnormal starts at three").
QualityIsOfThisConnection ==
  lineQuality # "unknown" =>
    /\ state = "connected" /\ current = generation
    /\ lineQuality = "failed" => completed >= 3

\* A connection that stays up is probed again and again: each round ends and
\* the next one begins.
SessionLive == current # 0 /\ live[current]
RoundsGoOn ==
  /\ (SessionLive /\ active = NoSlot) ~> ~(SessionLive /\ active = NoSlot)
  /\ (SessionLive /\ active # NoSlot) ~> ~(SessionLive /\ active # NoSlot)

=============================================================================
