--------------------------- MODULE DiagnosticGate ---------------------------
(***************************************************************************)
(* internal/diagnosticmode: the opt-in diagnostic lease.  Enable grants a  *)
(* recorder for a fixed time; a timer, any later call, or Close takes it   *)
(* back.  A timer's callback that already fired cannot be stopped: it may  *)
(* get the mutex long after a newer lease was granted.  While a lease runs *)
(* the core's output is cut into lines per stream; a line whose beginning  *)
(* was not collected must not be recorded, because redaction works on      *)
(* whole lines.  Every method holds the gate's mutex, so each is a step.   *)
(***************************************************************************)
EXTENDS Integers

CONSTANTS
  Streams,    \* NewOutputStream's writers
  Durations,  \* 15, 30 and 60 minutes, in ticks
  MaxLag,     \* a caller reads its clock up to so many ticks before the lock
  MaxTime,    \* bound on the clock
  MaxEpoch,   \* bound on granted and ended leases
  MaxDetail   \* traceevent.MaxDetailBytes

ASSUME DurationsAssumption == Durations \subseteq Nat \ {0}
ASSUME BoundsAssumption ==
  MaxLag \in Nat /\ MaxTime \in Nat /\ MaxEpoch \in Nat \ {0} /\ MaxDetail \in Nat \ {0}

Output == "output"              \* the gate's own writer, always there
Writers == Streams \cup {Output}
Newline == "newline"            \* a byte is a newline
Bytes   == {Newline, "other"}   \* or not

VARIABLES
  clock,
  recorder,  \* is there a recorder?
  deadline,
  expiry,    \* the armed timer: its epoch and when it fires; NoTimer
  fired,     \* epochs of timers whose callback waits for the mutex
  epoch,
  closed,
  stream,    \* writer -> is it in the gate's list, bytes kept, dropping bit
  line,      \* writer -> bytes of the line its process is in (ghost)
  granted,   \* a lease was granted and the gate not closed since (ghost)
  torn       \* a part of a line was recorded (ghost)

vars == <<clock, recorder, deadline, expiry, fired, epoch, closed, stream, line,
          granted, torn>>

NoTimer == [epoch |-> 0, at |-> 0]
NoStream == [open |-> FALSE, pending |-> 0, dropping |-> FALSE]
Opened   == [open |-> TRUE, pending |-> 0, dropping |-> FALSE]

TypeOK ==
  /\ clock \in 0..MaxTime /\ recorder \in BOOLEAN /\ deadline \in 0..MaxTime
  /\ expiry \in [epoch : 0..MaxEpoch, at : 0..MaxTime]
  /\ fired \subseteq 1..MaxEpoch /\ epoch \in 0..MaxEpoch /\ closed \in BOOLEAN
  /\ stream \in [Writers -> [open : BOOLEAN, pending : 0..MaxDetail, dropping : BOOLEAN]]
  /\ line \in [Writers -> 0..(MaxDetail + 1)] /\ granted \in BOOLEAN /\ torn \in BOOLEAN

Init ==
  /\ clock = 0 /\ recorder = FALSE /\ deadline = 0 /\ expiry = NoTimer /\ fired = {}
  /\ epoch = 0 /\ closed = FALSE
  /\ stream = [w \in Writers |-> IF w = Output THEN Opened ELSE NoStream]
  /\ line = [w \in Writers |-> 0] /\ granted = FALSE /\ torn = FALSE

-----------------------------------------------------------------------------
(* Ending a lease *)

forgetWithoutDropping(st) == [st EXCEPT !.pending = 0]

\* outputState.clear: what is left of a line that was begun is dropped too.
clear(st) == [st EXCEPT !.pending = 0, !.dropping = @ \/ st.pending > 0]

\* The gate's own writer and every writer in its list.
clearAll(str) == [w \in Writers |-> IF str[w].open THEN clear(str[w]) ELSE str[w]]

\* offLocked changes the epoch, so a callback that already fired finds another one.
endLease  == epoch' = epoch + 1 /\ expiry' = NoTimer /\ recorder' = FALSE
offLocked == endLease /\ stream' = clearAll(stream)

Expired(now) == recorder /\ now >= deadline

\* enabledLocked, for the callers that do nothing else to the gate: Enabled,
\* Record and Batch.
enabledLocked(now) ==
  /\ IF Expired(now) THEN offLocked ELSE UNCHANGED <<epoch, expiry, recorder, stream>>
  /\ UNCHANGED <<clock, deadline, fired, closed, line, granted, torn>>

-----------------------------------------------------------------------------
(* Enable and its timer *)

\* The callback compares with the epoch from before the increment.
grantOldEpoch(now, d, base) ==
  /\ base + 3 <= MaxEpoch /\ clock + d <= MaxTime /\ epoch' = base + 1
  /\ recorder' = TRUE /\ deadline' = now + d /\ granted' = TRUE
  /\ expiry' = [epoch |-> base, at |-> clock + d]

\* The bounds leave room for the end of this lease and for Close.
grant(now, d, base) ==
  /\ base + 3 <= MaxEpoch /\ clock + d <= MaxTime /\ epoch' = base + 1
  /\ recorder' = TRUE /\ deadline' = now + d /\ granted' = TRUE
  /\ expiry' = [epoch |-> base + 1, at |-> clock + d]

\* A lease that ran out is ended first; one that runs is extended and its timer
\* replaced.  NewRecorder may fail.  The caller read the clock before it waited
\* for the mutex.
Enable(now, d) ==
  /\ ~closed
  /\ \/ ~Expired(now) /\ grant(now, d, epoch) /\ stream' = stream
     \/ Expired(now) /\ grant(now, d, epoch + 1) /\ stream' = clearAll(stream)
     \/ Expired(now) /\ offLocked /\ UNCHANGED <<deadline, granted>>
  /\ UNCHANGED <<clock, fired, closed, line, torn>>

\* The timer fires: its callback now waits for the mutex.
Fire ==
  /\ expiry # NoTimer /\ clock >= expiry.at /\ expiry.epoch \notin fired
  /\ fired' = fired \cup {expiry.epoch}
  /\ UNCHANGED <<clock, recorder, deadline, expiry, epoch, closed, stream, line, granted, torn>>

anyEpochExpires(e) ==
  /\ e \in fired /\ fired' = fired \ {e} /\ epoch < MaxEpoch /\ offLocked
  /\ UNCHANGED <<clock, deadline, closed, line, granted, torn>>

\* The callback ends the lease it was armed for and no other.
expire(e) ==
  /\ e \in fired /\ fired' = fired \ {e}
  /\ IF epoch = e THEN offLocked ELSE UNCHANGED <<epoch, expiry, recorder, stream>>
  /\ UNCHANGED <<clock, deadline, closed, line, granted, torn>>

\* A second Close would change nothing but the epoch.
Close ==
  /\ ~closed /\ closed' = TRUE /\ granted' = FALSE /\ offLocked
  /\ UNCHANGED <<clock, deadline, fired, line, torn>>

-----------------------------------------------------------------------------
(* Core output *)

NewOutputStream(w) ==
  /\ ~stream[w].open
  /\ stream' = [stream EXCEPT ![w] = Opened]
  /\ line' = [line EXCEPT ![w] = 0]
  /\ UNCHANGED <<clock, recorder, deadline, expiry, fired, epoch, closed, granted, torn>>

CloseStream(w) ==
  /\ w # Output /\ stream[w].open
  /\ stream' = [stream EXCEPT ![w] = NoStream] /\ line' = [line EXCEPT ![w] = 0]
  /\ UNCHANGED <<clock, recorder, deadline, expiry, fired, epoch, closed, granted, torn>>

\* A byte while a lease runs.  A longer Write is its bytes in a row; longer lines
\* than MaxDetail are dropped.
collect(st, b) ==
  IF b = Newline THEN [st EXCEPT !.pending = 0, !.dropping = FALSE]
  ELSE IF st.dropping THEN st
  ELSE IF st.pending >= MaxDetail THEN [st EXCEPT !.pending = 0, !.dropping = TRUE]
  ELSE [st EXCEPT !.pending = st.pending + 1]

\* A byte without a lease: only the line boundary is remembered.
skip(st, b) == [st EXCEPT !.dropping = (b # Newline)]

\* How long the process's line is after byte b, up to MaxDetail + 1.
lineAfter(n, b) == IF b = Newline THEN 0 ELSE IF n <= MaxDetail THEN n + 1 ELSE n

\* Does byte b end a line that is recorded?
records(st, b) == b = Newline /\ ~st.dropping /\ st.pending > 0

writeLocked(w, b) ==
  /\ stream[w].open
  /\ line' = [line EXCEPT ![w] = lineAfter(line[w], b)]
  /\ \/ /\ recorder /\ ~Expired(clock)
        /\ stream' = [stream EXCEPT ![w] = collect(stream[w], b)]
        /\ torn' = (torn \/ (records(stream[w], b) /\ stream[w].pending # line[w]))
        /\ UNCHANGED <<epoch, expiry, recorder>>
     \/ /\ Expired(clock) /\ endLease
        /\ stream' = [clearAll(stream) EXCEPT ![w] = skip(clear(stream[w]), b)]
        /\ UNCHANGED torn
     \/ /\ ~recorder
        /\ stream' = [stream EXCEPT ![w] = skip(stream[w], b)]
        /\ UNCHANGED <<epoch, expiry, recorder, torn>>
  /\ UNCHANGED <<clock, deadline, fired, closed, granted>>

-----------------------------------------------------------------------------

Tick ==
  /\ clock < MaxTime /\ clock' = clock + 1
  /\ UNCHANGED <<recorder, deadline, expiry, fired, epoch, closed, stream, line, granted, torn>>

Next ==
  \/ \E lag \in 0..MaxLag, d \in Durations : lag <= clock /\ Enable(clock - lag, d)
  \/ Expired(clock) /\ enabledLocked(clock)
  \/ Fire \/ (\E e \in fired : expire(e)) \/ Close
  \/ \E w \in Writers : NewOutputStream(w) \/ CloseStream(w) \/ (\E b \in Bytes : writeLocked(w, b))
  \/ Tick

Fairness ==
  /\ WF_vars(Tick) /\ WF_vars(Fire) /\ \A e \in 1..MaxEpoch : WF_vars(expire(e))

Spec == Init /\ [][Next]_vars /\ Fairness
-----------------------------------------------------------------------------
(* Properties *)

\* No lease ends early: from a successful Enable to its deadline there is a
\* recorder, whatever older timers fired and wait for the mutex, unless the
\* gate is closed.
LeaseIsKept == granted /\ clock < deadline => recorder

\* "Retain only a line-boundary bit, never disabled output bytes": without a
\* lease no writer holds a byte of the core's output.
NoBytesWhileOff == ~recorder => \A w \in Writers : stream[w].pending = 0

\* What is recorded is a whole line from its first byte, whenever leases began
\* and ended while it was written: "credentials split across writes" cannot
\* escape redaction.
WholeLines == ~torn

\* Close is final: no Enable, callback or write brings a recorder back.
ClosedIsOff == closed => ~recorder

\* Every lease ends once nobody extends it, although nobody calls the gate
\* either: the timer armed last carries the current epoch.
LeaseEnds == recorder ~> ~recorder

=============================================================================
