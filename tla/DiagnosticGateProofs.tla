------------------------ MODULE DiagnosticGateProofs ------------------------
(***************************************************************************)
(* Proofs about DiagnosticGate for every set of streams, every duration    *)
(* and every bound.  The state falls in two halves that are proved apart:  *)
(* the lease with its timers, and the framing of the core's output.        *)
(***************************************************************************)
EXTENDS DiagnosticGate, TraceRecorder, SequenceTheorems, WellFoundedInduction, TLAPS

TypeLease ==
  /\ clock \in 0..MaxTime /\ recorder \in BOOLEAN /\ deadline \in 0..MaxTime
  /\ expiry \in [epoch : 0..MaxEpoch, at : 0..MaxTime]
  /\ fired \subseteq 1..MaxEpoch /\ epoch \in 0..MaxEpoch /\ closed \in BOOLEAN
  /\ granted \in BOOLEAN

TypeFraming ==
  /\ stream \in [Writers -> [open : BOOLEAN, pending : 0..MaxDetail, dropping : BOOLEAN]]
  /\ line \in [Writers -> 0..(MaxDetail + 1)] /\ torn \in BOOLEAN

\* The epoch never runs into its bound: each lease and Close have room to end.
Room ==
  /\ ~closed => epoch + 1 <= MaxEpoch
  /\ recorder => epoch + 1 <= MaxEpoch
  /\ recorder /\ ~closed => epoch + 2 <= MaxEpoch

\* A timer with the current epoch belongs to the running lease and does not
\* fire before its deadline; older callbacks carry older epochs.
Timers ==
  /\ \A e \in fired : e <= epoch
  /\ epoch \in fired => recorder /\ clock >= deadline
  /\ expiry # NoTimer => expiry.epoch = epoch /\ epoch >= 1 /\ recorder /\ expiry.at >= deadline

LeaseInv == TypeLease /\ Room /\ Timers /\ LeaseIsKept /\ ClosedIsOff

\* A writer that is not dropping holds exactly the line its process is in.
Framing ==
  \A w \in Writers :
    /\ stream[w].dropping \/ stream[w].pending = line[w]
    /\ ~stream[w].open => stream[w].pending = 0

FramingInv == TypeFraming /\ Framing /\ NoBytesWhileOff /\ WholeLines

-----------------------------------------------------------------------------

\* What a lease step can be, seen from the variables of the lease: nothing, a
\* grant, an end, a firing or a tick.
LEMMA LeaseInitially == Init => LeaseInv
<1>. SUFFICES ASSUME Init PROVE LeaseInv
  OBVIOUS
<1>1. NoTimer \in [epoch : 0..MaxEpoch, at : 0..MaxTime]
  BY BoundsAssumption DEF NoTimer
<1>2. TypeLease
  <2>1. 0 \in 0..MaxTime /\ 0 \in 0..MaxEpoch
    BY BoundsAssumption
  <2>2. recorder \in BOOLEAN /\ closed \in BOOLEAN /\ granted \in BOOLEAN
    BY DEF Init
  <2>3. clock \in 0..MaxTime /\ deadline \in 0..MaxTime /\ epoch \in 0..MaxEpoch
        /\ fired \subseteq 1..MaxEpoch /\ expiry \in [epoch : 0..MaxEpoch, at : 0..MaxTime]
    BY <1>1, <2>1 DEF Init
  <2>. QED  BY <2>2, <2>3 DEF TypeLease
<1>3. Room
  BY BoundsAssumption DEF Init, Room
<1>4. Timers /\ LeaseIsKept /\ ClosedIsOff
  BY DEF Init, Timers, LeaseIsKept, ClosedIsOff
<1>. QED  BY <1>2, <1>3, <1>4 DEF LeaseInv

\* Ending a lease that runs, or that may be closed, keeps the invariant.
LEMMA OffKeepsLease ==
  ASSUME LeaseInv, endLease, fired' \subseteq fired, clock' = clock, deadline' = deadline,
         \/ closed' = closed /\ granted' = granted /\ recorder /\ clock >= deadline
         \/ ~closed /\ closed' = TRUE /\ granted' = FALSE
  PROVE  LeaseInv'
<1>1. epoch \in Int /\ MaxEpoch \in Int /\ epoch + 1 <= MaxEpoch /\ epoch' = epoch + 1
  BY BoundsAssumption DEF LeaseInv, TypeLease, Room, endLease
<1>2. TypeLease'
  <2>1. NoTimer \in [epoch : 0..MaxEpoch, at : 0..MaxTime]
    BY BoundsAssumption DEF NoTimer
  <2>2. closed' \in BOOLEAN /\ granted' \in BOOLEAN
    BY DEF LeaseInv, TypeLease
  <2>3. epoch' \in 0..MaxEpoch
    BY <1>1, BoundsAssumption DEF LeaseInv, TypeLease
  <2>. QED  BY <2>1, <2>2, <2>3 DEF LeaseInv, TypeLease, endLease
<1>3. Room'
  BY <1>1, BoundsAssumption DEF LeaseInv, TypeLease, Room, endLease
<1>4. Timers'
  BY <1>1, BoundsAssumption DEF LeaseInv, TypeLease, Timers, endLease
<1>5. LeaseIsKept'
  BY DEF LeaseInv, TypeLease, LeaseIsKept
<1>6. ClosedIsOff'
  BY DEF ClosedIsOff, endLease
<1>. QED  BY <1>2, <1>3, <1>4, <1>5, <1>6 DEF LeaseInv

\* A grant arms a timer of the new epoch that fires no earlier than the deadline.
LEMMA GrantKeepsLease ==
  ASSUME NEW now \in 0..MaxTime, NEW d \in Durations, NEW base \in Int,
         LeaseInv, ~closed, base >= epoch, now <= clock, grant(now, d, base),
         UNCHANGED <<clock, fired, closed>>
  PROVE  LeaseInv'
<1>1. /\ epoch \in Int /\ MaxEpoch \in Int /\ MaxTime \in Int /\ clock \in Int /\ now \in Int
      /\ d \in Int /\ d >= 1 /\ 0 <= epoch /\ 0 <= clock /\ 0 <= now
      /\ base + 3 <= MaxEpoch /\ clock + d <= MaxTime /\ epoch' = base + 1
  BY BoundsAssumption, DurationsAssumption DEF LeaseInv, TypeLease, grant
<1>2. /\ recorder' = TRUE /\ deadline' = now + d /\ granted' = TRUE /\ clock' = clock
      /\ fired' = fired /\ closed' = closed /\ expiry' = [epoch |-> base + 1, at |-> clock + d]
  BY DEF grant
<1>3. TypeLease'
  BY <1>1, <1>2 DEF LeaseInv, TypeLease
<1>4. Room'
  BY <1>1, <1>2 DEF Room
<1>5. \A e \in fired : e \in Int /\ e <= epoch
  BY <1>1 DEF LeaseInv, TypeLease, Timers
<1>6. Timers'
  BY <1>1, <1>2, <1>5 DEF Timers
<1>7. LeaseIsKept' /\ ClosedIsOff'
  BY <1>2 DEF LeaseIsKept, ClosedIsOff
<1>. QED  BY <1>3, <1>4, <1>6, <1>7 DEF LeaseInv

\* Every step keeps the invariant of the lease.
LEMMA LeaseStep == LeaseInv /\ [Next]_vars => LeaseInv'
<1>. SUFFICES ASSUME LeaseInv, [Next]_vars PROVE LeaseInv'
  OBVIOUS
<1>0. ASSUME UNCHANGED <<clock, recorder, deadline, expiry, fired, epoch, closed, granted>>
      PROVE  LeaseInv'
  BY <1>0 DEF LeaseInv, TypeLease, Room, Timers, LeaseIsKept, ClosedIsOff
<1>1. ASSUME NEW lag \in 0..MaxLag, NEW d \in Durations, lag <= clock, Enable(clock - lag, d)
      PROVE  LeaseInv'
  <2>1. clock - lag \in 0..MaxTime /\ clock - lag <= clock /\ epoch \in Int /\ clock \in Int
    BY <1>1, BoundsAssumption DEF LeaseInv, TypeLease
  <2>2. ~closed /\ UNCHANGED <<clock, fired, closed>>
    BY <1>1 DEF Enable
  <2>3. CASE grant(clock - lag, d, epoch)
    <3>1. epoch >= epoch
      BY <2>1
    <3>. QED  BY <2>1, <2>2, <2>3, <3>1, GrantKeepsLease
  <2>4. CASE grant(clock - lag, d, epoch + 1)
    <3>1. epoch + 1 \in Int /\ epoch + 1 >= epoch
      BY <2>1
    <3>. QED  BY <2>1, <2>2, <2>4, <3>1, GrantKeepsLease
  <2>5. CASE Expired(clock - lag) /\ offLocked /\ UNCHANGED <<deadline, granted>>
    <3>1. recorder /\ clock >= deadline
      BY <2>1, <2>5, BoundsAssumption DEF Expired, LeaseInv, TypeLease
    <3>. QED  BY <2>2, <2>5, <3>1, OffKeepsLease DEF offLocked
  <2>. QED  BY <1>1, <2>3, <2>4, <2>5 DEF Enable
<1>2. CASE Expired(clock) /\ enabledLocked(clock)
  BY <1>2, OffKeepsLease DEF enabledLocked, offLocked, Expired
<1>3. CASE Fire
  <2>1. fired' = fired \cup {epoch} /\ epoch \in 1..MaxEpoch /\ recorder /\ clock >= deadline
    BY <1>3 DEF Fire, LeaseInv, TypeLease, Timers
  <2>2. UNCHANGED <<clock, recorder, deadline, expiry, epoch, closed, granted>>
    BY <1>3 DEF Fire
  <2>3. TypeLease'
    BY <2>1, <2>2 DEF LeaseInv, TypeLease
  <2>4. Timers'
    BY <2>1, <2>2 DEF LeaseInv, TypeLease, Timers
  <2>. QED  BY <2>2, <2>3, <2>4 DEF LeaseInv, Room, LeaseIsKept, ClosedIsOff
<1>4. ASSUME NEW e \in fired, expire(e) PROVE LeaseInv'
  <2>1. CASE epoch = e
    <3>1. recorder /\ clock >= deadline
      BY <2>1 DEF LeaseInv, Timers
    <3>. QED  BY <1>4, <2>1, <3>1, OffKeepsLease DEF expire, offLocked
  <2>2. CASE epoch # e
    <3>1. fired' \subseteq fired /\ UNCHANGED <<clock, recorder, deadline, expiry, epoch, closed, granted>>
      BY <1>4, <2>2 DEF expire
    <3>. QED  BY <3>1 DEF LeaseInv, TypeLease, Room, Timers, LeaseIsKept, ClosedIsOff
  <2>. QED  BY <2>1, <2>2
<1>5. CASE Close
  BY <1>5, OffKeepsLease DEF Close, offLocked
<1>6. ASSUME NEW w \in Writers, NEW b \in Bytes, writeLocked(w, b) PROVE LeaseInv'
  <2>1. CASE Expired(clock) /\ endLease
    BY <1>6, <2>1, OffKeepsLease DEF writeLocked, Expired
  <2>2. CASE UNCHANGED <<epoch, expiry, recorder>>
    BY <1>0, <1>6, <2>2 DEF writeLocked
  <2>. QED  BY <1>6, <2>1, <2>2 DEF writeLocked
<1>7. ASSUME NEW w \in Writers, NewOutputStream(w) \/ CloseStream(w) PROVE LeaseInv'
  BY <1>0, <1>7 DEF NewOutputStream, CloseStream
<1>8. CASE Tick
  <2>1. clock' = clock + 1 /\ clock \in Int /\ deadline \in Int /\ clock' \in 0..MaxTime
    BY <1>8, BoundsAssumption DEF Tick, LeaseInv, TypeLease
  <2>2. UNCHANGED <<recorder, deadline, expiry, fired, epoch, closed, granted>>
    BY <1>8 DEF Tick
  <2>3. Timers' /\ LeaseIsKept'
    BY <2>1, <2>2 DEF LeaseInv, Timers, LeaseIsKept
  <2>. QED  BY <2>1, <2>2, <2>3 DEF LeaseInv, TypeLease, Room, ClosedIsOff
<1>9. CASE UNCHANGED vars
  BY <1>0, <1>9 DEF vars
<1>. QED  BY <1>1, <1>2, <1>3, <1>4, <1>5, <1>6, <1>7, <1>8, <1>9 DEF Next

-----------------------------------------------------------------------------

\* No stream has held a byte in a new gate.
LEMMA FramingInitially == Init => FramingInv
<1>. SUFFICES ASSUME Init PROVE FramingInv
  OBVIOUS
<1>1. Opened \in [open : BOOLEAN, pending : 0..MaxDetail, dropping : BOOLEAN]
      /\ NoStream \in [open : BOOLEAN, pending : 0..MaxDetail, dropping : BOOLEAN]
      /\ Opened.pending = 0 /\ NoStream.pending = 0 /\ 0 \in 0..(MaxDetail + 1)
  BY BoundsAssumption DEF Opened, NoStream
<1>2. /\ stream = [w \in Writers |-> IF w = Output THEN Opened ELSE NoStream]
      /\ line = [w \in Writers |-> 0] /\ torn = FALSE
  BY DEF Init
<1>. QED  BY <1>1, <1>2 DEF FramingInv, TypeFraming, Framing, NoBytesWhileOff, WholeLines

\* What a cleared stream is.
LEMMA ClearFields ==
  ASSUME NEW st \in [open : BOOLEAN, pending : 0..MaxDetail, dropping : BOOLEAN]
  PROVE  /\ clear(st) \in [open : BOOLEAN, pending : 0..MaxDetail, dropping : BOOLEAN]
         /\ clear(st).open = st.open /\ clear(st).pending = 0
         /\ clear(st).dropping <=> st.dropping \/ st.pending > 0
<1>. DEFINE begun == st.pending > 0
<1>1. clear(st) = [st EXCEPT !.pending = 0, !.dropping = @ \/ begun]
  BY DEF clear
<1>2. 0 \in 0..MaxDetail /\ begun \in BOOLEAN
  BY BoundsAssumption
<1>. HIDE DEF begun
<1>3. /\ clear(st) \in [open : BOOLEAN, pending : 0..MaxDetail, dropping : BOOLEAN]
      /\ clear(st).open = st.open /\ clear(st).pending = 0
      /\ clear(st).dropping <=> st.dropping \/ begun
  BY <1>1, <1>2
<1>. QED  BY <1>3 DEF begun

\* After clear nothing is held, and a line that was begun is dropped.
LEMMA ClearedFraming ==
  ASSUME FramingInv, NEW w \in Writers
  PROVE  /\ clearAll(stream)[w] \in [open : BOOLEAN, pending : 0..MaxDetail, dropping : BOOLEAN]
         /\ clearAll(stream)[w].pending = 0
         /\ clearAll(stream)[w].dropping \/ line[w] = 0
<1>1. stream[w] \in [open : BOOLEAN, pending : 0..MaxDetail, dropping : BOOLEAN]
  BY DEF FramingInv, TypeFraming
<1>2. /\ clear(stream[w]) \in [open : BOOLEAN, pending : 0..MaxDetail, dropping : BOOLEAN]
      /\ clear(stream[w]).pending = 0
      /\ clear(stream[w]).dropping <=> stream[w].dropping \/ stream[w].pending > 0
  BY <1>1, ClearFields
<1>3. clearAll(stream)[w] = IF stream[w].open THEN clear(stream[w]) ELSE stream[w]
  BY DEF clearAll
<1>4. stream[w].dropping \/ stream[w].pending = line[w]
  BY DEF FramingInv, Framing
<1>5. ~stream[w].open => stream[w].pending = 0
  BY DEF FramingInv, Framing
<1>6. stream[w].pending \in Int /\ 0 <= stream[w].pending /\ MaxDetail \in Int /\ 0 <= MaxDetail
  BY <1>1, BoundsAssumption
<1>7. CASE stream[w].open
  BY <1>1, <1>2, <1>3, <1>4, <1>6, <1>7
<1>8. CASE ~stream[w].open
  BY <1>1, <1>3, <1>4, <1>5, <1>8
<1>. QED  BY <1>7, <1>8

\* Ending a lease drops what the streams hold, at any point of a line.
LEMMA OffKeepsFraming ==
  ASSUME FramingInv, stream' = clearAll(stream), UNCHANGED <<line, torn>>
  PROVE  FramingInv'
<1>1. DOMAIN clearAll(stream) = Writers /\ clearAll(stream) = [w \in Writers |-> clearAll(stream)[w]]
  BY DEF clearAll
<1>2. TypeFraming'
  BY <1>1, ClearedFraming DEF FramingInv, TypeFraming
<1>3. Framing' /\ NoBytesWhileOff' /\ WholeLines'
  BY ClearedFraming DEF FramingInv, Framing, NoBytesWhileOff, WholeLines
<1>. QED  BY <1>2, <1>3 DEF FramingInv

\* Replacing one writer's state by one that is framed keeps the invariant.
LEMMA OneWriterKeepsFraming ==
  ASSUME NEW w \in Writers, NEW old, NEW st, NEW n \in 0..(MaxDetail + 1),
         old \in [Writers -> [open : BOOLEAN, pending : 0..MaxDetail, dropping : BOOLEAN]],
         st \in [open : BOOLEAN, pending : 0..MaxDetail, dropping : BOOLEAN],
         line \in [Writers -> 0..(MaxDetail + 1)],
         \A x \in Writers : /\ old[x].dropping \/ old[x].pending = line[x]
                            /\ ~old[x].open => old[x].pending = 0
                            /\ ~recorder' => old[x].pending = 0,
         st.dropping \/ st.pending = n, ~st.open => st.pending = 0, ~recorder' => st.pending = 0,
         stream' = [old EXCEPT ![w] = st], line' = [line EXCEPT ![w] = n], torn' = FALSE
  PROVE  FramingInv'
<1>1. TypeFraming' /\ WholeLines'
  BY DEF TypeFraming, WholeLines
<1>2. \A x \in Writers : /\ stream'[x] = IF x = w THEN st ELSE old[x]
                         /\ line'[x] = IF x = w THEN n ELSE line[x]
  OBVIOUS
<1>3. Framing' /\ NoBytesWhileOff'
  BY <1>2 DEF Framing, NoBytesWhileOff
<1>. QED  BY <1>1, <1>3 DEF FramingInv

\* Every step keeps the invariant of the streams.
LEMMA FramingStep == FramingInv /\ [Next]_vars => FramingInv'
<1>. SUFFICES ASSUME FramingInv, [Next]_vars PROVE FramingInv'
  OBVIOUS
<1>. DEFINE St == [open : BOOLEAN, pending : 0..MaxDetail, dropping : BOOLEAN]
<1>a. /\ stream \in [Writers -> St] /\ line \in [Writers -> 0..(MaxDetail + 1)] /\ torn = FALSE
      /\ MaxDetail \in Int /\ MaxDetail >= 1
      /\ \A x \in Writers : /\ stream[x].dropping \/ stream[x].pending = line[x]
                            /\ ~stream[x].open => stream[x].pending = 0
                            /\ ~recorder => stream[x].pending = 0
  BY BoundsAssumption DEF FramingInv, TypeFraming, Framing, NoBytesWhileOff, WholeLines
<1>0. ASSUME UNCHANGED <<stream, line, torn>>, recorder => recorder' PROVE FramingInv'
  BY <1>0 DEF FramingInv, TypeFraming, Framing, NoBytesWhileOff, WholeLines
<1>1. ASSUME NEW lag \in 0..MaxLag, NEW d \in Durations, Enable(clock - lag, d) PROVE FramingInv'
  <2>1. UNCHANGED <<line, torn>>
    BY <1>1 DEF Enable
  <2>2. CASE stream' = clearAll(stream)
    BY <2>1, <2>2, OffKeepsFraming
  <2>3. CASE stream' = stream /\ recorder' = TRUE
    BY <1>0, <2>1, <2>3
  <2>. QED  BY <1>1, <2>2, <2>3 DEF Enable, grant, offLocked
<1>2. CASE Expired(clock) /\ enabledLocked(clock)
  BY <1>2, OffKeepsFraming DEF enabledLocked, offLocked
<1>3. CASE Fire
  BY <1>0, <1>3 DEF Fire
<1>4. ASSUME NEW e \in fired, expire(e) PROVE FramingInv'
  BY <1>0, <1>4, OffKeepsFraming DEF expire, offLocked
<1>5. CASE Close
  BY <1>5, OffKeepsFraming DEF Close, offLocked
<1>6. ASSUME NEW w \in Writers, NEW b \in Bytes, writeLocked(w, b) PROVE FramingInv'
  <2>. DEFINE st == stream[w]  n == lineAfter(line[w], b)
  <2>1. st \in St /\ line[w] \in 0..(MaxDetail + 1) /\ st.open /\ line' = [line EXCEPT ![w] = n]
    BY <1>6, <1>a DEF writeLocked
  <2>2. n \in 0..(MaxDetail + 1) /\ (b = Newline => n = 0)
        /\ (b # Newline /\ line[w] <= MaxDetail => n = line[w] + 1)
    BY <2>1, <1>a DEF lineAfter
  <2>3. CASE recorder /\ stream' = [stream EXCEPT ![w] = collect(st, b)] /\ UNCHANGED recorder
             /\ torn' = (torn \/ (records(st, b) /\ st.pending # line[w]))
    <3>1. torn' = FALSE
      BY <1>a, <2>3 DEF records
    <3>2. collect(st, b) \in St /\ (collect(st, b).dropping \/ collect(st, b).pending = n)
          /\ collect(st, b).open
      <4>1. st.pending \in 0..MaxDetail /\ (st.dropping \/ st.pending = line[w])
        BY <1>a, <2>1
      <4>2. CASE b = Newline
        <5>1. collect(st, b) = [st EXCEPT !.pending = 0, !.dropping = FALSE]
          BY <4>2 DEF collect
        <5>2. 0 \in 0..MaxDetail
          BY <1>a
        <5>. QED  BY <4>2, <5>1, <5>2, <2>1, <2>2
      <4>3. CASE b # Newline /\ st.dropping
        BY <4>3, <2>1 DEF collect
      <4>4. CASE b # Newline /\ ~st.dropping /\ st.pending >= MaxDetail
        <5>1. collect(st, b) = [st EXCEPT !.pending = 0, !.dropping = TRUE]
          BY <4>4 DEF collect
        <5>2. 0 \in 0..MaxDetail
          BY <1>a
        <5>. QED  BY <5>1, <5>2, <2>1
      <4>5. CASE b # Newline /\ ~st.dropping /\ ~(st.pending >= MaxDetail)
        BY <4>1, <4>5, <2>1, <2>2, <1>a DEF collect
      <4>. QED  BY <4>2, <4>3, <4>4, <4>5
    <3>. QED  BY <1>a, <2>1, <2>2, <2>3, <3>1, <3>2, OneWriterKeepsFraming
  <2>4. CASE Expired(clock) /\ endLease /\ UNCHANGED torn
             /\ stream' = [clearAll(stream) EXCEPT ![w] = skip(clear(st), b)]
    <3>. DEFINE old == clearAll(stream)
    <3>1. old \in [Writers -> St]
      BY ClearedFraming DEF clearAll
    <3>2. \A x \in Writers : old[x].pending = 0 /\ (old[x].dropping \/ line[x] = 0)
      BY ClearedFraming
    <3>3. clear(st) \in St /\ clear(st).open /\ clear(st).pending = 0
      BY <2>1, ClearFields
    <3>4. /\ skip(clear(st), b) \in St /\ skip(clear(st), b).open
          /\ skip(clear(st), b).pending = 0 /\ (b # Newline => skip(clear(st), b).dropping)
      BY <3>3 DEF skip
    <3>5. skip(clear(st), b).dropping \/ skip(clear(st), b).pending = n
      BY <2>2, <3>4
    <3>6. recorder' = FALSE /\ torn' = FALSE
      BY <1>a, <2>4 DEF endLease
    <3>7. \A x \in Writers : /\ old[x].dropping \/ old[x].pending = line[x]
                             /\ ~old[x].open => old[x].pending = 0
                             /\ ~recorder' => old[x].pending = 0
      BY <3>2
    <3>8. stream' = [old EXCEPT ![w] = skip(clear(st), b)]
      BY <2>4
    <3>. HIDE DEF old, st
    <3>. QED  BY <1>a, <2>1, <2>2, <3>1, <3>4, <3>5, <3>6, <3>7, <3>8, OneWriterKeepsFraming
  <2>5. CASE ~recorder /\ stream' = [stream EXCEPT ![w] = skip(st, b)] /\ UNCHANGED <<recorder, torn>>
    <3>1. skip(st, b) \in St /\ skip(st, b).open /\ skip(st, b).pending = st.pending /\ st.pending = 0
          /\ (b # Newline => skip(st, b).dropping)
      BY <1>a, <2>1, <2>5 DEF skip
    <3>2. skip(st, b).dropping \/ skip(st, b).pending = n
      BY <2>2, <3>1
    <3>. QED  BY <1>a, <2>1, <2>2, <2>5, <3>1, <3>2, OneWriterKeepsFraming
  <2>. QED  BY <1>6, <2>3, <2>4, <2>5 DEF writeLocked
<1>7. ASSUME NEW w \in Writers, NewOutputStream(w) \/ CloseStream(w) PROVE FramingInv'
  <2>1. \E st \in St : st.pending = 0 /\ stream' = [stream EXCEPT ![w] = st]
    <3>1. Opened \in St /\ NoStream \in St /\ Opened.pending = 0 /\ NoStream.pending = 0
      BY <1>a DEF Opened, NoStream
    <3>. QED  BY <1>7, <3>1 DEF NewOutputStream, CloseStream
  <2>2. line' = [line EXCEPT ![w] = 0] /\ UNCHANGED <<recorder, torn>> /\ 0 \in 0..(MaxDetail + 1)
    BY <1>7, <1>a DEF NewOutputStream, CloseStream
  <2>. QED  BY <1>a, <2>1, <2>2, OneWriterKeepsFraming
<1>8. CASE Tick
  BY <1>0, <1>8 DEF Tick
<1>9. CASE UNCHANGED vars
  BY <1>0, <1>9 DEF vars
<1>. QED  BY <1>1, <1>2, <1>3, <1>4, <1>5, <1>6, <1>7, <1>8, <1>9 DEF Next

-----------------------------------------------------------------------------

\* Every variable stays in its range; in particular the epoch bound never keeps
\* a lease from ending.
THEOREM TypeCorrect == Spec => []TypeOK
<1>1. LeaseInv /\ FramingInv => TypeOK
  BY DEF LeaseInv, TypeLease, FramingInv, TypeFraming, TypeOK
<1>. QED  BY <1>1, LeaseInitially, LeaseStep, FramingInitially, FramingStep, PTL DEF Spec

\* No callback of an older timer, and nothing else but Close, ends a lease
\* before its deadline, for any durations and any delay of callers.
THEOREM LeaseKept == Spec => []LeaseIsKept
<1>1. LeaseInv => LeaseIsKept
  BY DEF LeaseInv
<1>. QED  BY <1>1, LeaseInitially, LeaseStep, PTL DEF Spec

\* A closed gate never records again.
THEOREM ClosedOff == Spec => []ClosedIsOff
<1>1. LeaseInv => ClosedIsOff
  BY DEF LeaseInv
<1>. QED  BY <1>1, LeaseInitially, LeaseStep, PTL DEF Spec

\* Without a lease no byte of output is held, for any number of streams.
THEOREM NoBytes == Spec => []NoBytesWhileOff
<1>1. FramingInv => NoBytesWhileOff
  BY DEF FramingInv
<1>. QED  BY <1>1, FramingInitially, FramingStep, PTL DEF Spec

\* Only whole lines are recorded, for any number of streams and line limit.
THEOREM Whole == Spec => []WholeLines
<1>1. FramingInv => WholeLines
  BY DEF FramingInv
<1>. QED  BY <1>1, FramingInitially, FramingStep, PTL DEF Spec

-----------------------------------------------------------------------------
(***************************************************************************)
(* The recorder of a lease and its readers: theorems about TraceRecorder,  *)
(* for every size of buffer, file, batch and timeline and every bound.     *)
(* Gate and recorder share no variable.                                    *)
(*                                                                         *)
(* Everything rests on the order of the ring buffer (Ascending) and on     *)
(* what one call may do to it (Later): append, and drop from the old end.  *)
(***************************************************************************)

Recorded  == [sequence : Nat, generation : Nat, kind : Kinds]
Recorders == [sequence : Nat, events : Seq(Recorded), file : BOOLEAN, fileGeneration : Nat,
              fileBytes : Nat, fileTruncated : BOOLEAN, diskDegraded : BOOLEAN]
Files     == [lease : Nat, generation : Nat, bytes : Nat, last : Nat]

\* The buffer holds events in the order of their numbers.
Ascending(r) ==
  /\ \A i \in 1..Len(r.events) : r.events[i].sequence \in 1..r.sequence
  /\ \A i, j \in 1..Len(r.events) : i < j => r.events[i].sequence < r.events[j].sequence

Holds(r, n) == \E i \in 1..Len(r.events) : r.events[i].sequence = n
Dropped(r, n) == \A i \in 1..Len(r.events) : r.events[i].sequence > n

\* s is r some events later.
Later(r, s) ==
  /\ s.sequence >= r.sequence
  /\ \A i \in 1..Len(s.events) :
       Holds(r, s.events[i].sequence) \/ s.events[i].sequence > r.sequence
  /\ \A n \in Nat : Holds(r, n) \/ Dropped(r, n) =>
                       n > r.sequence \/ Holds(s, n) \/ Dropped(s, n)

Says(r) == \E i \in 1..Len(r.events) : r.events[i].kind \in {"degraded", "truncated"}
Flagged(r) == r.fileTruncated \/ r.diskDegraded

\* A recorder and its files; an open file is the last one, and of this lease.
Sound(x) ==
  /\ x.rec \in Recorders /\ x.disk \in Seq(Files) /\ Ascending(x.rec)
  /\ x.rec.file => Len(x.disk) >= 1 /\ x.disk[Len(x.disk)].lease = lease

Saved(x, n) == \E i \in 1..Len(x.disk) : x.disk[i].lease = lease /\ x.disk[i].last = n

\* The next event takes the next number.
LEMMA PreparedType ==
  ASSUME NEW r \in Recorders, NEW gen \in Nat, NEW kind \in Kinds
  PROVE  /\ prepareLocked(r, gen, kind) \in Recorded
         /\ prepareLocked(r, gen, kind).sequence = r.sequence + 1
         /\ prepareLocked(r, gen, kind).kind = kind
         /\ prepareLocked(r, gen, kind).generation = gen
BY DEF Recorders, Recorded, prepareLocked

\* The ring after an event was put into it.
LEMMA Appended ==
  ASSUME NEW r \in Recorders, Ascending(r), NEW e \in Recorded,
         e.sequence = r.sequence + 1,
         NEW s, s = appendMemoryLocked(r, e)
  PROVE  /\ s \in Recorders /\ s.sequence = e.sequence /\ s.file = r.file
         /\ s.fileGeneration = r.fileGeneration /\ s.fileBytes = r.fileBytes
         /\ s.fileTruncated = r.fileTruncated /\ s.diskDegraded = r.diskDegraded
         /\ Len(s.events) >= 1 /\ s.events[Len(s.events)] = e
         /\ Ascending(s) /\ Later(r, s)
<1> DEFINE q == IF Len(r.events) = MemoryCapacity THEN Append(Tail(r.events), e)
                                                   ELSE Append(r.events, e)
<1>0. r.events \in Seq(Recorded) /\ r.sequence \in Nat BY DEF Recorders
<1>1. s = [sequence |-> e.sequence, events |-> q, file |-> r.file,
           fileGeneration |-> r.fileGeneration, fileBytes |-> r.fileBytes,
           fileTruncated |-> r.fileTruncated, diskDegraded |-> r.diskDegraded]
  BY DEF appendMemoryLocked, Recorders
<1>2. q \in Seq(Recorded) /\ Len(q) >= 1 /\ q[Len(q)] = e
  <2>1. CASE Len(r.events) = MemoryCapacity
    <3>1. r.events # <<>> BY <1>0, <2>1, ConfigAssumption
    <3>2. Tail(r.events) \in Seq(Recorded) BY <1>0, <3>1
    <3> QED BY <2>1, <3>2
  <2>2. CASE Len(r.events) # MemoryCapacity BY <1>0, <2>2
  <2> QED BY <2>1, <2>2
<1>3. \E d \in {0, 1} : Len(q) = Len(r.events) + 1 - d /\ d <= Len(r.events)
        /\ \A i \in 1..(Len(q) - 1) : q[i] = r.events[i + d]
  <2>1. CASE Len(r.events) = MemoryCapacity
    <3>1. r.events # <<>> /\ Len(r.events) >= 1 BY <1>0, <2>1, ConfigAssumption
    <3>2. /\ Tail(r.events) \in Seq(Recorded) /\ Len(Tail(r.events)) = Len(r.events) - 1
          /\ \A i \in 1..Len(Tail(r.events)): Tail(r.events)[i] = r.events[i + 1]
      BY <1>0, <3>1
    <3>3. Len(q) = Len(r.events) + 1 - 1
          /\ \A i \in 1..(Len(q) - 1) : q[i] = r.events[i + 1]
      BY <1>0, <2>1, <3>2
    <3> QED BY <3>1, <3>3
  <2>2. CASE Len(r.events) # MemoryCapacity
    <3>1. Len(q) = Len(r.events) + 1 - 0
          /\ \A i \in 1..(Len(q) - 1) : q[i] = r.events[i + 0]
      BY <1>0, <2>2
    <3> QED BY <1>0, <3>1
  <2> QED BY <2>1, <2>2
<1> HIDE DEF q
<1>4. PICK d \in {0, 1} : Len(q) = Len(r.events) + 1 - d /\ d <= Len(r.events)
        /\ \A i \in 1..(Len(q) - 1) : q[i] = r.events[i + d]
  BY <1>3
<1>5. s \in Recorders /\ s.events = q /\ s.sequence = r.sequence + 1
  BY <1>0, <1>1, <1>2 DEF Recorders, Recorded
<1>6. \A i \in 1..Len(r.events) : r.events[i].sequence \in 1..r.sequence BY DEF Ascending
<1>7. \A i \in 1..Len(q) : \/ i = Len(q) /\ q[i].sequence = r.sequence + 1
                           \/ /\ i \in 1..(Len(q) - 1) /\ i + d \in 1..Len(r.events)
                              /\ q[i] = r.events[i + d]
                              /\ q[i].sequence \in 1..r.sequence
  <2> TAKE i \in 1..Len(q)
  <2>0. Len(q) \in Nat /\ Len(r.events) \in Nat BY <1>0, <1>2
  <2>1. CASE i = Len(q) BY <1>2, <2>1
  <2>2. CASE i # Len(q)
    <3>1. i \in 1..(Len(q) - 1) BY <2>0, <2>2
    <3>2. q[i] = r.events[i + d] BY <1>4, <3>1
    <3>3. i + d \in 1..Len(r.events) BY <1>4, <2>0, <3>1
    <3> QED BY <1>6, <3>1, <3>2, <3>3
  <2> QED BY <2>1, <2>2
<1>8. Ascending(s)
  <2>1. \A i \in 1..Len(q) : q[i].sequence \in 1..(r.sequence + 1) BY <1>0, <1>7
  <2>2. ASSUME NEW i \in 1..Len(q), NEW j \in 1..Len(q), i < j
        PROVE  q[i].sequence < q[j].sequence
    <3>1. i \in 1..(Len(q) - 1) /\ i + d \in 1..Len(r.events) /\ q[i] = r.events[i + d]
          /\ q[i].sequence \in 1..r.sequence
      BY <1>2, <1>7, <2>2
    <3>2. CASE j = Len(q) /\ q[j].sequence = r.sequence + 1 BY <1>0, <3>1, <3>2
    <3>3. CASE j + d \in 1..Len(r.events) /\ q[j] = r.events[j + d]
      BY <1>0, <2>2, <3>1, <3>3 DEF Ascending
    <3> QED BY <1>7, <3>2, <3>3
  <2> QED BY <1>5, <2>1, <2>2 DEF Ascending
<1>9. Later(r, s)
  <2>1. \A i \in 1..Len(q) : Holds(r, q[i].sequence) \/ q[i].sequence > r.sequence
    <3> SUFFICES ASSUME NEW i \in 1..Len(q)
                 PROVE  Holds(r, q[i].sequence) \/ q[i].sequence > r.sequence
      OBVIOUS
    <3>1. CASE q[i].sequence = r.sequence + 1 BY <1>0, <3>1
    <3>2. CASE i + d \in 1..Len(r.events) /\ q[i] = r.events[i + d] BY <3>2 DEF Holds
    <3> QED BY <1>7, <3>1, <3>2
  <2>2. ASSUME NEW n \in Nat, Holds(r, n) PROVE Holds(s, n) \/ Dropped(s, n)
    <3>1. PICK k \in 1..Len(r.events) : r.events[k].sequence = n BY <2>2 DEF Holds
    <3>2. CASE k > d
      <4>1. k - d \in 1..(Len(q) - 1) /\ q[k - d] = r.events[k] BY <1>0, <1>2, <1>4, <3>2
      <4> QED BY <1>2, <1>5, <3>1, <4>1 DEF Holds
    <3>3. CASE ~(k > d)
      <4>1. ASSUME NEW i \in 1..Len(q) PROVE q[i].sequence > n
        <5>1. CASE i = Len(q) /\ q[i].sequence = r.sequence + 1 BY <1>0, <1>6, <3>1, <5>1
        <5>2. CASE i + d \in 1..Len(r.events) /\ q[i] = r.events[i + d]
          <6>1. k < i + d BY <1>0, <3>3, <5>2
          <6> QED BY <3>1, <5>2, <6>1, <1>0 DEF Ascending, Recorded
        <5> QED BY <1>7, <5>1, <5>2
      <4> QED BY <1>5, <4>1 DEF Dropped
    <3> QED BY <3>2, <3>3
  <2>3. ASSUME NEW n \in Nat, Dropped(r, n) PROVE n > r.sequence \/ Dropped(s, n)
    <3>1. ASSUME n <= r.sequence, NEW i \in 1..Len(q) PROVE q[i].sequence > n
      <4>1. CASE q[i].sequence = r.sequence + 1 BY <1>0, <3>1, <4>1
      <4>2. CASE i + d \in 1..Len(r.events) /\ q[i] = r.events[i + d]
        BY <2>3, <4>2 DEF Dropped
      <4> QED BY <1>7, <3>1, <4>1, <4>2
    <3> QED BY <1>0, <1>5, <3>1 DEF Dropped
  <2> QED BY <1>0, <1>5, <2>1, <2>2, <2>3 DEF Later
<1> QED BY <1>1, <1>2, <1>5, <1>8, <1>9

\* Flags and sizes are not part of the ring.
LEMMA SameRing ==
  ASSUME NEW r \in Recorders, NEW s \in Recorders, s.events = r.events,
         s.sequence >= r.sequence
  PROVE  Later(r, s) /\ (Says(r) <=> Says(s)) /\ (Ascending(r) => Ascending(s))
<1>0. r.sequence \in Nat /\ s.sequence \in Nat /\ r.events \in Seq(Recorded)
  BY DEF Recorders
<1>1. \A i \in 1..Len(s.events) : Holds(r, s.events[i].sequence) BY DEF Holds
<1>2. \A n \in Nat : (Holds(r, n) => Holds(s, n)) /\ (Dropped(r, n) => Dropped(s, n))
  BY DEF Holds, Dropped
<1>3. Later(r, s) BY <1>1, <1>2 DEF Later
<1>4. Ascending(r) => Ascending(s) BY <1>0 DEF Ascending
<1> QED BY <1>3, <1>4 DEF Says

\* What is later than a later one is later.
LEMMA LaterTransitive ==
  ASSUME NEW r \in Recorders, NEW s \in Recorders, NEW t \in Recorders, Ascending(s),
         Later(r, s), Later(s, t)
  PROVE  Later(r, t)
<1>0. r.sequence \in Nat /\ s.sequence \in Nat /\ t.sequence \in Nat
      /\ t.events \in Seq(Recorded)
      /\ r.sequence <= s.sequence /\ s.sequence <= t.sequence
  BY DEF Recorders, Later
<1>1. ASSUME NEW i \in 1..Len(t.events)
      PROVE  Holds(r, t.events[i].sequence) \/ t.events[i].sequence > r.sequence
  <2>0. t.events[i].sequence \in Nat
    <3>1. t.events[i] \in Recorded BY <1>0
    <3> QED BY <3>1 DEF Recorded
  <2>1. CASE Holds(s, t.events[i].sequence)
    <3>1. PICK k \in 1..Len(s.events) : s.events[k].sequence = t.events[i].sequence
      BY <2>1 DEF Holds
    <3>2. Holds(r, s.events[k].sequence) \/ s.events[k].sequence > r.sequence BY DEF Later
    <3> QED BY <3>1, <3>2
  <2>2. CASE t.events[i].sequence > s.sequence BY <1>0, <2>0, <2>2
  <2> QED BY <2>1, <2>2 DEF Later
<1>2. ASSUME NEW n \in Nat, Holds(r, n) \/ Dropped(r, n)
      PROVE  n > r.sequence \/ Holds(t, n) \/ Dropped(t, n)
  <2>1. CASE n > s.sequence BY <1>0, <2>1
  <2>2. CASE ~(n > s.sequence) /\ ~(n > r.sequence)
    <3>1. Holds(s, n) \/ Dropped(s, n) BY <1>2, <2>2 DEF Later
    <3> QED BY <2>2, <3>1 DEF Later
  <2> QED BY <2>1, <2>2
<1> QED BY <1>0, <1>1, <1>2 DEF Later

\* ... and with no event in between, too.
LEMMA LaterReflexive == ASSUME NEW r \in Recorders PROVE Later(r, r)
<1>1. r.sequence >= r.sequence BY DEF Recorders
<1> QED BY <1>1, SameRing

\* A failure is logged once for each file.
LEMMA FailureLogged ==
  ASSUME NEW r \in Recorders, Ascending(r), NEW gen \in Nat,
         NEW s, s = appendLoggingFailureLocked(r, gen)
  PROVE  /\ s \in Recorders /\ Ascending(s) /\ Later(r, s) /\ s.diskDegraded
         /\ s.file = r.file /\ s.fileTruncated = r.fileTruncated
         /\ (Says(s) \/ r.diskDegraded)
<1>1. CASE r.diskDegraded BY <1>1, LaterReflexive DEF appendLoggingFailureLocked
<1>2. CASE ~r.diskDegraded
  <2> DEFINE e == prepareLocked(r, gen, "degraded")
             a == appendMemoryLocked(r, e)
  <2>1. e \in Recorded /\ e.sequence = r.sequence + 1 /\ e.kind = "degraded"
    <3>1. "degraded" \in Kinds BY DEF Kinds
    <3> QED BY <3>1, PreparedType
  <2> HIDE DEF e
  <2>2. /\ a \in Recorders /\ a.file = r.file /\ a.fileTruncated = r.fileTruncated
        /\ Len(a.events) >= 1 /\ a.events[Len(a.events)] = e /\ Ascending(a) /\ Later(r, a)
    BY <2>1, Appended
  <2>3. s = [a EXCEPT !.diskDegraded = TRUE] BY <1>2 DEF appendLoggingFailureLocked, e
  <2> HIDE DEF a
  <2>4. /\ s \in Recorders /\ s.events = a.events /\ s.sequence = a.sequence
        /\ s.diskDegraded
        /\ s.file = a.file /\ s.fileTruncated = a.fileTruncated
    BY <2>2, <2>3 DEF Recorders
  <2>9. a.sequence \in Nat /\ a.events \in Seq(Recorded) BY <2>2 DEF Recorders
  <2>5. s.sequence >= a.sequence /\ Len(s.events) \in Nat BY <2>4, <2>9
  <2>6. Later(a, s) /\ Ascending(s) BY <2>2, <2>4, <2>5, SameRing
  <2>7. Later(r, s) BY <2>2, <2>4, <2>6, LaterTransitive
  <2>8. Says(s)
    <3>1. Len(s.events) \in 1..Len(s.events) BY <2>2, <2>4, <2>5
    <3> QED BY <2>1, <2>2, <2>4, <3>1 DEF Says
  <2> QED BY <2>2, <2>4, <2>6, <2>7, <2>8
<1> QED BY <1>1, <1>2 DEF Recorders

\* What pruneLocked keeps is the end of the list of files.
LEMMA NewestFiles ==
  ASSUME NEW n \in Nat \ {0}, NEW s \in Seq(Files), Len(s) >= 1
  PROVE  /\ Newest(n, s) \in Seq(Files) /\ Len(Newest(n, s)) >= 1
         /\ Newest(n, s)[Len(Newest(n, s))] = s[Len(s)]
<1>1. CASE Len(s) <= n BY <1>1 DEF Newest
<1>2. CASE ~(Len(s) <= n)
  <2> DEFINE m == Len(s) - n + 1
  <2>1. m \in 1..(Len(s) + 1) /\ Len(s) \in (m - 1)..Len(s) /\ Len(s) - m + 1 = n BY <1>2
  <2>2. Newest(n, s) = SubSeq(s, m, Len(s)) BY <1>2 DEF Newest
  <2>3. m + n - 1 = Len(s) OBVIOUS
  <2> HIDE DEF m
  <2>4. SubSeq(s, m, Len(s)) \in Seq(Files) /\ Len(SubSeq(s, m, Len(s))) = n
        /\ \A i \in 1..n : SubSeq(s, m, Len(s))[i] = s[i + m - 1]
    BY <2>1
  <2>5. n \in 1..n /\ n + m - 1 = Len(s) BY <2>1, <2>3
  <2> QED BY <2>2, <2>4, <2>5
<1> QED BY <1>1, <1>2

\* What a recorder keeps when it opens the file of another generation.
LEMMA FileOpened ==
  ASSUME lease \in Nat, NEW x, Sound(x), NEW gen \in Nat, NEW fault,
         NEW o, o = openGenerationLocked(x, gen, fault)
  PROVE  /\ Sound([rec |-> o.rec, disk |-> o.disk]) /\ o.err \in BOOLEAN
         /\ o.rec.events = x.rec.events /\ o.rec.sequence = x.rec.sequence
         /\ ~o.err => o.rec.file /\ ~Flagged(o.rec)
         /\ Flagged(o.rec) => Flagged(x.rec)
         /\ o.rec.diskDegraded => x.rec.diskDegraded
<1> DEFINE r == x.rec
           reset == [r EXCEPT !.file = FALSE, !.fileGeneration = gen, !.fileBytes = 0,
                              !.fileTruncated = FALSE, !.diskDegraded = FALSE]
           file == [lease |-> lease, generation |-> gen, bytes |-> 0, last |-> 0]
           more == Append(x.disk, file)
           open == [reset EXCEPT !.file = TRUE]
           shut == [r EXCEPT !.file = FALSE]
<1>0. r \in Recorders /\ x.disk \in Seq(Files) /\ Ascending(r) BY DEF Sound
<1>1. reset = [sequence |-> r.sequence, events |-> r.events, file |-> FALSE, fileGeneration |-> gen,
               fileBytes |-> 0, fileTruncated |-> FALSE, diskDegraded |-> FALSE]
  <2> DEFINE a == [r EXCEPT !.file = FALSE]
             b == [a EXCEPT !.fileGeneration = gen]
             c == [b EXCEPT !.fileBytes = 0]
             d == [c EXCEPT !.fileTruncated = FALSE]
  <2>1. /\ a \in Recorders /\ a.sequence = r.sequence /\ a.events = r.events /\ ~a.file
    BY <1>0 DEF Recorders
  <2> HIDE DEF a
  <2>2. /\ b \in Recorders /\ b.sequence = r.sequence /\ b.events = r.events /\ ~b.file
        /\ b.fileGeneration = gen
    BY <2>1 DEF Recorders
  <2> HIDE DEF b
  <2>3. /\ c \in Recorders /\ c.sequence = r.sequence /\ c.events = r.events /\ ~c.file
        /\ c.fileGeneration = gen
        /\ c.fileBytes = 0
    BY <2>2 DEF Recorders
  <2> HIDE DEF c
  <2>4. /\ d \in Recorders /\ d.sequence = r.sequence /\ d.events = r.events /\ ~d.file
        /\ d.fileGeneration = gen
        /\ d.fileBytes = 0 /\ ~d.fileTruncated
    BY <2>3 DEF Recorders
  <2>5. reset = [d EXCEPT !.diskDegraded = FALSE] BY DEF a, b, c, d
  <2> HIDE DEF d, reset
  <2> QED BY <2>4, <2>5 DEF Recorders
<1>2. /\ reset \in Recorders /\ ~reset.file /\ ~Flagged(reset) /\ reset.events = r.events
      /\ reset.sequence = r.sequence
  BY <1>0, <1>1 DEF Recorders, Flagged
<1>3. /\ open \in Recorders /\ open.file /\ ~Flagged(open) /\ open.events = r.events
      /\ open.sequence = r.sequence
  BY <1>0, <1>1 DEF Recorders, Flagged
<1>4. /\ shut \in Recorders /\ ~shut.file /\ shut.events = r.events
      /\ shut.sequence = r.sequence
      /\ shut.fileTruncated = r.fileTruncated /\ shut.diskDegraded = r.diskDegraded
  BY <1>0 DEF Recorders
<1>5. file \in Files /\ more \in Seq(Files) /\ Len(more) >= 1 /\ more[Len(more)] = file
      /\ file.lease = lease
  BY <1>0 DEF Files
<1>6. /\ Newest(RetainFiles, more) \in Seq(Files) /\ Len(Newest(RetainFiles, more)) >= 1
      /\ Newest(RetainFiles, more)[Len(Newest(RetainFiles, more))] = file
  BY <1>5, NewestFiles, ConfigAssumption
<1>7. \/ o = [rec |-> shut, disk |-> x.disk, err |-> TRUE]
      \/ o = [rec |-> reset, disk |-> x.disk, err |-> TRUE]
      \/ o = [rec |-> open, disk |-> more, err |-> TRUE]
      \/ o = [rec |-> open, disk |-> Newest(RetainFiles, more), err |-> FALSE]
  BY DEF openGenerationLocked
<1>8. r.sequence >= r.sequence BY <1>0 DEF Recorders
<1>9. Ascending(shut) /\ Ascending(reset) /\ Ascending(open)
  <2> HIDE DEF reset, open, shut, r
  <2>1. Ascending(shut) BY <1>0, <1>4, <1>8, SameRing
  <2>2. Ascending(reset) BY <1>0, <1>2, <1>8, SameRing
  <2>3. Ascending(open) BY <1>0, <1>3, <1>8, SameRing
  <2> QED BY <2>1, <2>2, <2>3
<1> HIDE DEF reset, open, shut, more, file
<1>10. CASE o = [rec |-> shut, disk |-> x.disk, err |-> TRUE]
  BY <1>0, <1>4, <1>9, <1>10 DEF Sound, Flagged
<1>11. CASE o = [rec |-> reset, disk |-> x.disk, err |-> TRUE]
  BY <1>0, <1>2, <1>9, <1>11 DEF Sound, Flagged
<1>12. CASE o = [rec |-> open, disk |-> more, err |-> TRUE]
  BY <1>0, <1>3, <1>5, <1>9, <1>12 DEF Sound, Flagged
<1>13. CASE o = [rec |-> open, disk |-> Newest(RetainFiles, more), err |-> FALSE]
  BY <1>0, <1>3, <1>5, <1>6, <1>9, <1>13 DEF Sound, Flagged
<1> QED BY <1>7, <1>10, <1>11, <1>12, <1>13

\* A line has a length.
LEMMA SizeType == \A k : Size(k) \in Nat
BY DEF Size

\* A line that was written is in the last file, under the number of its event.
LEMMA Written ==
  ASSUME NEW x, Sound(x), x.rec.file, NEW e \in Recorded, NEW w, w = written(x, e)
  PROVE  /\ Sound(w) /\ w.rec.events = x.rec.events /\ w.rec.sequence = x.rec.sequence
         /\ w.rec.fileTruncated = x.rec.fileTruncated
         /\ w.rec.diskDegraded = x.rec.diskDegraded
         /\ Saved(w, e.sequence)
<1> DEFINE r == x.rec
           L == Len(x.disk)
           n == Size(e.kind)
           s == [r EXCEPT !.fileBytes = @ + n]
           f == [x.disk EXCEPT ![L].last = e.sequence]
           d == [f EXCEPT ![L].bytes = @ + n]
<1>0. r \in Recorders /\ x.disk \in Seq(Files) /\ Ascending(r) /\ L \in 1..Len(x.disk)
      /\ x.disk[L].lease = lease /\ n \in Nat /\ e.sequence \in Nat
  <2>1. Len(x.disk) \in Nat BY DEF Sound
  <2> QED BY <2>1, SizeType DEF Sound, Recorded
<1>1. w.rec = s /\ w.disk = d
  BY DEF written
<1> HIDE DEF n
<1>2. /\ s \in Recorders /\ s.events = r.events /\ s.sequence = r.sequence
      /\ s.file = r.file
      /\ s.fileTruncated = r.fileTruncated /\ s.diskDegraded = r.diskDegraded
  <2> HIDE DEF r
  <2>1. r.fileBytes + n \in Nat BY <1>0 DEF Recorders
  <2> QED BY <1>0, <2>1 DEF Recorders
<1>3. f \in Seq(Files) /\ Len(f) = L /\ f[L].lease = lease /\ f[L].last = e.sequence
  <2>1. x.disk[L] \in Files BY <1>0
  <2>2. [x.disk[L] EXCEPT !.last = e.sequence] \in Files
        /\ [x.disk[L] EXCEPT !.last = e.sequence].lease = lease
        /\ [x.disk[L] EXCEPT !.last = e.sequence].last = e.sequence
    BY <1>0, <2>1 DEF Files
  <2> QED BY <1>0, <2>2
<1> HIDE DEF f
<1>4. d \in Seq(Files) /\ Len(d) = L /\ d[L].lease = lease /\ d[L].last = e.sequence
  <2>1. f[L] \in Files /\ L \in 1..Len(f) BY <1>0, <1>3
  <2> DEFINE g == f[L]
             h == [g EXCEPT !.bytes = @ + n]
  <2>2. d = [f EXCEPT ![L] = h] OBVIOUS
  <2>3. h \in Files /\ h.lease = lease /\ h.last = e.sequence
    <3>1. g \in Files /\ g.lease = lease /\ g.last = e.sequence BY <1>3, <2>1
    <3> HIDE DEF g
    <3>2. g.bytes + n \in Nat BY <1>0, <3>1 DEF Files
    <3> QED BY <3>1, <3>2 DEF Files
  <2> HIDE DEF d, h
  <2> QED BY <1>0, <1>3, <2>1, <2>2, <2>3
<1>5. r.sequence >= r.sequence BY <1>0 DEF Recorders
<1>6. Ascending(s)
  <2> HIDE DEF s, r
  <2> QED BY <1>0, <1>2, <1>5, SameRing
<1> HIDE DEF s, d, L
<1>7. Sound(w) BY <1>0, <1>1, <1>2, <1>4, <1>6 DEF Sound
<1>8. Saved(w, e.sequence) BY <1>0, <1>1, <1>4 DEF Saved
<1> QED BY <1>1, <1>2, <1>7, <1>8

\* The size limit was reached: the event that says so.
LEMMA Truncated ==
  ASSUME NEW r, NEW d, NEW x, x = [rec |-> r, disk |-> d], Sound(x),
         r.file,
         NEW gen \in Nat, NEW fault, NEW t, t = truncate(x, gen, fault)
  PROVE  Sound(t) /\ Later(r, t.rec) /\ Says(t.rec)
<1> DEFINE e == prepareLocked(r, gen, "truncated")
           a == appendMemoryLocked(r, e)
           s == [a EXCEPT !.fileTruncated = TRUE]
           full == [rec |-> s, disk |-> d]
<1>0. r \in Recorders /\ d \in Seq(Files) /\ Ascending(r) BY DEF Sound
<1>1. e \in Recorded /\ e.sequence = r.sequence + 1 /\ e.kind = "truncated"
  <2>1. "truncated" \in Kinds BY DEF Kinds
  <2> QED BY <1>0, <2>1, PreparedType
<1> HIDE DEF e
<1>2. /\ a \in Recorders /\ a.file = r.file
      /\ Len(a.events) >= 1 /\ a.events[Len(a.events)] = e /\ Ascending(a) /\ Later(r, a)
  BY <1>0, <1>1, Appended
<1> HIDE DEF a
<1>3. s \in Recorders /\ s.events = a.events /\ s.sequence = a.sequence /\ s.file = a.file
  BY <1>2 DEF Recorders
<1> HIDE DEF s
<1>4. t = full \/ t = written(full, e)
  <2>1. full = [x EXCEPT !.rec = s] OBVIOUS
  <2>2. s = [appendMemoryLocked(x.rec, e) EXCEPT !.fileTruncated = TRUE]
        /\ e = prepareLocked(x.rec, gen, "truncated")
    BY DEF s, a, e
  <2>3. full = [x EXCEPT !.rec = [appendMemoryLocked(@, e) EXCEPT !.fileTruncated = TRUE]]
    BY <2>1, <2>2
  <2> HIDE DEF full
  <2> QED BY <2>2, <2>3 DEF truncate
<1>5. s.sequence >= a.sequence /\ Len(s.events) \in Nat BY <1>2, <1>3 DEF Recorders
<1>6. Later(a, s) /\ Ascending(s) BY <1>2, <1>3, <1>5, SameRing
<1>7. Later(r, s) BY <1>0, <1>2, <1>3, <1>6, LaterTransitive
<1>8. Says(s)
  <2>1. Len(s.events) \in 1..Len(s.events) BY <1>2, <1>3, <1>5
  <2> QED BY <1>1, <1>2, <1>3, <2>1 DEF Says
<1>9. Sound(full) /\ full.rec = s /\ full.rec.file BY <1>0, <1>2, <1>3, <1>6 DEF Sound
<1> HIDE DEF full
<1>10. CASE t = full BY <1>7, <1>8, <1>9, <1>10
<1>11. CASE t = written(full, e)
  <2>1. Sound(t) /\ t.rec.events = s.events /\ t.rec.sequence = s.sequence
    BY <1>1, <1>9, <1>11, Written
  <2>2. t.rec \in Recorders /\ t.rec.sequence >= s.sequence
    BY <1>3, <2>1 DEF Sound, Recorders
  <2>3. Later(s, t.rec) /\ (Says(s) <=> Says(t.rec)) BY <1>3, <2>1, <2>2, SameRing
  <2>4. Later(r, t.rec) BY <1>0, <1>3, <1>6, <1>7, <2>2, <2>3, LaterTransitive
  <2> QED BY <1>8, <2>1, <2>3, <2>4
<1> QED BY <1>4, <1>10, <1>11

\* A failed file operation leaves an event, or left one before.
LEMMA Failed ==
  ASSUME NEW r, NEW d, NEW z, z = [rec |-> r, disk |-> d], Sound(z),
         NEW gen \in Nat,
         NEW y, y = [z EXCEPT !.rec = appendLoggingFailureLocked(@, gen)]
  PROVE  Sound(y) /\ y.disk = d /\ Later(r, y.rec) /\ (Says(y.rec) \/ r.diskDegraded)
<1> DEFINE s == appendLoggingFailureLocked(r, gen)
<1>0. r \in Recorders /\ d \in Seq(Files) /\ Ascending(r) BY DEF Sound
<1>1. /\ s \in Recorders /\ Ascending(s) /\ Later(r, s) /\ s.file = r.file
      /\ (Says(s) \/ r.diskDegraded)
  BY <1>0, FailureLogged
<1>2. y = [rec |-> s, disk |-> d] OBVIOUS
<1> HIDE DEF s
<1> QED BY <1>0, <1>1, <1>2 DEF Sound

\* What persistLocked makes of an event that is in the ring: a line of the file,
\* or an event that says why there is none, unless one said so before.
LEMMA Persisted ==
  ASSUME lease \in Nat, NEW r, NEW d, NEW x,
         x = [rec |-> r, disk |-> d], Sound(x),
         NEW e \in Recorded, NEW fault, NEW p, p = persistLocked(x, e, fault)
  PROVE  /\ Sound(p) /\ Later(r, p.rec)
         /\ Saved(p, e.sequence) \/ Says(p.rec) \/ Flagged(r)
         /\ Flagged(p.rec) => Flagged(r) \/ Says(p.rec)
<1> DEFINE o == IF ~x.rec.file \/ x.rec.fileGeneration # e.generation
                THEN openGenerationLocked(x, e.generation, fault)
                ELSE [rec |-> x.rec, disk |-> x.disk, err |-> FALSE]
           y == [rec |-> o.rec, disk |-> o.disk]
           w == written(y, e)
           Failing(z) == [z EXCEPT !.rec = appendLoggingFailureLocked(@, e.generation)]
<1>0. r \in Recorders /\ e.generation \in Nat BY DEF Sound, Recorded
<1>1. /\ Sound(y) /\ o.err \in BOOLEAN /\ o.rec.events = r.events
      /\ o.rec.sequence = r.sequence
      /\ ~o.err => o.rec.file
      /\ Flagged(o.rec) => Flagged(r)
      /\ o.rec.diskDegraded => r.diskDegraded
  <2>1. CASE ~x.rec.file \/ x.rec.fileGeneration # e.generation
    <3>1. o = openGenerationLocked(x, e.generation, fault) BY <2>1
    <3> HIDE DEF o
    <3> QED BY <1>0, <3>1, FileOpened
  <2>2. CASE ~(~x.rec.file \/ x.rec.fileGeneration # e.generation)
    <3>1. o = [rec |-> r, disk |-> d, err |-> FALSE] /\ r.file BY <2>2
    <3> HIDE DEF o
    <3> QED BY <3>1 DEF Sound
  <2> QED BY <2>1, <2>2
<1>2. \/ p = Failing(y)
      \/ ~o.err /\ p = y /\ (y.rec.diskDegraded \/ y.rec.fileTruncated)
      \/ ~o.err /\ p = truncate(y, e.generation, fault)
      \/ ~o.err /\ p = Failing(w)
      \/ ~o.err /\ p = w
  BY <1>1 DEF persistLocked
<1>3. y.rec \in Recorders /\ y.rec.sequence >= r.sequence BY <1>0, <1>1 DEF Sound, Recorders
<1>4. Later(r, y.rec) /\ y.rec = o.rec
  <2>1. y.rec = o.rec OBVIOUS
  <2> HIDE DEF y, o
  <2> QED BY <1>0, <1>1, <1>3, <2>1, SameRing
<1>5. Ascending(y.rec) BY <1>1 DEF Sound
<1>6. CASE p = Failing(y)
  <2>1. Sound(p) /\ Later(o.rec, p.rec) /\ (Says(p.rec) \/ o.rec.diskDegraded)
    <3> DEFINE or == o.rec  od == o.disk
    <3>1. y = [rec |-> or, disk |-> od] OBVIOUS
    <3> HIDE DEF or, od, y, o
    <3>2. Sound(p) /\ Later(or, p.rec) /\ (Says(p.rec) \/ or.diskDegraded)
      BY <1>0, <1>1, <1>6, <3>1, Failed
    <3> QED BY <3>2 DEF or
  <2> HIDE DEF y, o
  <2>2. p.rec \in Recorders BY <2>1 DEF Sound
  <2>3. Later(r, p.rec) BY <1>0, <1>3, <1>4, <1>5, <2>1, <2>2, LaterTransitive
  <2> QED BY <1>1, <2>1, <2>3 DEF Flagged
<1>7. CASE ~o.err /\ p = y /\ (y.rec.diskDegraded \/ y.rec.fileTruncated)
  <2> HIDE DEF y, o
  <2> QED BY <1>1, <1>4, <1>7 DEF Flagged
<1>8. CASE ~o.err /\ p = truncate(y, e.generation, fault)
  <2>1. Sound(p) /\ Later(o.rec, p.rec) /\ Says(p.rec)
    <3> DEFINE or == o.rec  od == o.disk
    <3>1. y = [rec |-> or, disk |-> od] /\ or.file BY <1>1, <1>8
    <3> HIDE DEF or, od, y, o
    <3>2. Sound(p) /\ Later(or, p.rec) /\ Says(p.rec) BY <1>0, <1>1, <1>8, <3>1, Truncated
    <3> QED BY <3>2 DEF or
  <2> HIDE DEF y, o
  <2>2. p.rec \in Recorders BY <2>1 DEF Sound
  <2>3. Later(r, p.rec) BY <1>0, <1>3, <1>4, <1>5, <2>1, <2>2, LaterTransitive
  <2> QED BY <2>1, <2>3
<1>9. ~o.err => /\ Sound(w) /\ w.rec.events = y.rec.events
      /\ w.rec.sequence = y.rec.sequence
                /\ w.rec.fileTruncated = y.rec.fileTruncated
                /\ w.rec.diskDegraded = y.rec.diskDegraded
                /\ Saved(w, e.sequence)
  <2>1. ~o.err => y.rec.file BY <1>1
  <2> HIDE DEF y, o
  <2> QED BY <1>1, <2>1, Written
<1>10. ~o.err => w.rec \in Recorders /\ Later(r, w.rec) /\ Ascending(w.rec)
  <2> HIDE DEF y, o, w
  <2> SUFFICES ASSUME ~o.err PROVE w.rec \in Recorders /\ Later(r, w.rec)
               /\ Ascending(w.rec) OBVIOUS
  <2>1. w.rec \in Recorders /\ Ascending(w.rec) BY <1>9 DEF Sound
  <2>2. w.rec.sequence >= y.rec.sequence BY <1>3, <1>9 DEF Recorders
  <2>3. Later(y.rec, w.rec) BY <1>3, <1>9, <2>1, <2>2, SameRing
  <2> QED BY <1>0, <1>3, <1>4, <1>5, <2>1, <2>3, LaterTransitive
<1>11. CASE ~o.err /\ p = Failing(w)
  <2>1. Sound(p) /\ p.disk = w.disk /\ Later(w.rec, p.rec)
        /\ (Says(p.rec) \/ w.rec.diskDegraded)
    <3> DEFINE wr == w.rec  wd == w.disk
    <3>1. w = [rec |-> wr, disk |-> wd] BY DEF written
    <3> HIDE DEF wr, wd, w, y, o
    <3>2. Sound(p) /\ p.disk = wd /\ Later(wr, p.rec) /\ (Says(p.rec) \/ wr.diskDegraded)
      BY <1>0, <1>9, <1>11, <3>1, Failed
    <3> QED BY <3>2 DEF wr, wd
  <2> HIDE DEF y, o, w
  <2>2. p.rec \in Recorders BY <2>1 DEF Sound
  <2>3. Later(r, p.rec) BY <1>0, <1>10, <1>11, <2>1, <2>2, LaterTransitive
  <2>4. Saved(p, e.sequence) BY <1>9, <1>11, <2>1 DEF Saved
  <2> QED BY <1>1, <1>4, <1>9, <1>11, <2>1, <2>3, <2>4 DEF Flagged
<1>12. CASE ~o.err /\ p = w
  <2> HIDE DEF y, o, w
  <2> QED BY <1>1, <1>4, <1>9, <1>10, <1>12 DEF Flagged
<1> QED BY <1>2, <1>6, <1>7, <1>8, <1>11, <1>12

\* Record: its event is on disk, or an event says that it is not, or one said so
\* before; nothing leaves the buffer but at its old end.
LEMMA Recording ==
  ASSUME lease \in Nat, NEW r, NEW d, NEW x,
         x = [rec |-> r, disk |-> d], Sound(x),
         NEW gen \in Nat, NEW kind \in Kinds \cup {"invalid"}, NEW fault, NEW p,
             p = record(x, gen, kind, fault)
  PROVE  /\ Sound(p) /\ Later(r, p.rec)
         /\ Saved(p, r.sequence + 1) \/ Says(p.rec) \/ Flagged(r)
         /\ Flagged(p.rec) => Flagged(r) \/ Says(p.rec)
<1> DEFINE e == prepareLocked(r, gen, kind)
<1>0. r \in Recorders /\ d \in Seq(Files) /\ Ascending(r) /\ r.sequence \in Nat
  BY DEF Sound, Recorders
<1>1. CASE kind = "invalid"
  <2> DEFINE s == [r EXCEPT !.sequence = e.sequence]
             z == [rec |-> s, disk |-> d]
  <2>1. e.sequence = r.sequence + 1 BY DEF prepareLocked
  <2> HIDE DEF e
  <2>2. /\ s \in Recorders /\ s.events = r.events /\ s.file = r.file
        /\ s.sequence = r.sequence + 1
        /\ s.fileTruncated = r.fileTruncated /\ s.diskDegraded = r.diskDegraded
    <3>1. e.sequence \in Nat BY <1>0, <2>1
    <3>2. /\ s \in Recorders /\ s.events = r.events /\ s.file = r.file
          /\ s.sequence = e.sequence
          /\ s.fileTruncated = r.fileTruncated /\ s.diskDegraded = r.diskDegraded
      BY <1>0, <3>1 DEF Recorders
    <3> QED BY <2>1, <3>2
  <2> HIDE DEF s
  <2>3. s.sequence >= r.sequence BY <1>0, <2>2
  <2>4. Later(r, s) /\ Ascending(s) BY <1>0, <2>2, <2>3, SameRing
  <2>5. Sound(z) BY <1>0, <2>2, <2>4 DEF Sound
  <2>6. p = [z EXCEPT !.rec = appendLoggingFailureLocked(@, gen)]
    BY <1>1 DEF record, e, s
  <2>7. Sound(p) /\ Later(s, p.rec) /\ (Says(p.rec) \/ s.diskDegraded) BY <2>5, <2>6, Failed
  <2>8. p.rec \in Recorders BY <2>7 DEF Sound
  <2>9. Later(r, p.rec) BY <1>0, <2>2, <2>4, <2>7, <2>8, LaterTransitive
  <2> QED BY <2>2, <2>7, <2>9 DEF Flagged
<1>2. CASE kind # "invalid"
  <2> DEFINE a == appendMemoryLocked(r, e)
             y == [rec |-> a, disk |-> d]
  <2>1. e \in Recorded /\ e.sequence = r.sequence + 1
    <3>1. kind \in Kinds BY <1>2
    <3> QED BY <1>0, <3>1, PreparedType
  <2>2. p = persistLocked(y, e, fault) BY <1>2 DEF record
  <2> HIDE DEF e
  <2>3. /\ a \in Recorders /\ a.file = r.file /\ a.fileTruncated = r.fileTruncated
        /\ a.diskDegraded = r.diskDegraded /\ Ascending(a) /\ Later(r, a)
    BY <1>0, <2>1, Appended
  <2> HIDE DEF a
  <2>4. Sound(y) BY <1>0, <2>3 DEF Sound
  <2>5. /\ Sound(p) /\ Later(a, p.rec)
        /\ Saved(p, e.sequence) \/ Says(p.rec) \/ Flagged(a)
        /\ Flagged(p.rec) => Flagged(a) \/ Says(p.rec)
    BY <2>1, <2>2, <2>4, Persisted
  <2>6. p.rec \in Recorders BY <2>5 DEF Sound
  <2>7. Later(r, p.rec) BY <1>0, <2>3, <2>5, <2>6, LaterTransitive
  <2> QED BY <2>1, <2>3, <2>5, <2>7 DEF Flagged
<1> QED BY <1>1, <1>2

-----------------------------------------------------------------------------
(* LossIsReported *)

\* A recorder with a flag has reported why.
LossInv ==
  /\ lease \in Nat /\ generation \in Nat /\ disk \in Seq(Files)
  /\ rec = NoRecorder \/ (Sound([rec |-> rec, disk |-> disk]) /\ (Flagged(rec) => reported))
  /\ LossIsReported

\* What Record does to the invariant, with its result named.
LEMMA RecordStep ==
  ASSUME LossInv, NEW gen \in Nat,
         NEW kind \in Kinds \cup {"invalid"}, NEW fault,
         Record(gen, kind, fault)
  PROVE  /\ LossInv' /\ Sound([rec |-> rec, disk |-> disk]) /\ Later(rec, rec')
         /\ rec' \in Recorders /\ Ascending(rec')
         /\ history' = history \cup {[lease |-> lease, sequence |-> rec'.events[i].sequence] : i \in DOMAIN rec'.events}
         /\ UNCHANGED <<generation, lease, cursor, shown, gap>>
<1> DEFINE p == record([rec |-> rec, disk |-> disk], gen, kind, fault)
<1>0. Sound([rec |-> rec, disk |-> disk]) /\ (Flagged(rec) => reported)
      /\ (unsaved => reported) /\ lease \in Nat
  BY DEF LossInv, Record, LossIsReported
<1>1. /\ Sound(p) /\ Later(rec, p.rec)
      /\ Saved(p, rec.sequence + 1) \/ Says(p.rec) \/ Flagged(rec)
      /\ Flagged(p.rec) => Flagged(rec) \/ Says(p.rec)
  BY <1>0, Recording
<1>2. /\ rec' = p.rec /\ disk' = p.disk
      /\ history' = history \cup {[lease |-> lease, sequence |-> p.rec.events[i].sequence] : i \in DOMAIN p.rec.events}
      /\ unsaved' = (unsaved \/ \A i \in DOMAIN p.disk : p.disk[i].lease # lease \/ p.disk[i].last # rec.sequence + 1)
      /\ reported' = (reported \/ \E i \in DOMAIN p.rec.events : p.rec.events[i].kind \in {"degraded", "truncated"})
      /\ UNCHANGED <<generation, lease, cursor, shown, gap>>
  BY DEF Record
<1> HIDE DEF p
<1>3. p.rec \in Recorders /\ p.disk \in Seq(Files) /\ DOMAIN p.disk = 1..Len(p.disk)
      /\ DOMAIN p.rec.events = 1..Len(p.rec.events)
  BY <1>1 DEF Sound, Recorders
<1>4. unsaved' => unsaved \/ ~Saved(p, rec.sequence + 1) BY <1>2, <1>3 DEF Saved
<1>5. reported \/ Says(p.rec) => reported' BY <1>2, <1>3 DEF Says
<1>7. LossIsReported' BY <1>0, <1>1, <1>4, <1>5 DEF LossIsReported
<1>8. LossInv'
  <2>1. Flagged(rec') => reported' BY <1>0, <1>1, <1>2, <1>5
  <2>2. Sound([rec |-> rec, disk |-> disk])' BY <1>1, <1>2 DEF Sound
  <2> QED BY <1>2, <1>3, <1>7, <2>1, <2>2 DEF LossInv, Flagged
<1>9. Ascending(rec') BY <1>1, <1>2 DEF Sound
<1> QED BY <1>0, <1>1, <1>2, <1>3, <1>8, <1>9

\* Every record is Record, with the number of a connection or with none.
LEMMA NextCases ==
  ASSUME generation \in Nat, TraceNext
  PROVE  \/ EnableTrace \/ CloseRecorder \/ Connect \/ RefreshTrace
         \/ \E gen \in Nat, kind \in Kinds \cup {"invalid"},
             fault \in FileFaults : Record(gen, kind, fault)
<1>1. ASSUME NEW fault \in FileFaults, NEW kind \in {"started", "other", "invalid"},
    RecordController(kind, fault)
      PROVE  \E gen \in Nat, k \in Kinds \cup {"invalid"},
          f \in FileFaults : Record(gen, k, f)
  <2>1. kind \in Kinds \cup {"invalid"} BY DEF Kinds
  <2> QED BY <1>1, <2>1 DEF RecordController
<1>2. ASSUME NEW fault \in FileFaults, RecordCore(fault)
      PROVE  \E gen \in Nat, k \in Kinds \cup {"invalid"},
          f \in FileFaults : Record(gen, k, f)
  <2>1. "core" \in Kinds \cup {"invalid"} /\ 0 \in Nat BY DEF Kinds
  <2> QED BY <1>2, <2>1 DEF RecordCore
<1> QED BY <1>1, <1>2 DEF TraceNext

\* The recorder of a new lease is empty.
LEMMA NewRecorder == New \in Recorders /\ Ascending(New) /\ ~New.file
    /\ ~Flagged(New) /\ Len(New.events) = 0
                     /\ New.sequence = 0
BY DEF New, Recorders, Ascending, Flagged

\* Every step keeps it.
LEMMA LossStep == ASSUME LossInv, [TraceNext]_traceVars PROVE LossInv'
<1>0. generation \in Nat /\ lease \in Nat BY DEF LossInv
<1>1. CASE EnableTrace
  <2>1. rec' = New /\ lease' \in Nat BY <1>0, <1>1 DEF EnableTrace
  <2>2. Sound([rec |-> rec, disk |-> disk])'
    BY <1>1, <2>1, NewRecorder DEF EnableTrace, Sound, LossInv
  <2>3. ~Flagged(rec)' BY <2>1, NewRecorder DEF Flagged
  <2> QED BY <1>1, <2>1, <2>2, <2>3 DEF EnableTrace, LossInv, LossIsReported
<1>2. CASE CloseRecorder BY <1>2 DEF CloseRecorder, LossInv, LossIsReported, ghosts
<1>3. CASE Connect
  BY <1>3 DEF Connect, LossInv, LossIsReported, Sound, Flagged, ghosts
<1>4. CASE RefreshTrace
  BY <1>4 DEF RefreshTrace, LossInv, LossIsReported, Sound, Flagged, ghosts
<1>5. ASSUME NEW gen \in Nat, NEW kind \in Kinds \cup {"invalid"},
    NEW fault \in FileFaults, Record(gen, kind, fault)
      PROVE  LossInv'
  BY <1>5, RecordStep
<1>6. CASE UNCHANGED traceVars
  BY <1>6 DEF traceVars, LossInv, LossIsReported, Sound, Flagged, ghosts
<1> QED BY <1>0, <1>1, <1>2, <1>3, <1>4, <1>5, <1>6, NextCases

\* No event is missing from the log of its lease unless an event of the lease has
\* said that events would be: whichever operation of persistLocked failed, and in
\* whichever file.
THEOREM LossReported == TraceSpec => []LossIsReported
<1>1. TraceInit => LossInv BY DEF TraceInit, LossInv, LossIsReported
<1>2. LossInv /\ [TraceNext]_traceVars => LossInv' BY LossStep
<1>3. LossInv => LossIsReported BY DEF LossInv
<1> QED BY <1>1, <1>2, <1>3, PTL DEF TraceSpec

\* A set of natural numbers has its smallest element in it: by the least element of
\* a well-founded order.
LEMMA MinimumOf ==
  ASSUME NEW R, IsWellFoundedOn(R, Nat), \A i, m \in Nat : i < m => <<i, m>> \in R,
         NEW S, S \subseteq Nat, S # {}
  PROVE  Min(S) \in S /\ \A i \in S : Min(S) <= i
<1>1. \E m \in S : \A i \in S : ~(<<i, m>> \in R)
  BY ONLY WFMin, IsWellFoundedOn(R, Nat), S \subseteq Nat, S # {}, Zenon
<1>2. PICK m \in S : \A i \in S : ~(<<i, m>> \in R) BY <1>1
<1>3. ASSUME NEW i \in S PROVE m <= i
  <2>1. i \in Nat /\ m \in Nat OBVIOUS
  <2>2. ~(i < m) BY <1>2, <2>1
  <2> QED BY <2>1, <2>2
<1> QED BY <1>3 DEF Min

\* ... the order of the natural numbers.
LEMMA Minimum ==
  ASSUME NEW S, S \subseteq Nat, S # {} PROVE Min(S) \in S /\ \A i \in S : Min(S) <= i
<1>1. \A i, m \in Nat : i < m => <<i, m>> \in OpToRel(<, Nat) BY Zenon DEF OpToRel
<1> QED BY <1>1, NatLessThanWellFounded, MinimumOf, Zenon

\* What is newer is the end of the buffer after the first k events.
LEMMA NewerIs ==
  ASSUME NEW r \in Recorders, Ascending(r), NEW after \in Nat, NEW q,
         q = Newer(r.events, after)
  PROVE  \E k \in 0..Len(r.events) :
           /\ q \in Seq(Recorded) /\ Len(q) = Len(r.events) - k
           /\ \A i \in 1..Len(q) : q[i] = r.events[k + i]
           /\ \A i \in 1..k : r.events[i].sequence <= after
           /\ \A i \in (k + 1)..Len(r.events) : r.events[i].sequence > after
<1> DEFINE ev == r.events
           newer == {i \in DOMAIN ev : ev[i].sequence > after}
<1>0. ev \in Seq(Recorded) /\ Len(ev) \in Nat /\ DOMAIN ev = 1..Len(ev) BY DEF Recorders
<1>1. \A i \in 1..Len(ev) : ev[i].sequence \in Nat
  <2>1. \A i \in 1..Len(ev) : ev[i] \in Recorded BY <1>0
  <2> QED BY <2>1 DEF Recorded
<1>2. \A i, j \in 1..Len(ev) : i < j => ev[i].sequence < ev[j].sequence BY DEF Ascending
<1>3. CASE newer = {}
  <2>1. q = <<>> BY <1>3 DEF Newer
  <2>2. \A i \in 1..Len(ev) : ev[i].sequence <= after BY <1>0, <1>1, <1>3
  <2> HIDE DEF ev
  <2>3. /\ Len(ev) \in 0..Len(ev)
        /\ q \in Seq(Recorded) /\ Len(q) = Len(ev) - Len(ev)
        /\ \A i \in 1..Len(q) : q[i] = ev[Len(ev) + i]
        /\ \A i \in (Len(ev) + 1)..Len(ev) : ev[i].sequence > after
    BY <1>0, <2>1
  <2> QED BY <2>2, <2>3 DEF ev
<1>4. CASE newer # {}
  <2> DEFINE m == Min(newer)
             k == m - 1
  <2>1. newer \subseteq Nat BY <1>0
  <2>2. m \in newer /\ \A i \in newer : m <= i BY <1>4, <2>1, Minimum
  <2>3. q = SubSeq(ev, m, Len(ev)) BY <1>4 DEF Newer
  <2>4. m \in 1..Len(ev) /\ ev[m].sequence > after BY <1>0, <2>2
  <2>5. \A i \in 1..Len(ev) : i < m => ~(ev[i].sequence > after)
    <3>1. \A i \in 1..Len(ev) : ev[i].sequence > after => m <= i BY <1>0, <2>2
    <3> HIDE DEF m, ev
    <3> QED BY <2>4, <3>1
  <2> HIDE DEF m, ev, newer
  <2>6. q \in Seq(Recorded) /\ Len(q) = Len(ev) - k /\ \A i \in 1..Len(q) : q[i] = ev[k + i]
    BY <1>0, <2>3, <2>4
  <2>7. k \in 0..Len(ev) BY <1>0, <2>4
  <2>8. \A i \in 1..k : ev[i].sequence <= after BY <1>0, <1>1, <2>4, <2>5
  <2>9. \A i \in (k + 1)..Len(ev) : ev[i].sequence > after
    <3> SUFFICES ASSUME NEW i \in (k + 1)..Len(ev) PROVE ev[i].sequence > after OBVIOUS
    <3>1. i \in 1..Len(ev) /\ (i = m \/ m < i) BY <1>0, <2>4
    <3>2. CASE i = m BY <2>4, <3>2
    <3>3. CASE m < i
      <4>1. ev[m].sequence < ev[i].sequence /\ ev[m].sequence \in Nat
            /\ ev[i].sequence \in Nat
        BY <1>1, <1>2, <2>4, <3>1, <3>3
      <4> QED BY <2>4, <4>1
    <3> QED BY <3>1, <3>2, <3>3
  <2> HIDE DEF k
  <2> QED BY <2>6, <2>7, <2>8, <2>9 DEF ev
<1> QED BY <1>3, <1>4

\* The events of a batch, as a window of the buffer.
Window(r, k, q, after) ==
  /\ k \in 0..Len(r.events) /\ q \in Seq(Recorded) /\ k + Len(q) <= Len(r.events)
  /\ \A i \in 1..Len(q) : q[i] = r.events[k + i]
  /\ \A i \in 1..k : r.events[i].sequence <= after
  /\ \A i \in (k + 1)..Len(r.events) : r.events[i].sequence > after

NextOf(q, after) == IF q = <<>> THEN after ELSE q[Len(q)].sequence
OldestOf(r)      == IF r.events = <<>> THEN 0 ELSE r.events[1].sequence

\* Batch answers a window of the buffer that begins where the reader stands.
LEMMA BatchIs ==
  ASSUME NEW r \in Recorders, Ascending(r), NEW after \in Nat, NEW limit \in Nat \ {0},
         NEW b, b = Batch(r, after, limit)
  PROVE  /\ \E k : Window(r, k, b.events, after)
         /\ Len(b.events) <= limit
         /\ b.next = NextOf(b.events, after)
         /\ b.events = <<>> => ~b.hasMore
         /\ b.oldest = OldestOf(r)
         /\ b = [events |-> b.events, next |-> b.next, hasMore |-> b.hasMore, oldest |-> b.oldest]
<1> DEFINE q == Newer(r.events, after)
           t == IF Len(q) <= limit THEN q ELSE SubSeq(q, 1, limit)
<1>0. r # NoRecorder
  <2>1. r.sequence \in Nat BY DEF Recorders
  <2>2. NoRecorder.sequence = -1 BY DEF NoRecorder
  <2> QED BY <2>1, <2>2
<1>1. PICK k \in 0..Len(r.events) :
           /\ q \in Seq(Recorded) /\ Len(q) = Len(r.events) - k
           /\ \A i \in 1..Len(q) : q[i] = r.events[k + i]
           /\ \A i \in 1..k : r.events[i].sequence <= after
           /\ \A i \in (k + 1)..Len(r.events) : r.events[i].sequence > after
  BY NewerIs
<1>2. b = [events |-> t, next |-> IF t = <<>> THEN after ELSE t[Len(t)].sequence, hasMore |-> Len(q) > limit,
           oldest |-> IF r.events = <<>> THEN 0 ELSE r.events[1].sequence]
  BY <1>0 DEF Batch
<1> HIDE DEF q
<1>3. Len(r.events) \in Nat BY DEF Recorders
<1>4. /\ t \in Seq(Recorded) /\ Len(t) <= limit /\ Len(t) <= Len(q)
      /\ \A i \in 1..Len(t) : t[i] = q[i]
      /\ t = <<>> => ~(Len(q) > limit)
  <2>1. CASE Len(q) <= limit BY <1>1, <2>1
  <2>2. CASE ~(Len(q) <= limit)
    <3>1. t = SubSeq(q, 1, limit) BY <2>2
    <3>2. 1 \in 1..(Len(q) + 1) /\ limit \in 0..Len(q) BY <1>1, <2>2
    <3> HIDE DEF t
    <3>3. t \in Seq(Recorded) /\ Len(t) = limit /\ \A i \in 1..limit : t[i] = q[i]
      BY <1>1, <3>1, <3>2
    <3> QED BY <1>1, <3>2, <3>3
  <2> QED BY <2>1, <2>2
<1> HIDE DEF t
<1>5. Window(r, k, t, after)
  <2>1. k + Len(t) <= Len(r.events) BY <1>1, <1>3, <1>4
  <2>2. \A i \in 1..Len(t) : t[i] = r.events[k + i] BY <1>1, <1>3, <1>4
  <2> QED BY <1>1, <1>4, <2>1, <2>2 DEF Window
<1> DEFINE next == IF t = <<>> THEN after ELSE t[Len(t)].sequence
           more == Len(q) > limit
           oldest == IF r.events = <<>> THEN 0 ELSE r.events[1].sequence
<1>6. b = [events |-> t, next |-> next, hasMore |-> more, oldest |-> oldest] BY <1>2
<1> HIDE DEF next, more, oldest
<1>8. b.events = t /\ b.next = next /\ b.oldest = oldest /\ b.hasMore = more
      /\ b = [events |-> b.events, next |-> b.next, hasMore |-> b.hasMore, oldest |-> b.oldest]
  BY <1>6
<1>9. t = <<>> => ~more BY <1>4 DEF more
<1> QED BY <1>4, <1>5, <1>8, <1>9 DEF next, oldest, NextOf, OldestOf

\* The shape every batch has, before and after it was shortened.
Shape(q, next, oldest, after) ==
  /\ \A i \in DOMAIN q : /\ q[i].sequence > IF i = 1 THEN after ELSE q[i - 1].sequence
                         /\ oldest # 0 /\ q[i].sequence >= oldest
  /\ next = NextOf(q, after)

\* Every window has it.
LEMMA WindowShape ==
  ASSUME NEW r \in Recorders, Ascending(r), NEW after \in Nat, NEW k, NEW q,
         Window(r, k, q, after),
         NEW oldest, oldest = OldestOf(r),
         NEW next, next = NextOf(q, after)
  PROVE  Shape(q, next, oldest, after)
<1>0. r.events \in Seq(Recorded) /\ Len(r.events) \in Nat /\ q \in Seq(Recorded)
      /\ Len(q) \in Nat /\ k \in Nat
      /\ DOMAIN q = 1..Len(q) /\ k + Len(q) <= Len(r.events) /\ r.sequence \in Nat
  BY DEF Recorders, Window
<1>1. \A i \in 1..Len(r.events) : r.events[i].sequence \in 1..r.sequence BY DEF Ascending
<1> SUFFICES ASSUME NEW i \in 1..Len(q)
             PROVE  /\ q[i].sequence > IF i = 1 THEN after ELSE q[i - 1].sequence
                    /\ oldest # 0 /\ q[i].sequence >= oldest
  BY <1>0 DEF Shape
<1>2. k + i \in 1..Len(r.events) /\ 1 \in 1..Len(r.events)
      /\ k + i \in (k + 1)..Len(r.events)
  BY <1>0
<1>3. q[i] = r.events[k + i] /\ r.events[k + i].sequence > after BY <1>2 DEF Window
<1>4. r.events # <<>> /\ oldest = r.events[1].sequence
  <2>1. Len(r.events) # 0 BY <1>0, <1>2
  <2>2. r.events # <<>> BY <2>1
  <2> QED BY <2>2 DEF OldestOf
<1>5. r.events[1].sequence \in 1..r.sequence /\ r.events[k + i].sequence \in 1..r.sequence
  BY <1>1, <1>2
<1>6. r.events[k + i].sequence >= r.events[1].sequence
  <2>1. CASE k + i = 1 BY <1>5, <2>1
  <2>2. CASE 1 < k + i
    <3>1. r.events[1].sequence < r.events[k + i].sequence BY <1>2, <2>2 DEF Ascending
    <3> QED BY <1>0, <1>5, <3>1
  <2> QED BY <1>0, <2>1, <2>2
<1>7. i # 1 => q[i].sequence > q[i - 1].sequence
  <2> SUFFICES ASSUME i # 1 PROVE q[i].sequence > q[i - 1].sequence OBVIOUS
  <2>1. i - 1 \in 1..Len(q) /\ k + (i - 1) \in 1..Len(r.events) /\ k + (i - 1) < k + i
    BY <1>0
  <2>2. q[i - 1] = r.events[k + (i - 1)] BY <2>1 DEF Window
  <2>3. r.events[k + (i - 1)].sequence < r.events[k + i].sequence
    <3>1. \A j, m \in 1..Len(r.events) : j < m => r.events[j].sequence < r.events[m].sequence
      BY DEF Ascending
    <3> QED BY <1>2, <2>1, <3>1
  <2>4. r.events[k + (i - 1)].sequence \in Nat /\ r.events[k + i].sequence \in Nat
    <3>1. \A j \in 1..Len(r.events) : r.events[j].sequence \in Nat BY <1>0, <1>1
    <3> QED BY <1>2, <2>1, <3>1
  <2> QED BY <1>3, <2>2, <2>3, <2>4
<1>8. oldest # 0 /\ q[i].sequence >= oldest BY <1>0, <1>3, <1>4, <1>5, <1>6
<1> QED BY <1>3, <1>7, <1>8

\* A shortened window is a window.
LEMMA Shortened ==
  ASSUME NEW r \in Recorders, NEW after \in Nat, NEW k, NEW q, Window(r, k, q, after),
         NEW n \in 0..Len(q)
  PROVE  Window(r, k, SubSeq(q, 1, n), after) /\ Len(SubSeq(q, 1, n)) = n
         /\ \A i \in 1..n : SubSeq(q, 1, n)[i] = q[i]
<1>0. q \in Seq(Recorded) /\ Len(q) \in Nat /\ k \in Nat /\ k + Len(q) <= Len(r.events)
      /\ Len(r.events) \in Nat
  BY DEF Window, Recorders
<1>1. 1 \in 1..(Len(q) + 1) /\ n \in 0..Len(q) BY <1>0
<1>2. /\ SubSeq(q, 1, n) \in Seq(Recorded) /\ Len(SubSeq(q, 1, n)) = n
      /\ \A i \in 1..n : SubSeq(q, 1, n)[i] = q[i]
  BY <1>0, <1>1
<1>3. k + n <= Len(r.events) BY <1>0
<1>4. \A i \in 1..Len(q) : q[i] = r.events[k + i] BY DEF Window
<1>5. \A i \in 1..n : q[i] = r.events[k + i]
  <2>1. \A i \in 1..n : i \in 1..Len(q) BY <1>0
  <2> QED BY <1>4, <2>1
<1> QED BY <1>2, <1>3, <1>5 DEF Window

\* A response fitted into the pipe's limit is a window of the same place.
LEMMA Fitted ==
  ASSUME NEW r \in Recorders, Ascending(r), NEW after \in Nat, NEW limit \in Nat \ {0},
         NEW b, b = Batch(r, after, limit), NEW n \in 0..Len(b.events),
         NEW f, f = fitTraceResponse(b, after, n)
  PROVE  /\ f.oldest = b.oldest /\ f.next = NextOf(f.events, after)
         /\ \E k : Window(r, k, f.events, after)
         /\ Len(f.events) = n
<1> DEFINE q == b.events
           s == SubSeq(q, 1, n)
           h == b.hasMore \/ n < Len(q)
           x == IF n = 0 THEN after ELSE q[n].sequence
<1>1. b = [events |-> b.events, next |-> b.next, hasMore |-> b.hasMore, oldest |-> b.oldest]
  BY BatchIs
<1>2. PICK k : Window(r, k, q, after) BY BatchIs
<1>3. b.next = NextOf(q, after) BY BatchIs
<1>4. Window(r, k, s, after) /\ Len(s) = n /\ \A i \in 1..n : s[i] = q[i] BY <1>2, Shortened
<1>5. f.events = s /\ f.hasMore = h /\ f.next = x /\ f.oldest = b.oldest
  <2> DEFINE be == b.events  bn == b.next  bh == b.hasMore  bo == b.oldest
  <2>1. b = [events |-> be, next |-> bn, hasMore |-> bh, oldest |-> bo] BY <1>1
  <2>2. f = [b EXCEPT !.events = SubSeq(@, 1, n), !.hasMore = @ \/ n < Len(b.events),
                      !.next = IF n = 0 THEN after ELSE b.events[n].sequence]
    BY DEF fitTraceResponse
  <2>3. f = [events |-> s, next |-> x, hasMore |-> h, oldest |-> b.oldest] BY <2>1, <2>2
  <2> HIDE DEF s, x, h
  <2> QED BY <2>3
<1>6. q \in Seq(Recorded) /\ s \in Seq(Recorded) BY <1>2, <1>4 DEF Window
<1> HIDE DEF s
<1>7. CASE n = 0
  <2>1. s = <<>> BY <1>4, <1>6, <1>7
  <2>2. x = NextOf(s, after) BY <1>7, <2>1 DEF NextOf
  <2> HIDE DEF q, x, h
  <2> QED BY <1>4, <1>5, <2>1, <2>2
<1>8. CASE n # 0
  <2>1. s # <<>> /\ n \in 1..n BY <1>4, <1>8
  <2>2. x = NextOf(s, after) BY <1>4, <1>8, <2>1 DEF NextOf
  <2> HIDE DEF q, x, h
  <2> QED BY <1>4, <1>5, <2>1, <2>2
<1> QED BY <1>7, <1>8

\* So every batch passes every check.
LEMMA Withheld ==
  ASSUME LossInv PROVE NothingWithheld
<1> SUFFICES ASSUME NEW after \in 0..MaxSequence, NEW limit \in 1..(BatchLimit + 1)
             PROVE  /\ validTraceBatch(Batch(rec, after, limit), after, limit)
                    /\ \A n \in 1..Len(Batch(rec, after, limit).events) :
                         decodeTraceMessage(fitTraceResponse(Batch(rec, after, limit), after, n), after)
  BY DEF NothingWithheld
<1> DEFINE b == Batch(rec, after, limit)
<1>0. after \in Nat /\ limit \in Nat \ {0} BY ConfigAssumption
<1>1. CASE rec = NoRecorder
  <2>1. b.events = <<>> /\ b.next = after /\ b.hasMore = (0 > limit)
    BY <1>0, <1>1 DEF Batch
  <2>2. Len(b.events) = 0 /\ ~(0 > limit) BY <1>0, <2>1
  <2>3. ~b.hasMore BY <2>1, <2>2
  <2>4. validTraceBatch(b, after, limit) BY <1>0, <2>1, <2>2, <2>3 DEF validTraceBatch
  <2> QED BY <2>2, <2>4
<1>2. CASE rec # NoRecorder
  <2>0. rec \in Recorders /\ Ascending(rec) BY <1>2 DEF LossInv, Sound
  <2>1. /\ \E k : Window(rec, k, b.events, after)
        /\ Len(b.events) <= limit
        /\ b.next = NextOf(b.events, after)
        /\ b.events = <<>> => ~b.hasMore
        /\ b.oldest = OldestOf(rec)
    <3>1. b = Batch(rec, after, limit) OBVIOUS
    <3> HIDE DEF b
    <3>2. \E k : Window(rec, k, b.events, after) BY <1>0, <2>0, <3>1, BatchIs
    <3>3. Len(b.events) <= limit BY <1>0, <2>0, <3>1, BatchIs
    <3>4. b.next = NextOf(b.events, after) BY <1>0, <2>0, <3>1, BatchIs
    <3>5. b.events = <<>> => ~b.hasMore BY <1>0, <2>0, <3>1, BatchIs
    <3>6. b.oldest = OldestOf(rec) BY <1>0, <2>0, <3>1, BatchIs
    <3> QED BY <3>2, <3>3, <3>4, <3>5, <3>6
  <2>2. validTraceBatch(b, after, limit)
    <3> HIDE DEF b
    <3>1. Shape(b.events, b.next, b.oldest, after) BY <1>0, <2>0, <2>1, WindowShape
    <3> QED BY <2>1, <3>1 DEF Shape, validTraceBatch, NextOf
  <2>3. ASSUME NEW n \in 1..Len(b.events)
        PROVE decodeTraceMessage(fitTraceResponse(b, after, n), after)
    <3> DEFINE f == fitTraceResponse(b, after, n)
    <3>1. n # 0 /\ n \in 0..Len(b.events)
      <4>1. Len(b.events) \in Nat BY <2>1 DEF Window
      <4> HIDE DEF b
      <4> QED BY <4>1
    <3>2. /\ f.oldest = b.oldest /\ f.next = NextOf(f.events, after)
          /\ \E k : Window(rec, k, f.events, after)
          /\ Len(f.events) = n
      BY <1>0, <2>0, <3>1, Fitted
    <3>3. f.events # <<>> BY <3>1, <3>2
    <3> HIDE DEF f, b
    <3>4. Shape(f.events, f.next, f.oldest, after) BY <1>0, <2>0, <2>1, <3>2, WindowShape
    <3>5. f.next = f.events[Len(f.events)].sequence BY <3>2, <3>3 DEF NextOf
    <3>6. \A i \in DOMAIN f.events :
            /\ f.events[i].sequence > IF i = 1 THEN after ELSE f.events[i - 1].sequence
            /\ f.events[i].sequence >= f.oldest
      BY <3>4 DEF Shape
    <3>7. decodeTraceMessage(f, after) BY <3>3, <3>5, <3>6 DEF decodeTraceMessage
    <3> QED BY <3>7 DEF f
  <2> QED BY <2>2, <2>3
<1> QED BY <1>1, <1>2

\* No check between the recorder and the client refuses a batch, in any lease,
\* wherever the reader stands and however short the response had to be.
THEOREM TraceWithheld == TraceSpec => []NothingWithheld
<1>1. TraceInit => LossInv BY DEF TraceInit, LossInv, LossIsReported
<1>2. LossInv /\ [TraceNext]_traceVars => LossInv' BY LossStep
<1>3. LossInv => NothingWithheld BY Withheld
<1> QED BY <1>1, <1>2, <1>3, PTL DEF TraceSpec

-----------------------------------------------------------------------------
(* TraceIsComplete *)

Seen == [lease : Nat, sequence : Nat]

\* While there is a recorder: the cursor is behind it, or still where the lease
\* found it; the history has all that is in the buffer, and what it has besides
\* was dropped.
Tracked ==
  /\ cursor <= rec.sequence \/ cursor = start
  /\ \A i \in 1..Len(rec.events) : [lease |-> lease, sequence |-> rec.events[i].sequence] \in history
  /\ \A n \in history : n.lease = lease => /\ n.sequence <= rec.sequence
                                           /\ Holds(rec, n.sequence) \/ Dropped(rec, n.sequence)

TraceInv ==
  /\ LossInv /\ cursor \in Nat /\ start \in Nat /\ shown \in Seq(Seen)
  /\ history \subseteq Seen
  /\ rec # NoRecorder => Tracked
  /\ NothingSkipped

\* A function on 1..n is a sequence.
LEMMA Mapped ==
  ASSUME NEW S, NEW n \in Nat, NEW q, q = [i \in 1..n |-> q[i]], \A i \in 1..n : q[i] \in S
  PROVE  q \in Seq(S) /\ Len(q) = n
OBVIOUS

\* The end of a sequence is a sequence.
LEMMA NewestType ==
  ASSUME NEW S, NEW n \in Nat \ {0}, NEW s \in Seq(S)
  PROVE  Newest(n, s) \in Seq(S) /\ (Len(s) <= n => Newest(n, s) = s)
<1>1. CASE Len(s) <= n BY <1>1 DEF Newest
<1>2. CASE ~(Len(s) <= n)
  <2> DEFINE m == Len(s) - n + 1
  <2>1. m \in 1..(Len(s) + 1) /\ Len(s) \in (m - 1)..Len(s) BY <1>2
  <2>2. Newest(n, s) = SubSeq(s, m, Len(s)) BY <1>2 DEF Newest
  <2> HIDE DEF m
  <2> QED BY <1>2, <2>1, <2>2
<1> QED BY <1>1, <1>2

\* Two sequences one after the other.
LEMMA Joined ==
  ASSUME NEW S, NEW s \in Seq(S), NEW t \in Seq(S)
  PROVE  /\ s \o t \in Seq(S) /\ Len(s \o t) = Len(s) + Len(t)
         /\ DOMAIN (s \o t) = 1..Len(s \o t)
         /\ \A i \in 1..Len(s) : (s \o t)[i] = s[i]
         /\ \A i \in 1..Len(t) : (s \o t)[Len(s) + i] = t[i]
OBVIOUS

\* What a batch adds to the timeline.
LEMMA Showing ==
  ASSUME lease \in Nat, shown \in Seq(Seen), NEW b,
         b.events \in Seq(Recorded), show(b)
  PROVE  /\ shown' \in Seq(Seen)
         /\ ~gap' => /\ ~gap /\ ~(b.oldest > 0 /\ b.oldest > cursor + 1)
                     /\ Range(shown) \subseteq Range(shown')
                     /\ \A i \in 1..Len(b.events) : [lease |-> lease, sequence |-> b.events[i].sequence] \in Range(shown')
<1> DEFINE q == b.events
           seen == [i \in DOMAIN q |-> [lease |-> lease, sequence |-> q[i].sequence]]
           more == shown \o seen
<1>1. Len(q) \in Nat /\ DOMAIN q = 1..Len(q) /\ \A i \in 1..Len(q) : q[i].sequence \in Nat
  <2>1. \A i \in 1..Len(q) : q[i] \in Recorded OBVIOUS
  <2> QED BY <2>1 DEF Recorded
<1>2. /\ seen \in Seq(Seen) /\ Len(seen) = Len(q)
      /\ \A i \in 1..Len(q) : seen[i] = [lease |-> lease, sequence |-> q[i].sequence]
  <2>1. seen = [i \in 1..Len(q) |-> seen[i]] BY <1>1
  <2>2. \A i \in 1..Len(q) : seen[i] = [lease |-> lease, sequence |-> q[i].sequence] BY <1>1
  <2>3. \A i \in 1..Len(q) : seen[i] \in Seen BY <1>1, <2>2 DEF Seen
  <2> HIDE DEF seen, q
  <2> QED BY <1>1, <2>1, <2>2, <2>3, Mapped
<1>3. /\ shown' = Newest(MaxTimeline, more)
      /\ gap' = (gap \/ (b.oldest > 0 /\ b.oldest > cursor + 1) \/ Len(more) > MaxTimeline)
  BY DEF show
<1> HIDE DEF seen, q
<1>4. /\ more \in Seq(Seen) /\ Len(more) = Len(shown) + Len(q) /\ DOMAIN more = 1..Len(more)
      /\ \A i \in 1..Len(shown) : more[i] = shown[i]
      /\ \A i \in 1..Len(q) : more[Len(shown) + i] = seen[i]
  <2>1. more = shown \o seen OBVIOUS
  <2> HIDE DEF more
  <2>2. more \in Seq(Seen) /\ Len(more) = Len(shown) + Len(seen)
        /\ DOMAIN more = 1..Len(more)
    BY <1>2, <2>1, Joined
  <2>3. \A i \in 1..Len(shown) : more[i] = shown[i] BY <1>2, <2>1, Joined
  <2>4. \A i \in 1..Len(seen) : more[Len(shown) + i] = seen[i] BY <1>2, <2>1, Joined
  <2> QED BY <1>2, <2>2, <2>3, <2>4
<1> HIDE DEF more
<1>5. MaxTimeline \in Nat \ {0} BY ConfigAssumption
<1>6. shown' \in Seq(Seen) BY <1>3, <1>4, <1>5, NewestType
<1>7. ~gap' => shown' = more
  <2>1. ~gap' => ~(Len(more) > MaxTimeline) BY <1>3
  <2>2. ~(Len(more) > MaxTimeline) => Len(more) <= MaxTimeline BY <1>4, <1>5
  <2> QED BY <1>3, <1>4, <1>5, <2>1, <2>2, NewestType
<1>8. Range(shown) \subseteq Range(more)
  <2> SUFFICES ASSUME NEW i \in DOMAIN shown PROVE shown[i] \in Range(more) BY DEF Range
  <2>1. i \in 1..Len(shown) /\ i \in DOMAIN more BY <1>1, <1>4
  <2> QED BY <1>4, <2>1 DEF Range
<1>9. \A i \in 1..Len(q) : seen[i] \in Range(more)
  <2> SUFFICES ASSUME NEW i \in 1..Len(q) PROVE seen[i] \in Range(more) OBVIOUS
  <2>1. Len(shown) + i \in DOMAIN more BY <1>1, <1>4
  <2> QED BY <1>4, <2>1 DEF Range
<1>10. ~gap' => ~gap /\ ~(b.oldest > 0 /\ b.oldest > cursor + 1) BY <1>3
<1> QED BY <1>2, <1>6, <1>7, <1>8, <1>9, <1>10 DEF q

\* What arrives at the client is a window of the buffer that begins at the cursor.
LEMMA Arriving ==
  ASSUME LossInv, cursor \in Nat, NEW b \in Answers(Batch(rec, cursor, BatchLimit)),
         rec # NoRecorder
  PROVE  /\ b.oldest = OldestOf(rec) /\ b.next = NextOf(b.events, cursor)
         /\ \E k : Window(rec, k, b.events, cursor)
<1> DEFINE B == Batch(rec, cursor, BatchLimit)
<1>0. rec \in Recorders /\ Ascending(rec) /\ BatchLimit \in Nat \ {0}
  BY ConfigAssumption DEF LossInv, Sound
<1>1. (\E k : Window(rec, k, B.events, cursor)) /\ B.oldest = OldestOf(rec)
  <2>1. B = Batch(rec, cursor, BatchLimit) OBVIOUS
  <2> HIDE DEF B
  <2>2. \E k : Window(rec, k, B.events, cursor) BY <1>0, <2>1, BatchIs
  <2>3. B.oldest = OldestOf(rec) BY <1>0, <2>1, BatchIs
  <2> QED BY <2>2, <2>3
<1>3. PICK n \in 0..Len(B.events) : b = fitTraceResponse(B, cursor, n) BY DEF Answers
<1>5. B = Batch(rec, cursor, BatchLimit) OBVIOUS
<1> HIDE DEF B
<1> QED BY <1>0, <1>1, <1>3, <1>5, Fitted

\* With no recorder the client is told nothing, and loses nothing.
LEMMA NobodyAnswers ==
  ASSUME cursor \in Nat, NEW b \in Answers(Batch(rec, cursor, BatchLimit)), rec = NoRecorder
  PROVE  b.events = <<>> /\ b.next = cursor /\ b.oldest = 0
<1> DEFINE B == Batch(rec, cursor, BatchLimit)
           h == 0 > BatchLimit
<1>1. B = [events |-> <<>>, next |-> cursor, hasMore |-> h, oldest |-> 0]
  BY ConfigAssumption DEF Batch
<1>2. b = fitTraceResponse(B, cursor, 0)
  <2>1. B.events = <<>> BY <1>1
  <2>2. 0..Len(B.events) = {0} BY <2>1
  <2> QED BY <2>2 DEF Answers
<1>3. b = [B EXCEPT !.events = SubSeq(@, 1, 0), !.hasMore = @ \/ 0 < Len(B.events), !.next = cursor]
  BY <1>2 DEF fitTraceResponse
<1>4. SubSeq(<<>>, 1, 0) = <<>> OBVIOUS
<1> HIDE DEF h
<1> QED BY <1>1, <1>3, <1>4

\* A poll: what the cursor passes is shown, or was dropped from the buffer before and
\* leaves the gap mark.
LEMMA RefreshStep ==
  ASSUME TraceInv, RefreshTrace PROVE TraceInv'
<1>0. LossInv /\ lease \in Nat /\ cursor \in Nat /\ shown \in Seq(Seen)
      /\ history \subseteq Seen
  BY DEF TraceInv, LossInv
<1>1. PICK b \in Answers(Batch(rec, cursor, BatchLimit)) : show(b) BY DEF RefreshTrace
<1>2. UNCHANGED <<rec, disk, generation, lease, faults, start, history, unsaved, reported>>
  BY DEF RefreshTrace, ghosts
<1>3. LossInv' BY <1>0, <1>2 DEF LossInv, LossIsReported, Sound, Flagged
<1>4. cursor' = IF b.next > cursor THEN b.next ELSE cursor BY <1>1 DEF show
<1>5. CASE rec = NoRecorder
  <2>1. b.events = <<>> /\ b.next = cursor /\ b.oldest = 0 BY <1>0, <1>5, NobodyAnswers
  <2>2. cursor' = cursor BY <1>4, <2>1
  <2>3. b.events \in Seq(Recorded) BY <2>1
  <2>4. shown' \in Seq(Seen) /\ (~gap' => ~gap /\ Range(shown) \subseteq Range(shown'))
    BY <1>0, <1>1, <2>3, Showing
  <2>5. NothingSkipped' BY <1>2, <2>2, <2>4 DEF NothingSkipped, TraceInv
  <2> QED BY <1>2, <1>3, <1>5, <2>2, <2>4, <2>5 DEF TraceInv
<1>6. CASE rec # NoRecorder
  <2>0. rec \in Recorders /\ Ascending(rec) /\ Tracked /\ rec.sequence \in Nat
    BY <1>6 DEF TraceInv, LossInv, Sound, Recorders
  <2>1. b.oldest = OldestOf(rec) /\ b.next = NextOf(b.events, cursor)
    BY <1>0, <1>6, Arriving
  <2>2. PICK k : Window(rec, k, b.events, cursor) BY <1>0, <1>6, Arriving
  <2>3. /\ b.events \in Seq(Recorded) /\ k \in Nat /\ Len(b.events) \in Nat
        /\ Len(rec.events) \in Nat
        /\ k + Len(b.events) <= Len(rec.events)
    BY <2>0, <2>2 DEF Window, Recorders
  <2>4. \A i \in 1..Len(rec.events) : rec.events[i].sequence \in 1..rec.sequence
    BY <2>0 DEF Ascending
  <2>5. b.events # <<>> => /\ Len(b.events) >= 1 /\ k + Len(b.events) \in 1..Len(rec.events)
                           /\ b.next = rec.events[k + Len(b.events)].sequence
    <3> SUFFICES ASSUME b.events # <<>>
                 PROVE  /\ Len(b.events) >= 1 /\ k + Len(b.events) \in 1..Len(rec.events)
                        /\ b.next = rec.events[k + Len(b.events)].sequence
      OBVIOUS
    <3>1. Len(b.events) >= 1 BY <2>3
    <3>2. Len(b.events) \in 1..Len(b.events) /\ k + Len(b.events) \in 1..Len(rec.events)
      BY <2>3, <3>1
    <3>3. b.events[Len(b.events)] = rec.events[k + Len(b.events)] BY <2>2, <3>2 DEF Window
    <3> QED BY <2>1, <3>1, <3>2, <3>3 DEF NextOf
  <2>6. b.next \in Nat /\ (IF b.events = <<>> THEN b.next = cursor ELSE b.next <= rec.sequence)
    <3>1. CASE b.events = <<>> BY <1>0, <2>0, <2>1, <3>1 DEF NextOf, Tracked
    <3>2. CASE b.events # <<>> BY <2>0, <2>4, <2>5, <3>2
    <3> QED BY <3>1, <3>2
  <2>7. cursor' \in Nat /\ (cursor' <= rec.sequence \/ cursor' = start)
        /\ (cursor' # cursor => cursor' = b.next /\ b.events # <<>>)
    BY <1>0, <1>4, <2>0, <2>6 DEF Tracked
  <2>8. /\ shown' \in Seq(Seen)
        /\ ~gap' => /\ ~gap /\ ~(b.oldest > 0 /\ b.oldest > cursor + 1)
                    /\ Range(shown) \subseteq Range(shown')
                    /\ \A i \in 1..Len(b.events) : [lease |-> lease, sequence |-> b.events[i].sequence] \in Range(shown')
    BY <1>0, <1>1, <2>3, Showing
  <2>9. NothingSkipped'
    <3> SUFFICES ASSUME ~gap', NEW n \in history, n.lease = lease, start < n.sequence,
                        n.sequence <= cursor'
                 PROVE  n \in Range(shown')
      BY <1>2 DEF NothingSkipped
    <3>0. n \in Seen /\ n.sequence \in Nat BY <1>0 DEF Seen
    <3>1. CASE n.sequence <= cursor BY <2>8, <3>1 DEF TraceInv, NothingSkipped
    <3>2. CASE ~(n.sequence <= cursor)
      <4>1. cursor' = b.next /\ b.events # <<>> BY <1>0, <2>7, <3>2
      <4>2. 1 \in 1..Len(rec.events) BY <2>3, <2>5, <4>1
      <4>3. b.oldest = rec.events[1].sequence /\ b.oldest \in 1..rec.sequence
        <5>1. rec.events # <<>> BY <2>3, <4>2
        <5> QED BY <2>1, <2>4, <4>2, <5>1 DEF OldestOf
      <4>4. ~(b.oldest > cursor + 1) BY <1>0, <2>0, <2>8, <4>3
      <4>5. ~Dropped(rec, n.sequence)
        <5> SUFFICES ASSUME Dropped(rec, n.sequence) PROVE FALSE OBVIOUS
        <5>1. b.oldest > n.sequence BY <4>2, <4>3 DEF Dropped
        <5> QED BY <1>0, <2>0, <3>0, <3>2, <4>3, <4>4, <5>1
      <4>6. PICK j \in 1..Len(rec.events) : rec.events[j].sequence = n.sequence
        BY <2>0, <4>5 DEF Tracked, Holds
      <4>7. j > k
        <5> SUFFICES ASSUME ~(j > k) PROVE FALSE OBVIOUS
        <5>1. j \in 1..k BY <2>3
        <5>2. rec.events[j].sequence <= cursor BY <2>2, <5>1 DEF Window
        <5> QED BY <3>2, <4>6, <5>2
      <4>8. j <= k + Len(b.events)
        <5> DEFINE m == k + Len(b.events)
        <5> SUFFICES ASSUME ~(j <= m) PROVE FALSE OBVIOUS
        <5>1. m \in 1..Len(rec.events) /\ m < j BY <2>3, <2>5, <4>1
        <5>2. rec.events[m].sequence < rec.events[j].sequence
          <6>1. \A p, q \in 1..Len(rec.events) : p < q => rec.events[p].sequence < rec.events[q].sequence
            BY <2>0 DEF Ascending
          <6> HIDE DEF m
          <6> QED BY <5>1, <6>1
        <5>3. rec.events[m].sequence = b.next BY <2>5, <4>1
        <5> HIDE DEF m
        <5> QED BY <2>6, <3>0, <4>1, <4>6, <5>2, <5>3
      <4>9. j - k \in 1..Len(b.events) /\ k + (j - k) = j BY <2>3, <4>7, <4>8
      <4>10. b.events[j - k] = rec.events[j] BY <2>2, <4>9 DEF Window
      <4>11. [lease |-> lease, sequence |-> b.events[j - k].sequence] \in Range(shown')
        BY <2>8, <4>9
      <4>12. n = [lease |-> lease, sequence |-> n.sequence] BY <3>0 DEF Seen
      <4> QED BY <4>6, <4>10, <4>11, <4>12
    <3> QED BY <3>1, <3>2
  <2>10. Tracked' BY <1>2, <2>0, <2>7 DEF Tracked, Holds, Dropped
  <2> QED BY <1>2, <1>3, <2>7, <2>8, <2>9, <2>10 DEF TraceInv
<1> QED BY <1>5, <1>6

\* Record keeps it: what it drops is older than all that stays.
LEMMA RecordTracked ==
  ASSUME TraceInv, NEW gen \in Nat,
         NEW kind \in Kinds \cup {"invalid"}, NEW fault,
         Record(gen, kind, fault)
  PROVE  TraceInv'
<1>0. /\ LossInv /\ rec # NoRecorder /\ Tracked /\ cursor \in Nat /\ lease \in Nat
      /\ start \in Nat /\ UNCHANGED start
  BY DEF TraceInv, Record, LossInv
<1>1. /\ LossInv' /\ Sound([rec |-> rec, disk |-> disk]) /\ Later(rec, rec')
      /\ rec' \in Recorders /\ Ascending(rec')
      /\ history' = history \cup {[lease |-> lease, sequence |-> rec'.events[i].sequence] : i \in DOMAIN rec'.events}
      /\ UNCHANGED <<generation, lease, cursor, shown, gap>>
  BY <1>0, RecordStep
<1>2. rec.sequence \in Nat /\ rec'.sequence \in Nat /\ rec.sequence <= rec'.sequence
      /\ DOMAIN rec'.events = 1..Len(rec'.events) /\ rec'.events \in Seq(Recorded)
  BY <1>1 DEF Sound, Recorders, Later
<1>3. \A i \in 1..Len(rec'.events) : rec'.events[i].sequence \in Nat
  <2>1. \A i \in 1..Len(rec'.events) : rec'.events[i] \in Recorded BY <1>2
  <2> QED BY <2>1 DEF Recorded
<1>4. Ascending(rec') BY <1>1
<1>5. ASSUME NEW n \in history' PROVE n \in history \/ \E i \in 1..Len(rec'.events) :
                                          n = [lease |-> lease, sequence |-> rec'.events[i].sequence]
  BY <1>1, <1>2
<1>6. history' \subseteq Seen
  <2>1. \A i \in 1..Len(rec'.events) : [lease |-> lease, sequence |-> rec'.events[i].sequence] \in Seen
    BY <1>0, <1>3 DEF Seen
  <2> QED BY <1>5, <2>1 DEF TraceInv
<1>7. NothingSkipped'
  <2> SUFFICES ASSUME ~gap, NEW n \in history', n.lease = lease, start < n.sequence,
                      n.sequence <= cursor
               PROVE  n \in Range(shown)
    BY <1>0, <1>1 DEF NothingSkipped
  <2>1. CASE n \in history BY <2>1 DEF TraceInv, NothingSkipped
  <2>2. CASE n \notin history
    <3>1. PICK i \in 1..Len(rec'.events) : n = [lease |-> lease, sequence |-> rec'.events[i].sequence]
      BY <1>5, <2>2
    <3>2. CASE rec'.events[i].sequence > rec.sequence
      BY <1>0, <1>2, <1>3, <3>1, <3>2 DEF Tracked
    <3>3. CASE Holds(rec, rec'.events[i].sequence)
      BY <1>0, <2>2, <3>1, <3>3 DEF Holds, Tracked
    <3> QED BY <1>1, <3>2, <3>3 DEF Later
  <2> QED BY <2>1, <2>2
<1>8. Tracked'
  <2>1. cursor' <= rec'.sequence \/ cursor' = start' BY <1>0, <1>1, <1>2 DEF Tracked
  <2>2. \A i \in 1..Len(rec'.events) : [lease |-> lease, sequence |-> rec'.events[i].sequence] \in history'
    BY <1>1, <1>2
  <2>3. ASSUME NEW n \in history', n.lease = lease
        PROVE  n.sequence <= rec'.sequence
               /\ (Holds(rec', n.sequence) \/ Dropped(rec', n.sequence))
    <3>1. CASE n \in history
      <4>1. n.sequence \in Nat BY <1>6 DEF Seen
      <4>2. n.sequence <= rec.sequence
            /\ (Holds(rec, n.sequence) \/ Dropped(rec, n.sequence))
        BY <1>0, <2>3, <3>1 DEF Tracked
      <4>3. ~(n.sequence > rec.sequence) BY <1>2, <4>1, <4>2
      <4>4. Holds(rec', n.sequence) \/ Dropped(rec', n.sequence)
        BY <1>1, <4>1, <4>2, <4>3 DEF Later
      <4> QED BY <1>2, <4>1, <4>2, <4>4
    <3>2. CASE n \notin history
      <4>1. PICK i \in 1..Len(rec'.events) : n = [lease |-> lease, sequence |-> rec'.events[i].sequence]
        BY <1>5, <3>2
      <4>2. n.sequence = rec'.events[i].sequence BY <4>1
      <4>3. Holds(rec', n.sequence) BY <4>2 DEF Holds
      <4>4. rec'.events[i].sequence \in 1..rec'.sequence BY <1>4 DEF Ascending
      <4> QED BY <1>2, <4>2, <4>3, <4>4
    <3> QED BY <3>1, <3>2
  <2> QED BY <1>1, <2>1, <2>2, <2>3 DEF Tracked, Holds, Dropped
<1> QED BY <1>0, <1>1, <1>6, <1>7, <1>8 DEF TraceInv

\* Every step keeps it; a new lease begins with an empty buffer and history.
LEMMA TraceStep ==
  ASSUME TraceInv, [TraceNext]_traceVars PROVE TraceInv'
<1>0. LossInv /\ generation \in Nat /\ lease \in Nat /\ LossInv'
  BY LossStep DEF TraceInv, LossInv
<1>1. CASE EnableTrace
  <2>1. rec' = New /\ start' = cursor /\ history' = {} /\ UNCHANGED <<cursor, shown, gap>>
    BY <1>1 DEF EnableTrace
  <2>2. Tracked' BY <2>1, NewRecorder DEF Tracked
  <2>3. NothingSkipped' BY <2>1 DEF NothingSkipped
  <2> QED BY <1>0, <2>1, <2>2, <2>3 DEF TraceInv
<1>2. CASE CloseRecorder BY <1>0, <1>2 DEF CloseRecorder, TraceInv, NothingSkipped, ghosts
<1>3. CASE Connect
  BY <1>0, <1>3 DEF Connect, TraceInv, NothingSkipped, Tracked, Holds, Dropped, ghosts
<1>4. CASE RefreshTrace BY <1>4, RefreshStep
<1>5. ASSUME NEW gen \in Nat, NEW kind \in Kinds \cup {"invalid"},
    NEW fault \in FileFaults, Record(gen, kind, fault)
      PROVE  TraceInv'
  BY <1>5, RecordTracked
<1>6. CASE UNCHANGED traceVars
  BY <1>0, <1>6 DEF traceVars, TraceInv, NothingSkipped, Tracked, Holds, Dropped, ghosts
<1> QED BY <1>0, <1>1, <1>2, <1>3, <1>4, <1>5, <1>6, NextCases

\* In every lease: an event that the client's cursor has passed since the lease
\* began was shown or there is a gap mark, and no check refuses a batch.
THEOREM TraceComplete == TraceSpec => []TraceIsComplete
<1>1. TraceInit => TraceInv BY DEF TraceInit, TraceInv, LossInv, LossIsReported, NothingSkipped
<1>2. TraceInv /\ [TraceNext]_traceVars => TraceInv' BY TraceStep
<1>3. TraceInv => TraceIsComplete BY Withheld DEF TraceInv, TraceIsComplete
<1> QED BY <1>1, <1>2, <1>3, PTL DEF TraceSpec

=============================================================================
