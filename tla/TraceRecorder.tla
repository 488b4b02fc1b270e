---------------------------- MODULE TraceRecorder ----------------------------
(***************************************************************************)
(* internal/traceevent/recorder.go with its reader: the diagnostic events  *)
(* of the service, the ring buffer the pipe serves them from, the log      *)
(* files, and the Windows client's trace poll.  Each method holds the      *)
(* recorder's mutex, so each is a step; any file operation may fail.  The  *)
(* gate makes a new recorder for each lease (DiagnosticGate).              *)
(***************************************************************************)
EXTENDS Integers, SequencesExt

CONSTANTS
  MemoryCapacity, MaxFileBytes, RetainFiles,  \* RecorderConfig; sizes in short events
  BatchLimit,      \* traceBatchLimit of the client
  MaxTimeline,     \* maxTimelineEvents of the client
  MaxSequence,     \* bound on events of one lease
  MaxLeases,       \* bound on leases
  MaxGeneration,   \* bound on connections
  MaxFaults        \* bound on failing file operations

ASSUME ConfigAssumption ==
  /\ MemoryCapacity \in Nat \ {0} /\ MaxFileBytes \in Nat \ {0} /\ RetainFiles \in Nat \ {0}
  /\ BatchLimit \in Nat \ {0} /\ MaxTimeline \in Nat \ {0} /\ MaxSequence \in Nat
  /\ MaxLeases \in Nat /\ MaxGeneration \in Nat /\ MaxFaults \in Nat

VARIABLES
  rec,         \* the recorder, or NoRecorder
  disk,        \* the trace files, oldest first
  generation,  \* the controller's
  lease, faults,
  cursor, shown, gap,  \* ViewModel: traceCursor, traceEvents, traceGap
  start,       \* where the client's cursor stood when the lease began (ghost)
  history,     \* every event of this lease that was in the ring buffer (ghost)
  unsaved,     \* did an event of this lease miss the log file? (ghost)
  reported     \* has an event of this lease said so? (ghost)

ghosts == <<start, history, unsaved, reported>>
traceVars == <<rec, disk, generation, lease, faults, cursor, shown, gap, ghosts>>

Kinds      == {"started", "other", "core", "degraded", "truncated"}
Events     == [sequence : 1..MaxSequence, generation : 0..MaxGeneration, kind : Kinds]
Numbers    == [lease : 1..MaxLeases, sequence : 1..MaxSequence]
NoRecorder == [sequence |-> -1]
New        == [sequence |-> 0, events |-> <<>>, file |-> FALSE, fileGeneration |-> 0,
               fileBytes |-> 0, fileTruncated |-> FALSE, diskDegraded |-> FALSE]

\* A line of the core's output is long, the others are short.
Size(kind) == IF kind = "core" THEN 2 ELSE 1

TraceTypeOK ==
  /\ rec = NoRecorder \/ /\ rec.sequence \in 0..MaxSequence /\ rec.events \in Seq(Events)
                         /\ Len(rec.events) <= MemoryCapacity
                         /\ rec.fileGeneration \in 0..MaxGeneration /\ rec.fileBytes \in 0..MaxFileBytes
                         /\ {rec.file, rec.fileTruncated, rec.diskDegraded} \subseteq BOOLEAN
  /\ disk \in Seq([lease : 1..MaxLeases, generation : 0..MaxGeneration, bytes : 0..MaxFileBytes,
                   last : 0..MaxSequence])
  /\ generation \in 0..MaxGeneration /\ lease \in 0..MaxLeases /\ faults \in 0..MaxFaults
  /\ {cursor, start} \subseteq 0..MaxSequence /\ shown \in Seq(Numbers) /\ Len(shown) <= MaxTimeline
  /\ history \subseteq Numbers /\ {gap, unsaved, reported} \subseteq BOOLEAN

TraceInit ==
  /\ rec = NoRecorder /\ disk = <<>> /\ generation = 0 /\ lease = 0 /\ faults = 0
  /\ cursor = 0 /\ shown = <<>> /\ gap = FALSE
  /\ start = 0 /\ history = {} /\ unsaved = FALSE /\ reported = FALSE

-----------------------------------------------------------------------------
(* The recorder: x is [rec, disk]; fault names the file operation that fails *)

Newest(n, s) == IF Len(s) <= n THEN s ELSE SubSeq(s, Len(s) - n + 1, Len(s))

prepareLocked(r, gen, kind) == [sequence |-> r.sequence + 1, generation |-> gen, kind |-> kind]

\* The oldest event makes room.
appendMemoryLocked(r, e) ==
  [r EXCEPT !.sequence = e.sequence,
            !.events = IF Len(@) = MemoryCapacity THEN Append(Tail(@), e) ELSE Append(@, e)]

appendLoggingFailureLocked(r, gen) ==
  IF r.diskDegraded THEN r
  ELSE [appendMemoryLocked(r, prepareLocked(r, gen, "degraded")) EXCEPT !.diskDegraded = TRUE]

\* A new file for the generation; the flags of the old one are reset before the
\* file is created.  pruneLocked keeps the newest files.
openGenerationLocked(x, gen, fault) ==
  LET reset == [x.rec EXCEPT !.file = FALSE, !.fileGeneration = gen, !.fileBytes = 0,
                             !.fileTruncated = FALSE, !.diskDegraded = FALSE]
      file  == [lease |-> lease, generation |-> gen, bytes |-> 0, last |-> 0]
      more  == Append(x.disk, file) IN
  CASE fault = "close" /\ x.rec.file -> [rec |-> [x.rec EXCEPT !.file = FALSE], disk |-> x.disk, err |-> TRUE]
    [] fault = "open"  -> [rec |-> reset, disk |-> x.disk, err |-> TRUE]
    [] fault = "prune" -> [rec |-> [reset EXCEPT !.file = TRUE], disk |-> more, err |-> TRUE]
    [] OTHER -> [rec |-> [reset EXCEPT !.file = TRUE], disk |-> Newest(RetainFiles, more), err |-> FALSE]

\* One line at the end of the newest file.
written(x, e) ==
  [rec  |-> [x.rec EXCEPT !.fileBytes = @ + Size(e.kind)],
   disk |-> [x.disk EXCEPT ![Len(x.disk)].last = e.sequence, ![Len(x.disk)].bytes = @ + Size(e.kind)]]

\* At the size limit: a last event says so, on disk if it still fits.
truncate(x, gen, fault) ==
  LET e    == prepareLocked(x.rec, gen, "truncated")
      full == [x EXCEPT !.rec = [appendMemoryLocked(@, e) EXCEPT !.fileTruncated = TRUE]] IN
  IF fault # "write" /\ x.rec.fileBytes + Size("truncated") <= MaxFileBytes
  THEN written(full, e) ELSE full

persistSilently(x, e, fault) ==
  LET y == IF x.rec.file /\ x.rec.fileGeneration = e.generation THEN [rec |-> x.rec, disk |-> x.disk]
           ELSE [n \in {"rec", "disk"} |-> openGenerationLocked(x, e.generation, fault)[n]] IN
  IF ~y.rec.file \/ y.rec.fileTruncated THEN y
  ELSE IF y.rec.fileBytes + Size(e.kind) > MaxFileBytes THEN truncate(y, e.generation, fault)
  ELSE IF fault \in {"prune", "write"} THEN y ELSE written(y, e)

persistLocked(x, e, fault) ==
  LET o == IF ~x.rec.file \/ x.rec.fileGeneration # e.generation
           THEN openGenerationLocked(x, e.generation, fault)
           ELSE [rec |-> x.rec, disk |-> x.disk, err |-> FALSE]
      y == [rec |-> o.rec, disk |-> o.disk]
      Failed(z) == [z EXCEPT !.rec = appendLoggingFailureLocked(@, e.generation)] IN
  CASE o.err -> Failed(y)
    [] ~o.err /\ (y.rec.diskDegraded \/ y.rec.fileTruncated) -> y
    [] OTHER ->
         IF y.rec.fileBytes + Size(e.kind) > MaxFileBytes THEN truncate(y, e.generation, fault)
         ELSE CASE fault = "write" -> Failed(y)
                [] fault = "sync" /\ e.kind # "started" -> Failed(written(y, e))
                [] OTHER -> written(y, e)

\* An event that does not validate uses up a number and is dropped.
record(x, gen, kind, fault) ==
  LET e == prepareLocked(x.rec, gen, kind) IN
  IF kind = "invalid"
  THEN [x EXCEPT !.rec = appendLoggingFailureLocked([@ EXCEPT !.sequence = e.sequence], gen)]
  ELSE persistLocked([x EXCEPT !.rec = appendMemoryLocked(@, e)], e, fault)

Record(gen, kind, fault) ==
  /\ rec # NoRecorder /\ rec.sequence + 2 <= MaxSequence
  /\ LET x == record([rec |-> rec, disk |-> disk], gen, kind, fault) IN
     /\ rec' = x.rec /\ disk' = x.disk
     /\ history' = history \cup {[lease |-> lease, sequence |-> x.rec.events[i].sequence]
                                   : i \in DOMAIN x.rec.events}
     /\ unsaved' = (unsaved \/ \A i \in DOMAIN x.disk :
                                 x.disk[i].lease # lease \/ x.disk[i].last # rec.sequence + 1)
     /\ reported' = (reported \/ \E i \in DOMAIN x.rec.events :
                                   x.rec.events[i].kind \in {"degraded", "truncated"})
  /\ faults' = IF fault = "none" THEN faults ELSE faults + 1
  /\ faults' <= MaxFaults
  /\ UNCHANGED <<generation, lease, cursor, shown, gap, start>>

FileFaults == {"none", "close", "open", "prune", "write", "sync"}

\* The controller's events carry its generation, the core's output carries none.
RecordController(kind, fault) == Record(generation, kind, fault)
RecordCore(fault)             == Record(0, "core", fault)

-----------------------------------------------------------------------------
(* Leases and connections *)

\* The new recorder numbers its events from 1; the client keeps its cursor.
EnableTrace ==
  /\ rec = NoRecorder /\ lease < MaxLeases /\ lease' = lease + 1 /\ rec' = New
  /\ start' = cursor /\ history' = {} /\ unsaved' = FALSE /\ reported' = FALSE
  /\ UNCHANGED <<disk, generation, faults, cursor, shown, gap>>

\* Recorder.Close forgets the events in memory.
CloseRecorder ==
  /\ rec # NoRecorder /\ rec' = NoRecorder
  /\ UNCHANGED <<disk, generation, lease, faults, cursor, shown, gap, ghosts>>

Connect ==
  /\ generation < MaxGeneration /\ generation' = generation + 1
  /\ UNCHANGED <<rec, disk, lease, faults, cursor, shown, gap, ghosts>>

-----------------------------------------------------------------------------
(* Reading: Batch, the pipe, the client *)

\* The buffer is in the order of its numbers: what is newer is its end.
Newer(events, after) ==
  LET newer == {i \in DOMAIN events : events[i].sequence > after} IN
  IF newer = {} THEN <<>> ELSE SubSeq(events, Min(newer), Len(events))

Batch(r, after, limit) ==
  LET newer == IF r = NoRecorder THEN <<>> ELSE Newer(r.events, after)
      taken == IF Len(newer) <= limit THEN newer ELSE SubSeq(newer, 1, limit) IN
  [events  |-> taken,
   next    |-> IF taken = <<>> THEN after ELSE taken[Len(taken)].sequence,
   hasMore |-> Len(newer) > limit,
   oldest  |-> IF r = NoRecorder \/ r.events = <<>> THEN 0 ELSE r.events[1].sequence]

\* What the pipe accepts from its source.
validTraceBatch(b, after, limit) ==
  /\ Len(b.events) <= limit
  /\ \A i \in DOMAIN b.events :
       /\ b.events[i].sequence > IF i = 1 THEN after ELSE b.events[i - 1].sequence
       /\ b.oldest # 0 /\ b.events[i].sequence >= b.oldest
  /\ IF b.events = <<>> THEN b.next = after /\ ~b.hasMore
     ELSE b.next = b.events[Len(b.events)].sequence

\* A response that would be too long keeps the first n events.
fitTraceResponse(b, after, n) ==
  [b EXCEPT !.events = SubSeq(@, 1, n), !.hasMore = @ \/ n < Len(b.events),
            !.next = IF n = 0 THEN after ELSE b.events[n].sequence]

\* What the client accepts from the pipe.
decodeTraceMessage(b, after) ==
  /\ \A i \in DOMAIN b.events :
       /\ b.events[i].sequence > IF i = 1 THEN after ELSE b.events[i - 1].sequence
       /\ b.oldest # 0 => b.events[i].sequence >= b.oldest
  /\ IF b.events = <<>> THEN b.next = after /\ ~b.hasMore
     ELSE b.next = b.events[Len(b.events)].sequence

ignoreOldest(b) ==
  /\ cursor' = b.next /\ gap' = (gap \/ Len(shown) + Len(b.events) > MaxTimeline)
  /\ shown' = Newest(MaxTimeline, shown \o [i \in DOMAIN b.events |->
                                [lease |-> lease, sequence |-> b.events[i].sequence]])

keepCursor(b) ==
  /\ cursor' = cursor /\ gap' = gap
  /\ shown' = Newest(MaxTimeline, shown \o [i \in DOMAIN b.events |->
                                [lease |-> lease, sequence |-> b.events[i].sequence]])

\* RefreshTrace: show what is new, and say so when events were missed.
show(b) ==
  LET more == shown \o [i \in DOMAIN b.events |->
                         [lease |-> lease, sequence |-> b.events[i].sequence]] IN
  /\ cursor' = IF b.next > cursor THEN b.next ELSE cursor
  /\ gap' = (gap \/ (b.oldest > 0 /\ b.oldest > cursor + 1) \/ Len(more) > MaxTimeline)
  /\ shown' = Newest(MaxTimeline, more)

\* What may arrive at the client of a batch.  (A frame of 64 KiB has room for the Message
\* and the Detail of one event, 4 KiB each, in any escaping, so that a client
\* that polls again and again does get events.)
Answers(b) == {fitTraceResponse(b, cursor, n) : n \in 0..Len(b.events)}

\* A batch that a check refuses changes nothing; the client's refuses one whose
\* events were all cut off, because it has more.
RefreshTrace ==
  /\ \E b \in {Batch(rec, cursor, BatchLimit)} :
       /\ validTraceBatch(b, cursor, BatchLimit)
       /\ \E answer \in Answers(b) : decodeTraceMessage(answer, cursor) /\ show(answer)
  /\ UNCHANGED <<rec, disk, generation, lease, faults, ghosts>>

-----------------------------------------------------------------------------

TraceNext ==
  \/ EnableTrace \/ CloseRecorder \/ Connect \/ RefreshTrace
  \/ \E fault \in FileFaults :
       \/ \E kind \in {"started", "other", "invalid"} : RecordController(kind, fault)
       \/ RecordCore(fault)

TraceSpec == TraceInit /\ [][TraceNext]_traceVars /\ WF_traceVars(RefreshTrace)

-----------------------------------------------------------------------------
(* Properties *)

\* An event the client's cursor has passed was shown, or there is a gap mark.  In
\* a later lease the cursor has passed the numbers up to `start' already: those
\* events are dropped without a mark, and no others.
NothingSkipped ==
  gap \/ \A n \in history :
           n.lease = lease /\ start < n.sequence /\ n.sequence <= cursor => n \in Range(shown)

\* "oldest_sequence ... to recognise that the UI fell behind" (v16 design), in
\* every lease: the code does not keep it (README, finding 4).
NoLeaseIsInvisible ==
  gap \/ \A n \in history : n.lease = lease /\ n.sequence <= cursor => n \in Range(shown)

\* Whatever the ring buffer dropped and wherever a reader stands, the batch he
\* gets passes the pipe's check and every shortening of it the client's.
NothingWithheld ==
  \A after \in 0..MaxSequence, limit \in 1..(BatchLimit + 1) :
    LET b == Batch(rec, after, limit) IN
    /\ validTraceBatch(b, after, limit)
    /\ \A n \in 1..Len(b.events) : decodeTraceMessage(fitTraceResponse(b, after, n), after)

\* "oldest_sequence ... to recognise that the UI fell behind" (v16 design): an
\* event beyond the numbers of an earlier lease is never skipped in silence, and
\* none is withheld by a check.
TraceIsComplete == NothingSkipped /\ NothingWithheld

\* A failing log file is never silent ("produces a logging_degraded event", v16
\* design): before or with the first event that misses the log file, the trace
\* gets an event that says so, whichever file operation failed.
LossIsReported == unsaved => reported

\* Every event beyond the numbers of an earlier lease reaches the client, however
\* short its batches, unless the lease ends first.
EventsReachClient ==
  \A k \in 1..MaxSequence :
    (k > start /\ [lease |-> lease, sequence |-> k] \in history /\ rec # NoRecorder) ~> (cursor >= k \/ rec = NoRecorder)

=============================================================================
