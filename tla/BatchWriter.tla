----------------------------- MODULE BatchWriter -----------------------------
(***************************************************************************)
(* GenericBatchWriter of src/ie/internal/clickhouse/batch_writer.go: rows  *)
(* are collected in a buffer and committed to ClickHouse together, when    *)
(* the buffer is full or its ticker fires.  A batch that fails is kept for *)
(* the next flush, and given up after MaxFlushRetries failures in a row.   *)
(*                                                                         *)
(* Add and Flush hold the mutex of the writer from beginning to end, the   *)
(* commit included, and so are one step each.  Rows are told apart, and    *)
(* each is added once.                                                     *)
(***************************************************************************)
EXTENDS Naturals, Sequences, SequencesExt

CONSTANTS
    Rows,             \* what may be added
    MaxSize,          \* maxSize, from clickhouse.batch_size
    MaxBufferSize,    \* backpressure limit
    MaxFlushRetries   \* failures in a row before a batch is given up

ASSUME SizeAssumption ==
    /\ MaxSize \in Nat \ {0}
    /\ MaxBufferSize \in Nat \ {0}
    /\ MaxFlushRetries \in Nat \ {0}

VARIABLES
    buffer,     \* rows not yet committed, oldest first
    failCount,  \* failures in a row
    stopCh,     \* whether stopCh is closed
    loop,       \* flushLoop: "running" or "done"
    added,      \* rows that were added (history)
    stored,     \* rows in ClickHouse
    givenUp,    \* rows dropped after MaxFlushRetries failures (history)
    shed,       \* rows dropped by backpressure (history)
    late        \* rows added since flushLoop took its leave, or in the batch
                \* its last flush could not commit (history)

outcome == <<stored, givenUp>>
writer == <<buffer, failCount, stopCh, loop, added, outcome, shed, late>>

TypeOK ==
    /\ buffer \in Seq(Rows)
    /\ failCount \in 0..(MaxFlushRetries - 1)
    /\ stopCh \in BOOLEAN
    /\ loop \in {"running", "done"}
    /\ added \subseteq Rows
    /\ stored \subseteq Rows
    /\ givenUp \subseteq Rows
    /\ shed \subseteq Rows
    /\ late \subseteq Rows

Init ==
    /\ buffer = <<>>
    /\ failCount = 0
    /\ stopCh = FALSE
    /\ loop = "running"
    /\ added = {}
    /\ stored = {}
    /\ givenUp = {}
    /\ shed = {}
    /\ late = {}

-----------------------------------------------------------------------------
\* Mutant: the batch that was given up leaves its failures behind.
Fails_KeepsCount(rows) ==
    /\ failCount' = failCount + 1
    /\ IF failCount + 1 >= MaxFlushRetries
       THEN /\ buffer' = <<>>
            /\ givenUp' = givenUp \union ToSet(rows)
       ELSE /\ buffer' = rows
            /\ UNCHANGED givenUp

\* Mutant: a failed batch is kept without counting the failure.
Fails_Uncounted(rows) ==
    /\ failCount' = failCount
    /\ buffer' = rows
    /\ UNCHANGED givenUp

\* The commit of rows returns an error: they stay in the buffer unless it
\* was one failure too many.
Fails(rows) ==
    IF failCount + 1 >= MaxFlushRetries
    THEN /\ failCount' = 0
         /\ buffer' = <<>>
         /\ givenUp' = givenUp \union ToSet(rows)
    ELSE /\ failCount' = failCount + 1
         /\ buffer' = rows
         /\ UNCHANGED givenUp

\* flushLocked with a buffer that holds rows.  An error may be returned for a
\* batch that did reach the table.
FlushLocked(rows) ==
    IF rows = <<>>
    THEN buffer' = rows /\ UNCHANGED <<failCount, outcome>>
    ELSE \/ /\ buffer' = <<>>
            /\ failCount' = 0
            /\ stored' = stored \union ToSet(rows)
            /\ UNCHANGED givenUp
         \/ /\ Fails(rows)
            /\ stored' \in {stored, stored \union ToSet(rows)}

\* Mutant: room is made as soon as there is a batch.
DropCount_AtBatch == IF Len(buffer) < MaxSize THEN 0 ELSE MaxSize

\* The rows that backpressure drops: maxSize of the oldest, at most all.
DropCount ==
    IF Len(buffer) < MaxBufferSize THEN 0
    ELSE IF MaxSize > Len(buffer) THEN Len(buffer) ELSE MaxSize

Add(r) ==
    /\ r \in Rows \ added
    /\ added' = added \union {r}
    /\ shed' = shed \union ToSet(SubSeq(buffer, 1, DropCount))
    /\ LET rows == Append(SubSeq(buffer, DropCount + 1, Len(buffer)), r) IN
         IF Len(rows) >= MaxSize
         THEN FlushLocked(rows)
         ELSE buffer' = rows /\ UNCHANGED <<failCount, outcome>>
    /\ late' = IF loop = "done" THEN late \union {r} ELSE late
    /\ UNCHANGED <<stopCh, loop>>

\* Mutant: the ticker waits for a full batch.
TimerFlush_WhenFull ==
    /\ loop = "running"
    /\ IF Len(buffer) >= MaxSize THEN FlushLocked(buffer)
       ELSE UNCHANGED <<buffer, failCount, outcome>>
    /\ UNCHANGED <<stopCh, loop, added, shed, late>>

\* The ticker of flushLoop fires, closed stopCh or not.
TimerFlush ==
    /\ loop = "running"
    /\ FlushLocked(buffer)
    /\ UNCHANGED <<stopCh, loop, added, shed, late>>

\* Stop begins.  It may be called more than once.
CloseStopCh ==
    /\ stopCh' = TRUE
    /\ UNCHANGED <<buffer, failCount, loop, added, outcome, shed, late>>

\* Mutant: flushLoop leaves without a last flush.
FinalFlush_Dropped ==
    /\ loop = "running" /\ stopCh
    /\ loop' = "done"
    /\ UNCHANGED <<buffer, failCount, stopCh, added, outcome, shed, late>>

\* flushLoop sees stopCh, flushes once and returns, and with it every Stop.
FinalFlush ==
    /\ loop = "running" /\ stopCh
    /\ FlushLocked(buffer)
    /\ loop' = "done"
    /\ late' = late \union ToSet(buffer')
    /\ UNCHANGED <<stopCh, added, shed>>

Next ==
    \/ \E r \in Rows : Add(r)
    \/ TimerFlush
    \/ CloseStopCh
    \/ FinalFlush

Spec == Init /\ [][Next]_writer

\* The ticker fires again and again, a closed stopCh is seen at last.  Nobody
\* has to add a row, to stop the writer, or to let a commit succeed.
Fairness == WF_writer(TimerFlush) /\ WF_writer(FinalFlush)

FairSpec == Spec /\ Fairness

-----------------------------------------------------------------------------
(* Properties.                                                             *)

Held == ToSet(buffer)
Settled == stored \union givenUp

\* However often commits fail, the buffer holds at most MaxFlushRetries - 2
\* rows more than a batch: past that size every Add is a flush, and a flush
\* that fails counts (batch_writer.go 43-73).
BufferBounded == Len(buffer) <= MaxSize + MaxFlushRetries - 2

\* So with batches smaller than the backpressure limit no row is ever dropped
\* by it: one is lost only after MaxFlushRetries failures in a row
\* (batch_writer.go 59-66).
NothingShed == shed = {}

\* After Stop no row is left in the buffer but those that were added since,
\* and those of a last flush that failed (batch_writer.go 124-139).
StopFlushes == loop = "done" => Held \subseteq late

\* No row is forgotten: until the writer is stopped every added row gets into
\* the table or is given up, with or without luck in the commits.
EveryRowSettles ==
    \A r \in Rows : r \in added ~> (r \in Settled \union shed \/ stopCh)
=============================================================================
