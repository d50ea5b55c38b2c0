--------------------------- MODULE SequenceNumbers ---------------------------
(***************************************************************************)
(* The sequence numbers of the transcription segments of one call:         *)
(* SequenceGenerator.Next and GetNextSequenceNumber of                     *)
(* src/ie/internal/clickhouse, as used by the goroutines that handle the   *)
(* results of speech recognition (src/ie/internal/rtp/asr_handler.go).     *)
(*                                                                         *)
(* Numbers come from ranges that are allocated with INCRBY in Redis; when  *)
(* that fails, from the largest number in ClickHouse, where segments       *)
(* arrive in batches.  The key in Redis outlives the process and is taken  *)
(* to outlive the call (its time to live is 24 hours).                     *)
(***************************************************************************)
EXTENDS Naturals, Sequences

CONSTANTS
    Handlers,     \* goroutines that handle results of this call
    BatchSizes,   \* values sequence.batch_size takes; it may be reloaded
    Segments,     \* bound: the segments of the call
    MaxKey        \* bound: the numbers allocated to it

ASSUME SequenceAssumption ==
    BatchSizes \subseteq Nat \ {0} /\ Segments \in Nat /\ MaxKey \in Nat

VARIABLES
    key,       \* call:seq:<call> in Redis
    range,     \* the range of this process: numbers above current, up to max
    at,        \* handler |-> what it does next
    number,    \* handler |-> the number it got and has not yet written, or 0
    pending,   \* numbers in the batch of segments
    table,     \* numbers in transcription_segments
    issued     \* numbers given out so far, and where they came from (history)

segments == <<pending, table>>
vars == <<key, range, at, number, segments, issued>>

TypeOK ==
    /\ key \in Nat
    /\ range \in [current: Nat, max: Nat]
    /\ range.current <= range.max /\ range.max <= key
    /\ at \in [Handlers -> {"idle", "fallback", "write"}]
    /\ number \in [Handlers -> Nat]
    /\ pending \subseteq Nat /\ table \subseteq Nat
    /\ issued \in Seq([number: Nat, from: {"redis", "table"}])

NoRange == [current |-> 0, max |-> 0]

Init ==
    /\ key = 0
    /\ range = NoRange
    /\ at = [h \in Handlers |-> "idle"]
    /\ number = [h \in Handlers |-> 0]
    /\ pending = {}
    /\ table = {}
    /\ issued = <<>>

-----------------------------------------------------------------------------
\* Handler h gets number n.
Issue(h, n, from) ==
    /\ Len(issued) < Segments
    /\ issued' = Append(issued, [number |-> n, from |-> from])
    /\ number' = [number EXCEPT ![h] = n]
    /\ at' = [at EXCEPT ![h] = "write"]

Sizes == {size \in BatchSizes : key + size <= MaxKey}

\* Mutant: one too many.
HasNumbers_AtMax == range.current <= range.max

HasNumbers == range.current < range.max

NextInRange(h) ==
    /\ at[h] = "idle" /\ HasNumbers
    /\ range' = [range EXCEPT !.current = @ + 1]
    /\ Issue(h, range.current + 1, "redis")
    /\ UNCHANGED <<key, segments>>

\* Mutant: the new range begins where that of this process ended.
Allocate_FromCurrent(h) ==
    /\ at[h] = "idle" /\ ~HasNumbers
    /\ \E size \in Sizes :
        /\ key' = key + size
        /\ range' = [current |-> range.current + 1, max |-> key + size]
    /\ Issue(h, range.current + 1, "redis")
    /\ UNCHANGED segments

\* The range is used up, or lost in a restart: a new one is allocated.
Allocate(h) ==
    /\ at[h] = "idle" /\ ~HasNumbers
    /\ \E size \in Sizes :
        /\ key' = key + size
        /\ range' = [current |-> key + 1, max |-> key + size]
    /\ Issue(h, key + 1, "redis")
    /\ UNCHANGED segments

\* INCRBY returns an error, whether or not Redis has done it.
AllocateFails(h) ==
    /\ at[h] = "idle" /\ ~HasNumbers
    /\ Len(issued) < Segments
    /\ key' \in {key} \union {key + size : size \in Sizes}
    /\ at' = [at EXCEPT ![h] = "fallback"]
    /\ UNCHANGED <<range, number, segments, issued>>

\* The number after the largest in the table, or 1 if that query fails too.
Fallback(h) ==
    /\ at[h] = "fallback"
    /\ \E n \in table \union {0} :
        /\ n = 0 \/ \A m \in table : m <= n
        /\ Issue(h, n + 1, "table")
    /\ UNCHANGED <<key, range, segments>>

\* The segment goes to the batch writer, which flushes now and then.
Write(h) ==
    /\ at[h] = "write"
    /\ pending' = pending \union {number[h]}
    /\ number' = [number EXCEPT ![h] = 0]
    /\ at' = [at EXCEPT ![h] = "idle"]
    /\ UNCHANGED <<key, range, table, issued>>

Flush ==
    /\ pending # {}
    /\ table' = table \union pending
    /\ pending' = {}
    /\ UNCHANGED <<key, range, at, number, issued>>

\* The engine crashes and is started again while the call lasts.
Restart ==
    /\ range' = NoRange
    /\ at' = [h \in Handlers |-> "idle"]
    /\ number' = [h \in Handlers |-> 0]
    /\ pending' = {}
    /\ UNCHANGED <<key, table, issued>>

Next ==
    \/ \E h \in Handlers :
        \/ NextInRange(h) \/ Allocate(h) \/ AllocateFails(h) \/ Fallback(h) \/ Write(h)
    \/ Flush
    \/ Restart

Spec == Init /\ [][Next]_vars

-----------------------------------------------------------------------------
(* Properties.                                                             *)

\* Of two numbers that Redis had a part in the later is the larger, whoever
\* asks, whatever fails in between and however often the engine restarts
\* (sequence_generator.go 40-89).
IncreasingFromRedis ==
    \A i, j \in 1..Len(issued) :
        (i < j /\ issued[i].from = "redis" /\ issued[j].from = "redis")
            => issued[i].number < issued[j].number
=============================================================================
