-------------------------- MODULE BatchWriterProofs --------------------------
(***************************************************************************)
(* Proofs about BatchWriter, for any rows and any sizes.                   *)
(***************************************************************************)
EXTENDS BatchWriter, TLAPS

-----------------------------------------------------------------------------
(* What appending to a sequence, taking its head and cutting it in two do  *)
(* to the set of its elements.                                             *)

LEMMA ToSetAppend ==
    ASSUME NEW S, NEW s \in Seq(S), NEW x \in S
    PROVE  ToSet(Append(s, x)) = ToSet(s) \union {x}
<1> DEFINE t == Append(s, x)
<1>1. Len(t) = Len(s) + 1 /\ Len(s) \in Nat
  OBVIOUS
<1>2. \A i \in 1..Len(t) : t[i] = IF i <= Len(s) THEN s[i] ELSE x
  OBVIOUS
<1>3. ToSet(t) \subseteq ToSet(s) \union {x}
  BY <1>1, <1>2 DEF ToSet
<1>4. ToSet(s) \subseteq ToSet(t)
  BY <1>1, <1>2 DEF ToSet
<1>5. x \in ToSet(t)
  <2>1. t[Len(s) + 1] = x /\ Len(s) + 1 \in 1..Len(t)
    BY <1>1, <1>2
  <2>2. QED
    BY <2>1 DEF ToSet
<1>6. QED
  BY <1>3, <1>4, <1>5

\* Cutting a sequence in two loses nothing.
LEMMA ToSetCut ==
    ASSUME NEW S, NEW s \in Seq(S), NEW n \in 0..Len(s)
    PROVE  ToSet(s) \subseteq ToSet(SubSeq(s, 1, n)) \union ToSet(SubSeq(s, n + 1, Len(s)))
<1> DEFINE a == SubSeq(s, 1, n)
           b == SubSeq(s, n + 1, Len(s))
<1>1. Len(s) \in Nat /\ n \in Nat /\ n <= Len(s)
  OBVIOUS
<1>2. Len(a) = n /\ \A i \in 1..n : a[i] = s[i]
  BY <1>1
<1>3. Len(b) = Len(s) - n /\ \A i \in 1..(Len(s) - n) : b[i] = s[n + i]
  BY <1>1
<1>4. DOMAIN s = 1..Len(s) /\ DOMAIN a = 1..Len(a) /\ DOMAIN b = 1..Len(b)
  BY <1>1
<1> HIDE DEF a, b
<1>5. ASSUME NEW i \in 1..Len(s)
      PROVE  s[i] \in ToSet(a) \union ToSet(b)
  <2>1. CASE i <= n
    BY <1>1, <1>2, <1>4, <2>1 DEF ToSet
  <2>2. CASE i > n
    <3>1. i - n \in DOMAIN b /\ n + (i - n) = i
      BY <1>1, <1>3, <1>4, <2>2
    <3>2. b[i - n] = s[i]
      BY <1>1, <1>3, <1>4, <3>1
    <3>3. s[i] \in ToSet(b)
      BY <3>1, <3>2, Zenon DEF ToSet
    <3>4. QED
      BY <3>3
  <2>3. QED
    BY <1>1, <2>1, <2>2
<1>6. ToSet(s) \subseteq ToSet(a) \union ToSet(b)
  BY <1>4, <1>5, Zenon DEF ToSet
<1>7. QED
  BY <1>6 DEF a, b

LEMMA ToSetTail ==
    ASSUME NEW S, NEW s \in Seq(S), s # <<>>
    PROVE  ToSet(s) = {Head(s)} \union ToSet(Tail(s))
<1> DEFINE t == Tail(s)
<1>1. /\ Len(s) \in Nat \ {0} /\ Len(t) = Len(s) - 1
      /\ Head(s) = s[1] /\ \A i \in 1..Len(t) : t[i] = s[i + 1]
  OBVIOUS
<1>2. DOMAIN s = 1..Len(s) /\ DOMAIN t = 1..Len(t)
  OBVIOUS
<1> HIDE DEF t
<1>3. ASSUME NEW i \in DOMAIN s PROVE s[i] \in {s[1]} \union ToSet(t)
  <2>1. CASE i = 1
    BY <2>1
  <2>2. CASE i # 1
    <3>1. i - 1 \in DOMAIN t /\ (i - 1) + 1 = i
      BY <1>1, <1>2, <2>2
    <3>2. t[i - 1] = s[i]
      BY <1>1, <1>2, <3>1
    <3>3. QED
      BY <3>1, <3>2, Zenon DEF ToSet
  <2>3. QED
    BY <2>1, <2>2
<1>4. ASSUME NEW i \in DOMAIN t PROVE t[i] \in ToSet(s)
  <2>1. i + 1 \in DOMAIN s /\ t[i] = s[i + 1]
    BY <1>1, <1>2
  <2>2. QED
    BY <2>1, Zenon DEF ToSet
<1>5. s[1] \in ToSet(s)
  <2>1. 1 \in DOMAIN s
    BY <1>1, <1>2
  <2>2. QED
    BY <2>1, Zenon DEF ToSet
<1>6. ToSet(s) = {s[1]} \union ToSet(t)
  <2>1. ToSet(s) \subseteq {s[1]} \union ToSet(t)
    BY <1>3, Zenon DEF ToSet
  <2>2. ToSet(t) \subseteq ToSet(s)
    BY <1>4, Zenon DEF ToSet
  <2>3. QED
    BY <1>5, <2>1, <2>2
<1>7. QED
  BY <1>1, <1>6 DEF t

-----------------------------------------------------------------------------
(* The buffer.                                                             *)

\* A batch and the failures it may survive fit below the backpressure limit.
SmallBatches == MaxSize + MaxFlushRetries - 2 < MaxBufferSize

\* Each row above MaxSize - 1 came with a flush, which failed and was counted.
BufferInv ==
    /\ buffer \in Seq(Rows)
    /\ failCount \in 0..(MaxFlushRetries - 1)
    /\ Len(buffer) <= MaxSize - 1 + failCount

LEMMA FlushBounds ==
    ASSUME failCount \in 0..(MaxFlushRetries - 1), NEW rows \in Seq(Rows),
           Len(rows) <= MaxSize + failCount, FlushLocked(rows),
           Len(rows) >= MaxSize \/ Len(rows) <= MaxSize - 1 + failCount
    PROVE  BufferInv'
<1>1. CASE buffer' = <<>> /\ failCount' = 0
  BY <1>1, SizeAssumption DEF BufferInv
<1>2. CASE buffer' = rows /\ failCount' = failCount /\ rows = <<>>
  BY <1>2, SizeAssumption DEF BufferInv
<1>3. CASE buffer' = rows /\ failCount' = failCount + 1 /\ failCount + 1 < MaxFlushRetries
  BY <1>3, SizeAssumption DEF BufferInv
<1>4. QED
  BY <1>1, <1>2, <1>3, SizeAssumption DEF FlushLocked, Fails

\* Below the limit nothing is dropped to make room.
LEMMA NoDrop ==
    ASSUME BufferInv, SmallBatches
    PROVE  DropCount = 0
BY SizeAssumption DEF BufferInv, SmallBatches, DropCount

LEMMA AddBounds ==
    ASSUME BufferInv, SmallBatches, NEW r \in Rows, Add(r)
    PROVE  BufferInv' /\ shed' = shed
<1> DEFINE rows == Append(buffer, r)
<1>1. DropCount = 0
  BY NoDrop
<1>2. SubSeq(buffer, DropCount + 1, Len(buffer)) = buffer
  BY <1>1 DEF BufferInv
<1>3. SubSeq(buffer, 1, DropCount) = <<>>
  BY <1>1 DEF BufferInv
<1>4. shed' = shed
  <2>1. ToSet(<<>>) = {}
    BY DEF ToSet
  <2>2. shed' = shed \union ToSet(<<>>)
    BY <1>3 DEF Add
  <2>3. QED
    BY <2>1, <2>2
<1>5. rows \in Seq(Rows) /\ Len(rows) = Len(buffer) + 1
  BY DEF BufferInv
<1>6. CASE Len(rows) >= MaxSize
  <2>1. FlushLocked(rows)
    BY <1>2, <1>6 DEF Add
  <2>2. Len(rows) <= MaxSize + failCount
    BY <1>5, SizeAssumption DEF BufferInv
  <2>3. QED
    BY <1>4, <1>5, <1>6, <2>1, <2>2, FlushBounds DEF BufferInv
<1>7. CASE Len(rows) < MaxSize
  <2>1. Len(rows) \in Nat /\ ~(Len(rows) >= MaxSize)
    BY <1>5, <1>7, SizeAssumption
  <2>2. buffer' = rows /\ failCount' = failCount
    BY <1>2, <2>1 DEF Add
  <2>3. QED
    BY <1>4, <1>5, <1>7, <2>2, SizeAssumption DEF BufferInv
<1>8. QED
  BY <1>5, <1>6, <1>7, SizeAssumption DEF BufferInv

LEMMA StepBounds ==
    ASSUME BufferInv, SmallBatches, [Next]_writer
    PROVE  BufferInv' /\ shed' = shed
<1>1. CASE TimerFlush \/ FinalFlush
  <2>1. FlushLocked(buffer) /\ shed' = shed
    BY <1>1 DEF TimerFlush, FinalFlush
  <2>2. Len(buffer) <= MaxSize + failCount
    BY SizeAssumption DEF BufferInv
  <2>3. QED
    BY <2>1, <2>2, FlushBounds DEF BufferInv
<1>2. CASE CloseStopCh \/ UNCHANGED writer
  BY <1>2 DEF CloseStopCh, writer, BufferInv
<1>3. QED
  BY <1>1, <1>2, AddBounds DEF Next

LEMMA InitBounds == Init => BufferInv
BY SizeAssumption DEF Init, BufferInv

\* With batches below the backpressure limit the buffer never reaches it
\* (src/ie/internal/clickhouse/batch_writer.go 43-105).
THEOREM Bounded ==
    ASSUME SmallBatches
    PROVE  Spec => []BufferBounded
<1>1. BufferInv => BufferBounded
  BY SizeAssumption DEF BufferInv, BufferBounded
<1>2. BufferInv /\ [Next]_writer => BufferInv'
  BY StepBounds
<1>3. QED
  BY InitBounds, <1>1, <1>2, PTL DEF Spec

\* And no row is ever dropped to make room for another
\* (src/ie/internal/clickhouse/batch_writer.go 59-66).
THEOREM NeverSheds ==
    ASSUME SmallBatches
    PROVE  Spec => []NothingShed
<1>1. Init => BufferInv /\ NothingShed
  BY InitBounds DEF Init, NothingShed
<1>2. (BufferInv /\ NothingShed) /\ [Next]_writer => BufferInv' /\ NothingShed'
  BY StepBounds DEF NothingShed
<1>3. QED
  BY <1>1, <1>2, PTL DEF Spec

-----------------------------------------------------------------------------
(* Where rows are.                                                         *)

\* Every row added is in the buffer, or settled, or was dropped to make room;
\* those in the buffer of a writer that has stopped came late.
AccountInv ==
    /\ buffer \in Seq(Rows)
    /\ added \subseteq Held \union Settled \union shed
    /\ StopFlushes

\* A flush keeps its rows or settles them.
LEMMA FlushAccounts ==
    ASSUME NEW rows \in Seq(Rows), FlushLocked(rows)
    PROVE  /\ buffer' \in Seq(Rows)
           /\ ToSet(rows) \union Settled \subseteq Held' \union Settled'
           /\ Held' \subseteq ToSet(rows)
<1>1. CASE buffer' = rows /\ stored \subseteq stored' /\ UNCHANGED givenUp
  BY <1>1 DEF Held, Settled
<1>2. CASE buffer' = <<>> /\ stored \subseteq stored' /\ givenUp \subseteq givenUp'
           /\ ToSet(rows) \subseteq stored' \union givenUp'
  <2>1. Held' = {}
    BY <1>2 DEF Held, ToSet
  <2>2. QED
    BY <1>2, <2>1 DEF Settled
<1>3. QED
  BY <1>1, <1>2 DEF FlushLocked, Fails, outcome

LEMMA AddAccounts ==
    ASSUME AccountInv, NEW r \in Rows, Add(r)
    PROVE  AccountInv'
<1> DEFINE kept == SubSeq(buffer, DropCount + 1, Len(buffer))
           rows == Append(kept, r)
<1>1. DropCount \in 0..Len(buffer)
  BY SizeAssumption DEF AccountInv, DropCount
<1>2. kept \in Seq(Rows) /\ rows \in Seq(Rows)
  BY <1>1 DEF AccountInv
<1>3. ToSet(rows) = ToSet(kept) \union {r}
  <2> HIDE DEF kept
  <2>1. QED
    BY <1>2, ToSetAppend
<1>4. Held \subseteq shed' \union ToSet(kept)
  BY <1>1, ToSetCut DEF AccountInv, Add, Held
<1>5. /\ buffer' \in Seq(Rows)
      /\ ToSet(rows) \union Settled \subseteq Held' \union Settled'
      /\ Held' \subseteq ToSet(rows)
  <2>1. CASE Len(rows) >= MaxSize
    <3>1. FlushLocked(rows)
      BY <2>1 DEF Add
    <3>2. QED
      BY <1>2, <3>1, FlushAccounts
  <2>2. CASE ~(Len(rows) >= MaxSize)
    BY <1>2, <2>2 DEF Add, Held, Settled, outcome
  <2>3. QED
    BY <2>1, <2>2
<1>6. shed \subseteq shed' /\ added' = added \union {r}
  BY DEF Add
<1>7. added' \subseteq Held' \union Settled' \union shed'
  BY <1>3, <1>4, <1>5, <1>6 DEF AccountInv
<1>8. StopFlushes'
  <2>1. ToSet(kept) \subseteq Held
    BY <1>1 DEF Held, ToSet, AccountInv
  <2>2. loop' = loop /\ (loop = "done" => late' = late \union {r})
    BY DEF Add
  <2>3. QED
    BY <1>3, <1>5, <2>1, <2>2 DEF AccountInv, StopFlushes
<1>9. QED
  BY <1>5, <1>7, <1>8 DEF AccountInv

LEMMA StepAccounts ==
    ASSUME AccountInv, [Next]_writer
    PROVE  AccountInv'
<1>1. CASE \E r \in Rows : Add(r)
  BY <1>1, AddAccounts
<1>2. CASE TimerFlush \/ FinalFlush
  <2>1. FlushLocked(buffer) /\ UNCHANGED <<added, shed>>
    BY <1>2 DEF TimerFlush, FinalFlush
  <2>2. /\ buffer' \in Seq(Rows)
        /\ Held \union Settled \subseteq Held' \union Settled'
    BY <2>1, FlushAccounts DEF AccountInv, Held
  <2>3. loop' = "done" => Held' \subseteq late'
    BY <1>2 DEF TimerFlush, FinalFlush, Held
  <2>4. QED
    BY <2>1, <2>2, <2>3 DEF AccountInv, StopFlushes
<1>3. CASE CloseStopCh \/ UNCHANGED writer
  BY <1>3 DEF CloseStopCh, writer, outcome, AccountInv, StopFlushes, Held, Settled
<1>4. QED
  BY <1>1, <1>2, <1>3 DEF Next

LEMMA InitAccounts == Init => AccountInv
BY DEF Init, AccountInv, StopFlushes, Held, Settled

\* Whatever the sizes, and however often Stop is called and commits fail, a
\* stopped writer holds late rows only
\* (src/ie/internal/clickhouse/batch_writer.go 124-139).
THEOREM StopIsFinal == Spec => []StopFlushes
<1>1. AccountInv => StopFlushes
  BY DEF AccountInv
<1>2. QED
  BY InitAccounts, StepAccounts, <1>1, PTL DEF Spec

-----------------------------------------------------------------------------
(* Types.                                                                  *)

LEMMA ToSetTyped ==
    ASSUME NEW s \in Seq(Rows)
    PROVE  ToSet(s) \subseteq Rows
BY DEF ToSet

LEMMA FlushTyped ==
    ASSUME TypeOK, NEW rows \in Seq(Rows), FlushLocked(rows)
    PROVE  /\ buffer' \in Seq(Rows)
           /\ failCount' \in 0..(MaxFlushRetries - 1)
           /\ stored' \subseteq Rows /\ givenUp' \subseteq Rows
<1>1. ToSet(rows) \subseteq Rows
  BY ToSetTyped
<1>2. stored' \subseteq Rows /\ givenUp' \subseteq Rows
  BY <1>1 DEF TypeOK, FlushLocked, Fails, outcome
<1>3. failCount \in 0..(MaxFlushRetries - 1)
  BY DEF TypeOK
<1>4. \/ buffer' = <<>> /\ failCount' = 0
      \/ buffer' = rows /\ failCount' = failCount
      \/ buffer' = rows /\ failCount' = failCount + 1 /\ failCount + 1 < MaxFlushRetries
  BY <1>3, SizeAssumption DEF FlushLocked, Fails
<1>5. buffer' \in Seq(Rows) /\ failCount' \in 0..(MaxFlushRetries - 1)
  <2>1. <<>> \in Seq(Rows) /\ 0 \in 0..(MaxFlushRetries - 1)
    BY SizeAssumption
  <2>2. failCount + 1 < MaxFlushRetries => failCount + 1 \in 0..(MaxFlushRetries - 1)
    BY <1>3, SizeAssumption
  <2>3. QED
    BY <1>3, <1>4, <2>1, <2>2
<1>6. QED
  BY <1>2, <1>5

LEMMA AddTyped ==
    ASSUME TypeOK, NEW r \in Rows, Add(r)
    PROVE  TypeOK'
<1> DEFINE kept == SubSeq(buffer, DropCount + 1, Len(buffer))
           rows == Append(kept, r)
<1>1. DropCount \in 0..Len(buffer)
  BY SizeAssumption DEF TypeOK, DropCount
<1>2. SubSeq(buffer, 1, DropCount) \in Seq(Rows) /\ rows \in Seq(Rows)
  BY <1>1 DEF TypeOK
<1>3. /\ buffer' \in Seq(Rows)
      /\ failCount' \in 0..(MaxFlushRetries - 1)
      /\ stored' \subseteq Rows /\ givenUp' \subseteq Rows
  <2>1. CASE Len(rows) >= MaxSize
    <3>1. FlushLocked(rows)
      BY <2>1 DEF Add
    <3>2. QED
      BY <1>2, <3>1, FlushTyped
  <2>2. CASE ~(Len(rows) >= MaxSize)
    BY <1>2, <2>2 DEF Add, TypeOK, outcome
  <2>3. QED
    BY <2>1, <2>2
<1>4. shed' \subseteq Rows
  <2>1. ToSet(SubSeq(buffer, 1, DropCount)) \subseteq Rows
    BY <1>2, ToSetTyped
  <2>2. QED
    BY <2>1 DEF Add, TypeOK
<1>5. added' \subseteq Rows /\ late' \subseteq Rows /\ UNCHANGED <<stopCh, loop>>
  BY DEF Add, TypeOK
<1>6. stopCh \in BOOLEAN /\ loop \in {"running", "done"}
  BY DEF TypeOK
<1>7. QED
  BY <1>3, <1>4, <1>5, <1>6 DEF TypeOK

LEMMA InitTyped == Init => TypeOK
<1> SUFFICES ASSUME Init PROVE TypeOK
  OBVIOUS
<1>1. buffer \in Seq(Rows) /\ failCount \in 0..(MaxFlushRetries - 1)
  BY SizeAssumption DEF Init
<1>2. stopCh \in BOOLEAN /\ loop \in {"running", "done"}
  BY DEF Init
<1>3. QED
  BY <1>1, <1>2 DEF Init, TypeOK

LEMMA StepTyped ==
    ASSUME TypeOK, [Next]_writer
    PROVE  TypeOK'
<1>1. CASE \E r \in Rows : Add(r)
  BY <1>1, AddTyped
<1>2. CASE TimerFlush \/ FinalFlush
  <2>1. FlushLocked(buffer) /\ UNCHANGED <<stopCh, added, shed>>
    BY <1>2 DEF TimerFlush, FinalFlush
  <2>2. /\ buffer' \in Seq(Rows)
        /\ failCount' \in 0..(MaxFlushRetries - 1)
        /\ stored' \subseteq Rows /\ givenUp' \subseteq Rows
    BY <2>1, FlushTyped DEF TypeOK
  <2>3. ToSet(buffer)' \subseteq Rows
    BY <2>2 DEF ToSet
  <2>4. loop' \in {"running", "done"} /\ late' \subseteq Rows
    BY <1>2, <2>3 DEF TimerFlush, FinalFlush, TypeOK
  <2>5. QED
    BY <2>1, <2>2, <2>4 DEF TypeOK
<1>3. CASE CloseStopCh \/ UNCHANGED writer
  BY <1>3 DEF CloseStopCh, writer, outcome, TypeOK
<1>4. QED
  BY <1>1, <1>2, <1>3 DEF Next

\* The variables always have their types: the count of failures stays below
\* its limit (src/ie/internal/clickhouse/batch_writer.go 43-105).
THEOREM TypeCorrect == Spec => []TypeOK
BY InitTyped, StepTyped, PTL DEF Spec
=============================================================================
