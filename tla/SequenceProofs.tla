--------------------------- MODULE SequenceProofs ---------------------------
(***************************************************************************)
(* Proofs about SequenceNumbers, for any handlers and batch sizes.         *)
(***************************************************************************)
EXTENDS SequenceNumbers, TLAPS

Entries == [number: Nat, from: {"redis", "table"}]

LEMMA EntryTypes ==
    ASSUME TypeOK, NEW i \in 1..Len(issued)
    PROVE  issued[i] \in Entries /\ issued[i].number \in Nat
<1>1. issued \in Seq(Entries)
  BY DEF TypeOK, Entries
<1>2. issued[i] \in Entries
  BY <1>1
<1>3. QED
  BY <1>2 DEF Entries

LEMMA InitType == Init => TypeOK
BY DEF Init, TypeOK, NoRange

LEMMA IssueType ==
    ASSUME TypeOK, NEW h \in Handlers, NEW n \in Nat, NEW f \in {"redis", "table"},
           Issue(h, n, f)
    PROVE  /\ at' \in [Handlers -> {"idle", "fallback", "write"}]
           /\ number' \in [Handlers -> Nat]
           /\ issued' \in Seq(Entries)
<1>1. [number |-> n, from |-> f] \in Entries
  BY DEF Entries
<1>2. issued' \in Seq(Entries)
  BY <1>1 DEF Issue, TypeOK, Entries
<1>3. QED
  BY <1>2 DEF Issue, TypeOK

LEMMA StepType == TypeOK /\ [Next]_vars => TypeOK'
<1> SUFFICES ASSUME TypeOK, [Next]_vars PROVE TypeOK'
  OBVIOUS
<1> USE SequenceAssumption
<1>1. ASSUME NEW h \in Handlers, NextInRange(h) PROVE TypeOK'
  <2>1. range.current + 1 \in Nat /\ Issue(h, range.current + 1, "redis")
    BY <1>1 DEF NextInRange, TypeOK
  <2>2. /\ range'.current = range.current + 1 /\ range'.max = range.max
        /\ range' \in [current: Nat, max: Nat]
    BY <1>1 DEF NextInRange, TypeOK
  <2>3. range' \in [current: Nat, max: Nat] /\ range'.current <= range'.max /\ range'.max <= key
    BY <1>1, <2>2 DEF NextInRange, HasNumbers, TypeOK
  <2>4. UNCHANGED <<key, pending, table>>
    BY <1>1 DEF NextInRange, segments
  <2>5. QED
    BY <2>1, <2>3, <2>4, IssueType DEF TypeOK, Entries
<1>2. ASSUME NEW h \in Handlers, Allocate(h) PROVE TypeOK'
  <2>1. key + 1 \in Nat /\ Issue(h, key + 1, "redis")
    BY <1>2 DEF Allocate, TypeOK
  <2>2. PICK size \in BatchSizes :
            key' = key + size /\ range' = [current |-> key + 1, max |-> key + size]
    BY <1>2 DEF Allocate, Sizes
  <2>3. /\ key' \in Nat /\ range' \in [current: Nat, max: Nat]
        /\ range'.current <= range'.max /\ range'.max <= key'
    BY <2>2 DEF TypeOK
  <2>4. UNCHANGED <<pending, table>>
    BY <1>2 DEF Allocate, segments
  <2>5. QED
    BY <2>1, <2>3, <2>4, IssueType DEF TypeOK, Entries
<1>3. ASSUME NEW h \in Handlers, AllocateFails(h) PROVE TypeOK'
  BY <1>3 DEF AllocateFails, Sizes, TypeOK, segments
<1>4. ASSUME NEW h \in Handlers, Fallback(h) PROVE TypeOK'
  <2>1. PICK n \in table \union {0} : Issue(h, n + 1, "table")
    BY <1>4 DEF Fallback
  <2>2. n + 1 \in Nat
    BY DEF TypeOK
  <2>3. UNCHANGED <<key, range, pending, table>>
    BY <1>4 DEF Fallback, segments
  <2>4. QED
    BY <2>1, <2>2, <2>3, IssueType DEF TypeOK, Entries
<1>5. ASSUME NEW h \in Handlers, Write(h) PROVE TypeOK'
  BY <1>5 DEF Write, TypeOK
<1>6. CASE Flush
  BY <1>6 DEF Flush, TypeOK
<1>7. CASE Restart
  BY <1>7 DEF Restart, TypeOK, NoRange
<1>8. CASE UNCHANGED vars
  BY <1>8 DEF vars, segments, TypeOK
<1>9. QED
  BY <1>1, <1>2, <1>3, <1>4, <1>5, <1>6, <1>7, <1>8 DEF Next

\* Every variable keeps its type, and a range lies below what was allocated
\* (src/ie/internal/clickhouse/sequence_generator.go 40-89).
THEOREM TypeCorrect == Spec => []TypeOK
BY InitType, StepType, PTL DEF Spec

-----------------------------------------------------------------------------
\* What Redis has given out lies below what is left of the range, and below
\* every range to come.
Used == IF HasNumbers THEN range.current ELSE key

IncreaseInv ==
    /\ IncreasingFromRedis
    /\ \A i \in 1..Len(issued) : issued[i].from = "redis" => issued[i].number <= Used

LEMMA InitIncrease == Init => IncreaseInv
BY DEF Init, IncreaseInv, IncreasingFromRedis

\* A number above the used ones is in order, one from the table does no harm.
LEMMA IssueIncreases ==
    ASSUME TypeOK, IncreaseInv, NEW h \in Handlers, NEW n \in Nat, NEW f \in {"redis", "table"},
           Issue(h, n, f), Used' \in Nat, Used <= Used',
           f = "redis" => Used < n /\ n <= Used'
    PROVE  IncreaseInv'
<1> DEFINE last == [number |-> n, from |-> f]
<1>1. Used \in Nat
  BY DEF Used, TypeOK
<1>2. issued \in Seq(Entries) /\ issued' = Append(issued, last) /\ last \in Entries
  BY DEF Issue, TypeOK, Entries
<1>3. last.number = n /\ last.from = f
  OBVIOUS
<1> HIDE DEF last
<1>4. Len(issued') = Len(issued) + 1 /\ Len(issued) \in Nat
  BY <1>2
<1>5. \A i \in 1..Len(issued') : issued'[i] = IF i <= Len(issued) THEN issued[i] ELSE last
  BY <1>2, <1>4
<1>6. \A i \in 1..Len(issued) : issued[i].number \in Nat
  BY EntryTypes
<1>7. ASSUME NEW i \in 1..Len(issued'), issued'[i].from = "redis"
      PROVE  issued'[i].number <= Used'
  <2>1. CASE i <= Len(issued)
    <3>1. i \in 1..Len(issued) /\ issued'[i] = issued[i]
      BY <1>4, <1>5, <2>1
    <3>2. QED
      BY <1>1, <1>6, <1>7, <3>1 DEF IncreaseInv
  <2>2. CASE ~(i <= Len(issued))
    BY <1>5, <1>3, <1>7, <2>2
  <2>3. QED
    BY <2>1, <2>2
<1>8. ASSUME NEW i \in 1..Len(issued'), NEW j \in 1..Len(issued'), i < j,
             issued'[i].from = "redis", issued'[j].from = "redis"
      PROVE  issued'[i].number < issued'[j].number
  <2>1. i \in 1..Len(issued) /\ issued'[i] = issued[i]
    BY <1>4, <1>5, <1>8
  <2>2. CASE j <= Len(issued)
    <3>1. j \in 1..Len(issued) /\ issued'[j] = issued[j]
      BY <1>4, <1>5, <2>2
    <3>2. QED
      BY <1>8, <2>1, <3>1 DEF IncreaseInv, IncreasingFromRedis
  <2>3. CASE ~(j <= Len(issued))
    <3>1. issued'[j] = last
      BY <1>5, <2>3
    <3>2. issued[i].number <= Used
      BY <1>8, <2>1 DEF IncreaseInv
    <3>3. QED
      BY <1>1, <1>6, <1>3, <1>8, <2>1, <3>1, <3>2
  <2>4. QED
    BY <2>2, <2>3
<1>9. QED
  BY <1>7, <1>8 DEF IncreaseInv, IncreasingFromRedis

LEMMA StepIncrease == TypeOK /\ IncreaseInv /\ [Next]_vars => IncreaseInv'
<1> SUFFICES ASSUME TypeOK, IncreaseInv, [Next]_vars PROVE IncreaseInv'
  OBVIOUS
<1> USE SequenceAssumption
<1>1. ASSUME NEW h \in Handlers, NextInRange(h) PROVE IncreaseInv'
  <2>1. Issue(h, range.current + 1, "redis") /\ range.current + 1 \in Nat
    BY <1>1 DEF NextInRange, TypeOK
  <2>2. Used = range.current
    BY <1>1 DEF NextInRange, Used
  <2>3. range' = [current |-> range.current + 1, max |-> range.max] /\ key' = key
    BY <1>1 DEF NextInRange, TypeOK
  <2>4. Used' \in Nat /\ range.current + 1 <= Used'
    BY <1>1, <2>3 DEF NextInRange, HasNumbers, Used, TypeOK
  <2>5. Used < range.current + 1 /\ Used <= Used'
    BY <2>2, <2>4 DEF TypeOK
  <2>6. QED
    BY <2>1, <2>4, <2>5, IssueIncreases
<1>2. ASSUME NEW h \in Handlers, Allocate(h) PROVE IncreaseInv'
  <2>1. Issue(h, key + 1, "redis") /\ key + 1 \in Nat
    BY <1>2 DEF Allocate, TypeOK
  <2>2. Used = key
    BY <1>2 DEF Allocate, Used
  <2>3. PICK size \in BatchSizes :
            key' = key + size /\ range' = [current |-> key + 1, max |-> key + size]
    BY <1>2 DEF Allocate, Sizes
  <2>4. Used' \in Nat /\ key + 1 <= Used'
    BY <2>3 DEF HasNumbers, Used, TypeOK
  <2>5. Used < key + 1 /\ Used <= Used'
    BY <2>2, <2>4 DEF TypeOK
  <2>6. QED
    BY <2>1, <2>4, <2>5, IssueIncreases
<1>3. ASSUME NEW h \in Handlers, Fallback(h) PROVE IncreaseInv'
  <2>1. PICK n \in table \union {0} : Issue(h, n + 1, "table")
    BY <1>3 DEF Fallback
  <2>2. n + 1 \in Nat
    BY DEF TypeOK
  <2>3. Used' = Used /\ Used \in Nat
    BY <1>3 DEF Fallback, Used, HasNumbers, TypeOK
  <2>4. QED
    BY <2>1, <2>2, <2>3, IssueIncreases
<1>4. ASSUME UNCHANGED issued, Used' \in Nat, Used <= Used' PROVE IncreaseInv'
  <2>1. \A i \in 1..Len(issued) : issued[i].number \in Nat
    BY EntryTypes
  <2>2. Used \in Nat
    BY DEF Used, TypeOK
  <2>3. \A i \in 1..Len(issued) : issued[i].from = "redis" => issued[i].number <= Used'
    BY <1>4, <2>1, <2>2 DEF IncreaseInv
  <2>4. QED
    BY <1>4, <2>3 DEF IncreaseInv, IncreasingFromRedis
<1>5. ASSUME NEW h \in Handlers, AllocateFails(h) PROVE IncreaseInv'
  <2>1. Used = key /\ Used' = key' /\ key' \in Nat /\ key <= key' /\ UNCHANGED issued
    BY <1>5 DEF AllocateFails, Used, HasNumbers, Sizes, TypeOK
  <2>2. QED
    BY <1>4, <2>1
<1>6. ASSUME NEW h \in Handlers, Write(h) PROVE IncreaseInv'
  BY <1>4, <1>6 DEF Write, Used, HasNumbers, TypeOK
<1>7. CASE Flush \/ UNCHANGED vars
  BY <1>4, <1>7 DEF Flush, vars, segments, Used, HasNumbers, TypeOK
<1>8. CASE Restart
  <2>1. Used' = key /\ UNCHANGED issued
    BY <1>8 DEF Restart, NoRange, Used, HasNumbers
  <2>2. Used <= key
    BY DEF Used, HasNumbers, TypeOK
  <2>3. QED
    BY <1>4, <2>1, <2>2 DEF TypeOK
<1>9. QED
  BY <1>1, <1>2, <1>3, <1>5, <1>6, <1>7, <1>8 DEF Next

\* However many goroutines ask, whatever sizes are configured and whatever
\* fails, the numbers Redis has a part in are given out in increasing order
\* (src/ie/internal/clickhouse/sequence_generator.go 40-89).
THEOREM RedisKeepsOrder == Spec => []IncreasingFromRedis
<1>1. IncreaseInv => IncreasingFromRedis
  BY DEF IncreaseInv
<1>2. QED
  BY InitType, StepType, InitIncrease, StepIncrease, <1>1, PTL DEF Spec
=============================================================================
