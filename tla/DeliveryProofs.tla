--------------------------- MODULE DeliveryProofs ---------------------------
(***************************************************************************)
(* Proofs about Delivery, for any number of packets, workers and           *)
(* publishers and any sizes; among them that its writer implements         *)
(* BatchWriter.                                                            *)
(***************************************************************************)
EXTENDS Delivery, TLAPS

WriterProofs == INSTANCE BatchWriterProofs WITH Rows <- Packets

\* The lemmas on the elements of a sequence, for packets.
LEMMA PacketsAppend ==
    ASSUME NEW s \in Seq(Packets), NEW m \in Packets
    PROVE  ToSet(Append(s, m)) = ToSet(s) \union {m}
<1>1. WriterProofs!ToSet(Append(s, m)) = WriterProofs!ToSet(s) \union {m}
  BY WriterProofs!ToSetAppend, DeliveryAssumption DEF WriterProofs!SizeAssumption
<1>2. QED
  BY <1>1 DEF ToSet, WriterProofs!ToSet

LEMMA PacketsTail ==
    ASSUME NEW s \in Seq(Packets), s # <<>>
    PROVE  ToSet(s) = {Head(s)} \union ToSet(Tail(s))
<1>1. WriterProofs!ToSet(s) = {Head(s)} \union WriterProofs!ToSet(Tail(s))
  BY WriterProofs!ToSetTail, DeliveryAssumption DEF WriterProofs!SizeAssumption
<1>2. QED
  BY <1>1 DEF ToSet, WriterProofs!ToSet

\* What the steps need to know of the values of the variables.
Typed ==
    /\ queue \in Seq(Packets)
    /\ job \in [Workers -> Packets \union {None}]
    /\ at \in [Workers -> {"idle", "handle", "send", "add"}]
    /\ \A w \in Workers : at[w] # "idle" => job[w] \in Packets
    /\ ch \in Seq(Packets)
    /\ taken \in [Publishers -> Packets \union {None}]

LEMMA InitTyped == Init => Typed
BY DEF Init, Typed

LEMMA StepTyped == Typed /\ [Next]_vars => Typed'
<1> SUFFICES ASSUME Typed, [Next]_vars PROVE Typed'
  OBVIOUS
<1> USE DEF Typed
<1>1. CASE Connect \/ Disconnect
  BY <1>1 DEF Connect, Disconnect, pool, publisher
<1>2. ASSUME NEW m \in Packets, Read(m) PROVE Typed'
  BY <1>2 DEF Read, pool, publisher
<1>3. ASSUME NEW w \in Workers, Dispatch(w) PROVE Typed'
  <2>1. Head(queue) \in Packets /\ Tail(queue) \in Seq(Packets)
    BY <1>3 DEF Dispatch
  <2>2. QED
    BY <1>3, <2>1 DEF Dispatch, publisher
<1>4. ASSUME NEW w \in Workers, Panic(w) \/ EnterPublish(w) PROVE Typed'
  BY <1>4 DEF Panic, EnterPublish, intake, publisher
<1>5. ASSUME NEW w \in Workers, Send(w) PROVE Typed'
  <2>1. job[w] \in Packets /\ Append(ch, job[w]) \in Seq(Packets)
    BY <1>5 DEF Send
  <2>2. ch' \in Seq(Packets) /\ UNCHANGED <<queue, job, taken>>
    BY <1>5, <2>1 DEF Send, intake
  <2>3. at' = [at EXCEPT ![w] = "add"]
    BY <1>5 DEF Send
  <2>4. QED
    BY <2>1, <2>2, <2>3
<1>6. ASSUME NEW w \in Workers, AddRow(w) PROVE Typed'
  BY <1>6 DEF AddRow, intake, publisher
<1>7. ASSUME NEW p \in Publishers, Take(p) PROVE Typed'
  <2>1. Head(ch) \in Packets /\ Tail(ch) \in Seq(Packets)
    BY <1>7 DEF Take
  <2>2. QED
    BY <1>7, <2>1 DEF Take, intake, pool
<1>8. ASSUME NEW p \in Publishers, HandOver(p) PROVE Typed'
  BY <1>8 DEF HandOver, intake, pool
<1>9. CASE Flush
  BY <1>9 DEF Flush, intake, pool, publisher
<1>10. CASE CloseListeners \/ StopWriter \/ WriterStopped \/ LockPublisher
            \/ StopPublisher \/ Exit
  BY <1>10 DEF CloseListeners, StopWriter, WriterStopped, LockPublisher,
               StopPublisher, Exit, intake, pool, publisher
<1>11. CASE UNCHANGED vars
  BY <1>11 DEF vars, intake, pool, publisher
<1>12. QED
  BY <1>1, <1>2, <1>3, <1>4, <1>5, <1>6, <1>7, <1>8, <1>9, <1>10, <1>11
     DEF Next, Step, Work

-----------------------------------------------------------------------------
(* The lock of the publisher.                                              *)

LockInv ==
    /\ closed => main \in {"drain", "exited"}
    /\ SendsOnOpenChannel

LEMMA InitLock == Init => LockInv
BY DEF Init, LockInv, SendsOnOpenChannel

LEMMA StepLock == Typed /\ LockInv /\ [Next]_vars => LockInv'
<1> SUFFICES ASSUME Typed, LockInv, [Next]_vars PROVE LockInv'
  OBVIOUS
<1> USE DEF Typed, LockInv, SendsOnOpenChannel
<1>1. CASE Connect \/ Disconnect \/ Flush \/ (\E m \in Packets : Read(m))
            \/ UNCHANGED vars
  BY <1>1 DEF Connect, Disconnect, Flush, Read, pool, publisher, shutdown, vars
<1>2. ASSUME NEW w \in Workers, Work(w) \/ Panic(w) PROVE LockInv'
  <2>1. UNCHANGED <<main, closed>>
    BY <1>2 DEF Work, Dispatch, EnterPublish, Send, AddRow, Panic, publisher, shutdown
  <2>2. \/ at' = [at EXCEPT ![w] = "idle"]
        \/ at' = [at EXCEPT ![w] = "handle"]
        \/ at' = [at EXCEPT ![w] = "add"]
        \/ at' = [at EXCEPT ![w] = "send"] /\ ~closed
    <3>1. CASE EnterPublish(w)
      BY <3>1 DEF EnterPublish
    <3>2. CASE ~EnterPublish(w)
      BY <1>2, <3>2 DEF Work, Dispatch, Send, AddRow, Panic
    <3>3. QED
      BY <3>1, <3>2
  <2>3. QED
    BY <2>1, <2>2
<1>3. ASSUME NEW p \in Publishers, Take(p) \/ HandOver(p) PROVE LockInv'
  BY <1>3 DEF Take, HandOver, pool, shutdown
<1>4. CASE CloseListeners \/ StopWriter \/ WriterStopped \/ LockPublisher \/ Exit
  BY <1>4 DEF CloseListeners, StopWriter, WriterStopped, LockPublisher, Exit, pool, publisher
<1>5. CASE StopPublisher
  BY <1>5 DEF StopPublisher, pool
<1>6. QED
  BY <1>1, <1>2, <1>3, <1>4, <1>5 DEF Next, Step

\* No event is sent on a closed channel, however many workers publish and
\* whenever Stop is called (src/ie/internal/redis/publish_batcher.go 41-86).
THEOREM NeverSendsOnClosed == Spec => []SendsOnOpenChannel
<1>1. LockInv => SendsOnOpenChannel
  BY DEF LockInv
<1>2. QED
  BY InitTyped, StepTyped, InitLock, StepLock, <1>1, PTL DEF Spec

-----------------------------------------------------------------------------
(* Where events are.                                                       *)

Offered == handed \union unheard \union ToSet(ch) \union {taken[p] : p \in Publishers}

\* Every row that is in the writer before the shutdown begins, and so every
\* early row, belongs to an event that was offered to the publisher.
EventInv ==
    /\ early \subseteq Packets
    /\ early \subseteq Offered
    /\ main = "up" => added \subseteq Packets \intersect Offered
    /\ main = "up" => \A w \in Workers : at[w] = "add" => job[w] \in Offered

\* An event that was offered stays so.
LEMMA OfferedGrows ==
    ASSUME Typed, Next
    PROVE  Offered \subseteq Offered' \union {None}
<1>1. CASE UNCHANGED <<handed, unheard, ch, taken>>
  BY <1>1 DEF Offered
<1>2. ASSUME NEW w \in Workers, Send(w) PROVE Offered \subseteq Offered'
  <2>1. job[w] \in Packets /\ ch \in Seq(Packets)
    BY <1>2 DEF Send, Typed
  <2>2. ToSet(Append(ch, job[w])) = ToSet(ch) \union {job[w]}
    BY <2>1, PacketsAppend
  <2>3. ToSet(ch) \subseteq ToSet(ch') /\ unheard \subseteq unheard'
    BY <1>2, <2>2 DEF Send
  <2>4. UNCHANGED <<handed, taken>>
    BY <1>2 DEF Send
  <2>5. QED
    BY <2>3, <2>4 DEF Offered
<1>3. ASSUME NEW p \in Publishers, Take(p) PROVE Offered \subseteq Offered' \union {None}
  <2>1. ToSet(ch) = {Head(ch)} \union ToSet(ch')
    BY <1>3, PacketsTail DEF Take, Typed
  <2>2. taken' = [taken EXCEPT ![p] = Head(ch)] /\ taken[p] = None
    BY <1>3 DEF Take
  <2>3. Head(ch) \in {taken'[q] : q \in Publishers}
    BY <2>2 DEF Typed
  <2>4. \A q \in Publishers : taken[q] \in {taken'[x] : x \in Publishers} \union {None}
    BY <2>2 DEF Typed
  <2>5. UNCHANGED <<handed, unheard>>
    BY <1>3 DEF Take
  <2>6. QED
    BY <2>1, <2>3, <2>4, <2>5 DEF Offered
<1>4. ASSUME NEW p \in Publishers, HandOver(p) PROVE Offered \subseteq Offered'
  <2>1. \A q \in Publishers : taken[q] \in {taken'[x] : x \in Publishers} \union handed'
    BY <1>4 DEF HandOver, Typed
  <2>2. handed \subseteq handed' /\ UNCHANGED <<ch, unheard>>
    BY <1>4 DEF HandOver
  <2>3. QED
    BY <2>1, <2>2 DEF Offered
<1>5. QED
  BY <1>1, <1>2, <1>3, <1>4
     DEF Next, Step, Work, Connect, Disconnect, Read, Dispatch, Panic, EnterPublish, AddRow,
         Flush, CloseListeners, StopWriter, WriterStopped, LockPublisher, StopPublisher, Exit,
         publisher

-----------------------------------------------------------------------------
(* The writer of Delivery is the writer of BatchWriterProofs.              *)

LEMMA SameFlush ==
    ASSUME NEW s
    PROVE  Writer!FlushLocked(s) <=> WriterProofs!FlushLocked(s)
<1>1. \A t : Writer!ToSet(t) = WriterProofs!ToSet(t)
  BY DEF Writer!ToSet, WriterProofs!ToSet
<1>2. Writer!Fails(s) <=> WriterProofs!Fails(s)
  BY <1>1 DEF Writer!Fails, WriterProofs!Fails
<1>3. QED
  BY <1>1, <1>2 DEF Writer!FlushLocked, WriterProofs!FlushLocked, Writer!outcome,
                    WriterProofs!outcome

LEMMA SameStep ==
    ASSUME [Writer!Next]_rows
    PROVE  [WriterProofs!Next]_WriterProofs!writer
<1> USE DEF Writer!outcome, WriterProofs!outcome
<1>1. \A t : Writer!ToSet(t) = WriterProofs!ToSet(t)
  BY DEF Writer!ToSet, WriterProofs!ToSet
<1>2. Writer!DropCount = WriterProofs!DropCount
  BY DEF Writer!DropCount, WriterProofs!DropCount
<1>3. ASSUME NEW r \in Packets, Writer!Add(r) PROVE WriterProofs!Add(r)
  BY <1>1, <1>2, <1>3, SameFlush DEF Writer!Add, WriterProofs!Add
<1>4. Writer!TimerFlush => WriterProofs!TimerFlush
  BY SameFlush DEF Writer!TimerFlush, WriterProofs!TimerFlush
<1>5. Writer!FinalFlush => WriterProofs!FinalFlush
  BY <1>1, SameFlush DEF Writer!FinalFlush, WriterProofs!FinalFlush
<1>6. Writer!CloseStopCh => WriterProofs!CloseStopCh
  BY DEF Writer!CloseStopCh, WriterProofs!CloseStopCh
<1>7. UNCHANGED rows => UNCHANGED WriterProofs!writer
  BY DEF rows, WriterProofs!writer
<1>8. QED
  BY <1>3, <1>4, <1>5, <1>6, <1>7 DEF Writer!Next, WriterProofs!Next

\* A step of the engine is a step of its writer, or none.
LEMMA StepOfWriter == Typed /\ [Next]_vars => [Writer!Next]_rows
<1> SUFFICES ASSUME Typed, [Next]_vars PROVE [Writer!Next]_rows
  OBVIOUS
<1>1. ASSUME NEW w \in Workers, AddRow(w) PROVE Writer!Next
  <2>1. job[w] \in Packets /\ Writer!Add(job[w])
    BY <1>1 DEF AddRow, Typed
  <2>2. QED
    BY <2>1 DEF Writer!Next
<1>2. CASE Flush \/ StopWriter
  BY <1>2 DEF Flush, StopWriter, Writer!Next
<1>3. CASE UNCHANGED rows
  BY <1>3
<1>4. QED
  BY <1>1, <1>2, <1>3
     DEF Next, Step, Work, Connect, Disconnect, Read, Dispatch, Panic, EnterPublish, Send, Take,
         HandOver, CloseListeners, WriterStopped, LockPublisher, StopPublisher, Exit, vars, rows

RowInv ==
    /\ WriterProofs!AccountInv
    /\ early \subseteq added
    /\ main \in {"media", "lock", "drain", "exited"} => loop = "done"

LEMMA InitRows == Init => RowInv
<1>1. Init => WriterProofs!Init
  BY DEF Init, Writer!Init, WriterProofs!Init
<1>2. Init => WriterProofs!AccountInv
  BY <1>1, WriterProofs!InitAccounts, DeliveryAssumption DEF WriterProofs!SizeAssumption
<1>3. QED
  BY <1>2 DEF Init, RowInv

LEMMA StepRows == Typed /\ RowInv /\ [Next]_vars => RowInv'
<1> SUFFICES ASSUME Typed, RowInv, [Next]_vars PROVE RowInv'
  OBVIOUS
<1>1. [Writer!Next]_rows
  BY StepOfWriter
<1>2. WriterProofs!AccountInv'
  BY <1>1, SameStep, WriterProofs!StepAccounts, DeliveryAssumption
     DEF RowInv, WriterProofs!SizeAssumption
<1>3. added \subseteq added' /\ (loop = "done" => loop' = "done")
  BY <1>1 DEF Writer!Next, Writer!Add, Writer!TimerFlush, Writer!FinalFlush,
              Writer!CloseStopCh, rows
<1>4. CASE UNCHANGED shutdown
  BY <1>2, <1>3, <1>4 DEF RowInv, shutdown
<1>5. CASE CloseListeners
  BY <1>2, <1>3, <1>5 DEF RowInv, CloseListeners
<1>6. CASE StopWriter \/ WriterStopped \/ LockPublisher \/ StopPublisher \/ Exit
  BY <1>2, <1>3, <1>6 DEF RowInv, StopWriter, WriterStopped, LockPublisher, StopPublisher, Exit,
                          rows
<1>7. QED
  BY <1>4, <1>5, <1>6
     DEF Next, Step, Work, Connect, Disconnect, Read, Dispatch, Panic, EnterPublish, Send, AddRow,
         Take, HandOver, Flush, vars

-----------------------------------------------------------------------------
LEMMA InitEvents == Init => EventInv
BY DEF Init, Writer!Init, EventInv

\* The last two parts of EventInv, when the engine is still up.
UpInv ==
    /\ added \subseteq Packets \intersect Offered
    /\ \A w \in Workers : at[w] = "add" => job[w] \in Offered

LEMMA StepUp ==
    ASSUME Typed, LockInv, UpInv, Next, main = "up", main' = "up"
    PROVE  UpInv'
<1>1. (Packets \intersect Offered) \subseteq Offered'
  BY OfferedGrows, DeliveryAssumption
<1>2. \A w \in Workers : at[w] = "add" => job[w] \in Offered'
  BY <1>1 DEF UpInv, Typed
<1>3. CASE UNCHANGED <<added, job, at>>
  BY <1>1, <1>2, <1>3 DEF UpInv
<1>4. ASSUME NEW w \in Workers, Dispatch(w) \/ Panic(w) PROVE UpInv'
  <2>1. \A v \in Workers : at'[v] = "add" => at[v] = "add" /\ job'[v] = job[v]
    BY <1>4 DEF Dispatch, Panic, Typed
  <2>2. added' = added
    BY <1>4 DEF Dispatch, Panic, rows
  <2>3. QED
    BY <1>1, <1>2, <2>1, <2>2 DEF UpInv
<1>5. ASSUME NEW w \in Workers, EnterPublish(w) PROVE UpInv'
  <2>1. ~closed
    BY DEF LockInv
  <2>2. at' = [at EXCEPT ![w] = "send"] /\ UNCHANGED <<job, added>>
    BY <1>5, <2>1 DEF EnterPublish, rows
  <2>3. QED
    BY <1>1, <1>2, <2>2 DEF UpInv, Typed
<1>6. ASSUME NEW w \in Workers, Send(w) PROVE UpInv'
  <2>1. job[w] \in Packets /\ ch \in Seq(Packets)
    BY <1>6 DEF Send, Typed
  <2>2. job[w] \in ToSet(Append(ch, job[w]))
    BY <2>1, PacketsAppend
  <2>3. job[w] \in Offered'
    BY <1>6, <2>2 DEF Send, Offered
  <2>4. at' = [at EXCEPT ![w] = "add"] /\ UNCHANGED <<job, added>>
    BY <1>6 DEF Send, rows
  <2>5. QED
    BY <1>1, <1>2, <2>3, <2>4 DEF UpInv, Typed
<1>7. ASSUME NEW w \in Workers, AddRow(w) PROVE UpInv'
  <2>1. job[w] \in Packets /\ at[w] = "add"
    BY <1>7 DEF AddRow, Typed
  <2>2. added' = added \union {job[w]}
    BY <1>7 DEF AddRow, Writer!Add
  <2>3. \A v \in Workers : at'[v] = "add" => at[v] = "add" /\ job'[v] = job[v]
    BY <1>7 DEF AddRow, Typed
  <2>4. QED
    BY <1>1, <1>2, <2>1, <2>2, <2>3 DEF UpInv
<1>8. CASE Flush
  BY <1>3, <1>8 DEF Flush, pool, Writer!TimerFlush, Writer!FinalFlush
<1>9. QED
  BY <1>3, <1>4, <1>5, <1>6, <1>7, <1>8
     DEF Next, Step, Work, Connect, Disconnect, Read, Take, HandOver, CloseListeners, StopWriter,
         WriterStopped, LockPublisher, StopPublisher, Exit, pool, rows

LEMMA StepEvents == Typed /\ LockInv /\ EventInv /\ [Next]_vars => EventInv'
<1> SUFFICES ASSUME Typed, LockInv, EventInv, [Next]_vars PROVE EventInv'
  OBVIOUS
<1>1. CASE UNCHANGED vars
  BY <1>1 DEF EventInv, Offered, vars, pool, publisher, shutdown, rows
<1>2. CASE Next
  <2>1. (Packets \intersect Offered) \subseteq Offered'
    BY <1>2, OfferedGrows, DeliveryAssumption
  <2>2. early' \subseteq Packets /\ early' \subseteq Offered'
    <3>1. CASE CloseListeners
      BY <2>1, <3>1 DEF CloseListeners, EventInv
    <3>2. CASE UNCHANGED early
      BY <2>1, <3>2 DEF EventInv
    <3>3. QED
      BY <1>2, <3>1, <3>2
         DEF Next, Step, Work, Connect, Disconnect, Read, Dispatch, Panic, EnterPublish, Send,
             AddRow, Take, HandOver, Flush, StopWriter, WriterStopped, LockPublisher,
             StopPublisher, Exit, shutdown
  <2>3. main' = "up" => main = "up"
    BY <1>2
       DEF Next, Step, Work, Connect, Disconnect, Read, Dispatch, Panic, EnterPublish, Send, AddRow,
           Take, HandOver, Flush, CloseListeners, StopWriter, WriterStopped, LockPublisher,
           StopPublisher, Exit, shutdown
  <2>4. main' = "up" => UpInv'
    BY <1>2, <2>3, StepUp DEF EventInv, UpInv
  <2>5. QED
    BY <2>2, <2>4 DEF EventInv, UpInv
<1>3. QED
  BY <1>1, <1>2

\* When main returns the publisher has nothing left.
ExitInv ==
    main = "exited" => ch = <<>> /\ \A p \in Publishers : taken[p] = None

LEMMA StepExit == ExitInv /\ [Next]_vars => ExitInv'
<1> SUFFICES ASSUME ExitInv, [Next]_vars PROVE ExitInv'
  OBVIOUS
<1>1. CASE UNCHANGED vars
  BY <1>1 DEF ExitInv, vars, publisher, shutdown
<1>2. CASE Exit
  BY <1>2 DEF ExitInv, Exit, publisher
<1>3. CASE main # "exited" /\ UNCHANGED main
  BY <1>3 DEF ExitInv
<1>4. CASE CloseListeners \/ StopWriter \/ WriterStopped \/ LockPublisher \/ StopPublisher
  BY <1>4 DEF ExitInv, CloseListeners, StopWriter, WriterStopped, LockPublisher, StopPublisher
<1>5. QED
  BY <1>1, <1>2, <1>3, <1>4
     DEF Next, Step, Work, Connect, Disconnect, Read, Dispatch, Panic, EnterPublish, Send, AddRow,
         Take, HandOver, Flush, shutdown

-----------------------------------------------------------------------------
DeliveryInv == Typed /\ LockInv /\ EventInv /\ RowInv /\ ExitInv

LEMMA InvDelivers == DeliveryInv => EarlyIsDelivered
<1> SUFFICES ASSUME DeliveryInv, main = "exited"
             PROVE  /\ early \subseteq handed \union unheard
                    /\ early \subseteq Settled \union late
  BY DEF EarlyIsDelivered
<1>1. early \subseteq handed \union unheard
  <2>1. ch = <<>> /\ \A p \in Publishers : taken[p] = None
    BY DEF DeliveryInv, ExitInv
  <2>2. ToSet(ch) = {}
    BY <2>1 DEF ToSet
  <2>3. Offered \subseteq handed \union unheard \union {None}
    BY <2>1, <2>2 DEF Offered
  <2>4. QED
    BY <2>3, DeliveryAssumption DEF DeliveryInv, EventInv
<1>2. early \subseteq Settled \union late
  <2>1. WriterProofs!Held \subseteq late
    BY DEF DeliveryInv, RowInv, WriterProofs!AccountInv, WriterProofs!StopFlushes
  <2>2. added \subseteq WriterProofs!Held \union WriterProofs!Settled \union shed
    BY DEF DeliveryInv, RowInv, WriterProofs!AccountInv
  <2>3. WriterProofs!Settled \union shed = Settled
    BY DEF WriterProofs!Settled, Settled
  <2>4. QED
    BY <2>1, <2>2, <2>3 DEF DeliveryInv, RowInv
<1>3. QED
  BY <1>1, <1>2

\* Whatever the numbers of workers and the sizes, and whatever still comes in,
\* what was handled before the shutdown began is not lost by it
\* (src/ie/main.go 685-794).
THEOREM ShutdownKeepsEarly == Spec => []EarlyIsDelivered
<1>1. Init => DeliveryInv
  BY InitTyped, InitLock, InitEvents, InitRows DEF DeliveryInv, ExitInv, Init
<1>2. DeliveryInv /\ [Next]_vars => DeliveryInv'
  BY StepTyped, StepLock, StepEvents, StepRows, StepExit DEF DeliveryInv
<1>3. QED
  BY <1>1, <1>2, InvDelivers, PTL DEF Spec

-----------------------------------------------------------------------------
(* Types and bounds.                                                       *)

\* What TypeOK says of the HEP server and the publisher, but for Typed.
Bounded ==
    /\ listening \in BOOLEAN /\ connected \in BOOLEAN
    /\ arrived \subseteq Packets
    /\ Len(queue) <= QueueSize /\ Len(ch) <= ChannelSize
    /\ closed \in BOOLEAN
    /\ handed \subseteq Packets /\ unheard \subseteq Packets
    /\ main \in {"up", "hep", "flush", "media", "lock", "drain", "exited"}
    /\ early \subseteq Packets

TypeInv == Typed /\ Bounded /\ WriterProofs!TypeOK

LEMMA InitTypes == Init => TypeInv
<1> SUFFICES ASSUME Init PROVE TypeInv
  OBVIOUS
<1>1. WriterProofs!Init
  BY DEF Init, Writer!Init, WriterProofs!Init
<1>2. WriterProofs!TypeOK
  BY <1>1, WriterProofs!InitTyped, DeliveryAssumption DEF WriterProofs!SizeAssumption
<1>3. listening \in BOOLEAN /\ connected \in BOOLEAN /\ closed \in BOOLEAN
  BY DEF Init
<1>4. Len(queue) <= QueueSize /\ Len(ch) <= ChannelSize
  BY DeliveryAssumption DEF Init
<1>5. Bounded
  BY <1>3, <1>4 DEF Init, Bounded
<1>6. QED
  BY <1>2, <1>5, InitTyped DEF TypeInv

LEMMA StepBounded == TypeInv /\ Next => Bounded'
<1> SUFFICES ASSUME TypeInv, Next PROVE Bounded'
  OBVIOUS
<1> USE DEF TypeInv, Typed, Bounded
<1> USE DEF intake, pool, publisher, shutdown
<1>1. CASE Connect \/ Disconnect
  BY <1>1 DEF Connect, Disconnect
<1>2. ASSUME NEW m \in Packets, Read(m) PROVE Bounded'
  <2>1. Len(queue') <= QueueSize /\ arrived' \subseteq Packets
    BY <1>2, DeliveryAssumption DEF Read
  <2>2. QED
    BY <1>2, <2>1 DEF Read
<1>3. ASSUME NEW w \in Workers, Dispatch(w) PROVE Bounded'
  <2>1. Len(queue') <= QueueSize
    BY <1>3, DeliveryAssumption DEF Dispatch
  <2>2. QED
    BY <1>3, <2>1 DEF Dispatch
<1>4. ASSUME NEW w \in Workers, Panic(w) \/ EnterPublish(w) PROVE Bounded'
  BY <1>4 DEF Panic, EnterPublish
<1>5. ASSUME NEW w \in Workers, Send(w) PROVE Bounded'
  <2>1. job[w] \in Packets
    BY <1>5 DEF Send
  <2>2. Len(ch') <= ChannelSize /\ unheard' \subseteq Packets
    BY <1>5, <2>1, DeliveryAssumption DEF Send
  <2>3. UNCHANGED <<intake, closed, handed, shutdown>>
    BY <1>5 DEF Send
  <2>4. QED
    BY <2>2, <2>3
<1>6. ASSUME NEW w \in Workers, AddRow(w) PROVE Bounded'
  BY <1>6 DEF AddRow
<1>7. ASSUME NEW p \in Publishers, Take(p) PROVE Bounded'
  <2>1. Len(ch') <= ChannelSize
    BY <1>7, DeliveryAssumption DEF Take
  <2>2. QED
    BY <1>7, <2>1 DEF Take
<1>8. ASSUME NEW p \in Publishers, HandOver(p) PROVE Bounded'
  BY <1>8 DEF HandOver
<1>9. CASE Flush
  BY <1>9 DEF Flush
<1>10. CASE CloseListeners
  BY <1>10 DEF CloseListeners, WriterProofs!TypeOK
<1>11. CASE StopWriter \/ WriterStopped \/ LockPublisher \/ Exit
  BY <1>11 DEF StopWriter, WriterStopped, LockPublisher, Exit
<1>12. CASE StopPublisher
  BY <1>12 DEF StopPublisher
<1>13. QED
  BY <1>1, <1>2, <1>3, <1>4, <1>5, <1>6, <1>7, <1>8, <1>9, <1>10, <1>11, <1>12
     DEF Next, Step, Work

LEMMA StepTypes == TypeInv /\ [Next]_vars => TypeInv'
<1> SUFFICES ASSUME TypeInv, [Next]_vars PROVE TypeInv'
  OBVIOUS
<1>1. Typed'
  BY StepTyped DEF TypeInv
<1>2. Bounded'
  <2>1. CASE Next
    BY <2>1, StepBounded
  <2>2. CASE UNCHANGED vars
    BY <2>2 DEF vars, intake, pool, publisher, shutdown, TypeInv, Bounded
  <2>3. QED
    BY <2>1, <2>2
<1>3. WriterProofs!TypeOK'
  BY StepOfWriter, SameStep, WriterProofs!StepTyped, DeliveryAssumption
     DEF TypeInv, WriterProofs!SizeAssumption
<1>4. QED
  BY <1>1, <1>2, <1>3 DEF TypeInv

\* For any sizes the queue of the pool and the channel of the publisher never
\* hold more than their capacity
\* (src/ie/internal/hep/worker_pool.go 99-109, src/ie/internal/redis/publish_batcher.go 41-58).
THEOREM TypeCorrect == Spec => []TypeOK
<1>1. TypeInv => TypeOK
  BY DEF TypeInv, Typed, Bounded, TypeOK, Writer!TypeOK, WriterProofs!TypeOK
<1>2. QED
  BY <1>1, InitTypes, StepTypes, PTL DEF Spec

-----------------------------------------------------------------------------
(* The writer of the engine is a GenericBatchWriter: Delivery implements   *)
(* BatchWriter, and what is proved of that writer holds of this one.       *)

\* Whatever sockets, workers, publishers and the shutdown sequence do, they do
\* nothing to the writer but what its own operations allow
\* (src/ie/internal/clickhouse/batch_writer.go 69-217, src/ie/main.go 685-711).
THEOREM WriterImplemented == Spec => Writer!Spec
<1>1. Init => Writer!Init
  BY DEF Init
<1>2. Typed /\ [Next]_vars => [Writer!Next]_Writer!writer
  <2>1. UNCHANGED rows => UNCHANGED Writer!writer
    BY DEF rows, Writer!writer, Writer!outcome
  <2>2. QED
    BY <2>1, StepOfWriter
<1>3. QED
  BY <1>1, <1>2, InitTyped, StepTyped, PTL DEF Spec, Writer!Spec

\* What is known of a writer whose batches are small, of this one.
LEMMA InitSmall ==
    Init => WriterProofs!BufferInv /\ Writer!NothingShed
<1>1. Init => WriterProofs!Init
  BY DEF Init, Writer!Init, WriterProofs!Init
<1>2. WriterProofs!Init => WriterProofs!BufferInv
  BY WriterProofs!InitBounds, DeliveryAssumption DEF WriterProofs!SizeAssumption
<1>3. QED
  BY <1>1, <1>2 DEF WriterProofs!Init, Writer!NothingShed

LEMMA StepSmall ==
    ASSUME Typed, [Next]_vars, WriterProofs!SmallBatches,
           WriterProofs!BufferInv, Writer!NothingShed
    PROVE  WriterProofs!BufferInv' /\ Writer!NothingShed'
<1>1. [WriterProofs!Next]_WriterProofs!writer
  BY StepOfWriter, SameStep
<1>2. WriterProofs!BufferInv' /\ shed' = shed
  BY <1>1, WriterProofs!StepBounds, DeliveryAssumption DEF WriterProofs!SizeAssumption
<1>3. QED
  BY <1>2 DEF Writer!NothingShed

\* When a batch and the failures it may survive fit below the backpressure
\* limit, no row of an event is dropped to make room for another, whatever the
\* load and in a shutdown too (src/ie/internal/clickhouse/batch_writer.go 59-66).
THEOREM NoRowIsShed ==
    ASSUME WriterProofs!SmallBatches
    PROVE  Spec => []Writer!NothingShed
<1> DEFINE Small == WriterProofs!BufferInv /\ Writer!NothingShed
<1>1. Init => Small
  BY InitSmall
<1>2. Typed /\ Small /\ [Next]_vars => Small'
  BY StepSmall
<1>3. Small => Writer!NothingShed
  OBVIOUS
<1>4. QED
  BY <1>1, <1>2, <1>3, InitTyped, StepTyped, PTL DEF Spec

\* Then what was handled before the shutdown began is in ClickHouse when main
\* returns, unless its batch was given up after MaxFlushRetries failures or
\* was the one whose last commit failed (src/ie/main.go 685-794).
EarlyIsStored == main = "exited" => early \subseteq stored \union givenUp \union late

THEOREM SmallBatchesKeepEarly ==
    ASSUME WriterProofs!SmallBatches
    PROVE  Spec => []EarlyIsStored
<1>1. EarlyIsDelivered /\ Writer!NothingShed => EarlyIsStored
  BY DEF EarlyIsDelivered, EarlyIsStored, Settled, Writer!NothingShed
<1>2. QED
  BY <1>1, NoRowIsShed, ShutdownKeepsEarly, PTL
=============================================================================
