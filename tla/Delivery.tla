------------------------------ MODULE Delivery ------------------------------
(***************************************************************************)
(* The way of a SIP event through the ingestion engine, from the sockets   *)
(* of the HEP server to ClickHouse and Redis, and what the shutdown        *)
(* sequence of src/ie/main.go does to events that are under way.           *)
(*                                                                         *)
(*   sockets --> HEPWorkerPool --> EventPublisher --> Redis                *)
(*                            \--> GenericBatchWriter --> ClickHouse       *)
(*                                                                         *)
(* A worker first offers the event to the publisher, under the read lock   *)
(* that keeps Stop from closing the channel, then adds its row to the      *)
(* writer, which is module BatchWriter.  Every packet holds one event.     *)
(***************************************************************************)
EXTENDS Naturals, Sequences, SequencesExt

CONSTANTS
    Packets,          \* what may arrive, once each
    Workers,          \* hep.udp_workers
    QueueSize,        \* hep.udp_queue_size
    Publishers,       \* workers of the EventPublisher
    ChannelSize,      \* buffer of the EventPublisher
    None,             \* no packet
    MaxSize, MaxBufferSize, MaxFlushRetries    \* see BatchWriter

ASSUME DeliveryAssumption ==
    /\ None \notin Packets
    /\ QueueSize \in Nat /\ ChannelSize \in Nat
    /\ MaxSize \in Nat \ {0}
    /\ MaxBufferSize \in Nat \ {0}
    /\ MaxFlushRetries \in Nat \ {0}

VARIABLES
    listening,   \* the UDP socket and the TCP listener are open
    connected,   \* a TCP connection is open
    arrived,     \* packets read from a socket (history)
    queue,       \* jobs of the HEPWorkerPool
    job,         \* worker |-> packet it handles, or None
    at,          \* worker |-> what it does next
    ch,          \* channel of the EventPublisher
    closed,      \* stopped and the channel closed
    taken,       \* publisher |-> event it publishes, or None
    handed,      \* events handed to Redis
    unheard,     \* events dropped because the channel was full (history)
    main,        \* how far the shutdown sequence is
    early,       \* packets done with when the shutdown began (history)
    buffer, failCount, stopCh, loop, added, stored, givenUp, shed, late

Writer == INSTANCE BatchWriter WITH Rows <- Packets

intake == <<listening, connected, arrived, queue>>
pool == <<job, at>>
publisher == <<ch, closed, taken, handed, unheard>>
shutdown == <<main, early>>
rows == <<buffer, failCount, stopCh, loop, added, stored, givenUp, shed, late>>
vars == <<intake, pool, publisher, shutdown, rows>>

TypeOK ==
    /\ listening \in BOOLEAN /\ connected \in BOOLEAN
    /\ arrived \subseteq Packets
    /\ queue \in Seq(Packets) /\ Len(queue) <= QueueSize
    /\ job \in [Workers -> Packets \union {None}]
    /\ at \in [Workers -> {"idle", "handle", "send", "add"}]
    /\ ch \in Seq(Packets) /\ Len(ch) <= ChannelSize
    /\ closed \in BOOLEAN
    /\ taken \in [Publishers -> Packets \union {None}]
    /\ handed \subseteq Packets /\ unheard \subseteq Packets
    /\ main \in {"up", "hep", "flush", "media", "lock", "drain", "exited"}
    /\ early \subseteq Packets
    /\ Writer!TypeOK

Init ==
    /\ listening = TRUE /\ connected = FALSE
    /\ arrived = {}
    /\ queue = <<>>
    /\ job = [w \in Workers |-> None]
    /\ at = [w \in Workers |-> "idle"]
    /\ ch = <<>>
    /\ closed = FALSE
    /\ taken = [p \in Publishers |-> None]
    /\ handed = {} /\ unheard = {}
    /\ main = "up"
    /\ early = {}
    /\ Writer!Init

-----------------------------------------------------------------------------
(* The HEP server.                                                         *)

Connect ==
    /\ listening /\ ~connected
    /\ connected' = TRUE
    /\ UNCHANGED <<listening, arrived, queue, pool, publisher, shutdown, rows>>

\* The peer closes the connection, or it is idle for too long.
Disconnect ==
    /\ connected
    /\ connected' = FALSE
    /\ UNCHANGED <<listening, arrived, queue, pool, publisher, shutdown, rows>>

\* Mutant: the submission does not look at the length of the queue.
Read_Unbounded(m) ==
    /\ m \notin arrived
    /\ listening \/ connected
    /\ arrived' = arrived \union {m}
    /\ queue' = Append(queue, m)
    /\ UNCHANGED <<listening, connected, pool, publisher, shutdown, rows>>

\* A packet is read, and submitted unless the queue is full.  Closing the
\* listeners leaves an open connection, and its reader, alone.
Read(m) ==
    /\ m \notin arrived
    /\ listening \/ connected
    /\ arrived' = arrived \union {m}
    /\ queue' = IF Len(queue) < QueueSize THEN Append(queue, m) ELSE queue
    /\ UNCHANGED <<listening, connected, pool, publisher, shutdown, rows>>

Dispatch(w) ==
    /\ at[w] = "idle" /\ queue # <<>>
    /\ queue' = Tail(queue)
    /\ job' = [job EXCEPT ![w] = Head(queue)]
    /\ at' = [at EXCEPT ![w] = "handle"]
    /\ UNCHANGED <<listening, connected, arrived, publisher, shutdown, rows>>

\* Mutant: the worker does not survive the panic; with no packet left it has
\* nothing to add, and takes no step any more.
Panic_EndsWorker(w) ==
    /\ at[w] = "handle"
    /\ job' = [job EXCEPT ![w] = None]
    /\ at' = [at EXCEPT ![w] = "add"]
    /\ UNCHANGED <<intake, publisher, shutdown, rows>>

\* The handler panics; its packet is lost, the worker is not.
Panic(w) ==
    /\ at[w] = "handle"
    /\ job' = [job EXCEPT ![w] = None]
    /\ at' = [at EXCEPT ![w] = "idle"]
    /\ UNCHANGED <<intake, publisher, shutdown, rows>>

\* Publish takes the read lock, which it keeps until it has sent the event
\* unless it finds the publisher stopped.  A Stop that waits for the write
\* lock keeps new readers out.
EnterPublish(w) ==
    /\ at[w] = "handle" /\ main # "lock"
    /\ at' = [at EXCEPT ![w] = IF closed THEN "add" ELSE "send"]
    /\ UNCHANGED <<job, intake, publisher, shutdown, rows>>

Send(w) ==
    /\ at[w] = "send"
    /\ at' = [at EXCEPT ![w] = "add"]
    /\ IF Len(ch) < ChannelSize
       THEN ch' = Append(ch, job[w]) /\ UNCHANGED unheard
       ELSE unheard' = unheard \union {job[w]} /\ UNCHANGED ch
    /\ UNCHANGED <<job, closed, taken, handed, intake, shutdown, rows>>

AddRow(w) ==
    /\ at[w] = "add"
    /\ Writer!Add(job[w])
    /\ job' = [job EXCEPT ![w] = None]
    /\ at' = [at EXCEPT ![w] = "idle"]
    /\ UNCHANGED <<intake, publisher, shutdown>>

-----------------------------------------------------------------------------
(* The EventPublisher.                                                     *)

\* Mutant: the loop ends with the channel, and not when it is empty.
Take_UntilClosed(p) ==
    /\ taken[p] = None /\ ch # <<>> /\ ~closed
    /\ taken' = [taken EXCEPT ![p] = Head(ch)]
    /\ ch' = Tail(ch)
    /\ UNCHANGED <<closed, handed, unheard, intake, pool, shutdown, rows>>

Take(p) ==
    /\ taken[p] = None /\ ch # <<>>
    /\ taken' = [taken EXCEPT ![p] = Head(ch)]
    /\ ch' = Tail(ch)
    /\ UNCHANGED <<closed, handed, unheard, intake, pool, shutdown, rows>>

HandOver(p) ==
    /\ taken[p] # None
    /\ handed' = handed \union {taken[p]}
    /\ taken' = [taken EXCEPT ![p] = None]
    /\ UNCHANGED <<ch, closed, unheard, intake, pool, shutdown, rows>>

-----------------------------------------------------------------------------
(* The batch writer, and the shutdown sequence of main.                    *)

Flush ==
    /\ Writer!TimerFlush \/ Writer!FinalFlush
    /\ UNCHANGED <<intake, pool, publisher, shutdown>>

\* SIGTERM: StopHEPServer closes the listeners.
CloseListeners ==
    /\ main = "up"
    /\ main' = "hep"
    /\ listening' = FALSE
    /\ early' = added
    /\ UNCHANGED <<connected, arrived, queue, pool, publisher, rows>>

\* Mutant: the writer is not told to stop.
StopWriter_Skipped ==
    /\ main = "hep"
    /\ main' = "media"
    /\ UNCHANGED <<early, intake, pool, publisher, rows>>

\* Then it stops the writer of call events,
StopWriter ==
    /\ main = "hep"
    /\ main' = "flush"
    /\ Writer!CloseStopCh
    /\ UNCHANGED <<early, intake, pool, publisher>>

\* and waits for the last flush.
WriterStopped ==
    /\ main = "flush" /\ loop = "done"
    /\ main' = "media"
    /\ UNCHANGED <<early, intake, pool, publisher, rows>>

\* When the RTP sniffer, the sessions, the ASR pool and the recorders are
\* stopped, EventPublisher.Stop asks for the write lock,
LockPublisher ==
    /\ main = "media"
    /\ main' = "lock"
    /\ UNCHANGED <<early, intake, pool, publisher, rows>>

\* Mutant: Stop closes the channel without the write lock.
StopPublisher_Unlocked ==
    /\ main = "lock"
    /\ main' = "drain"
    /\ closed' = TRUE
    /\ UNCHANGED <<early, intake, pool, ch, taken, handed, unheard, rows>>

\* and when the last reader has left closes the channel.
StopPublisher ==
    /\ main = "lock"
    /\ \A w \in Workers : at[w] # "send"
    /\ main' = "drain"
    /\ closed' = TRUE
    /\ UNCHANGED <<early, intake, pool, ch, taken, handed, unheard, rows>>

\* Its workers leave when the channel is empty.  Main closes ClickHouse and
\* Redis, and returns.
Exit ==
    /\ main = "drain"
    /\ ch = <<>> /\ \A p \in Publishers : taken[p] = None
    /\ main' = "exited"
    /\ UNCHANGED <<early, intake, pool, publisher, rows>>

Work(w) == Dispatch(w) \/ EnterPublish(w) \/ Send(w) \/ AddRow(w)

Step ==
    \/ Connect \/ Disconnect
    \/ \E m \in Packets : Read(m)
    \/ \E w \in Workers : Work(w) \/ Panic(w)
    \/ \E p \in Publishers : Take(p) \/ HandOver(p)
    \/ Flush
    \/ CloseListeners \/ StopWriter \/ WriterStopped
    \/ LockPublisher \/ StopPublisher \/ Exit

Next == main # "exited" /\ Step

Spec == Init /\ [][Next]_vars

-----------------------------------------------------------------------------
(* Goroutines that can run do run, commits and publications return, and    *)
(* main goes on once it has begun.                                         *)
Fairness ==
    /\ \A w \in Workers : WF_vars(main # "exited" /\ (Work(w) \/ Panic(w)))
    /\ \A p \in Publishers : WF_vars(main # "exited" /\ (Take(p) \/ HandOver(p)))
    /\ WF_vars(main # "exited" /\ Writer!FinalFlush /\ UNCHANGED <<intake, pool, publisher, shutdown>>)
    /\ WF_vars(StopWriter) /\ WF_vars(WriterStopped)
    /\ WF_vars(LockPublisher) /\ WF_vars(StopPublisher) /\ WF_vars(Exit)

FairSpec == Spec /\ Fairness

-----------------------------------------------------------------------------
(* Properties.                                                             *)

Settled == stored \union givenUp \union shed

\* No event is sent on the closed channel: who has found the publisher not
\* stopped keeps it from stopping until the event is sent
\* (publish_batcher.go 41-86).
SendsOnOpenChannel == \A w \in Workers : at[w] = "send" => ~closed

\* What was handled before the shutdown began is not lost by it: the event is
\* at Redis unless the channel was full, and the row in ClickHouse or given up
\* unless the very last commit failed (main.go 685-794).
EarlyIsDelivered ==
    main = "exited" => /\ early \subseteq handed \union unheard
                       /\ early \subseteq Settled \union late

\* A handler that panics does not stop the pool: every job in the queue is
\* taken from it as long as the engine runs (worker_pool.go 50-86).
JobsAreTaken ==
    \A m \in Packets : m \in ToSet(queue) ~> (m \notin ToSet(queue) \/ main = "exited")

\* Once begun the shutdown comes to its end, packets still coming in or not:
\* no Stop waits for somebody that waits for it.
ShutdownEnds == main = "hep" ~> main = "exited"
=============================================================================
