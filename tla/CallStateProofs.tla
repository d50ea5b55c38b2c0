--------------------------- MODULE CallStateProofs ---------------------------
(***************************************************************************)
(* Proofs about CallState, for any number of workers and any messages:     *)
(* the row, the types and the sessions of listed calls with failures,      *)
(* restarts and media or without them; localCache, holds and the end of a  *)
(* call under the conditions that each theorem names.                      *)
(***************************************************************************)
EXTENDS CallState, TLAPS

\* What the row says has a version.
RowVersioned == row.says \in DOMAIN Version

\* The actions that write the row of the call.
WritesRow(w) == InviteRow(w) \/ EndRow(w) \/ AnswerRow(w)

\* A write that the table takes leads from what the row says to what is
\* written, and one that it does not take leaves the row as it is.
LEMMA WriteRowSays ==
    ASSUME RowVersioned, NEW s \in DOMAIN Version, NEW b, WriteRow(s, b)
    PROVE  /\ RowVersioned'
           /\ \/ row' = row
              \/ row'.says = s /\ Version[s] >= Version[row.says]
BY DEF RowVersioned, WriteRow

\* The versions allow of a row no step but those of a CallRecord.
LEMMA VersionsAllow ==
    ASSUME RowVersioned, NEW s \in DOMAIN Version \ {"none"},
           Version[s] >= Version[row.says], row'.says = s
    PROVE  [Record!Next]_(row.says)
BY DEF RowVersioned, Version, Record!Next, Record!Start, Record!Answer,
       Record!TimeOut, Record!HangUp

\* Both for one write of the row.
LEMMA WriteRowRecords ==
    ASSUME RowVersioned, NEW s \in DOMAIN Version \ {"none"}, NEW b,
           WriteRow(s, b)
    PROVE  RowVersioned' /\ [Record!Next]_(row.says)
BY WriteRowSays, VersionsAllow

\* The actions of a worker that leave the row alone.
LEMMA OtherOperations ==
    ASSUME NEW w, Operation(w), ~WritesRow(w)
    PROVE  UNCHANGED row
BY DEF Operation, WritesRow, ReadRedis, FillCache, UpdateSession, Invite, SDP,
       SDPCache, Refresh, Guard, StopListener, RemoveSession, Uncache, End,
       PublishError, Stash, StashCache, ShortenSession, Reread, Answer,
       AnswerCache

\* The steps of the other goroutines that leave the row alone.
LEMMA OtherSteps ==
    ASSUME Arrival \/ Environment \/ (MonitorStep /\ ~TimeoutRow)
    PROVE  UNCHANGED row
<1>1. CASE Arrival
  BY <1>1 DEF Arrival, Receive, StreamActive
<1>2. CASE Environment
  BY <1>2 DEF Environment, EmptyTrash, StreamIdles, StreamLoads, CacheExpires,
       TombstoneGoes, Restart, RebuildReads, RebuildKeeps, RebuildDrops
<1>3. CASE MonitorStep /\ ~TimeoutRow
  BY <1>3 DEF MonitorStep, SessionExpires, KeepActive, SessionTimeout,
       StreamExpires, RemoveSession, CopyForTimeout, ReadForTimeout,
       TimeoutBlank, TimeoutEnd, TimeoutUncache
<1>4. QED
  BY <1>1, <1>2, <1>3

\* Every step is a step of the CallRecord, or leaves the record alone.
LEMMA StepRecords ==
    ASSUME RowVersioned, [Next]_vars
    PROVE  RowVersioned' /\ [Record!Next]_(row.says)
<1>1. CASE UNCHANGED row
  BY <1>1 DEF RowVersioned
<1>2. ASSUME NEW w, WritesRow(w)
      PROVE  RowVersioned' /\ [Record!Next]_(row.says)
  <2>1. CASE InviteRow(w)
    BY <2>1, WriteRowRecords DEF InviteRow, Version
  <2>2. CASE EndRow(w)
    BY <2>2, WriteRowRecords DEF EndRow, Version
  <2>3. CASE AnswerRow(w)
    BY <2>3, WriteRowRecords DEF AnswerRow, Version
  <2>4. QED
    BY <1>2, <2>1, <2>2, <2>3 DEF WritesRow
<1>3. CASE TimeoutRow
  <2>1. PICK s \in {"challenged", "timeout"} : WriteRow(s, Answered(got[Monitor]))
    BY <1>3 DEF TimeoutRow
  <2>2. QED
    BY <2>1, WriteRowRecords DEF Version
<1>4. CASE UNCHANGED vars
  BY <1>4, <1>1 DEF vars
<1>5. CASE Next
  BY <1>5, <1>1, <1>2, <1>3, OtherOperations, OtherSteps DEF Next
<1>6. QED
  BY <1>4, <1>5

\* The row of a call in sip_calls is a CallRecord: the workers and the monitor
\* may write it in any order and end the call as often as they like, a call
\* that was shown as hung up is never shown otherwise
\* (src/ie/internal/clickhouse/constants.go, schema.go).
THEOREM RecordImplemented == Spec => RecordMovesForward
<1>1. Init => RowVersioned /\ Record!Init
  BY DEF Init, RowVersioned, Version, Record!Init
<1>2. RowVersioned /\ [Next]_vars => RowVersioned' /\ [Record!Next]_(row.says)
  BY StepRecords
<1>3. QED
  BY <1>1, <1>2, PTL DEF Spec, RecordMovesForward, Record!Spec

-----------------------------------------------------------------------------
(* Types.  A document is written back as a changed copy of the one that    *)
(* was read, so that there must be one.                                    *)

\* Where a thread has a document in hand.
Reading == {"fill", "sdp", "sdpCache", "stash", "stashCache", "answerCache",
            "timeoutBlank"}

HasDocument == \A t \in Threads : pc[t] \in Reading => got[t] # NoDoc

\* A busy worker has a message.
HasMessage == \A w \in Workers : pc[w] # "idle" => msg[w] \in Messages

LocalsInv ==
    /\ pc \in [Threads -> Labels]
    /\ msg \in [Threads -> Messages \union {"none"}]
    /\ got \in [Threads -> Docs \union {NoDoc}]
    /\ HasDocument
    /\ HasMessage

StoresInv ==
    /\ doc \in Docs \union {NoDoc}
    /\ active \in BOOLEAN
    /\ cache \in Docs \union {NoDoc}
    /\ row \in Rows

MemoryInv ==
    /\ session \in BOOLEAN
    /\ tomb \in BOOLEAN
    /\ media \in {"none", "active", "idle"}
    /\ loaded \in Docs \union {NoDoc}
    /\ trash \in BOOLEAN
    /\ rebuild \in {"no", "start", "loaded"}
    /\ strays \subseteq {"row", "amid", "listing", "unended"}

TypeInv == LocalsInv /\ StoresInv /\ MemoryInv

\* The control of a thread.
LEMMA GotoTyped ==
    ASSUME LocalsInv, NEW t \in Threads, NEW l \in Labels, pc[t] # "idle" \/ t = Monitor,
           l \in Reading => got[t] # NoDoc, Goto(t, l)
    PROVE  LocalsInv'
BY MonitorAssumption DEF LocalsInv, HasDocument, HasMessage, Goto

LEMMA GotoWithTyped ==
    ASSUME LocalsInv, NEW t \in Threads, NEW l \in Labels, pc[t] # "idle" \/ t = Monitor,
           NEW d \in Docs \union {NoDoc},
           l \in Reading => d # NoDoc, GotoWith(t, l, d)
    PROVE  LocalsInv'
BY MonitorAssumption DEF LocalsInv, HasDocument, HasMessage, GotoWith

LEMMA DoneTyped ==
    ASSUME LocalsInv, NEW t \in Threads, Done(t)
    PROVE  LocalsInv'
BY DEF LocalsInv, HasDocument, HasMessage, Done, Labels, Reading

\* The writes to Redis and to the table.
LEMMA SetCallStateTyped ==
    ASSUME StoresInv, NEW d \in Docs, SetCallState(d)
    PROVE  doc' \in Docs /\ active' \in BOOLEAN
BY DEF StoresInv, SetCallState

LEMMA EndCallBatchTyped ==
    ASSUME NEW d \in Docs, EndCallBatch(d)
    PROVE  doc' \in Docs /\ active' \in BOOLEAN
BY DEF EndCallBatch, Docs

LEMMA WriteRowTyped ==
    ASSUME StoresInv, NEW s \in DOMAIN Version, NEW b \in BOOLEAN, WriteRow(s, b)
    PROVE  row' \in Rows
BY DEF StoresInv, WriteRow, Rows, Version

LEMMA AnsweredTyped == \A d \in Docs \union {NoDoc} : Answered(d) \in BOOLEAN
BY DEF Answered, Docs

LEMMA HistoryTyped ==
    /\ \A s : MemoryInv /\ Late(s) => strays' \subseteq {"row", "amid", "listing", "unended"}
    /\ \A t : MemoryInv /\ EndsAmid(t) => strays' \subseteq {"row", "amid", "listing", "unended"}
    /\ MemoryInv /\ ArrivesAmid => strays' \subseteq {"row", "amid", "listing", "unended"}
BY DEF MemoryInv, Late, EndsAmid, ArrivesAmid

-----------------------------------------------------------------------------
LEMMA InitTyped == Init => TypeInv
<1>1. Init => LocalsInv
  BY DEF Init, LocalsInv, HasDocument, HasMessage, Threads, Labels, Reading
<1>2. Init => StoresInv /\ MemoryInv
  <2>1. Init => StoresInv
    <3>1. [says |-> "none", answered |-> FALSE] \in Rows
      BY DEF Rows
    <3>2. QED
      BY <3>1 DEF Init, StoresInv
  <2>2. Init => MemoryInv
    BY DEF Init, MemoryInv
  <2>3. QED
    BY <2>1, <2>2
<1>3. QED
  BY <1>1, <1>2 DEF TypeInv

\* Up to the dispatch.
LEMMA ReceptionTyped ==
    ASSUME TypeInv, NEW w \in Workers,
           (\E m \in Kinds : Receive(w, m)) \/ ReadRedis(w) \/ FillCache(w) \/ UpdateSession(w)
    PROVE  TypeInv'
<1>w. w \in Threads
  BY DEF Threads
<1>1. ASSUME NEW m \in Kinds, Receive(w, m) PROVE TypeInv'
  <2>1. LocalsInv'
    BY <1>1, <1>w, KindAssumption
    DEF TypeInv, LocalsInv, StoresInv, HasDocument, HasMessage, Receive, Labels, Reading
  <2>2. StoresInv'
    BY <1>1 DEF TypeInv, StoresInv, Receive, redis
  <2>3. MemoryInv'
    BY <1>1, HistoryTyped DEF TypeInv, MemoryInv, Receive, manager, streams
  <2>4. QED
    BY <2>1, <2>2, <2>3 DEF TypeInv
<1>2. CASE ReadRedis(w)
  <2>1. LocalsInv'
    <3>1. CASE GotoWith(w, IF doc = NoDoc THEN "session" ELSE "fill", doc)
      BY <3>1, <1>w, <1>2, GotoWithTyped DEF ReadRedis, TypeInv, StoresInv, Labels, Reading
    <3>2. CASE Goto(w, "session")
      BY <3>2, <1>w, <1>2, GotoTyped DEF ReadRedis, TypeInv, Labels, Reading
    <3>3. QED
      BY <1>2, <3>1, <3>2 DEF ReadRedis
  <2>2. StoresInv' /\ MemoryInv'
    BY <1>2 DEF TypeInv, StoresInv, MemoryInv, ReadRedis, redis, manager, streams, history
  <2>3. QED
    BY <2>1, <2>2 DEF TypeInv
<1>3. CASE FillCache(w)
  <2>1. LocalsInv'
    BY <1>3, <1>w, GotoTyped DEF TypeInv, FillCache, Labels, Reading
  <2>2. StoresInv' /\ MemoryInv'
    BY <1>3, <1>w DEF TypeInv, LocalsInv, StoresInv, MemoryInv, FillCache, redis, manager, streams, history
  <2>3. QED
    BY <2>1, <2>2 DEF TypeInv
<1>4. CASE UpdateSession(w)
  <2>1. LocalsInv'
    <3>1. Handler(w) \in Labels /\ (Handler(w) \in Reading => got[w] # NoDoc)
      BY <1>4, <1>w
      DEF TypeInv, LocalsInv, HasMessage, Messages, UpdateSession, Handler, Terminates, IsInvite, Answered,
          Labels, Reading
    <3>2. QED
      BY <1>4, <3>1, <1>w, GotoTyped, DoneTyped DEF TypeInv, UpdateSession
  <2>2. StoresInv' /\ MemoryInv'
    BY <1>4 DEF TypeInv, StoresInv, MemoryInv, UpdateSession, redis, manager, streams, history
  <2>3. QED
    BY <2>1, <2>2 DEF TypeInv
<1>5. QED
  BY <1>1, <1>2, <1>3, <1>4

\* An INVITE, a hold and a resume.
LEMMA InviteTyped ==
    ASSUME TypeInv, NEW w \in Workers,
           Invite(w) \/ InviteRow(w) \/ SDP(w) \/ SDPCache(w) \/ Refresh(w)
    PROVE  TypeInv'
<1>w. w \in Threads
  BY DEF Threads
<1>1. CASE Invite(w)
  <2> DEFINE d == [status |-> "active", answered |-> FALSE,
                   challenged |-> FALSE, held |-> FALSE]
  <2>1. LocalsInv'
    BY <1>1, <1>w, GotoTyped DEF TypeInv, Invite, Labels, Reading
  <2>2. d \in Docs
    BY DEF Docs
  <2>3. doc' \in Docs /\ active' \in BOOLEAN
    BY <1>1, <2>2, SetCallStateTyped DEF TypeInv, Invite
  <2>4. StoresInv' /\ MemoryInv'
    BY <1>1, <2>3, HistoryTyped
    DEF TypeInv, StoresInv, MemoryInv, Invite, manager, streams
  <2>5. QED
    BY <2>1, <2>4 DEF TypeInv
<1>2. CASE InviteRow(w)
  <2>1. LocalsInv'
    BY <1>2, <1>w, DoneTyped DEF TypeInv, InviteRow
  <2>2. row' \in Rows
    BY <1>2, <1>w, WriteRowTyped, AnsweredTyped DEF TypeInv, LocalsInv, InviteRow, Version
  <2>3. StoresInv' /\ MemoryInv'
    BY <1>2, <2>2 DEF TypeInv, StoresInv, MemoryInv, InviteRow, redis, manager, streams, history
  <2>4. QED
    BY <2>1, <2>3 DEF TypeInv
<1>3. CASE SDP(w)
  <2>1. CASE AfterSDP(w) /\ UNCHANGED <<redis, history>>
    <3>1. LocalsInv'
      BY <1>3, <2>1, <1>w, GotoTyped, DoneTyped DEF TypeInv, SDP, AfterSDP, Labels, Reading
    <3>2. StoresInv' /\ MemoryInv'
      BY <1>3, <2>1 DEF TypeInv, StoresInv, MemoryInv, SDP, redis, manager, streams, history
    <3>3. QED
      BY <3>1, <3>2 DEF TypeInv
  <2>2. ASSUME NEW hold \in BOOLEAN,
               SetCallState([got[w] EXCEPT !.held = hold]),
               GotoWith(w, "sdpCache", [got[w] EXCEPT !.held = hold]),
               Late(got[w].status)
        PROVE  TypeInv'
    <3>1. [got[w] EXCEPT !.held = hold] \in Docs
      <4>1. got[w] \in Docs
        BY <1>3, <1>w DEF TypeInv, LocalsInv, HasDocument, SDP, Reading
      <4>2. QED
        BY <4>1 DEF Docs
    <3>2. LocalsInv'
      BY <1>3, <2>2, <3>1, <1>w, NoDocAssumption, GotoWithTyped
      DEF TypeInv, SDP, Labels, Reading
    <3>3. doc' \in Docs /\ active' \in BOOLEAN
      BY <2>2, <3>1, SetCallStateTyped DEF TypeInv
    <3>4. StoresInv' /\ MemoryInv'
      BY <1>3, <2>2, <3>3, HistoryTyped
      DEF TypeInv, StoresInv, MemoryInv, SDP, manager, streams
    <3>5. QED
      BY <3>2, <3>4 DEF TypeInv
  <2>3. QED
    BY <1>3, <2>1, <2>2 DEF SDP
<1>4. CASE SDPCache(w)
  <2>1. LocalsInv'
    BY <1>4, <1>w, GotoTyped, DoneTyped DEF TypeInv, SDPCache, AfterSDP, Labels, Reading
  <2>2. StoresInv' /\ MemoryInv'
    BY <1>4, <1>w DEF TypeInv, LocalsInv, StoresInv, MemoryInv, SDPCache, redis, manager, streams, history
  <2>3. QED
    BY <2>1, <2>2 DEF TypeInv
<1>5. CASE Refresh(w)
  <2>1. LocalsInv'
    BY <1>5, <1>w, DoneTyped DEF TypeInv, Refresh, Labels, Reading
  <2>2. StoresInv' /\ MemoryInv'
    BY <1>5 DEF TypeInv, StoresInv, MemoryInv, Refresh, redis, manager, streams, history
  <2>3. QED
    BY <2>1, <2>2 DEF TypeInv
<1>6. QED
  BY <1>1, <1>2, <1>3, <1>4, <1>5

\* The end of a call by its signalling.
LEMMA TerminationTyped ==
    ASSUME TypeInv, NEW w \in Workers,
           \/ Guard(w) \/ StopListener(w) \/ Uncache(w)
           \/ End(w) \/ EndRow(w) \/ PublishError(w)
    PROVE  TypeInv'
<1>w. w \in Threads
  BY DEF Threads
<1>1. CASE Guard(w)
  <2>1. LocalsInv'
    BY <1>1, <1>w, GotoTyped, DoneTyped DEF TypeInv, Guard, Labels, Reading
  <2>2. StoresInv' /\ MemoryInv'
    BY <1>1, HistoryTyped
    DEF TypeInv, StoresInv, MemoryInv, Guard, redis, manager, streams, history
  <2>3. QED
    BY <2>1, <2>2 DEF TypeInv
<1>2. CASE StopListener(w)
  <2>1. LocalsInv'
    BY <1>2, <1>w, GotoTyped DEF TypeInv, StopListener, Labels, Reading
  <2>2. StoresInv' /\ MemoryInv'
    BY <1>2 DEF TypeInv, StoresInv, MemoryInv, StopListener, redis, manager, streams, history
  <2>3. QED
    BY <2>1, <2>2 DEF TypeInv
<1>3. CASE Uncache(w)
  <2>1. LocalsInv'
    BY <1>3, <1>w, GotoTyped DEF TypeInv, Uncache, Labels, Reading
  <2>2. StoresInv' /\ MemoryInv'
    BY <1>3 DEF TypeInv, StoresInv, MemoryInv, Uncache, redis, manager, streams, history
  <2>3. QED
    BY <2>1, <2>2 DEF TypeInv
<1>4. CASE End(w)
  <2>1. LocalsInv'
    BY <1>4, <1>w, GotoTyped DEF TypeInv, End, Labels, Reading
  <2>2. CASE got[w] = NoDoc
    BY <1>4, <2>1, <2>2
    DEF TypeInv, StoresInv, MemoryInv, End, redis, manager, streams
  <2>3. CASE got[w] # NoDoc
    <3>1. got[w] \in Docs
      BY <2>3, <1>w DEF TypeInv, LocalsInv
    <3>2. doc' \in Docs /\ active' \in BOOLEAN
      BY <1>4, <2>3, <3>1, EndCallBatchTyped DEF End
    <3>3. StoresInv' /\ MemoryInv'
      BY <1>4, <2>3, <3>2
      DEF TypeInv, StoresInv, MemoryInv, End, manager, streams, history
    <3>4. QED
      BY <2>1, <3>3 DEF TypeInv
  <2>4. QED
    BY <2>2, <2>3
<1>5. CASE EndRow(w)
  <2>1. LocalsInv'
    BY <1>5, <1>w, DoneTyped DEF TypeInv, EndRow
  <2>2. row' \in Rows
    BY <1>5, <1>w, WriteRowTyped, AnsweredTyped DEF TypeInv, LocalsInv, EndRow, Version
  <2>3. StoresInv' /\ MemoryInv'
    BY <1>5, <2>2 DEF TypeInv, StoresInv, MemoryInv, EndRow, redis, manager, streams, history
  <2>4. QED
    BY <2>1, <2>3 DEF TypeInv
<1>6. CASE PublishError(w)
  <2>1. LocalsInv'
    BY <1>6, <1>w, DoneTyped DEF TypeInv, PublishError, Labels, Reading
  <2>2. StoresInv' /\ MemoryInv'
    BY <1>6 DEF TypeInv, StoresInv, MemoryInv, PublishError, redis, manager, streams, history
  <2>3. QED
    BY <2>1, <2>2 DEF TypeInv
<1>7. QED
  BY <1>1, <1>2, <1>3, <1>4, <1>5, <1>6

\* A challenge.
LEMMA ChallengeTyped ==
    ASSUME TypeInv, NEW w \in Workers,
           Stash(w) \/ StashCache(w) \/ ShortenSession(w)
    PROVE  TypeInv'
<1>w. w \in Threads
  BY DEF Threads
<1>1. CASE Stash(w)
  <2> DEFINE d == [got[w] EXCEPT !.challenged = TRUE]
  <2>1. got[w] \in Docs
    BY <1>1, <1>w DEF TypeInv, LocalsInv, HasDocument, Stash, Reading
  <2>2. d \in Docs
    BY <2>1 DEF Docs
  <2>3. LocalsInv'
    BY <1>1, <1>w, <2>2, NoDocAssumption, GotoWithTyped
    DEF TypeInv, Stash, Labels, Reading
  <2>4. doc' \in Docs /\ active' \in BOOLEAN
    BY <1>1, <2>2, SetCallStateTyped DEF TypeInv, Stash
  <2>5. StoresInv' /\ MemoryInv'
    BY <1>1, <2>4, HistoryTyped
    DEF TypeInv, StoresInv, MemoryInv, Stash, manager, streams
  <2>6. QED
    BY <2>3, <2>5 DEF TypeInv
<1>2. CASE StashCache(w)
  <2>1. LocalsInv'
    BY <1>2, <1>w, GotoTyped DEF TypeInv, StashCache, Labels, Reading
  <2>2. StoresInv' /\ MemoryInv'
    BY <1>2, <1>w DEF TypeInv, LocalsInv, StoresInv, MemoryInv, StashCache, redis, manager, streams, history
  <2>3. QED
    BY <2>1, <2>2 DEF TypeInv
<1>3. CASE ShortenSession(w)
  <2>1. LocalsInv'
    BY <1>3, <1>w, DoneTyped DEF TypeInv, ShortenSession, Labels, Reading
  <2>2. StoresInv' /\ MemoryInv'
    BY <1>3, <1>w DEF TypeInv, LocalsInv, StoresInv, MemoryInv, ShortenSession, redis, manager, streams, history
  <2>3. QED
    BY <2>1, <2>2 DEF TypeInv
<1>4. QED
  BY <1>1, <1>2, <1>3

\* An answer.
LEMMA AnswerTyped ==
    ASSUME TypeInv, NEW w \in Workers,
           Reread(w) \/ Answer(w) \/ AnswerCache(w) \/ AnswerRow(w)
    PROVE  TypeInv'
<1>w. w \in Threads
  BY DEF Threads
<1>1. CASE Reread(w)
  <2>1. LocalsInv'
    <3>1. CASE GotoWith(w, "answer", doc)
      BY <3>1, <1>w, <1>1, GotoWithTyped
      DEF Reread, TypeInv, StoresInv, Labels, Reading
    <3>2. CASE Goto(w, "answer")
      BY <3>2, <1>w, <1>1, GotoTyped DEF Reread, TypeInv, Labels, Reading
    <3>3. QED
      BY <1>1, <3>1, <3>2 DEF Reread
  <2>2. StoresInv' /\ MemoryInv'
    BY <1>1
    DEF TypeInv, StoresInv, MemoryInv, Reread, redis, manager, streams, history
  <2>3. QED
    BY <2>1, <2>2 DEF TypeInv
<1>2. CASE Answer(w)
  <2> DEFINE d == IF got[w] = NoDoc
                  THEN [status |-> "answered", answered |-> TRUE,
                        challenged |-> FALSE, held |-> FALSE]
                  ELSE [got[w] EXCEPT !.status = "answered", !.answered = TRUE]
  <2>1. got[w] \in Docs \union {NoDoc}
    BY <1>w DEF TypeInv, LocalsInv
  <2>2. d \in Docs
    BY <2>1 DEF Docs
  <2>3. LocalsInv'
    BY <1>2, <1>w, <2>2, NoDocAssumption, GotoWithTyped
    DEF TypeInv, Answer, Labels, Reading
  <2>4. doc' \in Docs /\ active' \in BOOLEAN
    BY <1>2, <2>2, SetCallStateTyped DEF TypeInv, Answer
  <2>5. StoresInv' /\ MemoryInv'
    BY <1>2, <2>4, HistoryTyped
    DEF TypeInv, StoresInv, MemoryInv, Answer, manager, streams
  <2>6. QED
    BY <2>3, <2>5 DEF TypeInv
<1>3. CASE AnswerCache(w)
  <2>1. LocalsInv'
    BY <1>3, <1>w, GotoTyped DEF TypeInv, AnswerCache, Labels, Reading
  <2>2. StoresInv' /\ MemoryInv'
    BY <1>3, <1>w DEF TypeInv, LocalsInv, StoresInv, MemoryInv, AnswerCache, redis, manager, streams, history
  <2>3. QED
    BY <2>1, <2>2 DEF TypeInv
<1>4. CASE AnswerRow(w)
  <2>1. LocalsInv'
    BY <1>4, <1>w, DoneTyped DEF TypeInv, AnswerRow
  <2>2. row' \in Rows
    BY <1>4, WriteRowTyped DEF TypeInv, AnswerRow, Version
  <2>3. StoresInv' /\ MemoryInv'
    BY <1>4, <2>2 DEF TypeInv, StoresInv, MemoryInv, AnswerRow, redis, manager, streams
  <2>4. QED
    BY <2>1, <2>3 DEF TypeInv
<1>5. QED
  BY <1>1, <1>2, <1>3, <1>4

\* RemoveSession, by a worker or by the monitor.
LEMMA RemoveSessionTyped ==
    ASSUME TypeInv, NEW t \in Threads, RemoveSession(t)
    PROVE  TypeInv'
<1>1. LocalsInv'
  BY GotoTyped DEF TypeInv, RemoveSession, Labels, Reading
<1>2. StoresInv' /\ MemoryInv'
  BY DEF TypeInv, StoresInv, MemoryInv, RemoveSession, redis, streams, history
<1>3. QED
  BY <1>1, <1>2 DEF TypeInv

\* What the timeout monitor finds.
LEMMA ExpiryTyped ==
    ASSUME TypeInv, SessionExpires \/ KeepActive \/ SessionTimeout \/ StreamExpires
    PROVE  TypeInv'
<1>w. Monitor \in Threads
  BY DEF Threads
<1>1. CASE SessionExpires
  <2>1. LocalsInv'
    BY <1>1, <1>w, GotoTyped DEF TypeInv, SessionExpires, Labels, Reading, MonitorIdle
  <2>2. StoresInv' /\ MemoryInv'
    BY <1>1, HistoryTyped
    DEF TypeInv, StoresInv, MemoryInv, SessionExpires, redis, manager, streams, history
  <2>3. QED
    BY <2>1, <2>2 DEF TypeInv
<1>2. CASE KeepActive
  <2>1. LocalsInv'
    BY <1>2, <1>w, DoneTyped DEF TypeInv, KeepActive, Labels, Reading
  <2>2. StoresInv' /\ MemoryInv'
    BY <1>2, <1>w DEF TypeInv, LocalsInv, StoresInv, MemoryInv, KeepActive, redis, manager, streams, history
  <2>3. QED
    BY <2>1, <2>2 DEF TypeInv
<1>3. CASE SessionTimeout
  <2>1. LocalsInv'
    BY <1>3, <1>w, GotoTyped DEF TypeInv, SessionTimeout, Labels, Reading
  <2>2. StoresInv' /\ MemoryInv'
    BY <1>3, <1>w DEF TypeInv, LocalsInv, StoresInv, MemoryInv, SessionTimeout, redis, manager, streams, history
  <2>3. QED
    BY <2>1, <2>2 DEF TypeInv
<1>4. CASE StreamExpires
  <2>1. LocalsInv'
    <3>1. CASE UNCHANGED locals
      BY <3>1 DEF TypeInv, LocalsInv, HasDocument, HasMessage, locals
    <3>2. CASE Goto(Monitor, "clean")
      BY <3>2, <1>w, GotoTyped DEF TypeInv, Labels, Reading
    <3>3. QED
      BY <1>4, <3>1, <3>2 DEF StreamExpires
  <2>2. StoresInv' /\ MemoryInv'
    BY <1>4, HistoryTyped
    DEF TypeInv, StoresInv, MemoryInv, StreamExpires, redis, manager, streams, history
  <2>3. QED
    BY <2>1, <2>2 DEF TypeInv
<1>5. QED
  BY <1>1, <1>2, <1>3, <1>4

\* The end of a call by the timeout monitor.
LEMMA TimeoutTyped ==
    ASSUME TypeInv,
           \/ CopyForTimeout \/ ReadForTimeout \/ TimeoutBlank
           \/ TimeoutEnd \/ TimeoutRow \/ TimeoutUncache
    PROVE  TypeInv'
<1>w. Monitor \in Threads
  BY DEF Threads
<1>1. CASE CopyForTimeout
  <2>1. loaded \in Docs /\ loaded # NoDoc
    BY <1>1, NoDocAssumption DEF TypeInv, MemoryInv, CopyForTimeout
  <2>2. "timeoutBlank" \in Labels /\ pc[Monitor] = "read"
    BY <1>1 DEF CopyForTimeout, Labels
  <2>3. LocalsInv'
    BY <1>1, <1>w, <2>1, <2>2, GotoWithTyped DEF TypeInv, CopyForTimeout
  <2>4. StoresInv' /\ MemoryInv'
    BY <1>1
    DEF TypeInv, StoresInv, MemoryInv, CopyForTimeout, redis, manager, streams, history
  <2>5. QED
    BY <2>3, <2>4 DEF TypeInv
<1>2. CASE ReadForTimeout
  <2>1. LocalsInv'
    <3>1. CASE GotoWith(Monitor, "timeoutEnd", doc)
      BY <3>1, <1>w, GotoWithTyped DEF TypeInv, StoresInv, Labels, Reading
    <3>2. CASE Goto(Monitor, "timeoutEnd")
      BY <3>2, <1>w, GotoTyped DEF TypeInv, Labels, Reading
    <3>3. QED
      BY <1>2, <3>1, <3>2 DEF ReadForTimeout
  <2>2. StoresInv' /\ MemoryInv'
    BY <1>2
    DEF TypeInv, StoresInv, MemoryInv, ReadForTimeout, redis, manager, streams, history
  <2>3. QED
    BY <2>1, <2>2 DEF TypeInv
<1>3. CASE TimeoutBlank
  <2>1. LocalsInv'
    BY <1>3, <1>w, GotoTyped DEF TypeInv, TimeoutBlank, Labels, Reading
  <2>2. Blank \in Docs
    BY DEF Blank, Docs
  <2>3. doc' \in Docs /\ active' \in BOOLEAN
    BY <1>3, <2>2, EndCallBatchTyped DEF TimeoutBlank
  <2>4. StoresInv' /\ MemoryInv'
    BY <1>3, <2>3
    DEF TypeInv, StoresInv, MemoryInv, TimeoutBlank, manager, streams, history
  <2>5. QED
    BY <2>1, <2>4 DEF TypeInv
<1>4. CASE TimeoutEnd
  <2>1. LocalsInv'
    BY <1>4, <1>w, GotoTyped DEF TypeInv, TimeoutEnd, Labels, Reading
  <2>2. CASE got[Monitor] = NoDoc
    BY <1>4, <2>1, <2>2
    DEF TypeInv, StoresInv, MemoryInv, TimeoutEnd, redis, manager, streams
  <2>3. CASE got[Monitor] # NoDoc
    <3>1. got[Monitor] \in Docs
      BY <2>3, <1>w DEF TypeInv, LocalsInv
    <3>2. doc' \in Docs /\ active' \in BOOLEAN
      BY <1>4, <2>3, <3>1, EndCallBatchTyped DEF TimeoutEnd
    <3>3. StoresInv' /\ MemoryInv'
      BY <1>4, <2>3, <3>2
      DEF TypeInv, StoresInv, MemoryInv, TimeoutEnd, manager, streams, history
    <3>4. QED
      BY <2>1, <3>3 DEF TypeInv
  <2>4. QED
    BY <2>2, <2>3
<1>5. CASE TimeoutRow
  <2>1. LocalsInv'
    BY <1>5, <1>w, GotoTyped DEF TypeInv, TimeoutRow, Labels, Reading
  <2>2. PICK s \in {"challenged", "timeout"} : WriteRow(s, Answered(got[Monitor]))
    BY <1>5 DEF TimeoutRow
  <2>3. row' \in Rows
    BY <2>2, <1>w, WriteRowTyped, AnsweredTyped DEF TypeInv, LocalsInv, Version
  <2>4. StoresInv' /\ MemoryInv'
    BY <1>5, <2>3
    DEF TypeInv, StoresInv, MemoryInv, TimeoutRow, redis, manager, streams, history
  <2>5. QED
    BY <2>1, <2>4 DEF TypeInv
<1>6. CASE TimeoutUncache
  <2>1. LocalsInv'
    BY <1>6, <1>w, DoneTyped DEF TypeInv, TimeoutUncache, Labels, Reading
  <2>2. StoresInv' /\ MemoryInv'
    BY <1>6, <1>w DEF TypeInv, LocalsInv, StoresInv, MemoryInv, TimeoutUncache, redis, manager, streams, history
  <2>3. QED
    BY <2>1, <2>2 DEF TypeInv
<1>7. QED
  BY <1>1, <1>2, <1>3, <1>4, <1>5, <1>6

\* The streams, the caches and a restart.
LEMMA EnvironmentTyped ==
    ASSUME TypeInv, Environment \/ StreamActive
    PROVE  TypeInv'
<1>1. CASE ~Restart
  <2>1. UNCHANGED <<locals, row, history>>
    BY <1>1
    DEF Environment, StreamActive, EmptyTrash, StreamIdles, StreamLoads,
        CacheExpires, TombstoneGoes, RebuildReads, RebuildKeeps, RebuildDrops
  <2>2. LocalsInv'
    BY <2>1 DEF TypeInv, LocalsInv, HasDocument, HasMessage, locals
  <2>3. StoresInv'
    BY <1>1, <2>1
    DEF TypeInv, StoresInv, Environment, StreamActive, EmptyTrash, StreamIdles,
        StreamLoads, CacheExpires, TombstoneGoes, RebuildReads, RebuildKeeps,
        RebuildDrops, redis
  <2>4. MemoryInv'
    <3>1. CASE StreamLoads
      <4>1. doc \in Docs
        BY <3>1 DEF TypeInv, StoresInv, StreamLoads
      <4>2. [status |-> "active", answered |-> doc.answered,
             challenged |-> FALSE, held |-> FALSE] \in Docs
        BY <4>1 DEF Docs
      <4>3. loaded' \in Docs
        BY <3>1, <4>2 DEF StreamLoads
      <4>4. UNCHANGED <<session, tomb, media, trash, rebuild, strays>>
        BY <3>1 DEF StreamLoads, manager, history
      <4>5. QED
        BY <4>3, <4>4 DEF TypeInv, MemoryInv
    <3>2. CASE ~StreamLoads
      BY <1>1, <2>1, <3>2
      DEF TypeInv, StoresInv, MemoryInv, Environment, StreamActive, EmptyTrash,
          StreamIdles, CacheExpires, TombstoneGoes, RebuildReads,
          RebuildKeeps, RebuildDrops, manager, streams, history
    <3>3. QED
      BY <3>1, <3>2
  <2>5. QED
    BY <2>2, <2>3, <2>4 DEF TypeInv
<1>2. CASE Restart
  <2>1. LocalsInv'
    BY <1>2 DEF Restart, LocalsInv, HasDocument, HasMessage, Threads, Labels, Reading
  <2>2. StoresInv' /\ MemoryInv'
    BY <1>2 DEF TypeInv, StoresInv, MemoryInv, Restart, redis, history
  <2>3. QED
    BY <2>1, <2>2 DEF TypeInv
<1>3. QED
  BY <1>1, <1>2

LEMMA StepTyped ==
    ASSUME TypeInv, [Next]_vars
    PROVE  TypeInv'
<1>1. ASSUME NEW w \in Workers, Operation(w) \/ (\E m \in Kinds : Receive(w, m))
      PROVE  TypeInv'
  <2>1. w \in Threads
    BY DEF Threads
  <2>2. QED
    BY <1>1, <2>1, ReceptionTyped, InviteTyped, TerminationTyped, ChallengeTyped,
       AnswerTyped, RemoveSessionTyped
    DEF Operation
<1>2. CASE MonitorStep
  BY <1>2, ExpiryTyped, TimeoutTyped, RemoveSessionTyped DEF MonitorStep, Threads
<1>3. CASE UNCHANGED vars
  <2>1. UNCHANGED <<redis, cache, row, manager, streams, rebuild, locals, history>>
    BY <1>3 DEF vars
  <2>2. LocalsInv'
    BY <2>1 DEF TypeInv, LocalsInv, HasDocument, HasMessage, locals
  <2>3. StoresInv' /\ MemoryInv'
    BY <2>1 DEF TypeInv, StoresInv, MemoryInv, redis, manager, streams, history
  <2>4. QED
    BY <2>2, <2>3 DEF TypeInv
<1>4. QED
  BY <1>1, <1>2, <1>3, EnvironmentTyped DEF Next, Arrival

\* Every variable keeps its type, for any number of workers: a document is
\* written back only where one was read
\* (src/ie/internal/hep/handlers.go, src/ie/internal/rtp/cleanup.go).
THEOREM TypeCorrect == Spec => []TypeOK
<1>1. TypeInv => TypeOK
  BY DEF TypeInv, LocalsInv, StoresInv, MemoryInv, TypeOK
<1>2. QED
  BY InitTyped, StepTyped, <1>1, PTL DEF Spec

-----------------------------------------------------------------------------
(* Listed calls.  A call leaves the session manager before it leaves       *)
(* active_calls; in between a thread, or the rebuild, has yet to see to it. *)

\* Where a thread has taken the session and not yet the listing.
Unlisting == {"uncache", "end", "check", "clean", "read", "timeoutBlank", "timeoutEnd"}

Excused == "listing" \in strays \/ "unended" \in strays

Pending == rebuild # "no" \/ \E t \in Threads : pc[t] \in Unlisting

ListedInv ==
    /\ TypeInv
    /\ active => doc # NoDoc
    /\ active => session \/ Excused \/ Pending

\* A step of control that leaves the listing and the session alone, and does
\* not leave Unlisting.
LEMMA PendingKept ==
    ASSUME ListedInv, TypeInv', active' = active, doc' = doc,
           session => session', strays \subseteq strays',
           Pending => Pending' \/ session'
    PROVE  ListedInv'
BY DEF ListedInv, TypeInv, StoresInv, Excused

\* Control of thread t outside Unlisting does not disturb that of the others.
LEMMA OthersPending ==
    ASSUME TypeInv, Pending, NEW t \in Threads, NEW l, rebuild' = rebuild,
           pc' = [pc EXCEPT ![t] = l], pc[t] \notin Unlisting \/ l \in Unlisting
    PROVE  Pending'
<1>1. CASE rebuild # "no"
  BY <1>1 DEF Pending
<1>2. ASSUME NEW u \in Threads, pc[u] \in Unlisting
      PROVE  Pending'
  BY <1>2 DEF Pending, TypeInv, LocalsInv
<1>3. QED
  BY <1>1, <1>2 DEF Pending

\* A written document lists the call if it says so, and then either there is
\* a session or the write is a stray.
LEMMA WriteListed ==
    ASSUME ListedInv, TypeInv', NEW d \in Docs, SetCallState(d), Late(d.status),
           session' = session, Pending => Pending'
    PROVE  ListedInv'
<1>1. strays \subseteq strays'
  BY DEF Late
<1>2. CASE ~session /\ d.status # "completed"
  BY <1>2, NoDocAssumption DEF ListedInv, Late, Excused, SetCallState
<1>3. CASE session
  BY <1>3, NoDocAssumption DEF ListedInv, SetCallState
<1>4. CASE d.status = "completed"
  <2>1. active' = active
    BY <1>4 DEF SetCallState, ListedInv, TypeInv, StoresInv
  <2>2. QED
    BY <2>1, <1>1, NoDocAssumption DEF ListedInv, SetCallState, Excused
<1>5. QED
  BY <1>2, <1>3, <1>4

\* A call taken off the list is out of danger.
LEMMA Unlisted ==
    ASSUME TypeInv', ~active'
    PROVE  ListedInv'
BY DEF ListedInv

-----------------------------------------------------------------------------
\* The steps of a worker that write no document and end no session.
QuietOperation(w) ==
    \/ ReadRedis(w) \/ FillCache(w) \/ UpdateSession(w)
    \/ InviteRow(w) \/ SDPCache(w) \/ Refresh(w)
    \/ Guard(w) \/ StopListener(w) \/ Uncache(w) \/ EndRow(w) \/ PublishError(w)
    \/ StashCache(w) \/ ShortenSession(w)
    \/ Reread(w) \/ AnswerCache(w) \/ AnswerRow(w)

LEMMA QuietOperationListed ==
    ASSUME ListedInv, TypeInv', NEW w \in Workers,
           QuietOperation(w) \/ \E m \in Kinds : Receive(w, m)
    PROVE  ListedInv'
<1>w. w \in Threads
  BY DEF Threads
<1>1. active' = active /\ doc' = doc /\ rebuild' = rebuild
  BY DEF QuietOperation, Receive, ReadRedis, FillCache, UpdateSession, InviteRow,
         SDPCache, Refresh, Guard, StopListener, Uncache, EndRow, PublishError,
         StashCache, ShortenSession, Reread, AnswerCache, AnswerRow, redis
<1>2. session => session'
  BY DEF QuietOperation, Receive, ReadRedis, FillCache, UpdateSession, InviteRow,
         SDPCache, Refresh, Guard, StopListener, Uncache, EndRow, PublishError,
         StashCache, ShortenSession, Reread, AnswerCache, AnswerRow, manager
<1>3. strays \subseteq strays'
  BY DEF QuietOperation, Receive, ReadRedis, FillCache, UpdateSession, InviteRow,
         SDPCache, Refresh, Guard, StopListener, Uncache, EndRow, PublishError,
         StashCache, ShortenSession, Reread, AnswerCache, AnswerRow, history,
         ArrivesAmid, EndsAmid
<1>4. \E l : /\ pc' = [pc EXCEPT ![w] = l]
             /\ pc[w] \notin Unlisting \/ l \in Unlisting
  BY DEF QuietOperation, Receive, ReadRedis, FillCache, UpdateSession, InviteRow,
         SDPCache, AfterSDP, Refresh, Guard, StopListener, Uncache, EndRow,
         PublishError, StashCache, ShortenSession, Reread, AnswerCache, AnswerRow,
         Goto, GotoWith, Done, Unlisting
<1>5. Pending => Pending'
  BY <1>w, <1>1, <1>4, OthersPending DEF ListedInv
<1>6. QED
  BY <1>1, <1>2, <1>3, <1>5, PendingKept

\* The steps of a worker that write a document of a call that goes on.
LEMMA WritersListed ==
    ASSUME ListedInv, TypeInv', NEW w \in Workers,
           Invite(w) \/ SDP(w) \/ Stash(w) \/ Answer(w)
    PROVE  ListedInv'
<1>w. w \in Threads
  BY DEF Threads
<1>p. session' = session /\ rebuild' = rebuild
  BY DEF Invite, SDP, Stash, Answer, manager
<1>q. ASSUME NEW l, pc' = [pc EXCEPT ![w] = l], pc[w] \notin Unlisting
      PROVE  Pending => Pending'
  BY <1>q, <1>w, <1>p, OthersPending DEF ListedInv
<1>1. CASE Invite(w)
  <2> DEFINE d == [status |-> "active", answered |-> FALSE,
                   challenged |-> FALSE, held |-> FALSE]
  <2>1. d \in Docs /\ d.status = "active"
    BY DEF Docs
  <2>2. Pending => Pending'
    BY <1>1, <1>q DEF Invite, Goto, Unlisting
  <2>3. QED
    BY <1>1, <1>p, <2>1, <2>2, WriteListed DEF Invite
<1>2. CASE SDP(w)
  <2>1. CASE AfterSDP(w) /\ UNCHANGED <<redis, history>>
    <3>1. Pending => Pending'
      BY <1>2, <2>1, <1>q DEF SDP, AfterSDP, Goto, Done, Unlisting
    <3>2. QED
      BY <2>1, <3>1, <1>p, PendingKept DEF redis, history
  <2>2. ASSUME NEW hold \in BOOLEAN,
               SetCallState([got[w] EXCEPT !.held = hold]),
               GotoWith(w, "sdpCache", [got[w] EXCEPT !.held = hold]),
               Late(got[w].status)
        PROVE  ListedInv'
    <3> DEFINE d == [got[w] EXCEPT !.held = hold]
    <3>1. got[w] \in Docs
      BY <1>2, <1>w DEF ListedInv, TypeInv, LocalsInv, HasDocument, SDP, Reading
    <3>2. d \in Docs /\ d.status = got[w].status
      BY <3>1 DEF Docs
    <3>3. Pending => Pending'
      BY <1>2, <2>2, <1>q DEF SDP, GotoWith, Unlisting
    <3>4. QED
      BY <1>p, <2>2, <3>2, <3>3, WriteListed
  <2>3. QED
    BY <1>2, <2>1, <2>2 DEF SDP
<1>3. CASE Stash(w)
  <2> DEFINE d == [got[w] EXCEPT !.challenged = TRUE]
  <2>1. got[w] \in Docs
    BY <1>3, <1>w DEF ListedInv, TypeInv, LocalsInv, HasDocument, Stash, Reading
  <2>2. d \in Docs /\ d.status = got[w].status
    BY <2>1 DEF Docs
  <2>3. Pending => Pending'
    BY <1>3, <1>q DEF Stash, GotoWith, Unlisting
  <2>4. QED
    BY <1>3, <1>p, <2>2, <2>3, WriteListed DEF Stash
<1>4. CASE Answer(w)
  <2> DEFINE d == IF got[w] = NoDoc
                  THEN [status |-> "answered", answered |-> TRUE,
                        challenged |-> FALSE, held |-> FALSE]
                  ELSE [got[w] EXCEPT !.status = "answered", !.answered = TRUE]
  <2>1. got[w] \in Docs \union {NoDoc}
    BY <1>w DEF ListedInv, TypeInv, LocalsInv
  <2>2. d \in Docs /\ d.status = "answered"
    BY <2>1 DEF Docs
  <2>3. Pending => Pending'
    BY <1>4, <1>q DEF Answer, GotoWith, Unlisting
  <2>4. QED
    BY <1>4, <1>p, <2>2, <2>3, WriteListed DEF Answer
<1>5. QED
  BY <1>1, <1>2, <1>3, <1>4

\* The end of a call: its session first, then its listing.
LEMMA RemoveSessionListed ==
    ASSUME ListedInv, TypeInv', NEW t \in Threads, RemoveSession(t)
    PROVE  ListedInv'
<1>1. pc'[t] \in Unlisting
  BY DEF RemoveSession, Goto, ListedInv, TypeInv, LocalsInv, Unlisting
<1>2. active' = active /\ doc' = doc
  BY DEF RemoveSession, redis
<1>3. QED
  BY <1>1, <1>2 DEF ListedInv, Pending

LEMMA EndListed ==
    ASSUME ListedInv, TypeInv',
           (\E w \in Workers : End(w)) \/ TimeoutBlank \/ TimeoutEnd
    PROVE  ListedInv'
<1>1. CASE ~active'
  BY <1>1, Unlisted
<1>2. CASE active'
  <2>1. active' = active /\ doc' = doc /\ "unended" \in strays'
    BY <1>2 DEF End, TimeoutBlank, TimeoutEnd, EndCallBatch, redis
  <2>2. QED
    BY <2>1 DEF ListedInv, Excused
<1>3. QED
  BY <1>1, <1>2

\* The other steps of the monitor.
LEMMA MonitorListed ==
    ASSUME ListedInv, TypeInv',
           \/ SessionExpires \/ KeepActive \/ SessionTimeout \/ StreamExpires
           \/ CopyForTimeout \/ ReadForTimeout \/ TimeoutRow \/ TimeoutUncache
    PROVE  ListedInv'
<1>w. Monitor \in Threads
  BY DEF Threads
<1>1. active' = active /\ doc' = doc /\ rebuild' = rebuild
  BY DEF SessionExpires, KeepActive, SessionTimeout, StreamExpires, CopyForTimeout,
         ReadForTimeout, TimeoutRow, TimeoutUncache, redis
<1>2. CASE SessionExpires
  <2>1. pc'[Monitor] \in Unlisting
    BY <1>2, <1>w DEF SessionExpires, Goto, ListedInv, TypeInv, LocalsInv, Unlisting
  <2>2. QED
    BY <1>w, <1>1, <2>1 DEF ListedInv, Pending
<1>3. CASE KeepActive
  BY <1>3, <1>1 DEF KeepActive, ListedInv
<1>4. CASE ~SessionExpires /\ ~KeepActive
  <2>1. session' = session /\ strays \subseteq strays'
    BY <1>4
    DEF SessionTimeout, StreamExpires, CopyForTimeout, ReadForTimeout, TimeoutRow,
        TimeoutUncache, manager, history, EndsAmid
  <2>2. CASE StreamExpires /\ UNCHANGED locals
    <3>1. Pending => Pending'
      BY <2>2, <1>1 DEF locals, Pending
    <3>2. QED
      BY <1>1, <2>1, <3>1, PendingKept
  <2>3. CASE ~(StreamExpires /\ UNCHANGED locals)
    <3>1. \E l : /\ pc' = [pc EXCEPT ![Monitor] = l]
                 /\ pc[Monitor] \notin Unlisting \/ l \in Unlisting
      BY <1>4, <2>3
      DEF SessionTimeout, StreamExpires, CopyForTimeout, ReadForTimeout, TimeoutRow,
          TimeoutUncache, Goto, GotoWith, Done, Unlisting, MonitorIdle
    <3>2. Pending => Pending'
      BY <1>w, <1>1, <3>1, OthersPending DEF ListedInv
    <3>3. QED
      BY <1>1, <2>1, <3>2, PendingKept
  <2>4. QED
    BY <2>2, <2>3
<1>5. QED
  BY <1>2, <1>3, <1>4

\* The streams, the caches, a restart and the rebuild after it.
LEMMA EnvironmentListed ==
    ASSUME ListedInv, TypeInv', Environment \/ StreamActive
    PROVE  ListedInv'
<1>1. CASE \/ EmptyTrash \/ StreamIdles \/ StreamLoads \/ CacheExpires
           \/ TombstoneGoes \/ StreamActive
  <2>1. /\ active' = active /\ doc' = doc /\ session' = session
        /\ strays' = strays /\ rebuild' = rebuild /\ pc' = pc
    BY <1>1
    DEF EmptyTrash, StreamIdles, StreamLoads, CacheExpires, TombstoneGoes,
        StreamActive, redis, manager, locals, history
  <2>2. QED
    BY <2>1 DEF ListedInv, Excused, Pending
<1>2. CASE Restart
  <2>1. active' = active /\ doc' = doc /\ rebuild' # "no"
    BY <1>2 DEF Restart, redis
  <2>2. QED
    BY <2>1 DEF ListedInv, Pending
<1>3. CASE RebuildReads
  <2>1. /\ active' = active /\ doc' = doc
        /\ active => rebuild' # "no"
    BY <1>3 DEF RebuildReads, redis, ListedInv
  <2>2. QED
    BY <2>1 DEF ListedInv, Pending
<1>4. CASE RebuildKeeps
  BY <1>4 DEF RebuildKeeps, redis, ListedInv
<1>5. CASE RebuildDrops
  BY <1>5, Unlisted DEF RebuildDrops
<1>6. QED
  BY <1>1, <1>2, <1>3, <1>4, <1>5 DEF Environment

LEMMA StepListed ==
    ASSUME ListedInv, [Next]_vars
    PROVE  ListedInv'
<1>t. TypeInv'
  BY StepTyped DEF ListedInv
<1>1. ASSUME NEW w \in Workers, Operation(w) \/ (\E m \in Kinds : Receive(w, m))
      PROVE  ListedInv'
  <2>1. w \in Threads
    BY DEF Threads
  <2>2. \/ QuietOperation(w) \/ (\E m \in Kinds : Receive(w, m))
        \/ Invite(w) \/ SDP(w) \/ Stash(w) \/ Answer(w)
        \/ RemoveSession(w) \/ End(w)
    BY <1>1 DEF Operation, QuietOperation
  <2>3. QED
    BY <1>t, <2>1, <2>2, QuietOperationListed, WritersListed, RemoveSessionListed,
       EndListed
<1>2. CASE MonitorStep
  BY <1>2, <1>t, MonitorListed, EndListed, RemoveSessionListed
  DEF MonitorStep, Threads
<1>3. CASE UNCHANGED vars
  BY <1>3, <1>t
  DEF vars, redis, manager, locals, history, ListedInv, Excused, Pending
<1>4. QED
  BY <1>1, <1>2, <1>3, <1>t, EnvironmentListed DEF Next, Arrival

\* A call at rest that Redis lists as active has a session, through restarts
\* and whatever the messages, unless a message listed it when it had none or
\* its end was handled without a document
\* (src/ie/internal/callsession/manager.go 377-489, src/ie/internal/redis/client.go).
THEOREM ListedAreTimed == Spec => []ListedCallsTimed
<1>1. Init => ListedInv
  BY InitTyped DEF Init, ListedInv
<1>2. ListedInv => ListedCallsTimed
  BY DEF ListedInv, ListedCallsTimed, Excused, Pending, Quiet, Unlisting
<1>3. QED
  BY <1>1, <1>2, StepListed, PTL DEF Spec

-----------------------------------------------------------------------------
(* What localCache knows of the answer.  Nothing orders the messages of a  *)
(* call in the pool of workers; the properties of the cache are those of a *)
(* call whose messages are handled one at a time, by whichever workers.    *)

OneAtATime == \A v, w \in Workers : pc[v] # "idle" /\ pc[w] # "idle" => v = w

\* The handling of a message by w: its arrival, or a step of its handler.
Handles(w) == (\E m \in Kinds : Receive(w, m)) \/ Operation(w)

\* localCache lags behind the document only while the answer is handled.
CacheInformed ==
    Answered(doc) /\ cache # NoDoc =>
        Answered(cache) \/ \E w \in Workers : pc[w] = "answerCache"

\* A worker with what it read knows at least what the document says.
Informed(w) ==
    pc[w] \notin {"idle", "redis"} =>
        /\ Answered(doc) => Answered(got[w])
        /\ Answered(got[w]) /\ pc[w] \notin {"fill", "answerCache"} =>
               cache = NoDoc \/ Answered(cache)
        /\ pc[w] = "invite" => ~Answered(got[w])

\* The monitor does not write back an answer that the document has lost.
EndInformed == pc[Monitor] = "timeoutEnd" /\ Answered(got[Monitor]) => Answered(doc)

\* The monitor only starts after the rebuild.
RebuildFirst == rebuild # "no" => pc[Monitor] = "idle"

NewsInv ==
    /\ TypeInv
    /\ CacheInformed
    /\ \A w \in Workers : Informed(w)
    /\ EndInformed
    /\ RebuildFirst

\* While one worker is busy with the call the others are not.
LEMMA OthersIdle ==
    ASSUME TypeInv, TypeInv', OneAtATime, OneAtATime', NEW w \in Workers, Handles(w)
    PROVE  \A v \in Workers \ {w} : pc[v] = "idle" /\ pc'[v] = "idle"
<1>w. w \in Threads /\ Workers \subseteq Threads
  BY DEF Threads
<1>1. ASSUME NEW m \in Kinds, Receive(w, m)
      PROVE  \A v \in Workers \ {w} : pc[v] = "idle" /\ pc'[v] = "idle"
  <2>1. pc'[w] # "idle" /\ \A v \in Workers \ {w} : pc'[v] = pc[v]
    BY <1>1, <1>w DEF Receive, TypeInv, LocalsInv
  <2>2. QED
    BY <2>1 DEF OneAtATime
<1>2. CASE Operation(w)
  <2>1. pc[w] # "idle"
    BY <1>2
    DEF Operation, ReadRedis, FillCache, UpdateSession, Invite, InviteRow, SDP,
        SDPCache, Refresh, Guard, StopListener, RemoveSession, Uncache, End, EndRow,
        PublishError, Stash, StashCache, ShortenSession, Reread, Answer,
        AnswerCache, AnswerRow
  <2>2. \E l : pc' = [pc EXCEPT ![w] = l]
    BY <1>2
    DEF Operation, ReadRedis, FillCache, UpdateSession, Invite, InviteRow, SDP,
        SDPCache, AfterSDP, Refresh, Guard, StopListener, RemoveSession, Uncache,
        End, EndRow, PublishError, Stash, StashCache, ShortenSession, Reread,
        Answer, AnswerCache, AnswerRow, Goto, GotoWith, Done
  <2>3. \A v \in Workers \ {w} : pc'[v] = pc[v]
    BY <2>2, <1>w DEF TypeInv, LocalsInv
  <2>4. QED
    BY <2>1, <2>3 DEF OneAtATime
<1>3. QED
  BY <1>1, <1>2 DEF Handles

\* A worker handling a message leaves the monitor alone.
LEMMA MonitorStays ==
    ASSUME TypeInv, NEW w \in Workers, Handles(w)
    PROVE  pc'[Monitor] = pc[Monitor] /\ got'[Monitor] = got[Monitor] /\ rebuild' = rebuild
<1>w. w \in Threads /\ Monitor \in Threads /\ w # Monitor
  BY MonitorAssumption DEF Threads
<1>1. rebuild' = rebuild
  BY DEF Handles, Receive, Operation, ReadRedis, FillCache, UpdateSession, Invite,
         InviteRow, SDP, SDPCache, Refresh, Guard, StopListener, RemoveSession,
         Uncache, End, EndRow, PublishError, Stash, StashCache, ShortenSession,
         Reread, Answer, AnswerCache, AnswerRow
<1>2. \E l : pc' = [pc EXCEPT ![w] = l]
  BY DEF Handles, Receive, Operation, ReadRedis, FillCache, UpdateSession, Invite,
         InviteRow, SDP, SDPCache, AfterSDP, Refresh, Guard, StopListener,
         RemoveSession, Uncache, End, EndRow, PublishError, Stash, StashCache,
         ShortenSession, Reread, Answer, AnswerCache, AnswerRow, Goto, GotoWith, Done
<1>3. got' = got \/ \E d : got' = [got EXCEPT ![w] = d]
  BY DEF Handles, Receive, Operation, ReadRedis, FillCache, UpdateSession, Invite,
         InviteRow, SDP, SDPCache, AfterSDP, Refresh, Guard, StopListener,
         RemoveSession, Uncache, End, EndRow, PublishError, Stash, StashCache,
         ShortenSession, Reread, Answer, AnswerCache, AnswerRow, Goto, GotoWith, Done
<1>4. QED
  BY <1>w, <1>1, <1>2, <1>3 DEF TypeInv, LocalsInv

\* What is left to show of a step of a worker.
LEMMA NewsKept ==
    ASSUME NewsInv, TypeInv', OneAtATime, OneAtATime', NEW w \in Workers, Handles(w),
           CacheInformed', Informed(w)', Answered(doc) => Answered(doc)'
    PROVE  NewsInv'
<1>1. \A v \in Workers \ {w} : Informed(v)'
  BY OthersIdle DEF NewsInv, Informed
<1>2. pc'[Monitor] = pc[Monitor] /\ got'[Monitor] = got[Monitor] /\ rebuild' = rebuild
  BY MonitorStays DEF NewsInv
<1>3. EndInformed'
  BY <1>2 DEF NewsInv, EndInformed, Answered
<1>4. RebuildFirst'
  BY <1>2 DEF NewsInv, RebuildFirst
<1>5. QED
  BY <1>1, <1>3, <1>4 DEF NewsInv

\* What is known where w works and the other workers are idle.
LEMMA InformedHere ==
    ASSUME NewsInv, NEW w \in Workers, \A v \in Workers \ {w} : pc[v] = "idle",
           pc[w] # "answerCache", Answered(doc), cache # NoDoc
    PROVE  Answered(cache)
BY DEF NewsInv, CacheInformed

\* The message arrives, and is dispatched with the document that was read.
LEMMA ReceptionNews ==
    ASSUME NewsInv, TypeInv', ~Failures, OneAtATime, OneAtATime', NEW w \in Workers,
           (\E m \in Kinds : Receive(w, m)) \/ ReadRedis(w) \/ FillCache(w) \/ UpdateSession(w)
    PROVE  NewsInv'
<1>w. /\ w \in Threads /\ got[w] \in Docs \union {NoDoc} /\ Handles(w)
      /\ pc \in [Threads -> Labels] /\ got \in [Threads -> Docs \union {NoDoc}]
      /\ pc'[w] \in Labels
  BY DEF NewsInv, TypeInv, LocalsInv, Threads, Handles, Operation
<1>o. \A v \in Workers \ {w} : pc[v] = "idle" /\ pc'[v] = "idle"
  BY <1>w, OthersIdle DEF NewsInv
<1>d. doc' = doc
  BY DEF Receive, ReadRedis, FillCache, UpdateSession, redis
<1>i. Informed(w)
  BY DEF NewsInv
<1>1. ASSUME NEW m \in Kinds, Receive(w, m) PROVE NewsInv'
  <2>1. pc[w] = "idle" /\ cache' = cache /\ got'[w] = cache
        /\ pc'[w] = IF cache = NoDoc THEN "redis" ELSE "session"
    BY <1>1, <1>w DEF Receive
  <2>2. CacheInformed'
    BY <2>1, <1>d, <1>o, InformedHere DEF CacheInformed, Answered
  <2>3. Informed(w)'
    BY <2>1, <1>d, <1>o, InformedHere DEF Informed, Answered
  <2>4. QED
    BY <1>w, <1>d, <2>2, <2>3, NewsKept DEF Answered
<1>2. CASE ReadRedis(w)
  <2>1. pc[w] = "redis" /\ cache' = cache /\ got'[w] = doc
        /\ pc'[w] = IF doc = NoDoc THEN "session" ELSE "fill"
    BY <1>2, <1>w DEF ReadRedis, GotoWith
  <2>2. CacheInformed'
    BY <2>1, <1>d, <1>o, InformedHere DEF CacheInformed, Answered
  <2>3. Informed(w)'
    BY <2>1, <1>d, <1>o, InformedHere DEF Informed, Answered
  <2>4. QED
    BY <1>w, <1>d, <2>2, <2>3, NewsKept DEF Answered
<1>3. CASE FillCache(w)
  <2>1. pc[w] = "fill" /\ cache' = got[w] /\ got'[w] = got[w] /\ pc'[w] = "session"
    BY <1>3, <1>w DEF FillCache, Goto
  <2>2. CacheInformed'
    BY <2>1, <1>d, <1>i DEF CacheInformed, Informed, Answered
  <2>3. Informed(w)'
    BY <2>1, <1>d, <1>i DEF Informed, Answered
  <2>4. QED
    BY <1>w, <1>d, <2>2, <2>3, NewsKept DEF Answered
<1>4. CASE UpdateSession(w)
  <2>1. pc[w] = "session" /\ cache' = cache
    BY <1>4 DEF UpdateSession
  <2>2. \/ pc'[w] = "idle"
        \/ got'[w] = got[w] /\ pc'[w] = Handler(w) /\ Handler(w) # "idle"
    BY <1>4, <1>w DEF UpdateSession, Goto, Done
  <2>3. msg[w] \in Messages
    BY <2>1 DEF NewsInv, TypeInv, LocalsInv, HasMessage
  <2>4. Handler(w) \notin {"redis", "fill", "answerCache"} /\ (Handler(w) = "invite" => ~Answered(got[w]))
    BY <2>3 DEF Messages, Handler, Terminates, IsInvite
  <2>5. CacheInformed'
    BY <2>1, <1>d, <1>o, InformedHere DEF CacheInformed, Answered
  <2>6. Informed(w)'
    BY <2>1, <2>2, <2>4, <1>d, <1>i DEF Informed, Answered
  <2>7. QED
    BY <1>w, <1>d, <2>5, <2>6, NewsKept DEF Answered
<1>5. QED
  BY <1>1, <1>2, <1>3, <1>4

\* The steps of a handler that change neither the document nor localCache.
ControlOnly(w) ==
    \/ InviteRow(w) \/ Refresh(w) \/ Guard(w) \/ StopListener(w) \/ RemoveSession(w)
    \/ EndRow(w) \/ PublishError(w) \/ ShortenSession(w) \/ AnswerRow(w)

LEMMA ControlNews ==
    ASSUME NewsInv, TypeInv', OneAtATime, OneAtATime', NEW w \in Workers, ControlOnly(w)
    PROVE  NewsInv'
<1>w. /\ w \in Threads /\ Handles(w)
      /\ pc \in [Threads -> Labels] /\ got \in [Threads -> Docs \union {NoDoc}]
  BY DEF NewsInv, TypeInv, LocalsInv, Threads, Handles, Operation, ControlOnly
<1>o. \A v \in Workers \ {w} : pc[v] = "idle" /\ pc'[v] = "idle"
  BY <1>w, OthersIdle DEF NewsInv
<1>1. doc' = doc /\ cache' = cache
  BY DEF ControlOnly, InviteRow, Refresh, Guard, StopListener, RemoveSession, EndRow,
         PublishError, ShortenSession, AnswerRow, redis
<1>2. /\ pc[w] \notin {"idle", "redis", "fill", "answerCache"}
      /\ \/ pc'[w] = "idle"
         \/ got'[w] = got[w] /\ pc'[w] \in {"stop", "remove", "uncache", "read"}
  BY <1>w
  DEF ControlOnly, InviteRow, Refresh, Guard, StopListener, RemoveSession, EndRow,
      PublishError, ShortenSession, AnswerRow, Goto, Done
<1>3. CacheInformed'
  BY <1>1, <1>2, <1>o, InformedHere DEF CacheInformed, Answered
<1>4. Informed(w)'
  BY <1>1, <1>2 DEF NewsInv, Informed, Answered
<1>5. QED
  BY <1>w, <1>1, <1>3, <1>4, NewsKept DEF Answered

\* The steps of a handler that write localCache: with the document in hand, or
\* to remove it.
CacheWrite(w) == SDPCache(w) \/ StashCache(w) \/ AnswerCache(w) \/ Uncache(w)

LEMMA CacheWriteNews ==
    ASSUME NewsInv, TypeInv', OneAtATime, OneAtATime', NEW w \in Workers, CacheWrite(w)
    PROVE  NewsInv'
<1>w. /\ w \in Threads /\ Handles(w)
      /\ pc \in [Threads -> Labels] /\ got \in [Threads -> Docs \union {NoDoc}]
  BY DEF NewsInv, TypeInv, LocalsInv, Threads, Handles, Operation, CacheWrite
<1>1. doc' = doc
  BY DEF CacheWrite, SDPCache, StashCache, AnswerCache, Uncache, redis
<1>2. /\ pc[w] \in {"sdpCache", "stashCache", "answerCache", "uncache"}
      /\ cache' \in {got[w], NoDoc}
      /\ \/ pc'[w] = "idle"
         \/ got'[w] = got[w] /\ pc'[w] \in {"refresh", "shorten", "answerRow", "end"}
  BY <1>w
  DEF CacheWrite, SDPCache, AfterSDP, StashCache, AnswerCache, Uncache, Goto, Done
<1>3. Informed(w)
  BY DEF NewsInv
<1>4. CacheInformed'
  BY <1>1, <1>2, <1>3 DEF CacheInformed, Informed, Answered
<1>5. Informed(w)'
  BY <1>1, <1>2, <1>3 DEF Informed, Answered
<1>6. QED
  BY <1>w, <1>1, <1>4, <1>5, NewsKept DEF Answered

\* A handler that makes the document anew, which only happens to a call that
\* is not answered.
LEMMA InviteNews ==
    ASSUME NewsInv, TypeInv', OneAtATime, OneAtATime', NEW w \in Workers, Invite(w)
    PROVE  NewsInv'
<1>w. /\ w \in Threads /\ Handles(w)
      /\ pc \in [Threads -> Labels] /\ got \in [Threads -> Docs \union {NoDoc}]
  BY DEF NewsInv, TypeInv, LocalsInv, Threads, Handles, Operation
<1>1. pc[w] = "invite" /\ cache' = cache /\ got'[w] = got[w] /\ pc'[w] = "inviteRow"
  BY <1>w DEF Invite, Goto
<1>2. ~Answered(got[w]) /\ ~Answered(doc)
  BY <1>1 DEF NewsInv, Informed
<1>3. doc'.answered = FALSE
  BY DEF Invite, SetCallState
<1>4. CacheInformed'
  BY <1>3 DEF CacheInformed, Answered
<1>5. Informed(w)'
  BY <1>1, <1>2, <1>3 DEF Informed, Answered
<1>6. QED
  BY <1>w, <1>2, <1>4, <1>5, NewsKept

\* A handler that writes back the document in hand, changed or as ended.
LEMMA RewriteNews ==
    ASSUME NewsInv, TypeInv', OneAtATime, OneAtATime', NEW w \in Workers,
           SDP(w) \/ Stash(w) \/ End(w)
    PROVE  NewsInv'
<1>w. /\ w \in Threads /\ Handles(w)
      /\ pc \in [Threads -> Labels] /\ got \in [Threads -> Docs \union {NoDoc}]
  BY DEF NewsInv, TypeInv, LocalsInv, Threads, Handles, Operation
<1>o. \A v \in Workers \ {w} : pc[v] = "idle" /\ pc'[v] = "idle"
  BY <1>w, OthersIdle DEF NewsInv
<1>i. Informed(w)
  BY DEF NewsInv
<1>1. pc[w] \in {"sdp", "stash", "end"} /\ cache' = cache
  BY DEF SDP, Stash, End
<1>2. got[w] = NoDoc => pc[w] = "end"
  BY <1>1, <1>w DEF NewsInv, TypeInv, LocalsInv, HasDocument, Reading
<1>3. \/ Answered(doc') = Answered(got[w]) /\ (pc'[w] = "idle" \/ Answered(got'[w]) = Answered(got[w]))
      \/ doc' = doc /\ (pc'[w] = "idle" \/ got'[w] = got[w])
  <2>1. CASE SDP(w)
    <3>1. CASE AfterSDP(w) /\ UNCHANGED <<redis, history>>
      BY <3>1, <1>w DEF AfterSDP, Goto, Done, redis
    <3>2. ASSUME NEW hold \in BOOLEAN,
                 SetCallState([got[w] EXCEPT !.held = hold]),
                 GotoWith(w, "sdpCache", [got[w] EXCEPT !.held = hold])
          PROVE  Answered(doc') = Answered(got[w]) /\ Answered(got'[w]) = Answered(got[w])
      <4>1. got[w] \in Docs /\ got[w] # NoDoc
        BY <1>w, <1>2, <2>1 DEF SDP
      <4>2. [got[w] EXCEPT !.held = hold] \in Docs
            /\ [got[w] EXCEPT !.held = hold].answered = got[w].answered
        BY <4>1 DEF Docs
      <4>3. doc' = [got[w] EXCEPT !.held = hold] /\ got'[w] = [got[w] EXCEPT !.held = hold]
        BY <3>2, <1>w DEF SetCallState, GotoWith
      <4>4. QED
        BY <4>1, <4>2, <4>3, NoDocAssumption DEF Answered
    <3>3. QED
      BY <2>1, <3>1, <3>2 DEF SDP
  <2>2. CASE Stash(w)
    <3> DEFINE d == [got[w] EXCEPT !.challenged = TRUE]
    <3>1. got[w] \in Docs /\ got[w] # NoDoc
      BY <1>w, <1>2, <2>2 DEF Stash
    <3>2. d \in Docs /\ d.answered = got[w].answered
      BY <3>1 DEF Docs
    <3>3. doc' = d /\ got'[w] = d
      BY <2>2, <1>w DEF Stash, SetCallState, GotoWith
    <3>4. QED
      BY <3>1, <3>2, <3>3, NoDocAssumption DEF Answered
  <2>3. CASE End(w)
    <3>1. got'[w] = got[w]
      BY <2>3, <1>w DEF End, Goto
    <3>2. CASE got[w] = NoDoc
      BY <2>3, <3>1, <3>2 DEF End, redis
    <3>3. CASE got[w] # NoDoc
      <4> DEFINE d == [got[w] EXCEPT !.status = "completed"]
      <4>1. d \in Docs /\ d.answered = got[w].answered
        BY <3>3, <1>w DEF Docs
      <4>2. doc' = d
        BY <2>3, <3>3 DEF End, EndCallBatch
      <4>3. QED
        BY <3>1, <3>3, <4>1, <4>2, NoDocAssumption DEF Answered
    <3>4. QED
      BY <3>2, <3>3
  <2>4. QED
    BY <2>1, <2>2, <2>3
<1>4. Answered(doc') => Answered(got[w])
  BY <1>1, <1>3, <1>i DEF Informed, Answered
<1>5. Answered(doc) => Answered(doc')
  BY <1>1, <1>3, <1>i DEF Informed, Answered
<1>6. pc'[w] \notin {"fill", "answerCache", "redis", "invite"}
  BY <1>w DEF SDP, AfterSDP, Stash, End, Goto, GotoWith, Done
<1>7. CacheInformed'
  BY <1>1, <1>4, <1>i DEF CacheInformed, Informed, Answered
<1>8. pc'[w] = "idle" \/ Answered(got'[w]) = Answered(got[w])
  BY <1>3
<1>9. Informed(w)'
  BY <1>1, <1>4, <1>6, <1>8, <1>i DEF Informed, Answered
<1>10. QED
  BY <1>w, <1>5, <1>7, <1>9, NewsKept DEF Answered

\* An answer: the document is read again if there was none.
LEMMA AnswerNews ==
    ASSUME NewsInv, TypeInv', ~Failures, OneAtATime, OneAtATime', NEW w \in Workers,
           Reread(w) \/ Answer(w)
    PROVE  NewsInv'
<1>w. /\ w \in Threads /\ Handles(w)
      /\ pc \in [Threads -> Labels] /\ got \in [Threads -> Docs \union {NoDoc}]
  BY DEF NewsInv, TypeInv, LocalsInv, Threads, Handles, Operation
<1>o. \A v \in Workers \ {w} : pc[v] = "idle" /\ pc'[v] = "idle"
  BY <1>w, OthersIdle DEF NewsInv
<1>1. CASE Reread(w)
  <2>1. /\ pc[w] = "reread" /\ doc' = doc /\ cache' = cache
        /\ got'[w] = doc /\ pc'[w] = "answer"
    BY <1>1, <1>w DEF Reread, GotoWith, redis
  <2>2. CacheInformed'
    BY <2>1, <1>o, InformedHere DEF CacheInformed, Answered
  <2>3. Informed(w)'
    BY <2>1, <1>o, InformedHere DEF Informed, Answered
  <2>4. QED
    BY <1>w, <2>1, <2>2, <2>3, NewsKept DEF Answered
<1>2. CASE Answer(w)
  <2> DEFINE d == IF got[w] = NoDoc
                  THEN [status |-> "answered", answered |-> TRUE,
                        challenged |-> FALSE, held |-> FALSE]
                  ELSE [got[w] EXCEPT !.status = "answered", !.answered = TRUE]
  <2>1. d \in Docs /\ d.answered
    BY <1>w DEF Docs
  <2>2. doc' = d /\ got'[w] = d /\ pc'[w] = "answerCache"
    BY <1>2, <1>w DEF Answer, SetCallState, GotoWith
  <2>3. Answered(doc') /\ Answered(got'[w])
    BY <2>1, <2>2, NoDocAssumption DEF Answered
  <2>4. CacheInformed' /\ Informed(w)'
    BY <2>2, <2>3 DEF CacheInformed, Informed, Answered
  <2>5. QED
    BY <1>w, <2>3, <2>4, NewsKept DEF Answered
<1>3. QED
  BY <1>1, <1>2

\* The monitor writes no answer that the document has not, and of localCache it
\* only removes what is in it.
LEMMA MonitorNews ==
    ASSUME NewsInv, TypeInv', ~Failures, MonitorStep
    PROVE  NewsInv'
<1>w. Monitor \in Threads /\ pc[Monitor] \in Labels /\ got[Monitor] \in Docs \union {NoDoc}
      /\ pc \in [Threads -> Labels] /\ got \in [Threads -> Docs \union {NoDoc}]
  BY DEF NewsInv, TypeInv, LocalsInv, Threads
<1>1. cache' \in {cache, NoDoc} /\ rebuild' = rebuild
  BY DEF MonitorStep, SessionExpires, KeepActive, SessionTimeout, StreamExpires,
         RemoveSession, CopyForTimeout, ReadForTimeout, TimeoutBlank, TimeoutEnd,
         TimeoutRow, TimeoutUncache
<1>2. \A w \in Workers : pc'[w] = pc[w] /\ got'[w] = got[w]
  BY <1>w, MonitorAssumption
  DEF MonitorStep, SessionExpires, KeepActive, SessionTimeout, StreamExpires,
      RemoveSession, CopyForTimeout, ReadForTimeout, TimeoutBlank, TimeoutEnd,
      TimeoutRow, TimeoutUncache, Goto, GotoWith, Done, locals, Threads
<1>3. doc' = doc \/ ~Answered(doc)' \/ (Answered(doc)' /\ Answered(doc))
  <2>1. CASE TimeoutBlank
    <3>1. doc'.answered = FALSE
      BY <2>1 DEF TimeoutBlank, EndCallBatch, Blank
    <3>2. QED
      BY <3>1 DEF Answered
  <2>2. CASE TimeoutEnd
    <3>1. CASE got[Monitor] = NoDoc
      BY <2>2, <3>1 DEF TimeoutEnd, redis
    <3>2. CASE got[Monitor] # NoDoc
      <4> DEFINE d == [got[Monitor] EXCEPT !.status = "completed"]
      <4>1. d \in Docs /\ d.answered = got[Monitor].answered
        BY <3>2, <1>w DEF Docs
      <4>2. doc' = d
        BY <2>2, <3>2 DEF TimeoutEnd, EndCallBatch
      <4>3. Answered(doc)' => Answered(got[Monitor])
        BY <3>2, <4>1, <4>2 DEF Answered
      <4>4. QED
        BY <2>2, <4>3 DEF NewsInv, EndInformed, TimeoutEnd
    <3>3. QED
      BY <3>1, <3>2
  <2>3. CASE ~TimeoutBlank /\ ~TimeoutEnd
    BY <2>3
    DEF MonitorStep, SessionExpires, KeepActive, SessionTimeout, StreamExpires,
        RemoveSession, CopyForTimeout, ReadForTimeout, TimeoutRow, TimeoutUncache,
        redis
  <2>4. QED
    BY <2>1, <2>2, <2>3
<1>4. CacheInformed' /\ \A w \in Workers : Informed(w)'
  <2>1. Answered(doc)' => Answered(doc)
    BY <1>3 DEF Answered
  <2>2. CacheInformed'
    BY <1>1, <1>2, <2>1 DEF NewsInv, CacheInformed, Answered
  <2>3. ASSUME NEW w \in Workers PROVE Informed(w)'
    BY <1>1, <1>2, <2>1 DEF NewsInv, Informed, Answered
  <2>4. QED
    BY <2>2, <2>3
<1>5. EndInformed'
  <2>1. CASE pc'[Monitor] = "timeoutEnd"
    <3>1. got'[Monitor] = doc /\ doc' = doc
      BY <2>1, <1>w
      DEF MonitorStep, SessionExpires, KeepActive, SessionTimeout, StreamExpires,
          RemoveSession, CopyForTimeout, ReadForTimeout, TimeoutBlank, TimeoutEnd,
          TimeoutRow, TimeoutUncache, Goto, GotoWith, Done, MonitorIdle, locals, redis
    <3>2. QED
      BY <3>1 DEF EndInformed, Answered
  <2>2. QED
    BY <2>1 DEF EndInformed
<1>6. RebuildFirst'
  <2>1. CASE MonitorIdle
    BY <2>1, <1>1 DEF MonitorIdle, RebuildFirst
  <2>2. CASE ~MonitorIdle
    <3>1. pc[Monitor] # "idle"
      BY <2>2 DEF MonitorStep, SessionExpires, KeepActive, SessionTimeout,
         StreamExpires, RemoveSession, CopyForTimeout, ReadForTimeout, TimeoutBlank,
         TimeoutEnd, TimeoutRow, TimeoutUncache
    <3>2. QED
      BY <3>1, <1>1 DEF NewsInv, RebuildFirst
  <2>3. QED
    BY <2>1, <2>2
<1>7. QED
  BY <1>4, <1>5, <1>6 DEF NewsInv

LEMMA EnvironmentNews ==
    ASSUME NewsInv, TypeInv', Environment \/ StreamActive
    PROVE  NewsInv'
<1>1. CASE Restart
  <2>1. /\ cache' = NoDoc /\ \A t \in Threads : pc'[t] = "idle"
        /\ Workers \subseteq Threads /\ Monitor \in Threads
    BY <1>1 DEF Restart, Threads
  <2>2. QED
    BY <2>1 DEF NewsInv, CacheInformed, Informed, EndInformed, RebuildFirst
<1>2. CASE ~Restart
  <2>1. /\ pc' = pc /\ got' = got /\ cache' \in {cache, NoDoc}
        /\ rebuild' # "no" => rebuild # "no"
    BY <1>2
    DEF Environment, StreamActive, EmptyTrash, StreamIdles, StreamLoads, CacheExpires,
        TombstoneGoes, RebuildReads, RebuildKeeps, RebuildDrops, locals
  <2>2. doc' = doc \/ (doc' = NoDoc /\ rebuild # "no")
    BY <1>2
    DEF Environment, StreamActive, EmptyTrash, StreamIdles, StreamLoads, CacheExpires,
        TombstoneGoes, RebuildReads, RebuildKeeps, RebuildDrops, redis
  <2>3. CacheInformed'
    BY <2>1, <2>2 DEF NewsInv, CacheInformed, Answered
  <2>4. ASSUME NEW w \in Workers PROVE Informed(w)'
    BY <2>1, <2>2 DEF NewsInv, Informed, Answered
  <2>5. EndInformed' /\ RebuildFirst'
    BY <2>1, <2>2 DEF NewsInv, EndInformed, RebuildFirst, Answered
  <2>6. QED
    BY <2>3, <2>4, <2>5 DEF NewsInv
<1>3. QED
  BY <1>1, <1>2

LEMMA StepNews ==
    ASSUME NewsInv, ~Failures, OneAtATime, OneAtATime', [Next]_vars
    PROVE  NewsInv'
<1>t. TypeInv'
  BY StepTyped DEF NewsInv
<1>1. ASSUME NEW w \in Workers, Handles(w)
      PROVE  NewsInv'
  <2>1. \/ (\E m \in Kinds : Receive(w, m)) \/ ReadRedis(w) \/ FillCache(w) \/ UpdateSession(w)
        \/ ControlOnly(w) \/ CacheWrite(w) \/ Invite(w)
        \/ SDP(w) \/ Stash(w) \/ End(w) \/ Reread(w) \/ Answer(w)
    BY <1>1 DEF Handles, Operation, ControlOnly, CacheWrite
  <2>2. QED
    BY <1>t, <2>1, ReceptionNews, ControlNews, CacheWriteNews, InviteNews, RewriteNews,
       AnswerNews
<1>2. CASE UNCHANGED vars
  <2>1. UNCHANGED <<doc, cache, pc, got, rebuild>>
    BY <1>2 DEF vars, redis, locals
  <2>2. QED
    BY <1>t, <2>1 DEF NewsInv, CacheInformed, Informed, EndInformed, RebuildFirst, Answered
<1>3. QED
  BY <1>1, <1>2, <1>t, MonitorNews, EnvironmentNews DEF Next, Arrival, Handles

\* At rest localCache does not lag behind Redis on the answer, for any number
\* of workers, through timeouts, restarts and the loss of entries, as long as
\* the messages of the call are handled one at a time and Redis can be read:
\* the BYE finds the answer_time that it writes to the final row
\* (src/ie/internal/hep/handlers.go 416-419).  With a failed read it does not:
\* the handler takes the call for a new one, and fills localCache with that.
THEOREM CacheKeepsUp ==
    ASSUME ~Failures
    PROVE  Spec /\ []OneAtATime => []CacheKnowsAnswer
<1>1. Init => NewsInv
  <2>1. Init => TypeInv
    BY InitTyped
  <2>2. Init => CacheInformed /\ EndInformed /\ RebuildFirst /\ \A w \in Workers : Informed(w)
    BY DEF Init, CacheInformed, Informed, EndInformed, RebuildFirst, Answered, Threads
  <2>3. QED
    BY <2>1, <2>2 DEF NewsInv
<1>2. NewsInv /\ OneAtATime /\ OneAtATime' /\ [Next]_vars => NewsInv'
  BY StepNews
<1>3. NewsInv => CacheKnowsAnswer
  BY DEF NewsInv, CacheInformed, CacheKnowsAnswer, Quiet, Threads
<1>4. QED
  BY <1>1, <1>2, <1>3, PTL DEF Spec

\* The condition is met by an engine with one worker (hep.udp_workers = 1).
COROLLARY OneWorkerKeepsUp ==
    ASSUME ~Failures, NEW w, Workers = {w}
    PROVE  Spec => []CacheKnowsAnswer
<1>1. OneAtATime
  BY DEF OneAtATime
<1>2. QED
  BY <1>1, CacheKeepsUp, PTL

-----------------------------------------------------------------------------
(* Who is at work at the end of a call.  What the history calls amid is    *)
(* complete: while nothing is recorded a worker that ends the call is the  *)
(* only thread busy with it, and so is the monitor.                        *)

MonitorLabels == {"idle", "check", "clean", "read", "timeoutBlank", "timeoutEnd",
                  "timeoutRow", "timeoutUncache"}

\* Where a worker ends the call, up to the document.
EndLabels == {"stop", "remove", "uncache", "end"}

Undisturbed == "amid" \notin strays

\* The threads keep to their own programs.
ProgramsInv ==
    /\ pc[Monitor] \in MonitorLabels
    /\ \A w \in Workers : pc[w] = "idle" \/ pc[w] \notin MonitorLabels

\* The monitor ends the call alone.
MonitorAlone ==
    \A w \in Workers : pc[w] # "idle" /\ pc[Monitor] # "idle" => ~Undisturbed

\* A worker ends the call alone.
EnderAlone ==
    \A w \in Workers : pc[w] \in EndLabels /\ Undisturbed =>
        rebuild = "no" /\ \A v \in Workers \ {w} : pc[v] = "idle"

AloneInv ==
    /\ TypeInv
    /\ RebuildFirst
    /\ ProgramsInv
    /\ MonitorAlone
    /\ EnderAlone

\* The history only grows.
LEMMA StraysGrow ==
    ASSUME [Next]_vars
    PROVE  strays \subseteq strays'
<1>1. ASSUME NEW w \in Workers, Handles(w)
      PROVE  strays \subseteq strays'
  BY <1>1
  DEF Handles, Receive, Operation, ReadRedis, FillCache, UpdateSession, Invite,
      InviteRow, SDP, SDPCache, Refresh, Guard, StopListener, RemoveSession, Uncache,
      End, EndRow, PublishError, Stash, StashCache, ShortenSession, Reread, Answer,
      AnswerCache, AnswerRow, history, ArrivesAmid, EndsAmid, Late
<1>2. CASE MonitorStep
  BY <1>2
  DEF MonitorStep, SessionExpires, KeepActive, SessionTimeout, StreamExpires,
      RemoveSession, CopyForTimeout, ReadForTimeout, TimeoutBlank, TimeoutEnd,
      TimeoutRow, TimeoutUncache, history, EndsAmid
<1>3. CASE Environment \/ StreamActive
  BY <1>3
  DEF Environment, StreamActive, EmptyTrash, StreamIdles, StreamLoads, CacheExpires,
      TombstoneGoes, Restart, RebuildReads, RebuildKeeps, RebuildDrops, history
<1>4. CASE UNCHANGED vars
  BY <1>4 DEF vars, history
<1>5. QED
  BY <1>1, <1>2, <1>3, <1>4 DEF Next, Arrival, Handles

\* A step of a worker is its own.
LEMMA OwnControl ==
    ASSUME TypeInv, NEW w \in Workers, Handles(w)
    PROVE  \A t \in Threads \ {w} : pc'[t] = pc[t] /\ got'[t] = got[t] /\ msg'[t] = msg[t]
<1>w. w \in Threads
  BY DEF Threads
<1>1. \E l : pc' = [pc EXCEPT ![w] = l]
  BY DEF Handles, Receive, Operation, ReadRedis, FillCache, UpdateSession, Invite,
         InviteRow, SDP, SDPCache, AfterSDP, Refresh, Guard, StopListener,
         RemoveSession, Uncache, End, EndRow, PublishError, Stash, StashCache,
         ShortenSession, Reread, Answer, AnswerCache, AnswerRow, Goto, GotoWith, Done
<1>2. got' = got \/ \E d : got' = [got EXCEPT ![w] = d]
  BY DEF Handles, Receive, Operation, ReadRedis, FillCache, UpdateSession, Invite,
         InviteRow, SDP, SDPCache, AfterSDP, Refresh, Guard, StopListener,
         RemoveSession, Uncache, End, EndRow, PublishError, Stash, StashCache,
         ShortenSession, Reread, Answer, AnswerCache, AnswerRow, Goto, GotoWith, Done
<1>3. msg' = msg \/ \E m : msg' = [msg EXCEPT ![w] = m]
  BY DEF Handles, Receive, Operation, ReadRedis, FillCache, UpdateSession, Invite,
         InviteRow, SDP, SDPCache, AfterSDP, Refresh, Guard, StopListener,
         RemoveSession, Uncache, End, EndRow, PublishError, Stash, StashCache,
         ShortenSession, Reread, Answer, AnswerCache, AnswerRow, Goto, GotoWith, Done
<1>4. QED
  BY <1>w, <1>1, <1>2, <1>3 DEF TypeInv, LocalsInv

\* Where a step of a worker leads.
LEMMA WorkerControl ==
    ASSUME AloneInv, NEW w \in Workers, Operation(w)
    PROVE  /\ pc[w] # "idle"
           /\ pc'[w] = "idle" \/ pc'[w] \notin MonitorLabels
           /\ pc'[w] \in EndLabels => pc[w] \in EndLabels \/ Guard(w)
<1>w. /\ w \in Threads /\ pc \in [Threads -> Labels]
      /\ pc[w] = "idle" \/ pc[w] \notin MonitorLabels
  BY DEF AloneInv, TypeInv, LocalsInv, Threads, ProgramsInv
<1>1. CASE UpdateSession(w)
  <2>1. msg[w] \in Messages
    BY <1>1 DEF AloneInv, TypeInv, LocalsInv, HasMessage, UpdateSession
  <2>2. Handler(w) \in {"guard", "sdp", "invite", "shorten", "stash", "reread", "answer",
                        "error", "idle"}
    BY <2>1 DEF Messages, Handler, Terminates, IsInvite
  <2>3. pc'[w] \in {Handler(w), "idle"} /\ pc[w] = "session"
    BY <1>1, <1>w DEF UpdateSession, Goto, Done
  <2>4. QED
    BY <2>2, <2>3 DEF MonitorLabels, EndLabels
<1>2. CASE ~UpdateSession(w)
  BY <1>w, <1>2
  DEF Operation, ReadRedis, FillCache, Invite, InviteRow, SDP, SDPCache, AfterSDP,
      Refresh, Guard, StopListener, RemoveSession, Uncache, End, EndRow, PublishError,
      Stash, StashCache, ShortenSession, Reread, Answer, AnswerCache, AnswerRow, Goto,
      GotoWith, Done, MonitorLabels, EndLabels
<1>3. QED
  BY <1>1, <1>2

LEMMA WorkerAlone ==
    ASSUME AloneInv, TypeInv', strays \subseteq strays', NEW w \in Workers, Handles(w)
    PROVE  AloneInv'
<1>w. /\ Workers \subseteq Threads /\ Monitor \in Threads \ {w} /\ pc[Monitor] \in MonitorLabels
      /\ \A t \in Threads \ {w} : pc'[t] = pc[t]
      /\ rebuild' = rebuild
  BY MonitorAssumption, OwnControl, MonitorStays DEF Threads, AloneInv, ProgramsInv
<1>1. ASSUME NEW m \in Kinds, Receive(w, m) PROVE AloneInv'
  <2>1. pc[w] = "idle" /\ pc'[w] \in {"redis", "session"}
    BY <1>1 DEF Receive, AloneInv, TypeInv, LocalsInv, Threads
  <2>2. Ending # {} => ~Undisturbed'
    BY <1>1 DEF Receive, ArrivesAmid, Undisturbed
  <2>3. pc[Monitor] # "idle" => ~Undisturbed'
    <3>1. pc[Monitor] # "idle" => Monitor \in Ending
      BY <1>w DEF Ending, MonitorLabels
    <3>2. QED
      BY <2>2, <3>1
  <2>4. \A v \in Workers : pc[v] \in EndLabels => ~Undisturbed'
    <3>1. \A v \in Workers : pc[v] \in EndLabels => v \in Ending
      BY <1>w DEF Ending, EndLabels
    <3>2. QED
      BY <2>2, <3>1
  <2>5. ProgramsInv' /\ RebuildFirst'
    BY <1>w, <2>1 DEF AloneInv, ProgramsInv, RebuildFirst, MonitorLabels
  <2>6. MonitorAlone'
    BY <1>w, <2>3 DEF MonitorAlone
  <2>7. EnderAlone'
    BY <1>w, <2>1, <2>4 DEF EnderAlone, EndLabels
  <2>8. QED
    BY <2>5, <2>6, <2>7 DEF AloneInv
<1>2. CASE Operation(w)
  <2>1. /\ pc[w] # "idle"
        /\ pc'[w] = "idle" \/ pc'[w] \notin MonitorLabels
        /\ pc'[w] \in EndLabels => pc[w] \in EndLabels \/ Guard(w)
    BY <1>2, WorkerControl
  <2>2. ProgramsInv' /\ RebuildFirst'
    BY <1>w, <2>1 DEF AloneInv, ProgramsInv, RebuildFirst
  <2>3. MonitorAlone'
    BY <1>w, <2>1 DEF AloneInv, MonitorAlone, Undisturbed
  <2>4. ASSUME NEW v \in Workers, pc'[v] \in EndLabels, Undisturbed'
        PROVE  rebuild' = "no" /\ \A u \in Workers \ {v} : pc'[u] = "idle"
    <3>1. Undisturbed
      BY <2>4 DEF Undisturbed
    <3>2. CASE v # w
      <4>1. pc[v] \in EndLabels
        BY <2>4, <3>2, <1>w
      <4>2. pc[w] = "idle"
        BY <3>1, <3>2, <4>1 DEF AloneInv, EnderAlone
      <4>3. QED
        BY <2>1, <4>2
    <3>3. CASE v = w /\ pc[w] \in EndLabels
      BY <3>1, <3>3, <1>w DEF AloneInv, EnderAlone
    <3>4. CASE v = w /\ Guard(w)
      <4>1. EndsAmid(w)
        <5>1. pc'[w] # "idle"
          BY <2>4, <3>4 DEF EndLabels
        <5>2. w \in Threads /\ pc \in [Threads -> Labels]
          BY <1>w DEF AloneInv, TypeInv, LocalsInv
        <5>3. QED
          BY <3>4, <5>1, <5>2 DEF Guard, Done
      <4>2. rebuild = "no" /\ \A u \in Workers \ {w} : pc[u] = "idle"
        BY <2>4, <4>1 DEF EndsAmid, Undisturbed
      <4>3. QED
        BY <3>4, <4>2, <1>w
    <3>5. QED
      BY <2>1, <2>4, <3>2, <3>3, <3>4
  <2>5. QED
    BY <2>2, <2>3, <2>4 DEF AloneInv, EnderAlone
<1>3. QED
  BY <1>1, <1>2 DEF Handles

\* A step of the monitor is its own, and it only begins where nothing is
\* recorded if the workers are idle.
LEMMA MonitorControl ==
    ASSUME AloneInv, MonitorStep
    PROVE  /\ \A w \in Workers : pc'[w] = pc[w] /\ got'[w] = got[w] /\ msg'[w] = msg[w]
           /\ pc'[Monitor] \in MonitorLabels
           /\ rebuild' = rebuild
           /\ \/ pc[Monitor] # "idle"
              \/ pc'[Monitor] = "idle"
              \/ rebuild = "no" /\ EndsAmid(Monitor)
<1>w. /\ Monitor \in Threads /\ Workers \subseteq Threads /\ Monitor \notin Workers
      /\ pc \in [Threads -> Labels] /\ pc[Monitor] \in MonitorLabels
      /\ got \in [Threads -> Docs \union {NoDoc}] /\ DOMAIN msg = Threads
  BY MonitorAssumption DEF Threads, AloneInv, TypeInv, LocalsInv, ProgramsInv
<1>1. \A w \in Workers : pc'[w] = pc[w] /\ got'[w] = got[w] /\ msg'[w] = msg[w]
  BY <1>w
  DEF MonitorStep, SessionExpires, KeepActive, SessionTimeout, StreamExpires,
      RemoveSession, CopyForTimeout, ReadForTimeout, TimeoutBlank, TimeoutEnd,
      TimeoutRow, TimeoutUncache, Goto, GotoWith, Done, locals
<1>2. pc'[Monitor] \in MonitorLabels
  BY <1>w
  DEF MonitorStep, SessionExpires, KeepActive, SessionTimeout, StreamExpires,
      RemoveSession, CopyForTimeout, ReadForTimeout, TimeoutBlank, TimeoutEnd,
      TimeoutRow, TimeoutUncache, Goto, GotoWith, Done, locals, MonitorLabels
<1>3. rebuild' = rebuild
  BY DEF MonitorStep, SessionExpires, KeepActive, SessionTimeout, StreamExpires,
         RemoveSession, CopyForTimeout, ReadForTimeout, TimeoutBlank, TimeoutEnd,
         TimeoutRow, TimeoutUncache
<1>4. \/ pc[Monitor] # "idle"
      \/ pc'[Monitor] = "idle"
      \/ rebuild = "no" /\ EndsAmid(Monitor)
  BY <1>w
  DEF MonitorStep, SessionExpires, KeepActive, SessionTimeout, StreamExpires,
      RemoveSession, CopyForTimeout, ReadForTimeout, TimeoutBlank, TimeoutEnd,
      TimeoutRow, TimeoutUncache, Goto, GotoWith, Done, locals, MonitorIdle
<1>5. QED
  BY <1>1, <1>2, <1>3, <1>4

LEMMA StepAlone ==
    ASSUME AloneInv, [Next]_vars
    PROVE  AloneInv'
<1>t. TypeInv' /\ strays \subseteq strays'
  BY StepTyped, StraysGrow DEF AloneInv
<1>1. ASSUME NEW w \in Workers, Handles(w)
      PROVE  AloneInv'
  BY <1>1, <1>t, WorkerAlone
<1>2. CASE MonitorStep
  <2>1. /\ \A w \in Workers : pc'[w] = pc[w]
        /\ pc'[Monitor] \in MonitorLabels
        /\ rebuild' = rebuild
        /\ \/ pc[Monitor] # "idle"
           \/ pc'[Monitor] = "idle"
           \/ rebuild = "no" /\ EndsAmid(Monitor)
    BY <1>2, MonitorControl
  <2>2. ProgramsInv' /\ EnderAlone'
    BY <1>t, <2>1 DEF AloneInv, ProgramsInv, EnderAlone, Undisturbed
  <2>3. RebuildFirst'
    BY <2>1 DEF AloneInv, RebuildFirst
  <2>4. MonitorAlone'
    <3>1. CASE pc[Monitor] # "idle" \/ pc'[Monitor] = "idle"
      BY <3>1, <1>t, <2>1 DEF AloneInv, MonitorAlone, Undisturbed
    <3>2. CASE EndsAmid(Monitor)
      <4>1. ASSUME NEW w \in Workers, pc'[w] # "idle" PROVE ~Undisturbed'
        BY <3>2, <4>1, <2>1, MonitorAssumption DEF EndsAmid, Undisturbed
      <4>2. QED
        BY <4>1 DEF MonitorAlone
    <3>3. QED
      BY <2>1, <3>1, <3>2
  <2>5. QED
    BY <1>t, <2>2, <2>3, <2>4 DEF AloneInv
<1>3. CASE Environment \/ StreamActive
  <2>1. CASE Restart
    <3>1. \A t \in Workers \union {Monitor} : pc'[t] = "idle"
      BY <2>1 DEF Restart, Threads
    <3>2. QED
      BY <3>1, <1>t
      DEF AloneInv, ProgramsInv, RebuildFirst, MonitorAlone, EnderAlone, MonitorLabels,
          EndLabels
  <2>2. CASE ~Restart
    <3>1. pc' = pc /\ strays' = strays /\ (rebuild' # "no" => rebuild # "no")
      BY <1>3, <2>2
      DEF Environment, StreamActive, EmptyTrash, StreamIdles, StreamLoads,
          CacheExpires, TombstoneGoes, RebuildReads, RebuildKeeps, RebuildDrops,
          locals, history
    <3>2. rebuild' \in {"no", "start", "loaded"}
      BY <1>t DEF TypeInv, MemoryInv
    <3>3. QED
      BY <3>1, <3>2, <1>t
      DEF AloneInv, ProgramsInv, RebuildFirst, MonitorAlone, EnderAlone, Undisturbed
  <2>3. QED
    BY <2>1, <2>2
<1>4. CASE UNCHANGED vars
  <2>1. UNCHANGED <<pc, strays, rebuild>>
    BY <1>4 DEF vars, locals, history
  <2>2. QED
    BY <2>1, <1>t
    DEF AloneInv, ProgramsInv, RebuildFirst, MonitorAlone, EnderAlone, Undisturbed
<1>5. QED
  BY <1>1, <1>2, <1>3, <1>4 DEF Next, Arrival, Handles

LEMMA InitAlone == Init => AloneInv
<1>1. Init => TypeInv
  BY InitTyped
<1>2. Init => RebuildFirst /\ ProgramsInv /\ MonitorAlone /\ EnderAlone
  BY DEF Init, RebuildFirst, ProgramsInv, MonitorAlone, EnderAlone, Threads,
         MonitorLabels, EndLabels
<1>3. QED
  BY <1>1, <1>2 DEF AloneInv

-----------------------------------------------------------------------------
(* Hold and resume.  A handler writes the document back as a changed clone *)
(* of what localCache had, so that the document must not have moved on.    *)

\* An INVITE that arrives while RebuildFromRedis runs finds localCache filled
\* with a document that the rebuild may delete.
RebuildAlone == rebuild # "no" => \A w \in Workers : pc[w] = "idle"

\* A document that says it is answered has an answer_time.
Proper(d) == d # NoDoc /\ d.status = "answered" => d.answered

ProperInv ==
    /\ TypeInv
    /\ Proper(doc)
    /\ Proper(cache)
    /\ \A w \in Workers : Proper(got[w])

LEMMA CopiesProper ==
    /\ Proper(NoDoc)
    /\ \A d \in Docs : Proper(d) => /\ \A h \in BOOLEAN : Proper([d EXCEPT !.held = h])
                                    /\ Proper([d EXCEPT !.challenged = TRUE])
    /\ \A d \in Docs : /\ Proper([d EXCEPT !.status = "completed"])
                       /\ Proper([d EXCEPT !.status = "answered", !.answered = TRUE])
<1>1. Proper(NoDoc)
  BY DEF Proper
<1>2. ASSUME NEW d \in Docs, Proper(d), NEW h \in BOOLEAN
      PROVE  Proper([d EXCEPT !.held = h])
  BY <1>2, NoDocAssumption DEF Proper, Docs
<1>3. ASSUME NEW d \in Docs, Proper(d)
      PROVE  Proper([d EXCEPT !.challenged = TRUE])
  BY <1>3, NoDocAssumption DEF Proper, Docs
<1>4. ASSUME NEW d \in Docs
      PROVE  /\ Proper([d EXCEPT !.status = "completed"])
             /\ Proper([d EXCEPT !.status = "answered", !.answered = TRUE])
  BY DEF Proper, Docs
<1>5. QED
  BY <1>1, <1>2, <1>3, <1>4

\* What a worker has in hand, and writes, is what it read or a changed clone.
LEMMA HandlesProper ==
    ASSUME ProperInv, TypeInv', NEW w \in Workers, Handles(w)
    PROVE  ProperInv'
<1>w. /\ w \in Threads /\ Workers \subseteq Threads
      /\ pc \in [Threads -> Labels] /\ got \in [Threads -> Docs \union {NoDoc}]
      /\ got[w] \in Docs \union {NoDoc} /\ Proper(got[w])
      /\ pc[w] \in Reading => got[w] # NoDoc
  BY DEF ProperInv, TypeInv, LocalsInv, HasDocument, Threads
<1>1. ASSUME Proper(doc'), cache' \in {cache, got[w], NoDoc},
             got'[w] \in {got[w], doc, doc', cache, NoDoc}
      PROVE  ProperInv'
  <2>1. \A v \in Workers \ {w} : got'[v] = got[v]
    BY <1>w, OwnControl DEF ProperInv
  <2>2. Proper(cache') /\ Proper(got'[w])
    BY <1>1, <1>w, CopiesProper DEF ProperInv
  <2>3. \A v \in Workers : Proper(got'[v])
    BY <2>1, <2>2 DEF ProperInv
  <2>4. QED
    BY <1>1, <2>2, <2>3 DEF ProperInv, Proper
<1>2. CASE SDP(w)
  <2>1. CASE AfterSDP(w) /\ UNCHANGED <<redis, history>>
    BY <1>1, <1>2, <2>1, <1>w DEF SDP, AfterSDP, Goto, Done, redis, ProperInv
  <2>2. ASSUME NEW hold \in BOOLEAN,
               SetCallState([got[w] EXCEPT !.held = hold]),
               GotoWith(w, "sdpCache", [got[w] EXCEPT !.held = hold])
        PROVE  ProperInv'
    <3>1. got[w] \in Docs
      BY <1>2, <1>w DEF SDP, Reading
    <3>2. doc' = [got[w] EXCEPT !.held = hold] /\ got'[w] = doc' /\ cache' = cache
      BY <1>2, <2>2, <1>w DEF SDP, SetCallState, GotoWith
    <3>3. QED
      BY <1>1, <1>w, <3>1, <3>2, CopiesProper
  <2>3. QED
    BY <1>2, <2>1, <2>2 DEF SDP
<1>3. CASE Stash(w)
  <2>1. got[w] \in Docs
    BY <1>3, <1>w DEF Stash, Reading
  <2>2. doc' = [got[w] EXCEPT !.challenged = TRUE] /\ got'[w] = doc' /\ cache' = cache
    BY <1>3, <1>w DEF Stash, SetCallState, GotoWith
  <2>3. QED
    BY <1>1, <1>w, <2>1, <2>2, CopiesProper
<1>4. CASE End(w)
  <2>1. got'[w] = got[w] /\ cache' = cache
    BY <1>4, <1>w DEF End, Goto
  <2>2. \/ doc' = doc
        \/ got[w] \in Docs /\ doc' = [got[w] EXCEPT !.status = "completed"]
    BY <1>4, <1>w DEF End, EndCallBatch, redis
  <2>3. QED
    BY <1>1, <2>1, <2>2, CopiesProper DEF ProperInv
<1>5. CASE Answer(w)
  <2> DEFINE d == IF got[w] = NoDoc
                  THEN [status |-> "answered", answered |-> TRUE,
                        challenged |-> FALSE, held |-> FALSE]
                  ELSE [got[w] EXCEPT !.status = "answered", !.answered = TRUE]
  <2>1. doc' = d /\ got'[w] = doc' /\ cache' = cache
    BY <1>5, <1>w DEF Answer, SetCallState, GotoWith
  <2>2. d.answered
    BY <1>w DEF Docs
  <2>3. QED
    BY <1>1, <2>1, <2>2 DEF Proper
<1>6. CASE Invite(w)
  <2>1. doc'.status = "active" /\ got'[w] = got[w] /\ cache' = cache
    BY <1>6, <1>w DEF Invite, SetCallState, Goto
  <2>2. QED
    BY <1>1, <2>1 DEF Proper
<1>7. CASE ~(SDP(w) \/ Stash(w) \/ End(w) \/ Answer(w) \/ Invite(w))
  <2>1. doc' = doc /\ cache' \in {cache, got[w], NoDoc}
    BY <1>7
    DEF Handles, Receive, Operation, ReadRedis, FillCache, UpdateSession, InviteRow,
        SDPCache, Refresh, Guard, StopListener, RemoveSession, Uncache, EndRow,
        PublishError, StashCache, ShortenSession, Reread, AnswerCache, AnswerRow, redis
  <2>2. got'[w] \in {got[w], doc, cache, NoDoc}
    BY <1>7, <1>w
    DEF Handles, Receive, Operation, ReadRedis, FillCache, UpdateSession, InviteRow,
        SDPCache, AfterSDP, Refresh, Guard, StopListener, RemoveSession, Uncache,
        EndRow, PublishError, StashCache, ShortenSession, Reread, AnswerCache,
        AnswerRow, Goto, GotoWith, Done
  <2>3. QED
    BY <1>1, <2>1, <2>2 DEF ProperInv
<1>8. QED
  BY <1>2, <1>3, <1>4, <1>5, <1>6, <1>7

LEMMA StepProper ==
    ASSUME ProperInv, [Next]_vars
    PROVE  ProperInv'
<1>t. TypeInv'
  BY StepTyped DEF ProperInv
<1>1. ASSUME NEW w \in Workers, Handles(w)
      PROVE  ProperInv'
  BY <1>1, <1>t, HandlesProper
<1>2. CASE MonitorStep
  <2>w. /\ got \in [Threads -> Docs \union {NoDoc}] /\ pc \in [Threads -> Labels]
        /\ Monitor \in Threads /\ got[Monitor] \in Docs \union {NoDoc}
    BY DEF ProperInv, TypeInv, LocalsInv, Threads
  <2>1. \A w \in Workers : got'[w] = got[w]
    BY <1>2, <2>w, MonitorAssumption
    DEF MonitorStep, SessionExpires, KeepActive, SessionTimeout, StreamExpires,
        RemoveSession, CopyForTimeout, ReadForTimeout, TimeoutBlank, TimeoutEnd,
        TimeoutRow, TimeoutUncache, Goto, GotoWith, Done, locals, Threads
  <2>2. cache' \in {cache, NoDoc}
    BY <1>2
    DEF MonitorStep, SessionExpires, KeepActive, SessionTimeout, StreamExpires,
        RemoveSession, CopyForTimeout, ReadForTimeout, TimeoutBlank, TimeoutEnd,
        TimeoutRow, TimeoutUncache
  <2>3. Proper(doc')
    <3>1. CASE TimeoutBlank \/ TimeoutEnd
      <4>1. \/ doc' = doc
            \/ \E d \in Docs : doc' = [d EXCEPT !.status = "completed"]
        BY <3>1, <2>w DEF TimeoutBlank, TimeoutEnd, EndCallBatch, Blank, Docs, redis
      <4>2. QED
        BY <4>1, CopiesProper DEF ProperInv
    <3>2. CASE ~(TimeoutBlank \/ TimeoutEnd)
      BY <1>2, <3>2
      DEF ProperInv, MonitorStep, SessionExpires, KeepActive, SessionTimeout,
          StreamExpires, RemoveSession, CopyForTimeout, ReadForTimeout, TimeoutRow,
          TimeoutUncache, redis
    <3>3. QED
      BY <3>1, <3>2
  <2>4. QED
    BY <1>t, <2>1, <2>2, <2>3, CopiesProper DEF ProperInv, Proper
<1>3. CASE Environment \/ StreamActive
  <2>1. /\ doc' \in {doc, NoDoc} /\ cache' \in {cache, NoDoc}
        /\ got' = got \/ got' = [t \in Threads |-> NoDoc]
    BY <1>3
    DEF Environment, StreamActive, EmptyTrash, StreamIdles, StreamLoads, CacheExpires,
        TombstoneGoes, Restart, RebuildReads, RebuildKeeps, RebuildDrops, redis, locals
  <2>2. \A w \in Workers : got'[w] \in {got[w], NoDoc}
    BY <2>1 DEF Threads
  <2>3. QED
    BY <1>t, <2>1, <2>2, CopiesProper DEF ProperInv, Proper
<1>4. CASE UNCHANGED vars
  BY <1>4, <1>t DEF vars, redis, locals, ProperInv, Proper
<1>5. QED
  BY <1>1, <1>2, <1>3, <1>4 DEF Next, Arrival, Handles

\* Where a worker has the document that localCache had, or none.
InHand == {"session", "invite", "sdp", "stash", "guard", "reread", "error"}

\* Where a worker has the document that Redis has, just read or just written.
Current == {"fill", "sdpCache", "stashCache", "answerCache"}

SaidHold(w) == got[w].held = (msg[w] = "hold")

\* In an undisturbed call localCache has the answered document as Redis has
\* it, but for the moment between two writes.
CacheCurrent ==
    Undisturbed /\ cache # NoDoc /\ cache.status = "answered" =>
        \/ doc = cache
        \/ pc[Monitor] \in {"timeoutRow", "timeoutUncache"}
        \/ \E w \in Workers : pc[w] \in {"sdpCache", "stashCache", "answerCache"}

WorkerCurrent(w) ==
    Undisturbed =>
        /\ pc[w] = "redis" => cache = NoDoc /\ got[w] = NoDoc
        /\ pc[w] \in InHand => cache = got[w]
        /\ pc[w] = "invite" => ~Answered(got[w])
        /\ pc[w] = "end" => cache = NoDoc
        /\ pc[w] \in Current => doc = got[w]
        /\ pc[w] = "sdpCache" /\ IsInvite(w) => SaidHold(w)
        /\ pc[w] = "refresh" => got[w] # NoDoc
        /\ pc[w] = "refresh" /\ got[w].status = "answered" =>
               doc = got[w] /\ SaidHold(w)

RebuildBlank == rebuild # "no" => cache = NoDoc

HoldInv ==
    /\ AloneInv
    /\ ProperInv
    /\ RebuildBlank
    /\ CacheCurrent
    /\ \A w \in Workers : WorkerCurrent(w)

\* What is left to show of a step of a worker.
LEMMA HoldKept ==
    ASSUME HoldInv, AloneInv', ProperInv', OneAtATime, OneAtATime', RebuildAlone,
           RebuildAlone', strays \subseteq strays', NEW w \in Workers, Handles(w),
           Undisturbed' => CacheCurrent' /\ WorkerCurrent(w)'
    PROVE  HoldInv'
<1>1. \A v \in Workers \ {w} : pc'[v] = "idle"
  BY OthersIdle DEF HoldInv, AloneInv
<1>2. \A v \in Workers \ {w} : WorkerCurrent(v)'
  BY <1>1 DEF WorkerCurrent, InHand, Current
<1>3. RebuildBlank'
  <2>1. rebuild' = rebuild
    BY MonitorStays DEF HoldInv, AloneInv
  <2>2. CASE pc[w] = "idle"
    <3>1. cache' = cache
      BY <2>2 DEF Handles, Receive, Operation, ReadRedis, FillCache, UpdateSession,
         Invite, InviteRow, SDP, SDPCache, Refresh, Guard, StopListener, RemoveSession,
         Uncache, End, EndRow, PublishError, Stash, StashCache, ShortenSession, Reread,
         Answer, AnswerCache, AnswerRow
    <3>2. QED
      BY <2>1, <3>1 DEF HoldInv, RebuildBlank
  <2>3. CASE pc[w] # "idle"
    BY <2>1, <2>3 DEF RebuildAlone, RebuildBlank
  <2>4. QED
    BY <2>2, <2>3
<1>4. CacheCurrent'
  BY DEF CacheCurrent, Undisturbed
<1>5. WorkerCurrent(w)'
  BY DEF WorkerCurrent, Undisturbed
<1>6. QED
  BY <1>2, <1>3, <1>4, <1>5 DEF HoldInv

\* What is known where w works undisturbed.
LEMMA HoldHere ==
    ASSUME HoldInv, AloneInv', OneAtATime, OneAtATime', strays \subseteq strays',
           NEW w \in Workers, Handles(w), Undisturbed'
    PROVE  /\ Undisturbed
           /\ cache # NoDoc /\ cache.status = "answered"
              /\ pc[w] \notin {"sdpCache", "stashCache", "answerCache"} => doc = cache
<1>1. Undisturbed
  BY DEF Undisturbed
<1>2. \A v \in Workers \ {w} : pc[v] = "idle"
  BY OthersIdle DEF HoldInv, AloneInv
<1>3. pc[Monitor] = "idle"
  <2>1. CASE pc[w] # "idle"
    BY <1>1, <2>1 DEF HoldInv, AloneInv, MonitorAlone
  <2>2. CASE pc[w] = "idle"
    <3>1. ~Operation(w)
      BY <2>2, WorkerControl DEF HoldInv
    <3>2. pc'[w] # "idle"
      BY <3>1 DEF Handles, Receive, HoldInv, AloneInv, TypeInv, LocalsInv, Threads
    <3>3. pc'[Monitor] = pc[Monitor]
      BY MonitorStays DEF HoldInv, AloneInv
    <3>4. QED
      BY <3>2, <3>3 DEF AloneInv, MonitorAlone, Undisturbed
  <2>3. QED
    BY <2>1, <2>2
<1>4. QED
  BY <1>1, <1>2, <1>3 DEF HoldInv, CacheCurrent

\* The message arrives, and is dispatched with the document that was read.
LEMMA ReceptionHold ==
    ASSUME HoldInv, AloneInv', ProperInv', OneAtATime, OneAtATime', RebuildAlone,
           RebuildAlone', strays \subseteq strays', NEW w \in Workers,
           (\E m \in Kinds : Receive(w, m)) \/ ReadRedis(w) \/ FillCache(w) \/ UpdateSession(w)
    PROVE  HoldInv'
<1>w. /\ w \in Threads /\ Handles(w)
      /\ pc \in [Threads -> Labels] /\ got \in [Threads -> Docs \union {NoDoc}]
      /\ pc'[w] \in Labels
  BY DEF HoldInv, AloneInv, TypeInv, LocalsInv, Threads, Handles, Operation
<1>d. doc' = doc
  BY DEF Receive, ReadRedis, FillCache, UpdateSession, redis
<1>k. SUFFICES ASSUME Undisturbed'
               PROVE  CacheCurrent' /\ WorkerCurrent(w)'
  BY <1>w, HoldKept
<1>h. /\ Undisturbed
      /\ cache # NoDoc /\ cache.status = "answered"
         /\ pc[w] \notin {"sdpCache", "stashCache", "answerCache"} => doc = cache
  BY <1>w, <1>k, HoldHere
<1>i. WorkerCurrent(w)
  BY DEF HoldInv
<1>1. ASSUME NEW m \in Kinds, Receive(w, m) PROVE CacheCurrent' /\ WorkerCurrent(w)'
  <2>1. pc[w] = "idle" /\ cache' = cache /\ got'[w] = cache
        /\ pc'[w] = IF cache = NoDoc THEN "redis" ELSE "session"
    BY <1>1, <1>w DEF Receive
  <2>2. QED
    BY <2>1, <1>d, <1>h DEF CacheCurrent, WorkerCurrent, InHand, Current
<1>2. CASE ReadRedis(w)
  <2>1. /\ pc[w] = "redis" /\ cache' = cache
        /\ \/ got'[w] = doc /\ pc'[w] = IF doc = NoDoc THEN "session" ELSE "fill"
           \/ got'[w] = got[w] /\ pc'[w] = "session"
    BY <1>2, <1>w DEF ReadRedis, GotoWith, Goto
  <2>2. QED
    BY <2>1, <1>d, <1>h, <1>i DEF CacheCurrent, WorkerCurrent, InHand, Current
<1>3. CASE FillCache(w)
  <2>1. pc[w] = "fill" /\ cache' = got[w] /\ got'[w] = got[w] /\ pc'[w] = "session"
    BY <1>3, <1>w DEF FillCache, Goto
  <2>2. QED
    BY <2>1, <1>d, <1>h, <1>i DEF CacheCurrent, WorkerCurrent, InHand, Current
<1>4. CASE UpdateSession(w)
  <2>1. pc[w] = "session" /\ cache' = cache
    BY <1>4 DEF UpdateSession
  <2>2. \/ pc'[w] = "idle"
        \/ got'[w] = got[w] /\ pc'[w] = Handler(w) /\ Handler(w) # "idle"
    BY <1>4, <1>w DEF UpdateSession, Goto, Done
  <2>3. msg[w] \in Messages
    BY <2>1 DEF HoldInv, AloneInv, TypeInv, LocalsInv, HasMessage
  <2>4. /\ Handler(w) \in {"guard", "sdp", "invite", "shorten", "stash", "reread",
                           "answer", "error", "idle"}
        /\ Handler(w) = "invite" => ~Answered(got[w])
    BY <2>3 DEF Messages, Handler, Terminates, IsInvite
  <2>5. CacheCurrent'
    BY <2>1, <1>d, <1>h DEF CacheCurrent
  <2>6. WorkerCurrent(w)'
    BY <2>1, <2>2, <2>4, <1>d, <1>h, <1>i DEF WorkerCurrent, InHand, Current, Answered
  <2>7. QED
    BY <2>5, <2>6
<1>5. QED
  BY <1>1, <1>2, <1>3, <1>4

\* The steps that change neither the document nor localCache, or only remove
\* the entry, and lead on where nothing is asked of the document.
LEMMA PlainHold ==
    ASSUME HoldInv, AloneInv', ProperInv', OneAtATime, OneAtATime', RebuildAlone,
           RebuildAlone', strays \subseteq strays', NEW w \in Workers,
           ControlOnly(w) \/ Uncache(w) \/ Reread(w)
    PROVE  HoldInv'
<1>w. /\ w \in Threads /\ Handles(w)
      /\ pc \in [Threads -> Labels] /\ got \in [Threads -> Docs \union {NoDoc}]
  BY DEF HoldInv, AloneInv, TypeInv, LocalsInv, Threads, Handles, Operation, ControlOnly
<1>k. SUFFICES ASSUME Undisturbed'
               PROVE  CacheCurrent' /\ WorkerCurrent(w)'
  BY <1>w, HoldKept
<1>h. /\ Undisturbed
      /\ cache # NoDoc /\ cache.status = "answered"
         /\ pc[w] \notin {"sdpCache", "stashCache", "answerCache"} => doc = cache
  BY <1>w, <1>k, HoldHere
<1>1. /\ doc' = doc
      /\ cache' = cache \/ (cache' = NoDoc /\ pc'[w] = "end")
  BY <1>w
  DEF ControlOnly, InviteRow, Refresh, Guard, StopListener, RemoveSession, EndRow,
      PublishError, ShortenSession, AnswerRow, Uncache, Reread, redis, Goto
<1>2. /\ pc[w] \notin {"sdpCache", "stashCache", "answerCache"}
      /\ pc'[w] \in {"idle", "stop", "remove", "uncache", "read", "end", "answer"}
      /\ pc'[w] = "end" => cache' = NoDoc
  BY <1>w
  DEF ControlOnly, InviteRow, Refresh, Guard, StopListener, RemoveSession, EndRow,
      PublishError, ShortenSession, AnswerRow, Uncache, Reread, Goto, GotoWith, Done
<1>3. CacheCurrent'
  BY <1>1, <1>2, <1>h DEF CacheCurrent
<1>4. WorkerCurrent(w)'
  BY <1>1, <1>2 DEF WorkerCurrent, InHand, Current
<1>5. QED
  BY <1>3, <1>4

\* The steps that write the document: the one in hand changed, or a new one.
LEMMA WriteHold ==
    ASSUME HoldInv, AloneInv', ProperInv', OneAtATime, OneAtATime', RebuildAlone,
           RebuildAlone', strays \subseteq strays', NEW w \in Workers,
           Invite(w) \/ End(w) \/ Stash(w) \/ Answer(w)
    PROVE  HoldInv'
<1>w. /\ w \in Threads /\ Handles(w)
      /\ pc \in [Threads -> Labels] /\ got \in [Threads -> Docs \union {NoDoc}]
  BY DEF HoldInv, AloneInv, TypeInv, LocalsInv, Threads, Handles, Operation
<1>k. SUFFICES ASSUME Undisturbed'
               PROVE  CacheCurrent' /\ WorkerCurrent(w)'
  BY <1>w, HoldKept
<1>h. Undisturbed
  BY <1>w, <1>k, HoldHere
<1>i. WorkerCurrent(w)
  BY DEF HoldInv
<1>1. cache' = cache
  BY DEF Invite, End, Stash, Answer
<1>2. CASE Invite(w)
  <2>1. pc[w] = "invite" /\ pc'[w] = "inviteRow"
    BY <1>2, <1>w DEF Invite, Goto
  <2>2. cache # NoDoc => cache.status # "answered"
    BY <2>1, <1>h, <1>i DEF WorkerCurrent, InHand, Answered, HoldInv, ProperInv, Proper
  <2>3. QED
    BY <1>1, <2>1, <2>2 DEF CacheCurrent, WorkerCurrent, InHand, Current
<1>3. CASE End(w)
  <2>1. pc[w] = "end" /\ pc'[w] = "endRow"
    BY <1>3, <1>w DEF End, Goto
  <2>2. cache = NoDoc
    BY <2>1, <1>h, <1>i DEF WorkerCurrent
  <2>3. QED
    BY <1>1, <2>1, <2>2 DEF CacheCurrent, WorkerCurrent, InHand, Current
<1>4. CASE Stash(w) \/ Answer(w)
  <2>1. doc' = got'[w] /\ pc'[w] \in {"stashCache", "answerCache"}
    BY <1>4, <1>w DEF Stash, Answer, SetCallState, GotoWith
  <2>2. QED
    BY <2>1 DEF CacheCurrent, WorkerCurrent, InHand, Current
<1>5. QED
  BY <1>2, <1>3, <1>4

\* A hold, a resume, or neither.
LEMMA SDPHold ==
    ASSUME HoldInv, AloneInv', ProperInv', OneAtATime, OneAtATime', RebuildAlone,
           RebuildAlone', strays \subseteq strays', NEW w \in Workers, SDP(w)
    PROVE  HoldInv'
<1>w. /\ w \in Threads /\ Handles(w)
      /\ pc \in [Threads -> Labels] /\ got \in [Threads -> Docs \union {NoDoc}]
      /\ pc[w] = "sdp" /\ got[w] # NoDoc /\ got[w] \in Docs
  BY DEF HoldInv, AloneInv, TypeInv, LocalsInv, HasDocument, Reading, Threads, Handles,
         Operation, SDP
<1>k. SUFFICES ASSUME Undisturbed'
               PROVE  CacheCurrent' /\ WorkerCurrent(w)'
  BY <1>w, HoldKept
<1>h. Undisturbed /\ (cache # NoDoc /\ cache.status = "answered" => doc = cache)
  BY <1>w, <1>k, HoldHere
<1>i. cache = got[w]
  BY <1>w, <1>h DEF HoldInv, WorkerCurrent, InHand
<1>1. cache' = cache
  BY DEF SDP
<1>2. CASE /\ msg[w] = "answer" \/ got[w].held = (msg[w] = "hold")
           /\ AfterSDP(w) /\ UNCHANGED <<redis, history>>
  <2>1. /\ doc' = doc
        /\ \/ pc'[w] = "idle"
           \/ pc'[w] = "refresh" /\ got'[w] = got[w] /\ msg'[w] = msg[w] /\ IsInvite(w)
    BY <1>2, <1>w DEF AfterSDP, Goto, Done, redis
  <2>2. IsInvite(w) => SaidHold(w)
    BY <1>2 DEF IsInvite, SaidHold
  <2>3. CacheCurrent'
    BY <1>1, <1>h, <2>1 DEF CacheCurrent
  <2>4. WorkerCurrent(w)'
    BY <1>w, <1>h, <1>i, <2>1, <2>2 DEF WorkerCurrent, SaidHold, InHand, Current
  <2>5. QED
    BY <2>3, <2>4
<1>3. ASSUME NEW hold \in BOOLEAN,
             hold => msg[w] # "invite", ~hold => msg[w] # "hold",
             SetCallState([got[w] EXCEPT !.held = hold]),
             GotoWith(w, "sdpCache", [got[w] EXCEPT !.held = hold])
      PROVE  CacheCurrent' /\ WorkerCurrent(w)'
  <2>1. /\ doc' = [got[w] EXCEPT !.held = hold]
        /\ got'[w] = doc' /\ pc'[w] = "sdpCache" /\ msg'[w] = msg[w]
    BY <1>3, <1>w DEF SetCallState, GotoWith
  <2>2. got'[w].held = hold
    BY <2>1, <1>w DEF Docs
  <2>3. IsInvite(w) => hold = (msg[w] = "hold")
    BY <1>3 DEF IsInvite
  <2>4. CacheCurrent'
    BY <2>1 DEF CacheCurrent
  <2>5. WorkerCurrent(w)'
    BY <2>1, <2>2, <2>3 DEF WorkerCurrent, IsInvite, SaidHold, InHand, Current
  <2>6. QED
    BY <2>4, <2>5
<1>4. QED
  BY <1>2, <1>3 DEF SDP

\* The steps that bring localCache up to date.
LEMMA CacheHold ==
    ASSUME HoldInv, AloneInv', ProperInv', OneAtATime, OneAtATime', RebuildAlone,
           RebuildAlone', strays \subseteq strays', NEW w \in Workers,
           SDPCache(w) \/ StashCache(w) \/ AnswerCache(w)
    PROVE  HoldInv'
<1>w. /\ w \in Threads /\ Handles(w)
      /\ pc \in [Threads -> Labels] /\ got \in [Threads -> Docs \union {NoDoc}]
      /\ got[w] # NoDoc
  BY DEF HoldInv, AloneInv, TypeInv, LocalsInv, HasDocument, Reading, Threads, Handles,
         Operation, SDPCache, StashCache, AnswerCache
<1>k. SUFFICES ASSUME Undisturbed'
               PROVE  CacheCurrent' /\ WorkerCurrent(w)'
  BY <1>w, HoldKept
<1>h. Undisturbed
  BY <1>w, <1>k, HoldHere
<1>i. WorkerCurrent(w)
  BY DEF HoldInv
<1>1. /\ doc' = doc /\ cache' = got[w]
      /\ pc[w] \in {"sdpCache", "stashCache", "answerCache"}
      /\ \/ pc'[w] \in {"idle", "shorten", "answerRow"}
         \/ /\ pc'[w] = "refresh" /\ got'[w] = got[w] /\ msg'[w] = msg[w]
            /\ pc[w] = "sdpCache" /\ IsInvite(w)
  BY <1>w DEF SDPCache, StashCache, AnswerCache, AfterSDP, Goto, Done, redis
<1>2. doc = got[w]
  BY <1>1, <1>h, <1>i DEF WorkerCurrent, Current
<1>3. CacheCurrent'
  BY <1>1, <1>2 DEF CacheCurrent
<1>4. WorkerCurrent(w)'
  BY <1>w, <1>h, <1>i, <1>1, <1>2 DEF WorkerCurrent, SaidHold, InHand, Current
<1>5. QED
  BY <1>3, <1>4

\* The timeout monitor, which is alone in an undisturbed call.
LEMMA MonitorHold ==
    ASSUME HoldInv, AloneInv', ProperInv', strays \subseteq strays', MonitorStep
    PROVE  HoldInv'
<1>c. /\ \A w \in Workers : pc'[w] = pc[w] /\ got'[w] = got[w] /\ msg'[w] = msg[w]
      /\ rebuild' = rebuild
  BY MonitorControl DEF HoldInv
<1>w. Monitor \in Threads /\ pc \in [Threads -> Labels] /\ pc[Monitor] \in MonitorLabels
  BY DEF Threads, HoldInv, AloneInv, TypeInv, LocalsInv, ProgramsInv
<1>1. cache' \in {cache, NoDoc}
  BY DEF MonitorStep, SessionExpires, KeepActive, SessionTimeout, StreamExpires,
         RemoveSession, CopyForTimeout, ReadForTimeout, TimeoutBlank, TimeoutEnd,
         TimeoutRow, TimeoutUncache
<1>2. \/ cache' = NoDoc
      \/ pc'[Monitor] \in {"timeoutRow", "timeoutUncache"}
      \/ /\ doc' = doc /\ cache' = cache
         /\ pc[Monitor] \notin {"timeoutRow", "timeoutUncache"}
  BY <1>w
  DEF MonitorStep, SessionExpires, KeepActive, SessionTimeout, StreamExpires,
      RemoveSession, CopyForTimeout, ReadForTimeout, TimeoutBlank, TimeoutEnd,
      TimeoutRow, TimeoutUncache, Goto, MonitorIdle, redis
<1>3. RebuildBlank'
  BY <1>c, <1>1 DEF HoldInv, RebuildBlank
<1>4. CacheCurrent'
  BY <1>c, <1>2 DEF HoldInv, CacheCurrent, Undisturbed
<1>5. ASSUME NEW w \in Workers PROVE WorkerCurrent(w)'
  <2>1. CASE pc[w] = "idle"
    BY <1>c, <2>1 DEF WorkerCurrent, InHand, Current
  <2>2. CASE ~Undisturbed'
    BY <2>2 DEF WorkerCurrent, Undisturbed
  <2>3. CASE pc[w] # "idle" /\ Undisturbed'
    <3>1. pc'[Monitor] = "idle" /\ pc[Monitor] = "idle"
      BY <1>c, <2>3 DEF HoldInv, AloneInv, MonitorAlone, Undisturbed
    <3>2. doc' = doc /\ cache' = cache
      BY <3>1, <1>w
      DEF MonitorStep, SessionExpires, KeepActive, SessionTimeout, StreamExpires,
          RemoveSession, CopyForTimeout, ReadForTimeout, TimeoutBlank, TimeoutEnd,
          TimeoutRow, TimeoutUncache, Goto, redis
    <3>3. WorkerCurrent(w) /\ Undisturbed
      BY <2>3 DEF HoldInv, Undisturbed
    <3>4. QED
      BY <1>c, <3>2, <3>3 DEF WorkerCurrent, SaidHold, IsInvite, Answered
  <2>4. QED
    BY <2>1, <2>2, <2>3
<1>6. QED
  BY <1>3, <1>4, <1>5 DEF HoldInv

\* The caches, a restart and the rebuild after it, which runs while the
\* workers are idle.
LEMMA EnvironmentHold ==
    ASSUME HoldInv, AloneInv', ProperInv', RebuildAlone, Environment \/ StreamActive
    PROVE  HoldInv'
<1>1. CASE Restart
  <2>1. cache' = NoDoc /\ \A w \in Workers : pc'[w] = "idle"
    BY <1>1 DEF Restart, Threads
  <2>2. QED
    BY <2>1 DEF HoldInv, RebuildBlank, CacheCurrent, WorkerCurrent, InHand, Current
<1>2. CASE CacheExpires \/ RebuildDrops
  <2>1. cache' = NoDoc /\ \A w \in Workers : pc'[w] = "idle"
    BY <1>2
    DEF CacheExpires, RebuildDrops, Quiet, Threads, HoldInv, RebuildBlank, RebuildAlone,
        locals
  <2>2. QED
    BY <2>1 DEF HoldInv, RebuildBlank, CacheCurrent, WorkerCurrent, InHand, Current
<1>3. CASE ~(Restart \/ CacheExpires \/ RebuildDrops)
  <2>1. /\ pc' = pc /\ got' = got /\ msg' = msg /\ doc' = doc /\ cache' = cache
        /\ strays' = strays /\ (rebuild' # "no" => rebuild # "no")
    BY <1>3
    DEF Environment, StreamActive, EmptyTrash, StreamIdles, StreamLoads, TombstoneGoes,
        RebuildReads, RebuildKeeps, redis, locals, history
  <2>2. RebuildBlank' /\ CacheCurrent'
    BY <2>1 DEF HoldInv, RebuildBlank, CacheCurrent, Undisturbed
  <2>3. ASSUME NEW w \in Workers PROVE WorkerCurrent(w)'
    BY <2>1 DEF HoldInv, WorkerCurrent, Undisturbed, SaidHold, IsInvite, Answered
  <2>4. QED
    BY <2>2, <2>3 DEF HoldInv
<1>4. QED
  BY <1>1, <1>2, <1>3

LEMMA StepHold ==
    ASSUME HoldInv, OneAtATime, OneAtATime', RebuildAlone, RebuildAlone', [Next]_vars
    PROVE  HoldInv'
<1>t. AloneInv' /\ ProperInv' /\ strays \subseteq strays'
  BY StepAlone, StepProper, StraysGrow DEF HoldInv
<1>1. ASSUME NEW w \in Workers, Handles(w)
      PROVE  HoldInv'
  <2>1. \/ (\E m \in Kinds : Receive(w, m)) \/ ReadRedis(w) \/ FillCache(w) \/ UpdateSession(w)
        \/ ControlOnly(w) \/ Uncache(w) \/ Reread(w)
        \/ Invite(w) \/ End(w) \/ Stash(w) \/ Answer(w) \/ SDP(w)
        \/ SDPCache(w) \/ StashCache(w) \/ AnswerCache(w)
    BY <1>1 DEF Handles, Operation, ControlOnly
  <2>2. QED
    BY <1>t, <2>1, ReceptionHold, PlainHold, WriteHold, SDPHold, CacheHold
<1>2. CASE UNCHANGED vars
  <2>1. UNCHANGED <<doc, cache, pc, got, msg, rebuild, strays>>
    BY <1>2 DEF vars, redis, locals, history
  <2>2. RebuildBlank' /\ CacheCurrent'
    BY <2>1 DEF HoldInv, RebuildBlank, CacheCurrent, Undisturbed
  <2>3. ASSUME NEW w \in Workers PROVE WorkerCurrent(w)'
    BY <2>1 DEF HoldInv, WorkerCurrent, Undisturbed, SaidHold, IsInvite, Answered
  <2>4. QED
    BY <1>t, <2>2, <2>3 DEF HoldInv
<1>3. QED
  BY <1>1, <1>2, <1>t, MonitorHold, EnvironmentHold DEF Next, Arrival, Handles

\* A re-INVITE leaves the document saying what the message said of the hold,
\* through failed reads, timeouts, restarts and entries of localCache that
\* expire, for any number of workers that handle the messages of the call one
\* at a time and not during RebuildFromRedis
\* (src/ie/internal/hep/handlers.go 551-627).
\* Without the first condition the clone of one handler undoes the hold of
\* another; without the second localCache keeps a document that the rebuild
\* has deleted, and a re-INVITE that agrees with it writes none.
THEOREM HoldIsKept == Spec /\ []OneAtATime /\ []RebuildAlone => []HoldAsLastSaid
<1>1. Init => HoldInv
  <2>1. Init => AloneInv
    BY InitAlone
  <2>2. Init => ProperInv
    BY InitTyped DEF Init, ProperInv, Proper, Threads
  <2>3. Init => RebuildBlank /\ CacheCurrent /\ \A w \in Workers : WorkerCurrent(w)
    BY DEF Init, RebuildBlank, CacheCurrent, WorkerCurrent, InHand, Current, Threads
  <2>4. QED
    BY <2>1, <2>2, <2>3 DEF HoldInv
<1>2. /\ HoldInv /\ OneAtATime /\ OneAtATime' /\ RebuildAlone /\ RebuildAlone'
      /\ [Next]_vars
      => HoldInv'
  BY StepHold
<1>3. HoldInv => HoldAsLastSaid
  <2>1. SUFFICES ASSUME HoldInv, NEW w \in Workers, pc[w] = "refresh",
                        got[w].status = "answered", "amid" \notin strays
                 PROVE  doc # NoDoc /\ doc.held = (msg[w] = "hold")
    BY DEF HoldAsLastSaid
  <2>2. QED
    BY <2>1 DEF HoldInv, WorkerCurrent, Undisturbed, SaidHold
<1>4. QED
  BY <1>1, <1>2, <1>3, PTL DEF Spec

-----------------------------------------------------------------------------
(* After the end.  An answered call that was hung up is gone from Redis,   *)
(* from localCache and from what any thread has in hand, so that whatever  *)
(* is written back leaves it ended.                                        *)

Clean == strays \intersect {"amid", "unended"} = {}

Gone(d) == d # NoDoc /\ d.status = "completed" /\ d.answered

\* Where a thread has in hand what it may write back, or goes on with.
Holding == {"fill", "session", "sdp", "sdpCache", "refresh", "guard", "stop", "remove",
            "uncache", "end", "stash", "stashCache", "shorten", "error", "timeoutEnd"}

\* Where a thread takes the call for one that has yet to be answered.
Renewing == {"invite", "reread", "answer", "answerCache", "timeoutBlank"}

GoneFor(t) == (pc[t] \in Holding => Gone(got[t])) /\ pc[t] \notin Renewing

Over ==
    /\ Gone(doc) /\ ~active
    /\ cache = NoDoc \/ Gone(cache)
    /\ rebuild # "loaded"
    /\ \A t \in Threads : GoneFor(t)

\* The final row of an answered call is written, or about to be.
Ended ==
    \/ row.says = "hangup" /\ row.answered
    \/ \E w \in Workers : pc[w] = "endRow" /\ Answered(got[w])

OverInv ==
    /\ AloneInv
    /\ loaded = NoDoc
    /\ \A w \in Workers : Clean /\ pc[w] = "end" => cache = NoDoc
    /\ Clean /\ Ended => Over

LEMMA CopiesGone ==
    \A d \in Docs :
        /\ Gone(d) => /\ \A h \in BOOLEAN : Gone([d EXCEPT !.held = h])
                      /\ Gone([d EXCEPT !.challenged = TRUE])
        /\ d.answered => Gone([d EXCEPT !.status = "completed"])
<1>1. ASSUME NEW d \in Docs, Gone(d), NEW h \in BOOLEAN
      PROVE  Gone([d EXCEPT !.held = h])
  <2>1. [d EXCEPT !.held = h] \in Docs
    BY DEF Docs
  <2>2. QED
    BY <1>1, <2>1, NoDocAssumption DEF Gone, Docs
<1>2. ASSUME NEW d \in Docs, Gone(d)
      PROVE  Gone([d EXCEPT !.challenged = TRUE])
  <2>1. [d EXCEPT !.challenged = TRUE] \in Docs
    BY DEF Docs
  <2>2. QED
    BY <1>2, <2>1, NoDocAssumption DEF Gone, Docs
<1>3. ASSUME NEW d \in Docs, d.answered
      PROVE  Gone([d EXCEPT !.status = "completed"])
  <2>1. [d EXCEPT !.status = "completed"] \in Docs
    BY DEF Docs
  <2>2. QED
    BY <1>3, <2>1, NoDocAssumption DEF Gone, Docs
<1>4. QED
  BY <1>1, <1>2, <1>3

\* What a worker writes of a call that is over leaves it over.
LEMMA HandlesOver ==
    ASSUME TypeInv, TypeInv', ~Failures, Over, NEW w \in Workers, Handles(w)
    PROVE  Over'
<1>w. /\ w \in Threads /\ GoneFor(w)
      /\ pc \in [Threads -> Labels] /\ got \in [Threads -> Docs \union {NoDoc}]
      /\ pc[w] \in Reading => got[w] # NoDoc
      /\ rebuild' = rebuild
      /\ \A t \in Threads \ {w} : pc'[t] = pc[t] /\ got'[t] = got[t]
  BY OwnControl, MonitorStays DEF TypeInv, LocalsInv, HasDocument, Threads, Over
<1>s. ASSUME Gone(doc'), ~active', cache' = NoDoc \/ Gone(cache'), GoneFor(w)'
      PROVE  Over'
  <2>1. \A t \in Threads : GoneFor(t)'
    BY <1>s, <1>w DEF Over, GoneFor, Gone
  <2>2. QED
    BY <1>s, <1>w, <2>1 DEF Over, Gone
<1>1. ASSUME NEW m \in Kinds, Receive(w, m) PROVE Over'
  <2>1. doc' = doc /\ active' = active /\ cache' = cache /\ got'[w] = cache
        /\ pc'[w] = IF cache = NoDoc THEN "redis" ELSE "session"
    BY <1>1, <1>w DEF Receive, redis
  <2>2. QED
    BY <1>s, <2>1 DEF Over, GoneFor, Gone, Holding, Renewing
<1>2. CASE ReadRedis(w)
  <2>1. doc' = doc /\ active' = active /\ cache' = cache /\ got'[w] = doc
        /\ pc'[w] = IF doc = NoDoc THEN "session" ELSE "fill"
    BY <1>2, <1>w DEF ReadRedis, GotoWith, redis
  <2>2. QED
    BY <1>s, <2>1 DEF Over, GoneFor, Gone, Holding, Renewing
<1>3. CASE UpdateSession(w)
  <2>1. doc' = doc /\ active' = active /\ cache' = cache /\ pc[w] = "session"
    BY <1>3 DEF UpdateSession, redis
  <2>2. \/ pc'[w] = "idle"
        \/ got'[w] = got[w] /\ pc'[w] = Handler(w) /\ Handler(w) # "idle"
    BY <1>3, <1>w DEF UpdateSession, Goto, Done
  <2>3. Gone(got[w]) /\ Answered(got[w])
    BY <2>1, <1>w DEF GoneFor, Holding, Gone, Answered
  <2>4. msg[w] \in Messages
    BY <2>1 DEF TypeInv, LocalsInv, HasMessage
  <2>5. Handler(w) \in {"guard", "sdp", "stash", "error", "idle"}
    BY <2>3, <2>4 DEF Messages, Handler, Terminates, IsInvite, Gone
  <2>6. GoneFor(w)'
    BY <2>2, <2>3, <2>5 DEF GoneFor, Gone, Holding, Renewing
  <2>7. QED
    BY <1>s, <2>1, <2>6 DEF Over, Gone
<1>4. CASE SDP(w) \/ Stash(w) \/ End(w)
  <2>1. Gone(got[w]) /\ got[w] \in Docs /\ cache' = cache
    BY <1>4, <1>w DEF SDP, Stash, End, GoneFor, Holding, Gone
  <2>2. ASSUME doc' = doc, active' = active,
               pc'[w] = "idle" \/ (pc'[w] = "refresh" /\ got'[w] = got[w])
        PROVE  Over'
    <3>1. GoneFor(w)'
      BY <2>1, <2>2 DEF GoneFor, Gone, Holding, Renewing
    <3>2. QED
      BY <1>s, <2>1, <2>2, <3>1 DEF Over, Gone
  <2>3. ASSUME NEW d \in Docs, Gone(d), doc' = d, active' = FALSE,
               got'[w] \in {d, got[w]}, pc'[w] \in {"sdpCache", "stashCache", "endRow"}
        PROVE  Over'
    BY <1>s, <2>1, <2>3 DEF Over, GoneFor, Gone, Holding, Renewing
  <2>4. CASE SDP(w)
    <3>1. CASE AfterSDP(w) /\ UNCHANGED <<redis, history>>
      <4>1. doc' = doc /\ active' = active
        BY <3>1 DEF redis
      <4>2. pc'[w] = "idle" \/ (pc'[w] = "refresh" /\ got'[w] = got[w])
        BY <3>1, <1>w DEF AfterSDP, Goto, Done
      <4>3. QED
        BY <2>2, <4>1, <4>2
    <3>2. ASSUME NEW hold \in BOOLEAN,
                 SetCallState([got[w] EXCEPT !.held = hold]),
                 GotoWith(w, "sdpCache", [got[w] EXCEPT !.held = hold])
          PROVE  Over'
      <4> DEFINE d == [got[w] EXCEPT !.held = hold]
      <4>1. d \in Docs /\ d.status = "completed"
        BY <2>1 DEF Docs, Gone
      <4>2. Gone(d)
        BY <2>1, CopiesGone
      <4>3. doc' = d /\ got'[w] = d /\ pc'[w] = "sdpCache" /\ active' = FALSE
        BY <3>2, <4>1, <1>w DEF SetCallState, GotoWith, Over
      <4>4. QED
        BY <2>3, <4>1, <4>2, <4>3
    <3>3. QED
      BY <2>4, <3>1, <3>2 DEF SDP
  <2>5. CASE Stash(w)
    <3> DEFINE d == [got[w] EXCEPT !.challenged = TRUE]
    <3>1. d \in Docs /\ d.status = "completed"
      BY <2>1 DEF Docs, Gone
    <3>2. Gone(d)
      BY <2>1, CopiesGone
    <3>3. doc' = d /\ got'[w] = d /\ pc'[w] = "stashCache" /\ active' = FALSE
      BY <2>5, <3>1, <1>w DEF Stash, SetCallState, GotoWith, Over
    <3>4. QED
      BY <2>3, <3>1, <3>2, <3>3
  <2>6. CASE End(w)
    <3> DEFINE d == [got[w] EXCEPT !.status = "completed"]
    <3>1. d \in Docs
      BY <2>1 DEF Docs
    <3>2. Gone(d)
      BY <2>1, CopiesGone DEF Gone
    <3>3. doc' = d /\ got'[w] = got[w] /\ pc'[w] = "endRow" /\ active' = FALSE
      BY <2>6, <2>1, <1>w DEF End, EndCallBatch, Goto, Gone
    <3>4. QED
      BY <2>3, <3>1, <3>2, <3>3
  <2>7. QED
    BY <1>4, <2>4, <2>5, <2>6
<1>5. CASE \/ FillCache(w) \/ SDPCache(w) \/ StashCache(w) \/ Uncache(w)
  <2>1. /\ doc' = doc /\ active' = active /\ Gone(got[w]) /\ cache' \in {got[w], NoDoc}
        /\ \/ pc'[w] = "idle"
           \/ got'[w] = got[w] /\ pc'[w] \notin Renewing
    BY <1>5, <1>w
    DEF FillCache, SDPCache, StashCache, Uncache, AfterSDP, Goto, Done, redis, GoneFor,
        Holding, Renewing
  <2>2. QED
    BY <1>s, <2>1 DEF Over, GoneFor, Gone, Holding, Renewing
<1>6. CASE \/ InviteRow(w) \/ Refresh(w) \/ EndRow(w) \/ PublishError(w)
           \/ ShortenSession(w) \/ AnswerRow(w)
  <2>1. doc' = doc /\ active' = active /\ cache' = cache /\ pc'[w] = "idle"
    BY <1>6, <1>w
    DEF InviteRow, Refresh, EndRow, PublishError, ShortenSession, AnswerRow, Done, redis
  <2>2. QED
    BY <1>s, <2>1 DEF Over, GoneFor, Gone, Holding, Renewing
<1>7. CASE Guard(w) \/ StopListener(w) \/ RemoveSession(w)
  <2>1. /\ doc' = doc /\ active' = active /\ cache' = cache
        /\ \/ pc'[w] \in {"idle", "read"}
           \/ got'[w] = got[w] /\ pc'[w] \in {"stop", "remove", "uncache"} /\ Gone(got[w])
    BY <1>7, <1>w
    DEF Guard, StopListener, RemoveSession, Goto, Done, redis, GoneFor, Holding
  <2>2. QED
    BY <1>s, <2>1 DEF Over, GoneFor, Gone, Holding, Renewing
<1>8. ~(Invite(w) \/ Reread(w) \/ Answer(w) \/ AnswerCache(w))
  BY <1>w DEF GoneFor, Renewing, Invite, Reread, Answer, AnswerCache
<1>9. QED
  BY <1>1, <1>2, <1>3, <1>4, <1>5, <1>6, <1>7, <1>8 DEF Handles, Operation

\* A second end, by the timeout, writes the document back as it is.
LEMMA MonitorOver ==
    ASSUME TypeInv, TypeInv', ~Failures, loaded = NoDoc, Over, MonitorStep
    PROVE  Over'
<1>w. /\ Monitor \in Threads /\ GoneFor(Monitor)
      /\ pc \in [Threads -> Labels] /\ got \in [Threads -> Docs \union {NoDoc}]
      /\ pc[Monitor] \in Reading => got[Monitor] # NoDoc
  BY DEF TypeInv, LocalsInv, HasDocument, Threads, Over
<1>1. /\ rebuild' = rebuild /\ cache' \in {cache, NoDoc}
      /\ \A t \in Threads \ {Monitor} : pc'[t] = pc[t] /\ got'[t] = got[t]
  <2>1. rebuild' = rebuild /\ cache' \in {cache, NoDoc}
    BY DEF MonitorStep, SessionExpires, KeepActive, SessionTimeout, StreamExpires,
           RemoveSession, CopyForTimeout, ReadForTimeout, TimeoutBlank, TimeoutEnd,
           TimeoutRow, TimeoutUncache
  <2>2. pc' = pc \/ \E l : pc' = [pc EXCEPT ![Monitor] = l]
    BY DEF MonitorStep, SessionExpires, KeepActive, SessionTimeout, StreamExpires,
           RemoveSession, CopyForTimeout, ReadForTimeout, TimeoutBlank, TimeoutEnd,
           TimeoutRow, TimeoutUncache, Goto, GotoWith, Done, locals
  <2>3. got' = got \/ \E d : got' = [got EXCEPT ![Monitor] = d]
    BY DEF MonitorStep, SessionExpires, KeepActive, SessionTimeout, StreamExpires,
           RemoveSession, CopyForTimeout, ReadForTimeout, TimeoutBlank, TimeoutEnd,
           TimeoutRow, TimeoutUncache, Goto, GotoWith, Done, locals
  <2>4. QED
    BY <1>w, <2>1, <2>2, <2>3
<1>2. Gone(doc') /\ ~active'
  <2>1. CASE TimeoutEnd
    <3>1. Gone(got[Monitor]) /\ got[Monitor] \in Docs
      BY <2>1, <1>w DEF TimeoutEnd, GoneFor, Holding, Gone
    <3>2. doc' = [got[Monitor] EXCEPT !.status = "completed"] /\ active' = FALSE
      BY <2>1, <3>1 DEF TimeoutEnd, EndCallBatch, Gone
    <3>3. QED
      BY <3>1, <3>2, CopiesGone DEF Gone
  <2>2. CASE ~TimeoutEnd
    <3>1. ~TimeoutBlank
      BY <1>w DEF TimeoutBlank, GoneFor, Renewing
    <3>2. doc' = doc /\ active' = active
      BY <2>2, <3>1
      DEF MonitorStep, SessionExpires, KeepActive, SessionTimeout, StreamExpires,
          RemoveSession, CopyForTimeout, ReadForTimeout, TimeoutRow, TimeoutUncache,
          redis
    <3>3. QED
      BY <3>2 DEF Over, Gone
  <2>3. QED
    BY <2>1, <2>2
<1>3. GoneFor(Monitor)'
  <2>1. CASE pc' = pc /\ got' = got
    BY <2>1, <1>w DEF GoneFor, Gone
  <2>2. CASE ~(pc' = pc /\ got' = got)
    <3>1. \/ pc'[Monitor] = "timeoutEnd" /\ got'[Monitor] = doc
          \/ pc'[Monitor] \in {"idle", "check", "clean", "read", "timeoutRow", "timeoutUncache"}
          \/ pc[Monitor] = "remove" /\ pc'[Monitor] = "uncache" /\ got'[Monitor] = got[Monitor]
      BY <2>2, <1>w
      DEF MonitorStep, SessionExpires, KeepActive, SessionTimeout, StreamExpires,
          RemoveSession, CopyForTimeout, ReadForTimeout, TimeoutBlank, TimeoutEnd,
          TimeoutRow, TimeoutUncache, Goto, GotoWith, Done, locals
    <3>2. QED
      BY <3>1, <1>w DEF Over, GoneFor, Gone, Holding, Renewing
  <2>3. QED
    BY <2>1, <2>2
<1>4. cache' = NoDoc \/ Gone(cache')
  BY <1>1 DEF Over, Gone
<1>5. \A t \in Threads : GoneFor(t)'
  BY <1>1, <1>3 DEF Over, GoneFor, Gone
<1>6. QED
  BY <1>1, <1>2, <1>4, <1>5 DEF Over, Gone

LEMMA EnvironmentOver ==
    ASSUME TypeInv, TypeInv', ~Loads, Over, Environment \/ StreamActive
    PROVE  Over'
<1>1. ~StreamLoads /\ ~RebuildKeeps /\ ~RebuildDrops
  BY DEF StreamLoads, RebuildKeeps, RebuildDrops, Over
<1>2. doc' = doc /\ active' = active /\ cache' \in {cache, NoDoc}
  BY <1>1
  DEF Environment, StreamActive, EmptyTrash, StreamIdles, CacheExpires, TombstoneGoes,
      Restart, RebuildReads, redis
<1>3. rebuild' # "loaded"
  BY <1>1
  DEF Environment, StreamActive, EmptyTrash, StreamIdles, CacheExpires, TombstoneGoes,
      Restart, RebuildReads, Over
<1>4. \A t \in Threads : pc'[t] = "idle" \/ (pc'[t] = pc[t] /\ got'[t] = got[t])
  BY <1>1
  DEF Environment, StreamActive, EmptyTrash, StreamIdles, CacheExpires, TombstoneGoes,
      Restart, RebuildReads, locals
<1>5. \A t \in Threads : GoneFor(t)'
  BY <1>4 DEF Over, GoneFor, Gone, Holding, Renewing
<1>6. QED
  BY <1>2, <1>3, <1>5 DEF Over, Gone

\* Only the end of an answered call begins it.
LEMMA EndedBegins ==
    ASSUME TypeInv, TypeInv', [Next]_vars, Ended'
    PROVE  Ended \/ \E w \in Workers : End(w) /\ Answered(got[w])
<1>w. /\ Workers \subseteq Threads /\ Monitor \notin Workers
      /\ pc \in [Threads -> Labels] /\ got \in [Threads -> Docs \union {NoDoc}]
  BY MonitorAssumption DEF TypeInv, LocalsInv, Threads
<1>r. ASSUME NEW s \in DOMAIN Version \ {"hangup"}, NEW b, WriteRow(s, b)
      PROVE  row' = row \/ row'.says # "hangup"
  BY <1>r DEF WriteRow
<1>1. ASSUME NEW w \in Workers, Handles(w)
      PROVE  Ended \/ \E v \in Workers : End(v) /\ Answered(got[v])
  <2>1. \A t \in Threads \ {w} : pc'[t] = pc[t] /\ got'[t] = got[t]
    BY <1>1, OwnControl
  <2>2. pc'[w] = "endRow" => End(w) /\ got'[w] = got[w]
    <3>1. CASE UpdateSession(w)
      <4>1. msg[w] \in Messages
        BY <3>1 DEF TypeInv, LocalsInv, HasMessage, UpdateSession
      <4>2. Handler(w) # "endRow"
        BY <4>1 DEF Messages, Handler, Terminates, IsInvite
      <4>3. QED
        BY <3>1, <4>2, <1>w DEF UpdateSession, Goto, Done
    <3>2. CASE ~UpdateSession(w)
      BY <1>1, <1>w, <3>2
      DEF Handles, Receive, Operation, ReadRedis, FillCache, Invite, InviteRow, SDP,
          SDPCache, AfterSDP, Refresh, Guard, StopListener, RemoveSession, Uncache,
          End, EndRow, PublishError, Stash, StashCache, ShortenSession, Reread, Answer,
          AnswerCache, AnswerRow, Goto, GotoWith, Done
    <3>3. QED
      BY <3>1, <3>2
  <2>3. CASE \E v \in Workers : pc'[v] = "endRow" /\ Answered(got'[v])
    BY <2>1, <2>2, <2>3, <1>w DEF Ended
  <2>4. CASE row'.says = "hangup" /\ row'.answered
    <3>1. CASE EndRow(w)
      <4>1. pc[w] = "endRow" /\ WriteRow("hangup", Answered(got[w]))
        BY <3>1 DEF EndRow
      <4>2. CASE Answered(got[w])
        BY <4>1, <4>2 DEF Ended
      <4>3. CASE ~Answered(got[w])
        BY <2>4, <4>1, <4>3 DEF WriteRow, Ended
      <4>4. QED
        BY <4>2, <4>3
    <3>2. CASE InviteRow(w) \/ AnswerRow(w)
      <4>1. row' = row
        BY <2>4, <3>2, <1>r DEF InviteRow, AnswerRow, Version
      <4>2. QED
        BY <2>4, <4>1 DEF Ended
    <3>3. CASE ~WritesRow(w)
      <4>1. row' = row
        BY <1>1, <3>3, OtherOperations DEF Handles, Receive
      <4>2. QED
        BY <2>4, <4>1 DEF Ended
    <3>4. QED
      BY <3>1, <3>2, <3>3 DEF WritesRow
  <2>5. QED
    BY <2>3, <2>4 DEF Ended
<1>2. ASSUME row' = row \/ row'.says # "hangup",
             \A w \in Workers : pc'[w] = "idle" \/ (pc'[w] = pc[w] /\ got'[w] = got[w])
      PROVE  Ended
  BY <1>2 DEF Ended, Answered
<1>3. CASE MonitorStep
  <2>1. row' = row \/ row'.says # "hangup"
    <3>1. CASE TimeoutRow
      <4>1. PICK s \in {"challenged", "timeout"} : WriteRow(s, Answered(got[Monitor]))
        BY <3>1 DEF TimeoutRow
      <4>2. QED
        BY <4>1, <1>r DEF Version
    <3>2. QED
      BY <1>3, <3>1, OtherSteps
  <2>2. \A w \in Workers : pc'[w] = pc[w] /\ got'[w] = got[w]
    BY <1>3, <1>w
    DEF MonitorStep, SessionExpires, KeepActive, SessionTimeout, StreamExpires,
        RemoveSession, CopyForTimeout, ReadForTimeout, TimeoutBlank, TimeoutEnd,
        TimeoutRow, TimeoutUncache, Goto, GotoWith, Done, locals
  <2>3. QED
    BY <1>2, <2>1, <2>2
<1>4. CASE Environment \/ StreamActive
  <2>1. row' = row
    BY <1>4, OtherSteps DEF Arrival
  <2>2. \A w \in Workers : pc'[w] = "idle" \/ (pc'[w] = pc[w] /\ got'[w] = got[w])
    BY <1>4, <1>w
    DEF Environment, StreamActive, EmptyTrash, StreamIdles, StreamLoads, CacheExpires,
        TombstoneGoes, Restart, RebuildReads, RebuildKeeps, RebuildDrops, locals
  <2>3. QED
    BY <1>2, <2>1, <2>2
<1>5. CASE UNCHANGED vars
  BY <1>2, <1>5 DEF vars, locals
<1>6. QED
  BY <1>1, <1>3, <1>4, <1>5 DEF Next, Arrival, Handles

\* The end of an answered call, by a worker that is alone, leaves nothing of
\* it behind.
LEMMA OverBegins ==
    ASSUME OverInv, TypeInv', NEW w \in Workers, End(w), Answered(got[w]), Clean'
    PROVE  Over'
<1>w. /\ w \in Threads /\ Threads = Workers \union {Monitor}
      /\ pc \in [Threads -> Labels] /\ got \in [Threads -> Docs \union {NoDoc}]
      /\ pc[w] = "end" /\ got[w] # NoDoc /\ got[w] \in Docs
  BY DEF OverInv, AloneInv, TypeInv, LocalsInv, Threads, End, Answered
<1>1. strays' = strays /\ rebuild' = rebuild /\ cache' = cache
  BY <1>w DEF End, history
<1>2. Clean /\ Undisturbed
  BY <1>1 DEF Clean, Undisturbed
<1>3. cache = NoDoc
  BY <1>w, <1>2 DEF OverInv
<1>4. rebuild = "no" /\ \A t \in Threads \ {w} : pc[t] = "idle"
  BY <1>w, <1>2 DEF OverInv, AloneInv, EnderAlone, EndLabels, MonitorAlone
<1>5. doc' = [got[w] EXCEPT !.status = "completed"] /\ active' = FALSE
      /\ pc' = [pc EXCEPT ![w] = "endRow"]
  BY <1>w DEF End, EndCallBatch, Goto
<1>6. Gone(doc')
  BY <1>w, <1>5, CopiesGone DEF Answered
<1>7. \A t \in Threads : GoneFor(t)'
  BY <1>w, <1>4, <1>5 DEF GoneFor, Holding, Renewing
<1>8. QED
  BY <1>1, <1>3, <1>4, <1>5, <1>6, <1>7 DEF Over, Gone

\* Where the document is written as ended localCache has no entry: nobody
\* else is at work who could fill it.
LEMMA UncachedAtEnd ==
    ASSUME OverInv, AloneInv', [Next]_vars, strays \subseteq strays', Clean',
           NEW w \in Workers, pc'[w] = "end"
    PROVE  cache' = NoDoc
<1>w. /\ Workers \subseteq Threads /\ Monitor \notin Workers
      /\ pc \in [Threads -> Labels] /\ got \in [Threads -> Docs \union {NoDoc}]
  BY MonitorAssumption DEF OverInv, AloneInv, TypeInv, LocalsInv, Threads
<1>0. Clean /\ Undisturbed /\ Undisturbed' /\ TypeInv
  BY DEF Clean, Undisturbed, OverInv, AloneInv
<1>1. ASSUME NEW v \in Workers, Handles(v) PROVE cache' = NoDoc
  <2>1. CASE v = w
    <3>1. CASE UpdateSession(w)
      <4>1. msg[w] \in Messages
        BY <3>1, <1>0 DEF TypeInv, LocalsInv, HasMessage, UpdateSession
      <4>2. Handler(w) # "end"
        BY <4>1 DEF Messages, Handler, Terminates, IsInvite
      <4>3. QED
        BY <3>1, <4>2, <1>w DEF UpdateSession, Goto, Done
    <3>2. CASE ~UpdateSession(w)
      BY <1>1, <2>1, <3>2, <1>w
      DEF Handles, Receive, Operation, ReadRedis, FillCache, Invite, InviteRow, SDP,
          SDPCache, AfterSDP, Refresh, Guard, StopListener, RemoveSession, Uncache,
          End, EndRow, PublishError, Stash, StashCache, ShortenSession, Reread, Answer,
          AnswerCache, AnswerRow, Goto, GotoWith, Done
    <3>3. QED
      BY <3>1, <3>2
  <2>2. CASE v # w
    <3>1. pc[w] = "end"
      BY <1>0, <1>1, <1>w, <2>2, OwnControl
    <3>2. pc[v] = "idle" /\ pc'[v] = "idle"
      BY <1>0, <2>2, <3>1 DEF OverInv, AloneInv, EnderAlone, EndLabels
    <3>3. ~Operation(v)
      BY <3>2, WorkerControl DEF OverInv
    <3>4. \A m \in Kinds : ~Receive(v, m)
      BY <3>2, <1>w DEF Receive
    <3>5. QED
      BY <1>1, <3>3, <3>4 DEF Handles
  <2>3. QED
    BY <2>1, <2>2
<1>2. ASSUME cache' \in {cache, NoDoc}, pc[w] = "end"
      PROVE  cache' = NoDoc
  BY <1>0, <1>2 DEF OverInv
<1>3. CASE MonitorStep
  <2>1. cache' \in {cache, NoDoc}
    BY <1>3
    DEF MonitorStep, SessionExpires, KeepActive, SessionTimeout, StreamExpires,
        RemoveSession, CopyForTimeout, ReadForTimeout, TimeoutBlank, TimeoutEnd,
        TimeoutRow, TimeoutUncache
  <2>2. pc[w] = "end"
    BY <1>3, MonitorControl DEF OverInv
  <2>3. QED
    BY <1>2, <2>1, <2>2
<1>4. CASE Environment \/ StreamActive
  <2>1. cache' \in {cache, NoDoc} /\ (pc' = pc \/ pc' = [t \in Threads |-> "idle"])
    BY <1>4
    DEF Environment, StreamActive, EmptyTrash, StreamIdles, StreamLoads, CacheExpires,
        TombstoneGoes, Restart, RebuildReads, RebuildKeeps, RebuildDrops, locals
  <2>2. QED
    BY <1>2, <1>w, <2>1
<1>5. CASE UNCHANGED vars
  BY <1>2, <1>5 DEF vars, locals
<1>6. QED
  BY <1>1, <1>3, <1>4, <1>5 DEF Next, Arrival, Handles

LEMMA StepOver ==
    ASSUME OverInv, ~Failures, ~Loads, [Next]_vars
    PROVE  OverInv'
<1>t. AloneInv' /\ TypeInv /\ TypeInv' /\ strays \subseteq strays'
  BY StepAlone, StepTyped, StraysGrow DEF OverInv, AloneInv
<1>1. loaded' = NoDoc
  <2>1. ASSUME NEW w \in Workers, Handles(w) PROVE loaded' \in {loaded, NoDoc}
    BY <2>1
    DEF Handles, Receive, Operation, ReadRedis, FillCache, UpdateSession, Invite,
        InviteRow, SDP, SDPCache, Refresh, Guard, StopListener, RemoveSession, Uncache,
        End, EndRow, PublishError, Stash, StashCache, ShortenSession, Reread, Answer,
        AnswerCache, AnswerRow, streams
  <2>2. CASE MonitorStep
    BY <2>2
    DEF OverInv, MonitorStep, SessionExpires, KeepActive, SessionTimeout,
        StreamExpires, RemoveSession, CopyForTimeout, ReadForTimeout, TimeoutBlank,
        TimeoutEnd, TimeoutRow, TimeoutUncache, streams
  <2>3. CASE Environment \/ StreamActive
    BY <2>3
    DEF OverInv, Environment, StreamActive, EmptyTrash, StreamIdles, StreamLoads,
        CacheExpires, TombstoneGoes, Restart, RebuildReads, RebuildKeeps,
        RebuildDrops, streams
  <2>4. CASE UNCHANGED vars
    BY <2>4 DEF OverInv, vars, streams
  <2>5. QED
    BY <2>1, <2>2, <2>3, <2>4 DEF OverInv, Next, Arrival, Handles
<1>2. \A w \in Workers : Clean' /\ pc'[w] = "end" => cache' = NoDoc
  BY <1>t, UncachedAtEnd
<1>3. ASSUME Clean', Ended' PROVE Over'
  <2>1. Clean
    BY <1>t, <1>3 DEF Clean
  <2>2. CASE Ended
    <3>1. Over
      BY <2>1, <2>2 DEF OverInv
    <3>2. ASSUME NEW w \in Workers, Handles(w) PROVE Over'
      BY <1>t, <3>1, <3>2, HandlesOver
    <3>3. CASE MonitorStep
      BY <1>t, <3>1, <3>3, MonitorOver DEF OverInv
    <3>4. CASE Environment \/ StreamActive
      BY <1>t, <3>1, <3>4, EnvironmentOver
    <3>5. CASE UNCHANGED vars
      BY <3>1, <3>5 DEF vars, redis, locals, Over, Gone, GoneFor
    <3>6. QED
      BY <3>2, <3>3, <3>4, <3>5 DEF Next, Arrival, Handles
  <2>3. CASE ~Ended
    BY <1>t, <1>3, <2>3, EndedBegins, OverBegins
  <2>4. QED
    BY <2>2, <2>3
<1>4. QED
  BY <1>t, <1>1, <1>2, <1>3 DEF OverInv

\* An answered call that was hung up stays off the list of active calls, for
\* any number of workers and through restarts: what a repeated 200 OK, a late
\* re-INVITE, a challenge or a timeout writes back is the ended document
\* (src/ie/internal/hep/server.go 717-722,
\* src/ie/internal/callsession/manager.go 378-485).  Two conditions are
\* needed.  With a failed read a handler takes the call for a new one.  With
\* the copy that a stream keeps for ASR a timeout replaces the document by one
\* that has no answer, and a repeated 200 OK lists the call.
THEOREM EndIsFinal ==
    ASSUME ~Failures, ~Loads
    PROVE  Spec => []AnsweredCallStaysEnded
<1>1. Init => OverInv
  <2>1. Init => AloneInv
    BY InitAlone
  <2>2. Init => ~Ended /\ loaded = NoDoc /\ \A w \in Workers : pc[w] # "end"
    BY DEF Init, Ended, Threads
  <2>3. QED
    BY <2>1, <2>2 DEF OverInv
<1>2. OverInv /\ [Next]_vars => OverInv'
  BY StepOver
<1>3. OverInv => AnsweredCallStaysEnded
  BY DEF OverInv, AnsweredCallStaysEnded, Clean, Ended, Over
<1>4. QED
  BY <1>1, <1>2, <1>3, PTL DEF Spec
=============================================================================
