------------------------------ MODULE CallState ------------------------------
(***************************************************************************)
(* The state of one call and where it is kept: the Redis document          *)
(* call:state, the membership in the Redis set active_calls, the copy in   *)
(* localCache, and the row of the ClickHouse table sip_calls.  Written by  *)
(* the HEP workers, each handling one SIP message of the call at a time    *)
(* (src/ie/internal/hep/server.go and handlers.go), by the timeout monitor *)
(* (src/ie/internal/rtp/cleanup.go) and by the rebuild after a restart.    *)
(*                                                                         *)
(* Every access to Redis, to localCache, to the table and to the session   *)
(* manager is a step.  A handler reads the document first and writes back  *)
(* a changed clone of what it read several steps later.                    *)
(*                                                                         *)
(* The session manager is seen from outside here: an operation of it is    *)
(* one step, a session may expire at any time, and a tombstone outlives    *)
(* every operation under way.  Module CallSession has its inside.          *)
(***************************************************************************)
EXTENDS Naturals

CONSTANTS
    Workers,   \* goroutines of the HEP worker pool
    Monitor,   \* the goroutine of rtp.Sniffer.monitorTimeouts
    NoDoc,     \* nil: no document
    Kinds,     \* SIP messages the network may send, see Messages
    Streams,   \* whether RTP reaches the engine
    Loads,     \* whether an RTP stream keeps a copy of the document (for ASR)
    Failures,  \* whether a read of the document may fail
    Restarts   \* whether the process may be restarted

Messages ==
    {"invite", "hold", "ringing", "challenge", "answer", "reject", "bye"}

ASSUME KindAssumption == Kinds \subseteq Messages

ASSUME SwitchAssumption ==
    /\ Streams \in BOOLEAN /\ Loads \in BOOLEAN
    /\ Failures \in BOOLEAN /\ Restarts \in BOOLEAN

ASSUME MonitorAssumption == Monitor \notin Workers

\* A call:state document: its status; whether it has answer_time, a
\* last_sip_error, a hold_start_time that is not empty.
Docs ==
    [status : {"active", "answered", "completed"},
     answered : BOOLEAN, challenged : BOOLEAN, held : BOOLEAN]

ASSUME NoDocAssumption == NoDoc \notin Docs

\* A row of sip_calls: what it says of the call, whether it has answer_time.
Rows ==
    [says : {"none", "active", "answered", "timeout", "challenged", "hangup"},
     answered : BOOLEAN]

Threads == Workers \union {Monitor}

VARIABLES
    doc,      \* Redis call:state:<id>, or NoDoc
    active,   \* whether the call is in the Redis set active_calls
    cache,    \* localCache: a document or NoDoc
    row,      \* the row sip_calls shows for the call
    session,  \* whether the session manager has a session for the call
    tomb,     \* whether it has a tombstone for it
    media,    \* the RTP stream of the call: "none", "active" or "idle"
    loaded,   \* the document that stream keeps a copy of, or NoDoc
    trash,    \* whether StopListenerByCallID is queued on trashBin
    rebuild,  \* RebuildFromRedis: "no", "start", or "loaded" a document
    pc, msg, got,  \* locals of a thread; got is the document it read
    strays    \* how the call was written to after its end (history)

redis   == <<doc, active>>
manager == <<session, tomb>>
streams == <<media, loaded, trash>>
locals  == <<pc, msg, got>>
history == <<strays>>

vars == <<redis, cache, row, manager, streams, rebuild, locals, history>>

Labels ==
    {"idle", "redis", "fill", "session",
     "invite", "inviteRow", "sdp", "sdpCache", "refresh",
     "guard", "stop", "remove", "uncache", "end", "endRow",
     "stash", "stashCache", "shorten",
     "reread", "answer", "answerCache", "answerRow", "error",
     "check", "clean", "read", "timeoutBlank", "timeoutEnd", "timeoutRow", "timeoutUncache"}

TypeOK ==
    /\ doc \in Docs \union {NoDoc}
    /\ active \in BOOLEAN
    /\ cache \in Docs \union {NoDoc}
    /\ row \in Rows
    /\ session \in BOOLEAN
    /\ tomb \in BOOLEAN
    /\ media \in {"none", "active", "idle"}
    /\ loaded \in Docs \union {NoDoc}
    /\ trash \in BOOLEAN
    /\ rebuild \in {"no", "start", "loaded"}
    /\ pc \in [Threads -> Labels]
    /\ msg \in [Threads -> Messages \union {"none"}]
    /\ got \in [Threads -> Docs \union {NoDoc}]
    /\ strays \subseteq {"row", "amid", "listing", "unended"}

Init ==
    /\ doc = NoDoc
    /\ active = FALSE
    /\ cache = NoDoc
    /\ row = [says |-> "none", answered |-> FALSE]
    /\ session = FALSE
    /\ tomb = FALSE
    /\ media = "none"
    /\ loaded = NoDoc
    /\ trash = FALSE
    /\ rebuild = "no"
    /\ pc = [t \in Threads |-> "idle"]
    /\ msg = [t \in Threads |-> "none"]
    /\ got = [t \in Threads |-> NoDoc]
    /\ strays = {}

-----------------------------------------------------------------------------
(* Control of the threads. *)

Goto(t, label) ==
    /\ pc' = [pc EXCEPT ![t] = label]
    /\ UNCHANGED <<msg, got>>

\* Continue at label with document d in hand.
GotoWith(t, label, d) ==
    /\ pc' = [pc EXCEPT ![t] = label]
    /\ got' = [got EXCEPT ![t] = d]
    /\ UNCHANGED msg

Done(t) ==
    /\ pc' = [pc EXCEPT ![t] = "idle"]
    /\ msg' = [msg EXCEPT ![t] = "none"]
    /\ got' = [got EXCEPT ![t] = NoDoc]

Quiet == \A t \in Threads : pc[t] = "idle"

-----------------------------------------------------------------------------
(* The stores. *)

\* SetCallState: the document, and active_calls by its status.
SetCallState(d) ==
    /\ doc' = d
    /\ active' = (active \/ d.status \in {"active", "answered"})

\* Mutant: the status of an ended call is one that no reader knows.
EndCallBatch_Ended(d) ==
    /\ doc' = [d EXCEPT !.status = "ended"]
    /\ active' = FALSE

\* EndCallBatch: the document as completed, and out of active_calls.
EndCallBatch(d) ==
    /\ doc' = [d EXCEPT !.status = "completed"]
    /\ active' = FALSE

\* Mutant: the timeout has the version of a termination.
Version_TimeoutWins ==
    [none |-> 0, active |-> 1, answered |-> 2,
     timeout |-> 3, challenged |-> 3, hangup |-> 3]

\* StateVersion of the rows that say so.
Version ==
    [none |-> 0, active |-> 1, answered |-> 2,
     timeout |-> 2, challenged |-> 2, hangup |-> 3]

\* The table keeps the row of the highest version, the last of several.
WriteRow(says, answered) ==
    row' = IF Version[says] >= Version[row.says]
           THEN [says |-> says, answered |-> answered] ELSE row

\* isReInvite.
Answered(d) == d # NoDoc /\ d.answered

-----------------------------------------------------------------------------
(* History: what happens to the call around and after its end.             *)

\* A document with this status is written although the call has no session.
Late(status) ==
    strays' = strays
        \union (IF ~session /\ status # "completed" THEN {"listing"} ELSE {})

\* The threads that are ending the call.
Ending == {t \in Threads : pc[t] \in
    {"stop", "remove", "uncache", "end", "check", "clean", "read",
     "timeoutBlank", "timeoutEnd", "timeoutRow", "timeoutUncache"}}

\* Something else is done about the call while it is ended: the end begins, by
\* t, when a worker is busy with another message or RebuildFromRedis is at
\* work, which may delete the document of an ended call, or a message comes
\* in the middle.
EndsAmid(t) ==
    strays' = strays
        \union (IF \/ \E w \in Workers \ {t} : pc[w] # "idle"
                   \/ rebuild # "no"
                THEN {"amid"} ELSE {})

ArrivesAmid == strays' = strays \union (IF Ending # {} THEN {"amid"} ELSE {})

-----------------------------------------------------------------------------
(* HandleSIPPayload up to the dispatch, lines 508-571.                     *)

\* A message of kind m reaches worker w, which looks into localCache.
Receive(w, m) ==
    /\ pc[w] = "idle" /\ m \in Kinds
    /\ pc' = [pc EXCEPT ![w] = IF cache = NoDoc THEN "redis" ELSE "session"]
    /\ msg' = [msg EXCEPT ![w] = m]
    /\ got' = [got EXCEPT ![w] = cache]
    /\ ArrivesAmid
    /\ UNCHANGED <<redis, cache, row, manager, streams, rebuild>>

ReadRedis(w) ==
    /\ pc[w] = "redis"
    /\ \/ GotoWith(w, IF doc = NoDoc THEN "session" ELSE "fill", doc)
       \/ Failures /\ Goto(w, "session")
    /\ UNCHANGED <<redis, cache, row, manager, streams, rebuild, history>>

FillCache(w) ==
    /\ pc[w] = "fill"
    /\ cache' = got[w]
    /\ Goto(w, "session")
    /\ UNCHANGED <<redis, row, manager, streams, rebuild, history>>

IsInvite(w) == msg[w] \in {"invite", "hold"}

\* Mutant: no INVITE opens a session.
SkipsSession_AnyInvite(w) == IsInvite(w) \/ msg[w] = "challenge"

\* A repeated INVITE leaves the short timeout of the first one alone, one
\* after a challenge that of the challenge, which has its own way below.
SkipsSession(w) ==
    \/ IsInvite(w) /\ got[w] # NoDoc /\ (got[w].challenged \/ ~got[w].answered)
    \/ msg[w] = "challenge"

\* A BYE, a CANCEL or a failure of the initial INVITE (checkTermination).
Terminates(w) ==
    msg[w] = "bye" \/ (msg[w] = "reject" /\ ~Answered(got[w]))

\* Mutant: every 200 OK is an answer.
Handler_AlwaysAnswers(w) ==
    CASE Terminates(w) -> "guard"
      [] IsInvite(w) -> IF Answered(got[w]) THEN "sdp" ELSE "invite"
      [] msg[w] = "challenge" -> IF got[w] = NoDoc THEN "shorten" ELSE "stash"
      [] msg[w] = "answer" -> IF got[w] = NoDoc THEN "reread" ELSE "answer"
      [] msg[w] = "reject" /\ ~Terminates(w) -> "error"
      [] msg[w] = "ringing" -> "idle"

\* Where a message is handled.  A 200 OK whose handler found no document
\* reads it again; one of an answered call only has its SDP looked at.
Handler(w) ==
    CASE Terminates(w) -> "guard"
      [] IsInvite(w) -> IF Answered(got[w]) THEN "sdp" ELSE "invite"
      [] msg[w] = "challenge" -> IF got[w] = NoDoc THEN "shorten" ELSE "stash"
      [] msg[w] = "answer" -> IF Answered(got[w]) THEN "sdp"
                              ELSE IF got[w] = NoDoc THEN "reread" ELSE "answer"
      [] msg[w] = "reject" /\ ~Terminates(w) -> "error"
      [] msg[w] = "ringing" -> "idle"

UpdateSession(w) ==
    /\ pc[w] = "session"
    /\ session' = (session \/ (~SkipsSession(w) /\ ~tomb))
    /\ IF Handler(w) = "idle" THEN Done(w) ELSE Goto(w, Handler(w))
    /\ UNCHANGED <<redis, cache, row, tomb, streams, rebuild, history>>

-----------------------------------------------------------------------------
(* handleInvite. *)

\* The document is made anew, and localCache is left alone.
Invite(w) ==
    /\ pc[w] = "invite"
    /\ SetCallState([status |-> "active", answered |-> FALSE,
                     challenged |-> FALSE, held |-> FALSE])
    /\ Late("active")
    /\ Goto(w, "inviteRow")
    /\ UNCHANGED <<cache, row, manager, streams, rebuild>>

InviteRow(w) ==
    /\ pc[w] = "inviteRow"
    /\ WriteRow("active", FALSE)
    /\ Done(w)
    /\ UNCHANGED <<redis, cache, manager, streams, rebuild, history>>

-----------------------------------------------------------------------------
(* handleSDP, lines 547-629, in an answered call: hold and resume.         *)

\* A re-INVITE goes on with UpdateSession, a 200 OK is done.
AfterSDP(w) == IF IsInvite(w) THEN Goto(w, "refresh") ELSE Done(w)

\* The SDP of a "hold" is sendonly or inactive, that of an "invite" sendrecv,
\* that of an "answer" may be any.  The step that changes nothing is the one
\* for a hold of a held call and for a resume of a call that is not held.
SDP(w) ==
    /\ pc[w] = "sdp"
    /\ \/ \E hold \in BOOLEAN :
            /\ hold => msg[w] # "invite"
            /\ ~hold => msg[w] # "hold"
            /\ got[w].held # hold
            /\ LET d == [got[w] EXCEPT !.held = hold] IN
                 /\ SetCallState(d)
                 /\ GotoWith(w, "sdpCache", d)
            /\ Late(got[w].status)
       \/ /\ \/ msg[w] = "answer"
             \/ got[w].held = (msg[w] = "hold")
          /\ AfterSDP(w)
          /\ UNCHANGED <<redis, history>>
    /\ UNCHANGED <<cache, row, manager, streams, rebuild>>

\* Mutant: localCache is not brought up to date.
SDPCache_Dropped(w) ==
    /\ pc[w] = "sdpCache"
    /\ AfterSDP(w)
    /\ UNCHANGED <<redis, cache, row, manager, streams, rebuild, history>>

SDPCache(w) ==
    /\ pc[w] = "sdpCache"
    /\ cache' = got[w]
    /\ AfterSDP(w)
    /\ UNCHANGED <<redis, row, manager, streams, rebuild, history>>

Refresh(w) ==
    /\ pc[w] = "refresh"
    /\ session' = (session \/ ~tomb)
    /\ Done(w)
    /\ UNCHANGED <<redis, cache, row, tomb, streams, rebuild, history>>

-----------------------------------------------------------------------------
(* handleTermination.  RemoveSession and StopListenerByCallID are steps of *)
(* the components they belong to.                                          *)

Guard(w) ==
    /\ pc[w] = "guard"
    /\ \/ tomb /\ Done(w) /\ UNCHANGED history
       \/ ~tomb /\ Goto(w, "stop") /\ EndsAmid(w)
    /\ UNCHANGED <<redis, cache, row, manager, streams, rebuild>>

StopListener(w) ==
    /\ pc[w] = "stop"
    /\ media' = "none"
    /\ loaded' = NoDoc
    /\ Goto(w, "remove")
    /\ UNCHANGED <<redis, cache, row, manager, trash, rebuild, history>>

RemoveSession(t) ==
    /\ pc[t] \in {"remove", "clean"}
    /\ session' = FALSE
    /\ tomb' = TRUE
    /\ Goto(t, IF pc[t] = "clean" THEN "read" ELSE "uncache")
    /\ UNCHANGED <<redis, cache, row, streams, rebuild, history>>

Uncache(w) ==
    /\ pc[w] = "uncache"
    /\ cache' = NoDoc
    /\ Goto(w, "end")
    /\ UNCHANGED <<redis, row, manager, streams, rebuild, history>>

\* Without a document in hand Redis is left as it is.
End(w) ==
    /\ pc[w] = "end"
    /\ IF got[w] = NoDoc
       THEN /\ strays' = strays \union {"unended"}
            /\ UNCHANGED redis
       ELSE EndCallBatch(got[w]) /\ UNCHANGED history
    /\ Goto(w, "endRow")
    /\ UNCHANGED <<cache, row, manager, streams, rebuild>>

\* The call_hangup event and the final row.
EndRow(w) ==
    /\ pc[w] = "endRow"
    /\ WriteRow("hangup", Answered(got[w]))
    /\ Done(w)
    /\ UNCHANGED <<redis, cache, manager, streams, rebuild, history>>

\* A failure response that checkTermination ignores still reaches
\* publishAndRecordEvent, whose event is call_hangup for any of them.
PublishError(w) ==
    /\ pc[w] = "error"
    /\ Done(w)
    /\ UNCHANGED <<redis, cache, row, manager, streams, rebuild, history>>

-----------------------------------------------------------------------------
(* 401 and 407: remember the error, shorten the session.                   *)

Stash(w) ==
    /\ pc[w] = "stash"
    /\ LET d == [got[w] EXCEPT !.challenged = TRUE] IN
         /\ SetCallState(d)
         /\ GotoWith(w, "stashCache", d)
    /\ Late(got[w].status)
    /\ UNCHANGED <<cache, row, manager, streams, rebuild>>

StashCache(w) ==
    /\ pc[w] = "stashCache"
    /\ cache' = got[w]
    /\ Goto(w, "shorten")
    /\ UNCHANGED <<redis, row, manager, streams, rebuild, history>>

ShortenSession(w) ==
    /\ pc[w] = "shorten"
    /\ session' = (session \/ ~tomb)
    /\ Done(w)
    /\ UNCHANGED <<redis, cache, row, tomb, streams, rebuild, history>>

-----------------------------------------------------------------------------
(* handleAnswer.                                                           *)

Reread(w) ==
    /\ pc[w] = "reread"
    /\ \/ GotoWith(w, "answer", doc)
       \/ Failures /\ Goto(w, "answer")
    /\ UNCHANGED <<redis, cache, row, manager, streams, rebuild, history>>

\* With no document at all it writes one that only says answered.
Answer(w) ==
    /\ pc[w] = "answer"
    /\ LET d == IF got[w] = NoDoc
                THEN [status |-> "answered", answered |-> TRUE,
                      challenged |-> FALSE, held |-> FALSE]
                ELSE [got[w] EXCEPT !.status = "answered", !.answered = TRUE]
       IN /\ SetCallState(d)
          /\ GotoWith(w, "answerCache", d)
    /\ Late("answered")
    /\ UNCHANGED <<cache, row, manager, streams, rebuild>>

\* Mutant: localCache is not brought up to date.
AnswerCache_Dropped(w) ==
    /\ pc[w] = "answerCache"
    /\ Goto(w, "answerRow")
    /\ UNCHANGED <<redis, cache, row, manager, streams, rebuild, history>>

AnswerCache(w) ==
    /\ pc[w] = "answerCache"
    /\ cache' = got[w]
    /\ Goto(w, "answerRow")
    /\ UNCHANGED <<redis, row, manager, streams, rebuild, history>>

\* The handleSDP that follows looks at the document as it was read, which
\* has no answer_time, and so for no hold.
AnswerRow(w) ==
    /\ pc[w] = "answerRow"
    /\ WriteRow("answered", TRUE)
    /\ strays' = strays \union (IF session THEN {} ELSE {"row"})
    /\ Done(w)
    /\ UNCHANGED <<redis, cache, manager, streams, rebuild>>

-----------------------------------------------------------------------------
(* The timeout monitor, and cleanupTimeoutCall.                            *)

MonitorIdle == pc[Monitor] = "idle" /\ rebuild = "no"

\* GetExpiredSessions returns the session of the call.
SessionExpires ==
    /\ MonitorIdle
    /\ session
    /\ session' = FALSE
    /\ tomb' = TRUE
    /\ EndsAmid(Monitor)
    /\ Goto(Monitor, "check")
    /\ UNCHANGED <<redis, cache, row, streams, rebuild>>

\* RTP still flows: ReactivateSession and UpdateSession.
KeepActive ==
    /\ pc[Monitor] = "check" /\ media = "active"
    /\ session' = TRUE
    /\ tomb' = FALSE
    /\ Done(Monitor)
    /\ UNCHANGED <<redis, cache, row, streams, rebuild, history>>

SessionTimeout ==
    /\ pc[Monitor] = "check" /\ media # "active"
    /\ trash' = TRUE
    /\ Goto(Monitor, "clean")
    /\ UNCHANGED <<redis, cache, row, manager, media, loaded, rebuild, history>>

\* The RTP stream has gone silent.  A call that has a tombstone only loses it.
StreamExpires ==
    /\ MonitorIdle /\ media = "idle"
    /\ media' = "none"
    /\ loaded' = NoDoc
    /\ \/ tomb /\ UNCHANGED <<locals, history>>
       \/ /\ ~tomb
          /\ Goto(Monitor, "clean")
          /\ EndsAmid(Monitor)
    /\ UNCHANGED <<redis, cache, row, manager, trash, rebuild>>

\* A copy that the stream keeps spares the read of the document.
CopyForTimeout ==
    /\ pc[Monitor] = "read" /\ loaded # NoDoc
    /\ GotoWith(Monitor, "timeoutBlank", loaded)
    /\ UNCHANGED <<redis, cache, row, manager, streams, rebuild, history>>

ReadForTimeout ==
    /\ pc[Monitor] = "read" /\ loaded = NoDoc
    /\ \/ GotoWith(Monitor, "timeoutEnd", doc)
       \/ Failures /\ Goto(Monitor, "timeoutEnd")
    /\ UNCHANGED <<redis, cache, row, manager, streams, rebuild, history>>

Blank == [status |-> "completed", answered |-> FALSE,
          challenged |-> FALSE, held |-> FALSE]

\* After a copy the document is replaced by one that only has the end.
TimeoutBlank ==
    /\ pc[Monitor] = "timeoutBlank"
    /\ EndCallBatch(Blank)
    /\ Goto(Monitor, "timeoutRow")
    /\ UNCHANGED <<cache, row, manager, streams, rebuild, history>>

\* Without a document Redis is left as it is.
TimeoutEnd ==
    /\ pc[Monitor] = "timeoutEnd"
    /\ IF got[Monitor] = NoDoc
       THEN /\ strays' = strays \union {"unended"}
            /\ UNCHANGED redis
       ELSE EndCallBatch(got[Monitor]) /\ UNCHANGED history
    /\ Goto(Monitor, "timeoutRow")
    /\ UNCHANGED <<cache, row, manager, streams, rebuild>>

\* An error remembered from a challenge becomes the reason of the end.
TimeoutRow ==
    /\ pc[Monitor] = "timeoutRow"
    /\ WriteRow(IF got[Monitor] # NoDoc /\ got[Monitor].challenged
                THEN "challenged" ELSE "timeout", Answered(got[Monitor]))
    /\ Goto(Monitor, "timeoutUncache")
    /\ UNCHANGED <<redis, cache, manager, streams, rebuild, history>>

\* OnCallCleanup.
TimeoutUncache ==
    /\ pc[Monitor] = "timeoutUncache"
    /\ cache' = NoDoc
    /\ Done(Monitor)
    /\ UNCHANGED <<redis, row, manager, streams, rebuild, history>>

-----------------------------------------------------------------------------
(* The other goroutines, the streams and the caches.                       *)

EmptyTrash ==
    /\ trash
    /\ trash' = FALSE
    /\ media' = "none"
    /\ loaded' = NoDoc
    /\ UNCHANGED <<redis, cache, row, manager, rebuild, locals, history>>

StreamActive ==
    /\ Streams /\ ~tomb /\ media # "active"
    /\ media' = "active"
    /\ UNCHANGED <<redis, cache, row, manager, loaded, trash, rebuild>>
    /\ UNCHANGED <<locals, history>>

StreamIdles ==
    /\ media = "active"
    /\ media' = "idle"
    /\ UNCHANGED <<redis, cache, row, manager, loaded, trash, rebuild>>
    /\ UNCHANGED <<locals, history>>

\* loadCallState, once per stream.  Of what is modelled it takes answer_time.
StreamLoads ==
    /\ Loads /\ media # "none" /\ loaded = NoDoc /\ doc # NoDoc
    /\ loaded' = [status |-> "active", answered |-> doc.answered,
                  challenged |-> FALSE, held |-> FALSE]
    /\ UNCHANGED <<redis, cache, row, manager, media, trash, rebuild>>
    /\ UNCHANGED <<locals, history>>

\* The entry of localCache reaches its age of ten minutes, which no operation
\* takes.
CacheExpires ==
    /\ Quiet /\ cache # NoDoc
    /\ cache' = NoDoc
    /\ UNCHANGED <<redis, row, manager, streams, rebuild, locals, history>>

\* The tombstone reaches its age, which no operation takes.
TombstoneGoes ==
    /\ Quiet /\ tomb
    /\ tomb' = FALSE
    /\ UNCHANGED <<redis, cache, row, session, streams, rebuild>>
    /\ UNCHANGED <<locals, history>>

-----------------------------------------------------------------------------
(* The process stops at any point and starts again: what it kept in memory *)
(* is gone.  The HEP server is up before RebuildFromRedis runs, and the    *)
(* monitor only after it.                                                  *)

Restart ==
    /\ Restarts
    /\ cache' = NoDoc
    /\ session' = FALSE
    /\ tomb' = FALSE
    /\ media' = "none"
    /\ loaded' = NoDoc
    /\ trash' = FALSE
    /\ rebuild' = "start"
    /\ pc' = [t \in Threads |-> "idle"]
    /\ msg' = [t \in Threads |-> "none"]
    /\ got' = [t \in Threads |-> NoDoc]
    /\ UNCHANGED <<redis, row, history>>

RebuildReads ==
    /\ rebuild = "start"
    /\ rebuild' = IF active /\ doc # NoDoc THEN "loaded" ELSE "no"
    /\ UNCHANGED <<redis, cache, row, manager, streams, locals, history>>

RebuildKeeps ==
    /\ rebuild = "loaded"
    /\ session' = TRUE
    /\ rebuild' = "no"
    /\ UNCHANGED <<redis, cache, row, tomb, streams, locals, history>>

\* Mutant: an expired call stays in active_calls.
RebuildDrops_Listed ==
    /\ rebuild = "loaded"
    /\ tomb' = TRUE
    /\ doc' = NoDoc
    /\ rebuild' = "no"
    /\ UNCHANGED <<active, cache, row, session, streams, locals, history>>

\* The session would have expired while the process was down.
RebuildDrops ==
    /\ rebuild = "loaded"
    /\ tomb' = TRUE
    /\ doc' = NoDoc
    /\ active' = FALSE
    /\ rebuild' = "no"
    /\ UNCHANGED <<cache, row, session, streams, locals, history>>

-----------------------------------------------------------------------------
Arrival == (\E w \in Workers, m \in Kinds : Receive(w, m)) \/ StreamActive

Operation(w) ==
    \/ ReadRedis(w) \/ FillCache(w) \/ UpdateSession(w)
    \/ Invite(w) \/ InviteRow(w) \/ SDP(w) \/ SDPCache(w) \/ Refresh(w)
    \/ Guard(w) \/ StopListener(w) \/ RemoveSession(w) \/ Uncache(w)
    \/ End(w) \/ EndRow(w) \/ PublishError(w)
    \/ Stash(w) \/ StashCache(w) \/ ShortenSession(w)
    \/ Reread(w) \/ Answer(w) \/ AnswerCache(w) \/ AnswerRow(w)

MonitorStep ==
    \/ SessionExpires \/ KeepActive \/ SessionTimeout \/ StreamExpires
    \/ RemoveSession(Monitor) \/ CopyForTimeout \/ ReadForTimeout
    \/ TimeoutBlank \/ TimeoutEnd \/ TimeoutRow \/ TimeoutUncache

Environment ==
    \/ EmptyTrash \/ StreamIdles \/ StreamLoads
    \/ CacheExpires \/ TombstoneGoes
    \/ Restart \/ RebuildReads \/ RebuildKeeps \/ RebuildDrops

Next ==
    \/ Arrival
    \/ \E w \in Workers : Operation(w)
    \/ MonitorStep
    \/ Environment

Spec == Init /\ [][Next]_vars

\* Every goroutine is scheduled, a session that nothing refreshes expires, no
\* RTP stream goes on for ever.  Nothing obliges the network to send.
Fairness ==
    /\ \A w \in Workers : WF_vars(Operation(w))
    /\ WF_vars(MonitorStep)
    /\ WF_vars(EmptyTrash) /\ WF_vars(StreamIdles)

FairSpec == Spec /\ Fairness

-----------------------------------------------------------------------------
(* Properties.                                                             *)

\* The row the table shows for the call is a CallRecord.
Record == INSTANCE CallRecord WITH shown <- row.says

\* The row of a call never goes back, whichever of the workers and the
\* monitor write it and in which order, and however often the call ends: one
\* that was hung up is not shown as timed out or answered (constants.go 10).
RecordMovesForward == Record!Spec

\* At rest localCache does not lag behind Redis on the answer.  A BYE whose
\* handler read a document without answer_time would write it back without
\* one, and the final row as well (handlers.go 416-419).
CacheKnowsAnswer == Quiet /\ cache # NoDoc /\ Answered(doc) => Answered(cache)

\* A re-INVITE that put the call on hold, or took it off hold, leaves the
\* document saying so, through all the clones made from localCache, as long
\* as the call has not ended (handlers.go 551-627).
HoldAsLastSaid ==
    \A w \in Workers :
        /\ pc[w] = "refresh" /\ got[w].status = "answered"
        /\ ~tomb /\ "amid" \notin strays
        => doc # NoDoc /\ doc.held = (msg[w] = "hold")

\* A call at rest that is listed in active_calls has a session, and so will
\* be taken off the list when that ends, unless a message listed it when it
\* had none, or its end was handled without a document.
ListedCallsTimed ==
    Quiet /\ rebuild = "no" /\ active =>
        session \/ strays \intersect {"listing", "unended"} # {}

\* An answered call that was hung up is not listed again by a repeated 200 OK
\* or a late re-INVITE, unless its handler, or RebuildFromRedis, was under way
\* at the end (server.go 717-722, manager.go 378-485).
AnsweredCallStaysEnded ==
    /\ Quiet /\ tomb /\ Answered(doc) /\ row.says = "hangup" /\ row.answered
    /\ strays \intersect {"amid", "unended"} = {}
    => ~active

TrafficEnds == <>[][~Arrival]_vars

Closed == row.says \in {"none", "timeout", "challenged", "hangup"}

\* Once nothing arrives any more the row of a call says how it ended, even if
\* Redis could not be read, unless an answer was written after the end.
EveryRecordCloses == TrafficEnds => <>[](Closed \/ "row" \in strays)
=============================================================================
