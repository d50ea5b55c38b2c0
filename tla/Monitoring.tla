------------------------------ MODULE Monitoring ------------------------------
(***************************************************************************)
(* The live monitoring page of the web interface (Monitoring.tsx), for one *)
(* call: a supervisor listens to it and reads its transcript.  The segments *)
(* come over the live connection while the page is in the room of the      *)
(* call, and over HTTP when the view opens and after a gap.                *)
(*                                                                         *)
(* A final segment is its sequence number.  What the list shows is kept as *)
(* a count for every segment; the texts and the order of the list are left *)
(* out.  The gap check reads the last number through the closure of the    *)
(* first render, whose map is empty: every final but the first one sends   *)
(* for all that is before it.  The server is external: it publishes the    *)
(* segments in order, stores them later and in any order, and reads a      *)
(* request at some moment between its sending and its answer.              *)
(***************************************************************************)
EXTENDS Naturals, Sequences, FiniteSets

CONSTANTS
    Speakers,    \* the speakers of the call
    MaxSeq,      \* bound of the model: final segments
    MaxWire,     \* bound of the model: messages on the live connection
    MaxFetches   \* bound of the model: requests in flight

ASSUME BoundAssumption ==
    MaxSeq \in Nat \ {0} /\ MaxWire \in Nat \ {0} /\ MaxFetches \in Nat \ {0}

VARIABLES
    published,  \* final segments that the server has published
    stored,     \* of these, the ones that a request finds
    rooms,      \* what this connection has joined at the server
    open,       \* the live connection is open
    wire,       \* segments on their way to the page
    connected,  \* the flag of WebSocketContext that the page has rendered
    sessions,   \* viewingSessions and monitoringSessions: does the call have one
    partials,   \* speakers with a partial segment in the list
    shown,      \* how often each final segment is in the list
    fetches,    \* requests for transcripts in flight
    failed,     \* history: no answer was merged since the last request that failed
    owed        \* history: segments that this view has received

serverVars == <<published, stored>>
linkVars == <<open, wire, connected, rooms>>
listVars == <<partials, shown, owed>>
fetchVars == <<fetches, failed>>
vars == <<serverVars, linkVars, sessions, listVars, fetchVars>>

Segments == 1 .. MaxSeq
Kind == {"view", "audio"}
Message == [seq : 0 .. MaxSeq, speaker : Speakers]  \* 0: a partial segment
Fetch == [before : 2 .. MaxSeq + 1, read : BOOLEAN, result : SUBSET Segments]

NothingShown == [n \in Segments |-> 0]
Request(before) == [before |-> before, read |-> FALSE, result |-> {}]
Viewing == "view" \in sessions

(***************************************************************************)
(* The server.                                                             *)
(***************************************************************************)
Heard == open /\ "view" \in rooms
Deliver(m) ==
    IF Heard THEN Len(wire) < MaxWire /\ wire' = Append(wire, m) ELSE UNCHANGED wire

PublishPartial(s) ==
    /\ published < MaxSeq /\ Heard
    /\ Deliver([seq |-> 0, speaker |-> s])
    /\ UNCHANGED <<serverVars, open, connected, rooms, sessions, listVars, fetchVars>>

PublishFinal(s) ==
    /\ published < MaxSeq
    /\ published' = published + 1
    /\ Deliver([seq |-> published', speaker |-> s])
    /\ UNCHANGED <<stored, open, connected, rooms, sessions, listVars, fetchVars>>

Store(n) ==
    /\ n <= published /\ n \notin stored
    /\ stored' = stored \union {n}
    /\ UNCHANGED <<published, linkVars, sessions, listVars, fetchVars>>

ReadFetch(f) ==
    /\ f \in fetches /\ ~f.read
    /\ fetches' = (fetches \ {f}) \union
                     {[f EXCEPT !.read = TRUE, !.result = {n \in stored : n < f.before}]}
    /\ UNCHANGED <<serverVars, linkVars, sessions, listVars, failed>>

(***************************************************************************)
(* The connection.  send() drops what it is given while it is not open;    *)
(* the page learns of the connection when it renders again.                *)
(***************************************************************************)
Send(joined) == rooms' = IF open THEN joined ELSE rooms

Connect ==
    /\ ~open
    /\ open' = TRUE
    /\ UNCHANGED <<serverVars, wire, connected, rooms, sessions, listVars, fetchVars>>

Disconnect ==
    /\ open
    /\ open' = FALSE /\ wire' = <<>> /\ rooms' = {} /\ connected' = FALSE
    /\ UNCHANGED <<serverVars, sessions, listVars, fetchVars>>

\* Mutant: only the calls that are listened to are restored.
RestoreAudio ==
    /\ open /\ ~connected
    /\ connected' = TRUE
    /\ Send(rooms \union (sessions \ {"view"}))
    /\ UNCHANGED <<serverVars, open, wire, sessions, listVars, fetchVars>>

\* The effect on connected: the sessions are restored.
RestoreSessions ==
    /\ open /\ ~connected
    /\ connected' = TRUE
    /\ Send(rooms \union sessions)
    /\ UNCHANGED <<serverVars, open, wire, sessions, listVars, fetchVars>>

(***************************************************************************)
(* The sessions.                                                           *)
(***************************************************************************)
StartMonitoring ==
    /\ "audio" \notin sessions
    /\ sessions' = sessions \union {"audio"}
    /\ Send(rooms \union {"audio"})
    /\ UNCHANGED <<serverVars, open, wire, connected, listVars, fetchVars>>

StopMonitoring ==
    /\ "audio" \in sessions
    /\ sessions' = sessions \ {"audio"}
    /\ Send(rooms \ {"audio"})
    /\ UNCHANGED <<serverVars, open, wire, connected, listVars, fetchVars>>

\* Join first, then fetch what was said before.
StartViewing ==
    /\ ~Viewing
    /\ Cardinality(fetches) < MaxFetches
    /\ sessions' = sessions \union {"view"}
    /\ Send(rooms \union {"view"})
    /\ fetches' = fetches \union {Request(MaxSeq + 1)}
    /\ UNCHANGED <<serverVars, open, wire, connected, listVars, failed>>

StopViewing ==
    /\ Viewing
    /\ sessions' = sessions \ {"view"}
    /\ Send(rooms \ {"view"})
    /\ partials' = {} /\ shown' = NothingShown /\ owed' = {}
    /\ UNCHANGED <<serverVars, open, wire, connected, fetchVars>>

(***************************************************************************)
(* The transcript.                                                         *)
(***************************************************************************)
\* handleTranscription, of a partial segment: it replaces the one of its
\* speaker, or is new.
ReceivePartial ==
    /\ wire # <<>> /\ Head(wire).seq = 0
    /\ wire' = Tail(wire)
    /\ partials' = IF sessions # {} THEN partials \union {Head(wire).speaker} ELSE partials
    /\ UNCHANGED <<serverVars, open, connected, rooms, sessions, shown, owed, fetchVars>>

\* Of a final one: it takes the place of the partial of its speaker, or is added
\* unless it is there already; and what is before it is fetched.
ShowFinal(n, s) ==
    /\ partials' = partials \ {s}
    /\ shown' = [shown EXCEPT ![n] = IF s \in partials THEN @ + 1 ELSE IF @ = 0 THEN 1 ELSE @]
    /\ owed' = IF Viewing THEN owed \union {n} ELSE owed

\* Mutant: what is before the first segment is fetched too.
ReceiveFinalAny ==
    /\ wire # <<>> /\ Head(wire).seq # 0
    /\ wire' = Tail(wire)
    /\ \/ /\ sessions = {}
          /\ UNCHANGED <<listVars, fetches>>
       \/ /\ sessions # {}
          /\ ShowFinal(Head(wire).seq, Head(wire).speaker)
          /\ Cardinality(fetches) < MaxFetches
          /\ fetches' = fetches \union {Request(Head(wire).seq)}
    /\ UNCHANGED <<serverVars, open, connected, rooms, sessions, failed>>

ReceiveFinal ==
    /\ wire # <<>> /\ Head(wire).seq # 0
    /\ wire' = Tail(wire)
    /\ \/ /\ sessions = {}
          /\ UNCHANGED <<listVars, fetches>>
       \/ /\ sessions # {}
          /\ ShowFinal(Head(wire).seq, Head(wire).speaker)
          /\ IF Head(wire).seq > 1
             THEN Cardinality(fetches) < MaxFetches
                  /\ fetches' = fetches \union {Request(Head(wire).seq)}
             ELSE UNCHANGED fetches
    /\ UNCHANGED <<serverVars, open, connected, rooms, sessions, failed>>

\* Mutant: the answer takes the place of the list.
Replace(segments) == [n \in Segments |-> IF n \in segments THEN 1 ELSE 0]

\* mergeTranscriptions: what was fetched and what the list holds, each once.
Merge(segments) == [n \in Segments |-> IF n \in segments \/ shown[n] > 0 THEN 1 ELSE 0]

\* An answer is merged, whether or not the call is still viewed.
FetchSucceeds(f) ==
    /\ f \in fetches /\ f.read
    /\ fetches' = fetches \ {f}
    /\ shown' = Merge(f.result)
    /\ owed' = IF Viewing THEN owed \union f.result ELSE owed
    /\ failed' = FALSE
    /\ UNCHANGED <<serverVars, linkVars, sessions, partials>>

FetchFails(f) ==
    /\ f \in fetches
    /\ fetches' = fetches \ {f}
    /\ failed' = TRUE
    /\ UNCHANGED <<serverVars, linkVars, sessions, listVars>>

Init ==
    /\ published = 0 /\ stored = {}
    /\ open = FALSE /\ wire = <<>> /\ connected = FALSE /\ rooms = {}
    /\ sessions = {}
    /\ partials = {} /\ shown = NothingShown /\ owed = {}
    /\ fetches = {} /\ failed = FALSE

Next ==
    \/ \E s \in Speakers : PublishPartial(s) \/ PublishFinal(s)
    \/ \E n \in Segments : Store(n)
    \/ Connect \/ Disconnect \/ RestoreSessions
    \/ StartMonitoring \/ StopMonitoring \/ StartViewing \/ StopViewing
    \/ ReceivePartial \/ ReceiveFinal
    \/ \E f \in fetches : ReadFetch(f) \/ FetchSucceeds(f) \/ FetchFails(f)

Spec == Init /\ [][Next]_vars

-----------------------------------------------------------------------------
(***************************************************************************)
(* Properties.                                                             *)
(***************************************************************************)
\* Every variable has its type.
TypeOK ==
    /\ published \in 0 .. MaxSeq
    /\ stored \in SUBSET (1 .. published)
    /\ open \in BOOLEAN /\ connected \in BOOLEAN /\ failed \in BOOLEAN
    /\ wire \in Seq(Message)
    /\ rooms \in SUBSET Kind /\ sessions \in SUBSET Kind
    /\ partials \in SUBSET Speakers
    /\ shown \in [Segments -> Nat]
    /\ fetches \in SUBSET Fetch
    /\ owed \in SUBSET Segments

\* The page is in the rooms of just the sessions that it shows, whenever the
\* connection is open and the page has rendered it: whatever was started or
\* stopped while the connection was down or had not been rendered yet.
SessionsJoined == connected => open /\ rooms = sessions

\* What the view has received it goes on showing: neither the answer of a request
\* that was overtaken by live segments nor a late partial removes a segment.  And
\* once nothing is in flight and the last request did not fail, every segment is
\* shown once: but for the first one, for which nothing is fetched.
ReceivedIsShown ==
    Viewing => \A n \in owed :
        /\ shown[n] > 0
        /\ fetches = {} /\ ~failed /\ n > 1 => shown[n] = 1
=============================================================================
