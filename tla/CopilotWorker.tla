---------------------------- MODULE CopilotWorker ----------------------------
(***************************************************************************)
(* The background worker of the copilot extension (background.ts): its     *)
(* connection to the server, the call it follows, the copies it keeps in   *)
(* chrome.storage, and what it broadcasts to the side panel.  Chrome may   *)
(* stop the worker at any time; the next event starts it again, and only   *)
(* the storage survives.                                                   *)
(*                                                                         *)
(* Each action is one event handler, timer or callback of the worker.  The *)
(* operations on the storage take effect in the order in which they were   *)
(* issued; the callback of a read runs later, with what it read then.  An  *)
(* event of the server is heard if the socket is open when it is sent.     *)
(* The server and the browser are external.                                *)
(***************************************************************************)
EXTENDS Naturals, Sequences, FiniteSets

CONSTANTS
    Calls,        \* the calls of this agent
    None,         \* no call
    MaxUpsets,    \* bound of the model: stops of the worker and new sign-ins together
    MaxTimers,    \* bound of the model: reconnections scheduled at once
    MaxInbox      \* bound of the model: broadcasts on their way to the panel

ASSUME NoneAssumption == None \notin Calls
ASSUME BoundAssumption ==
    /\ MaxUpsets \in Nat
    /\ MaxTimers \in Nat \ {0} /\ MaxInbox \in Nat \ {0}

VARIABLES
    phase,     \* of each call at the server: "new", "live" or "over"
    stored,    \* chrome.storage: token and currentCall
    changes,   \* storage.onChanged events that the worker has not handled
    stage,     \* "stopped", "sync" and "local" (reading the storage), "ready"
    snapshot,  \* what the read of the start has seen
    config,    \* apiConfig: the token, and whether apiUrl has been read
    call,      \* currentCall
    sock,      \* "none", "connecting", "open", or "closing" with onclose set
    timers,    \* reconnections that onclose has scheduled
    persist,   \* transcriptionPersistTimer is set
    summary,   \* summaryTimer is set
    history,   \* callHistory: how often each call is in it
    listening, \* the side panel is open and receives broadcasts
    inbox,     \* broadcasts and responses on their way to it
    user,      \* where useAuth is: "out", "clearing", "saving", "in", "leaving"
    stops,     \* times the worker was stopped
    sessions,  \* sign-ins so far, the first one included
    overtaken, \* history: a start ended after the storage had changed since its
               \* read, or after a call had come
    untold     \* history: currentCall changed and the panel was not told

storageVars == <<stored, changes>>
startVars == <<stage, snapshot, overtaken>>
linkVars == <<sock, timers>>
timerVars == <<persist, summary>>
panelVars == <<listening, inbox, untold>>
userVars == <<user, sessions>>
workerVars == <<phase, storageVars, startVars, config, call, linkVars, timerVars,
                history, panelVars, userVars, stops>>

Token == 0 .. MaxUpsets + 1
MaybeCall == Calls \union {None}
Message == [type : {"create", "hangup", "current"}, call : Calls]
           \union [type : {"answer", "completed"}]
Saved == [token : Token, call : MaybeCall]

NoSnapshot == [token |-> 0, call |-> None]

Running == stage # "stopped"

\* broadcastToUI: nobody hears it while the panel is closed.
Broadcast(m) == inbox' = IF listening THEN Append(inbox, m) ELSE inbox
Upset == stops + sessions <= MaxUpsets
InboxFree == ~listening \/ Len(inbox) < MaxInbox

(***************************************************************************)
(* The connection.                                                         *)
(***************************************************************************)
\* connectWebSocket: an earlier socket is closed without its onclose, unless
\* the address or the token is not known yet.
Connect(token, api) == sock' = IF api /\ token # 0 THEN "connecting" ELSE sock

LinkOnly == UNCHANGED <<phase, storageVars, startVars, config, call, timerVars,
                        history, panelVars, userVars, stops>>

SocketOpens ==
    /\ sock = "connecting"
    /\ sock' = "open"
    /\ UNCHANGED timers
    /\ LinkOnly

\* onclose, but for the two codes below: a reconnection is scheduled.
SocketDrops ==
    /\ sock # "none"
    /\ timers < MaxTimers
    /\ sock' = "none"
    /\ timers' = timers + 1
    /\ LinkOnly

\* onclose with 4001: the agent is connected from elsewhere.
SocketReplaced ==
    /\ sock = "open"
    /\ sock' = "none"
    /\ UNCHANGED timers
    /\ LinkOnly

TimerFires ==
    /\ timers > 0
    /\ timers' = timers - 1
    /\ Connect(config.token, config.api)
    /\ LinkOnly

\* The keep-alive alarm of every half minute, when the socket is not open.
Alarm ==
    /\ Running
    /\ sock \in {"none", "closing"}
    /\ config.token # 0 /\ config.api
    /\ Connect(config.token, config.api)
    /\ UNCHANGED timers
    /\ LinkOnly

(***************************************************************************)
(* Start and stop.                                                         *)
(***************************************************************************)
\* Chrome stops the worker, or it crashes: its memory and timers are gone.
Stop ==
    /\ Running
    /\ Upset
    /\ stops' = stops + 1
    /\ stage' = "stopped" /\ snapshot' = NoSnapshot
    /\ config' = [token |-> 0, api |-> FALSE]
    /\ call' = None
    /\ untold' = (untold \/ call # None)
    /\ sock' = "none" /\ timers' = 0
    /\ persist' = FALSE /\ summary' = FALSE
    /\ UNCHANGED <<phase, storageVars, overtaken, history, listening, inbox, userVars>>

\* An event, at the latest the next alarm, starts it.
Wake ==
    /\ stage = "stopped"
    /\ stage' = "sync"
    /\ UNCHANGED <<phase, storageVars, snapshot, overtaken, config, call, linkVars, timerVars,
                   history, panelVars, userVars, stops>>

\* The first read gives the address; the second one is issued.
ReadSync ==
    /\ stage = "sync"
    /\ stage' = "local"
    /\ config' = [config EXCEPT !.api = TRUE]
    /\ snapshot' = stored
    /\ UNCHANGED <<phase, storageVars, overtaken, call, linkVars, timerVars, history,
                   panelVars, userVars, stops>>

\* Its callback restores the token and the call, unless it is older than four
\* hours, and connects.
ReadLocal ==
    /\ stage = "local"
    /\ stage' = "ready" /\ snapshot' = NoSnapshot
    /\ overtaken' = (overtaken \/ snapshot # stored \/ call # None)
    /\ LET token == IF snapshot.token # 0 THEN snapshot.token ELSE config.token
       IN  /\ config' = [config EXCEPT !.token = token]
           /\ Connect(token, config.api)
    /\ \/ /\ snapshot.call = None
          /\ UNCHANGED <<call, stored, untold>>
       \/ /\ snapshot.call # None
          /\ call' = snapshot.call
          /\ untold' = TRUE
          /\ UNCHANGED stored
       \/ /\ snapshot.call # None
          /\ stored' = [stored EXCEPT !.call = None]
          /\ UNCHANGED <<call, untold>>
    /\ UNCHANGED <<phase, changes, timers, timerVars, history, listening, inbox,
                   userVars, stops>>

(***************************************************************************)
(* The session.                                                            *)
(***************************************************************************)
\* What the storage tells the worker when the token goes.
TokenGone == IF stored.token # 0 THEN Append(changes, 0) ELSE changes

\* storage.onChanged: a new token replaces the connection.
TokenChanged ==
    /\ Running /\ changes # <<>>
    /\ changes' = Tail(changes)
    /\ config' = [config EXCEPT !.token = Head(changes)]
    /\ sock' = IF Head(changes) # 0 /\ config.api THEN "connecting" ELSE "none"
    /\ UNCHANGED <<phase, stored, startVars, call, timers, timerVars, history, panelVars,
                   userVars, stops>>

\* The credentials are right: login() first has the worker drop its call.
LoginAccepted ==
    /\ user = "out"
    /\ Upset
    /\ user' = "clearing"
    /\ sessions' = sessions + 1
    /\ UNCHANGED <<phase, storageVars, startVars, config, call, linkVars, timerVars, history,
                   panelVars, stops>>

\* Mutant: the stored call survives, and the next start brings it back.
ClearActiveCallInMemory ==
    /\ user = "clearing" /\ Running
    /\ user' = "saving"
    /\ call' = None
    /\ untold' = (untold \/ call # None)
    /\ UNCHANGED <<phase, storageVars, startVars, config, linkVars, timerVars, history, listening,
                   inbox, sessions, stops>>

ClearActiveCall ==
    /\ user = "clearing" /\ Running
    /\ user' = "saving"
    /\ call' = None
    /\ untold' = (untold \/ call # None)
    /\ stored' = [stored EXCEPT !.call = None]
    /\ UNCHANGED <<phase, changes, startVars, config, linkVars, timerVars, history, listening,
                   inbox, sessions, stops>>

\* Then it stores the token, and the address, which is the same as before.
SaveSession ==
    /\ user = "saving"
    /\ user' = "in"
    /\ stored' = [stored EXCEPT !.token = sessions]
    /\ changes' = Append(changes, sessions)
    /\ UNCHANGED <<phase, startVars, config, call, linkVars, timerVars, history, panelVars,
                   sessions, stops>>

\* logout() removes token and call from the storage, then tells the worker.
LogoutStores ==
    /\ user = "in"
    /\ user' = "leaving"
    /\ changes' = TokenGone
    /\ stored' = [stored EXCEPT !.token = 0, !.call = None]
    /\ UNCHANGED <<phase, startVars, config, call, linkVars, timerVars, history, panelVars,
                   sessions, stops>>

LogoutMessage ==
    /\ user = "leaving" /\ Running
    /\ user' = "out"
    /\ sock' = IF sock = "none" THEN "none" ELSE "closing"
    /\ config' = [config EXCEPT !.token = 0]
    /\ call' = None
    /\ untold' = (untold \/ call # None)
    /\ stored' = [stored EXCEPT !.call = None]
    /\ UNCHANGED <<phase, changes, startVars, timers, timerVars, history, listening, inbox,
                   sessions, stops>>

\* The server ends the session: onclose with 1008, or auth:force_logout, which
\* leaves the socket to the change of the token.
SessionEnded ==
    /\ sock = "open"
    /\ sock' \in {"none", "open"}
    /\ config' = [config EXCEPT !.token = 0]
    /\ call' = None
    /\ untold' = (untold \/ call # None)
    /\ changes' = TokenGone
    /\ stored' = [stored EXCEPT !.token = 0, !.call = None]
    /\ user' = IF user = "in" THEN "out" ELSE user
    /\ UNCHANGED <<phase, startVars, timers, timerVars, history, listening, inbox, sessions, stops>>

(***************************************************************************)
(* The calls.                                                              *)
(***************************************************************************)
Heard == sock = "open"

\* call_create, which the server may repeat while the call lives: the call
\* becomes the current one, in place of any other.
CallCreate(c) ==
    /\ phase[c] \in {"new", "live"} /\ InboxFree
    /\ phase' = [phase EXCEPT ![c] = "live"]
    /\ IF Heard /\ call # c
       THEN /\ call' = c
            /\ stored' = [stored EXCEPT !.call = c]
            /\ summary' = FALSE
            /\ Broadcast([type |-> "create", call |-> c])
            /\ untold' = FALSE
       ELSE UNCHANGED <<call, stored, summary, inbox, untold>>
    /\ UNCHANGED <<changes, startVars, config, linkVars, persist, history, listening, userVars, stops>>

\* Mutant: the end of any call is broadcast, as it was before shouldBroadcastCallEvent.
CallHangupBroadcast(c) ==
    /\ phase[c] \in {"live", "over"} /\ InboxFree
    /\ phase' = [phase EXCEPT ![c] = "over"]
    /\ IF Heard /\ call = c
       THEN /\ call' = None
            /\ stored' = [stored EXCEPT !.call = None]
            /\ history' = [history EXCEPT ![c] = @ + 1]
            /\ summary' = TRUE
            /\ untold' = FALSE
       ELSE UNCHANGED <<call, stored, history, summary, untold>>
    /\ IF Heard THEN Broadcast([type |-> "hangup", call |-> c]) ELSE UNCHANGED inbox
    /\ UNCHANGED <<changes, startVars, config, linkVars, persist, listening, userVars, stops>>

\* call_hangup, which may be repeated too: the current call is archived and the
\* wait for its summary begins.
CallHangup(c) ==
    /\ phase[c] \in {"live", "over"} /\ InboxFree
    /\ phase' = [phase EXCEPT ![c] = "over"]
    /\ IF Heard /\ call = c
       THEN /\ call' = None
            /\ stored' = [stored EXCEPT !.call = None]
            /\ history' = [history EXCEPT ![c] = @ + 1]
            /\ summary' = TRUE
            /\ Broadcast([type |-> "hangup", call |-> c])
            /\ untold' = FALSE
       ELSE UNCHANGED <<call, stored, history, summary, inbox, untold>>
    /\ UNCHANGED <<changes, startVars, config, linkVars, persist, listening, userVars, stops>>

\* call_answer, or a suggestion for the call: the call is stored again.
CallProgress(c) ==
    /\ phase[c] = "live" /\ Heard /\ call = c
    /\ stored' = [stored EXCEPT !.call = c]
    /\ UNCHANGED <<phase, changes, startVars, config, call, linkVars, timerVars, history,
                   panelVars, userVars, stops>>

\* call:transcription: the merged call is to be stored half a second later.
Transcription(c) ==
    /\ phase[c] = "live" /\ Heard /\ call = c
    /\ persist' = TRUE
    /\ UNCHANGED <<phase, storageVars, startVars, config, call, linkVars, summary, history,
                   panelVars, userVars, stops>>

\* The timer stores the call that is current when it fires.
PersistCall ==
    /\ persist
    /\ persist' = FALSE
    /\ stored' = [stored EXCEPT !.call = call]
    /\ UNCHANGED <<phase, changes, startVars, config, call, linkVars, summary, history,
                   panelVars, userVars, stops>>

\* The server's word on the summary of any call: it arrived or was skipped, which
\* ends the wait, or summaries are not enabled, which leaves the timer set.
SummaryAnswer ==
    /\ \E c \in Calls : phase[c] = "over"
    /\ Heard /\ InboxFree
    /\ summary' \in {FALSE, summary}
    /\ Broadcast([type |-> "answer"])
    /\ UNCHANGED <<phase, storageVars, startVars, config, call, linkVars, persist, history,
                   listening, untold, userVars, stops>>

SummaryTimeout ==
    /\ summary /\ InboxFree
    /\ summary' = FALSE
    /\ Broadcast([type |-> "answer"])
    /\ UNCHANGED <<phase, storageVars, startVars, config, call, linkVars, persist, history,
                   listening, untold, userVars, stops>>

\* The agent has signed in and the worker is connected.
WorkerInit ==
    /\ phase = [c \in Calls |-> "new"]
    /\ stored = [token |-> 1, call |-> None]
    /\ changes = <<>>
    /\ stage = "ready" /\ snapshot = NoSnapshot
    /\ config = [token |-> 1, api |-> TRUE]
    /\ call = None
    /\ sock = "open" /\ timers = 0
    /\ persist = FALSE /\ summary = FALSE
    /\ history = [c \in Calls |-> 0]
    /\ listening = FALSE /\ inbox = <<>>
    /\ user = "in"
    /\ stops = 0 /\ sessions = 1
    /\ overtaken = FALSE /\ untold = FALSE

\* The step of the worker's environment and of its handlers.
WorkerNext ==
    \/ SocketOpens \/ SocketDrops \/ SocketReplaced \/ TimerFires \/ Alarm
    \/ Stop \/ Wake \/ ReadSync \/ ReadLocal
    \/ TokenChanged \/ LoginAccepted \/ ClearActiveCall \/ SaveSession
    \/ LogoutStores \/ LogoutMessage \/ SessionEnded
    \/ \E c \in Calls :
          CallCreate(c) \/ CallProgress(c) \/ CallHangup(c) \/ Transcription(c)
    \/ SummaryAnswer \/ PersistCall \/ SummaryTimeout

-----------------------------------------------------------------------------
\* The variables of the worker have their types.
WorkerTyped ==
    /\ phase \in [Calls -> {"new", "live", "over"}]
    /\ stored \in Saved /\ snapshot \in Saved
    /\ changes \in Seq(Token)
    /\ stage \in {"stopped", "sync", "local", "ready"}
    /\ config \in [token : Token, api : BOOLEAN]
    /\ call \in MaybeCall
    /\ sock \in {"none", "connecting", "open", "closing"}
    /\ timers \in 0 .. MaxTimers
    /\ persist \in BOOLEAN /\ summary \in BOOLEAN
    /\ history \in [Calls -> Nat]
    /\ listening \in BOOLEAN
    /\ inbox \in Seq(Message) /\ Len(inbox) <= MaxInbox
    /\ user \in {"out", "clearing", "saving", "in", "leaving"}
    /\ stops \in 0 .. MaxUpsets /\ sessions \in 1 .. MaxUpsets + 1
    /\ overtaken \in BOOLEAN /\ untold \in BOOLEAN
=============================================================================
