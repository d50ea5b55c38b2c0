------------------------------- MODULE Copilot -------------------------------
(***************************************************************************)
(* The copilot extension of one agent: the background worker together with *)
(* the side panel.  The panel (useWebSocket.ts, sidepanel.tsx) asks the    *)
(* worker for the call when it opens, follows its broadcasts while it is   *)
(* open, and keeps the queue of calls to wrap up, with a copy in           *)
(* chrome.storage.                                                         *)
(*                                                                         *)
(* An action of the panel is one message, one callback or one effect of    *)
(* React, which runs after the messages that were handled before it.       *)
(***************************************************************************)
EXTENDS CopilotWorker

VARIABLES
    view,     \* the state of useWebSocket: call, ended (lastEndedCallId), loading
    asked,    \* getCurrentCall is on its way to the worker
    queue,    \* wrapupQueue: of each call "none", "pending" or "completed"
    kept,     \* its copy in chrome.storage
    restore,  \* what the read at the mount has seen, until its callback runs
    owed      \* history: calls put in the queue, but for those that were not
              \* in the copy when the panel was closed

viewVars == <<view, asked>>
wrapupVars == <<queue, kept, restore, owed>>
vars == <<workerVars, viewVars, wrapupVars>>

ItemState == {"none", "pending", "completed"}
NoItems == [c \in Calls |-> "none"]
NoRestore == [pending |-> FALSE, items |-> NoItems]
NoView == [call |-> None, ended |-> None, loading |-> FALSE]

PanelOnly == UNCHANGED <<phase, storageVars, startVars, config, call, linkVars, timerVars,
                         history, userVars, stops>>

(***************************************************************************)
(* Opening and closing.  The first effect stores the empty queue of the    *)
(* mount after the read of the old one was issued.                         *)
(***************************************************************************)
OpenPanel ==
    /\ ~listening
    /\ listening' = TRUE
    /\ asked' = TRUE
    /\ restore' = [pending |-> TRUE, items |-> kept]
    /\ kept' = NoItems
    /\ UNCHANGED <<inbox, untold, view, queue, owed>>
    /\ PanelOnly

ClosePanel ==
    /\ listening
    /\ listening' = FALSE
    /\ inbox' = <<>>
    /\ view' = NoView /\ asked' = FALSE
    /\ queue' = NoItems /\ restore' = NoRestore
    /\ owed' = {c \in owed : kept[c] # "none"}
    /\ UNCHANGED <<untold, kept>>
    /\ PanelOnly

\* The worker answers getCurrentCall with the call of this moment.
CurrentCallAnswered ==
    /\ asked /\ Running /\ InboxFree
    /\ asked' = FALSE
    /\ IF call = None THEN UNCHANGED inbox ELSE Broadcast([type |-> "current", call |-> call])
    /\ untold' = (untold /\ call = None)
    /\ UNCHANGED <<listening, view, wrapupVars>>
    /\ PanelOnly

(***************************************************************************)
(* The messages that useWebSocket and sidepanel handle.                    *)
(***************************************************************************)
\* Mutant: a new call does not replace the one that the panel shows.
ViewAfterFirst(m) ==
    CASE m.type = "create" -> IF view.call # None THEN view
                              ELSE [call |-> m.call, ended |-> None, loading |-> FALSE]
      [] m.type = "hangup" -> [call |-> None, loading |-> TRUE,
                               ended |-> IF view.call # None THEN view.call ELSE m.call]
      [] m.type = "current" -> [view EXCEPT !.call = m.call]
      [] m.type = "answer" -> [view EXCEPT !.loading = FALSE]
      [] m.type = "completed" -> [view EXCEPT !.ended = None, !.loading = FALSE]

ViewAfter(m) ==
    CASE m.type = "create" -> [call |-> m.call, ended |-> None, loading |-> FALSE]
      [] m.type = "hangup" -> [call |-> None, loading |-> TRUE,
                               ended |-> IF view.call # None THEN view.call ELSE m.call]
      [] m.type = "current" -> [view EXCEPT !.call = m.call]
      [] m.type = "answer" -> [view EXCEPT !.loading = FALSE]
      [] m.type = "completed" -> [view EXCEPT !.ended = None, !.loading = FALSE]

AllCompleted == [c \in Calls |-> IF queue[c] = "pending" THEN "completed" ELSE queue[c]]

Receive ==
    /\ inbox # <<>>
    /\ inbox' = Tail(inbox)
    /\ view' = ViewAfter(Head(inbox))
    /\ queue' = IF Head(inbox).type = "completed" THEN AllCompleted ELSE queue
    /\ UNCHANGED <<listening, untold, asked, kept, restore, owed>>
    /\ PanelOnly

(***************************************************************************)
(* The queue of wrap-ups.                                                  *)
(***************************************************************************)
\* Mutant: the effect runs for no call too.
QueueEndedAny ==
    /\ listening
    /\ queue' = [c \in Calls |-> IF c = view.ended /\ queue[c] = "none" THEN "pending" ELSE queue[c]]
    /\ owed' = owed \union {view.ended}
    /\ UNCHANGED <<listening, inbox, untold, view, asked, kept, restore>>
    /\ PanelOnly

\* The effect on lastEndedCallId.
QueueEnded ==
    /\ view.ended # None /\ queue[view.ended] = "none"
    /\ queue' = [queue EXCEPT ![view.ended] = "pending"]
    /\ owed' = owed \union {view.ended}
    /\ UNCHANGED <<listening, inbox, untold, view, asked, kept, restore>>
    /\ PanelOnly

\* Mutant: the queue that was read replaces the one in memory.
RestoreQueueOver ==
    /\ restore.pending
    /\ restore' = NoRestore
    /\ queue' = restore.items
    /\ UNCHANGED <<listening, inbox, untold, viewVars, kept, owed>>
    /\ PanelOnly

\* The callback of the read at the mount adds what is not in the queue yet.
RestoreQueue ==
    /\ restore.pending
    /\ restore' = NoRestore
    /\ queue' = [c \in Calls |-> IF queue[c] = "none" THEN restore.items[c] ELSE queue[c]]
    /\ UNCHANGED <<listening, inbox, untold, viewVars, kept, owed>>
    /\ PanelOnly

\* The effect on the queue.
PersistQueue ==
    /\ listening /\ kept # queue
    /\ kept' = queue
    /\ UNCHANGED <<listening, inbox, untold, viewVars, queue, restore, owed>>
    /\ PanelOnly

\* The agent completes the wrap-up of an earlier call,
CompleteItem(c) ==
    /\ queue[c] = "pending" /\ c # view.ended
    /\ queue' = [queue EXCEPT ![c] = "completed"]
    /\ UNCHANGED <<listening, inbox, untold, viewVars, kept, restore, owed>>
    /\ PanelOnly

\* or of the call that has just ended; the worker stops waiting for the summary
\* and tells every window that the wrap-up is completed,
CompleteEnded ==
    /\ view.ended # None /\ Running /\ InboxFree
    /\ queue' = [queue EXCEPT ![view.ended] = IF @ = "none" THEN @ ELSE "completed"]
    /\ view' = [view EXCEPT !.ended = None, !.loading = FALSE]
    /\ summary' = FALSE
    /\ Broadcast([type |-> "completed"])
    /\ UNCHANGED <<listening, untold, asked, kept, restore, owed>>
    /\ UNCHANGED <<phase, storageVars, startVars, config, call, linkVars, persist, history,
                   userVars, stops>>

\* or completes it in the picture-in-picture window.
CompleteInPip ==
    /\ Running /\ InboxFree
    /\ \E c \in Calls : phase[c] = "over"
    /\ summary' = FALSE
    /\ Broadcast([type |-> "completed"])
    /\ UNCHANGED <<listening, untold, viewVars, wrapupVars>>
    /\ UNCHANGED <<phase, storageVars, startVars, config, call, linkVars, persist, history,
                   userVars, stops>>

\* The agent dismisses the summary card.
DismissSummary ==
    /\ view.ended # None
    /\ view' = [view EXCEPT !.ended = None, !.loading = FALSE]
    /\ UNCHANGED <<listening, inbox, untold, asked, wrapupVars>>
    /\ PanelOnly

Init ==
    /\ WorkerInit
    /\ view = NoView /\ asked = FALSE
    /\ queue = NoItems /\ kept = NoItems /\ restore = NoRestore
    /\ owed = {}

PanelNext ==
    \/ OpenPanel \/ ClosePanel \/ CurrentCallAnswered \/ Receive
    \/ QueueEnded \/ RestoreQueue \/ PersistQueue
    \/ CompleteEnded \/ CompleteInPip \/ DismissSummary
    \/ \E c \in Calls : CompleteItem(c)

Next ==
    \/ WorkerNext /\ UNCHANGED <<viewVars, wrapupVars>>
    \/ PanelNext

Spec == Init /\ [][Next]_vars

-----------------------------------------------------------------------------
(***************************************************************************)
(* Properties.                                                             *)
(***************************************************************************)
\* Every variable has its type.
TypeOK ==
    /\ WorkerTyped
    /\ view \in [call : MaybeCall, ended : MaybeCall, loading : BOOLEAN]
    /\ asked \in BOOLEAN
    /\ queue \in [Calls -> ItemState] /\ kept \in [Calls -> ItemState]
    /\ restore \in [pending : BOOLEAN, items : [Calls -> ItemState]]
    /\ owed \in SUBSET Calls

\* What a restart would find is what the worker has: once it has started, and
\* no logout is half done, the storage holds its token and its call, and without
\* a token there is no connection.  No call is archived twice.  Except after a
\* start that was overtaken by a change of the storage or by a call.
StorageAgrees ==
    ~overtaken =>
        /\ stage = "ready" /\ changes = <<>> /\ user # "leaving" =>
              /\ stored = [token |-> config.token, call |-> call]
              /\ stored.token = 0 => sock \in {"none", "closing"}
        /\ \A c \in Calls : history[c] <= 1

\* The panel shows the call of the worker as soon as it has handled every
\* message, whatever the order in which it was opened, the calls began and ended
\* and its question was answered: except after a change that the worker makes
\* without a word to the panel (a restart, a login, the end of the session).
PanelAgrees ==
    listening /\ inbox = <<>> /\ ~asked /\ ~untold => view.call = call

\* The panel never waits for a summary in vain: while it shows the wait, the
\* timer of the worker runs, or a message that ends the wait is on its way;
\* unless the worker was stopped, which loses the timer.
WaitIsTimed ==
    view.loading /\ stops = 0 =>
        summary \/ \E i \in 1 .. Len(inbox) : inbox[i].type \in {"create", "answer", "completed"}

\* No wrap-up is forgotten: every call that was put in the queue, and had reached
\* its copy when the panel was closed, is in the queue of the panel that is open,
\* once the copy has been read.
WrapupKept ==
    listening /\ ~restore.pending => \A c \in owed : queue[c] # "none"
=============================================================================
