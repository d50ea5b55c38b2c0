---------------------------- MODULE CopilotProofs ----------------------------
(***************************************************************************)
(* Proofs about the copilot extension, for any calls, any number of stops  *)
(* and sign-ins, and any bounds.                                           *)
(***************************************************************************)
EXTENDS Copilot, TLAPS

LEMMA MessageTypes ==
    /\ \A c \in Calls, t \in {"create", "hangup", "current"} : [type |-> t, call |-> c] \in Message
    /\ \A t \in {"answer", "completed"} : [type |-> t] \in Message
    /\ \A m \in Message : m.type \in {"create", "hangup", "current", "answer", "completed"}
    /\ \A m \in Message : m.type \in {"create", "hangup", "current"} => m.call \in Calls
BY DEF Message

\* A message that is broadcast while there is room.
LEMMA BroadcastTyped ==
    ASSUME WorkerTyped, InboxFree, NEW m \in Message, Broadcast(m)
    PROVE  inbox' \in Seq(Message) /\ Len(inbox') <= MaxInbox
<1>1. CASE listening
  BY <1>1, BoundAssumption DEF WorkerTyped, InboxFree, Broadcast
<1>2. CASE ~listening
  BY <1>2, BoundAssumption DEF WorkerTyped, Broadcast
<1>3. QED
  BY <1>1, <1>2

LEMMA ConnectTyped ==
    ASSUME WorkerTyped, NEW token, NEW api, Connect(token, api)
    PROVE  sock' \in {"none", "connecting", "open", "closing"}
BY DEF WorkerTyped, Connect

LEMMA InitTyped == Init => TypeOK
<1> SUFFICES ASSUME Init PROVE TypeOK
  OBVIOUS
<1>1. WorkerTyped
  <2>1. 0 \in Token /\ 1 \in Token /\ 0 \in 0..MaxTimers /\ 0 \in 0..MaxUpsets
        /\ 1 \in 1 .. MaxUpsets + 1 
    BY BoundAssumption DEF Token
  <2>2. stored \in Saved /\ snapshot \in Saved
    BY <2>1 DEF Init, WorkerInit, Saved, NoSnapshot, MaybeCall
  <2>3. /\ changes \in Seq(Token)
        /\ inbox \in Seq(Message) /\ Len(inbox) <= MaxInbox
    BY BoundAssumption DEF Init, WorkerInit
  <2>4. /\ phase \in [Calls -> {"new", "live", "over"}]
        /\ config \in [token : Token, api : BOOLEAN]
        /\ history \in [Calls -> Nat]
    BY <2>1 DEF Init, WorkerInit
  <2>5. QED
    BY <2>1, <2>2, <2>3, <2>4 DEF Init, WorkerInit, WorkerTyped, MaybeCall
<1>2. QED
  BY <1>1 DEF TypeOK, Init, NoView, NoItems, NoRestore, ItemState, MaybeCall

LEMMA LinkTyped ==
    ASSUME WorkerTyped, SocketOpens \/ SocketDrops \/ SocketReplaced \/ TimerFires \/ Alarm
    PROVE  WorkerTyped'
<1>1. LinkOnly
  BY DEF SocketOpens, SocketDrops, SocketReplaced, TimerFires, Alarm
<1>2. sock' \in {"none", "connecting", "open", "closing"}
  BY ConnectTyped DEF SocketOpens, SocketDrops, SocketReplaced, TimerFires, Alarm
<1>3. timers' \in 0 .. MaxTimers
  BY BoundAssumption DEF WorkerTyped, SocketOpens, SocketDrops, SocketReplaced, TimerFires, Alarm
<1>4. QED
  BY <1>1, <1>2, <1>3
     DEF WorkerTyped, LinkOnly, storageVars, startVars, timerVars, panelVars, userVars

LEMMA StartTyped ==
    ASSUME WorkerTyped, Stop \/ Wake \/ ReadSync \/ ReadLocal
    PROVE  WorkerTyped'
<1> USE DEF WorkerTyped, storageVars, startVars, linkVars, timerVars, panelVars, userVars
<1>1. CASE Stop
  <2>1. /\ snapshot' \in Saved /\ config' \in [token : Token, api : BOOLEAN]
        /\ call' \in MaybeCall
    BY <1>1, BoundAssumption DEF Stop, NoSnapshot, Saved, Token, MaybeCall
  <2>2. timers' \in 0 .. MaxTimers /\ stops' \in 0 .. MaxUpsets
    BY <1>1, BoundAssumption DEF Stop, Upset
  <2>3. /\ stage' \in {"stopped", "sync", "local", "ready"}
        /\ sock' \in {"none", "connecting", "open", "closing"}
        /\ untold' \in BOOLEAN /\ persist' = FALSE /\ summary' = FALSE
    BY <1>1 DEF Stop
  <2>4. UNCHANGED <<phase, stored, changes, overtaken, history, listening, inbox, user, sessions>>
    BY <1>1 DEF Stop
  <2>5. QED
    BY <2>1, <2>2, <2>3, <2>4
<1>2. CASE Wake
  BY <1>2 DEF Wake
<1>3. CASE ReadSync
  BY <1>3 DEF ReadSync
<1>4. CASE ReadLocal
  <2>1. /\ snapshot' \in Saved /\ stored' \in Saved
        /\ call' \in MaybeCall
    BY <1>4, BoundAssumption DEF ReadLocal, NoSnapshot, Saved, Token, MaybeCall
  <2>2. /\ config' \in [token : Token, api : BOOLEAN]
        /\ sock' \in {"none", "connecting", "open", "closing"}
    BY <1>4, ConnectTyped DEF ReadLocal, Saved
  <2>3. stage' = "ready" /\ overtaken' \in BOOLEAN /\ untold' \in BOOLEAN
    BY <1>4 DEF ReadLocal
  <2>4. UNCHANGED <<phase, changes, timers, persist, summary, history, listening, inbox,
                    user, sessions, stops>>
    BY <1>4 DEF ReadLocal
  <2>5. QED
    BY <2>1, <2>2, <2>3, <2>4
<1>5. QED
  BY <1>1, <1>2, <1>3, <1>4

LEMMA NoToken == 0 \in Token /\ None \in MaybeCall
BY BoundAssumption DEF Token, MaybeCall

LEMMA SessionTyped ==
    ASSUME WorkerTyped,
           \/ TokenChanged \/ LoginAccepted \/ ClearActiveCall \/ SaveSession
           \/ LogoutStores \/ LogoutMessage \/ SessionEnded
    PROVE  WorkerTyped'
<1> USE DEF WorkerTyped, storageVars, startVars, linkVars, timerVars, panelVars, userVars
<1>1. CASE TokenChanged
  BY <1>1 DEF TokenChanged
<1>2. CASE LoginAccepted
  BY <1>2, BoundAssumption DEF LoginAccepted, Upset
<1>3. CASE ClearActiveCall
  BY <1>3 DEF ClearActiveCall, MaybeCall, Saved
<1>4. CASE SaveSession
  <2>1. sessions \in Token
    BY BoundAssumption DEF Token
  <2>2. /\ stored' \in Saved
        /\ changes' \in Seq(Token) /\ user' = "in"
    <3>1. stored' = [stored EXCEPT !.token = sessions]
      BY <1>4 DEF SaveSession
    <3>2. stored' \in Saved
      BY <2>1, <3>1 DEF Saved
    <3>3. changes' = Append(changes, sessions) /\ user' = "in"
      BY <1>4 DEF SaveSession
    <3>4. changes' \in Seq(Token)
      BY <2>1, <3>3
    <3>5. QED
      BY <3>2, <3>3, <3>4
  <2>3. UNCHANGED <<phase, stage, snapshot, overtaken, config, call, sock, timers, persist,
                    summary, history, listening, inbox, untold, sessions, stops>>
    BY <1>4 DEF SaveSession
  <2>4. QED
    BY <2>2, <2>3
<1>5. CASE LogoutStores
  <2>1. stored' \in Saved /\ changes' \in Seq(Token) /\ user' = "leaving"
    <3>1. stored' = [stored EXCEPT !.token = 0, !.call = None] /\ user' = "leaving"
      BY <1>5 DEF LogoutStores
    <3>2. stored' \in Saved
      BY <3>1, NoToken DEF Saved
    <3>3. changes' \in Seq(Token)
      BY <1>5, NoToken DEF LogoutStores, TokenGone
    <3>4. QED
      BY <3>1, <3>2, <3>3
  <2>2. UNCHANGED <<phase, stage, snapshot, overtaken, config, call, sock, timers, persist,
                    summary, history, listening, inbox, untold, sessions, stops>>
    BY <1>5 DEF LogoutStores
  <2>3. QED
    BY <2>1, <2>2
<1>6. CASE LogoutMessage
  <2>1. stored' \in Saved /\ config' \in [token : Token, api : BOOLEAN] /\ call' \in MaybeCall
    BY <1>6, NoToken DEF LogoutMessage, Saved
  <2>2. /\ user' = "out" /\ untold' \in BOOLEAN
        /\ sock' \in {"none", "connecting", "open", "closing"}
    BY <1>6 DEF LogoutMessage
  <2>3. UNCHANGED <<phase, changes, stage, snapshot, overtaken, timers, persist, summary,
                    history, listening, inbox, sessions, stops>>
    BY <1>6 DEF LogoutMessage
  <2>4. QED
    BY <2>1, <2>2, <2>3
<1>7. CASE SessionEnded
  <2>1. stored' \in Saved /\ config' \in [token : Token, api : BOOLEAN] /\ call' \in MaybeCall
    BY <1>7, NoToken DEF SessionEnded, Saved
  <2>2. changes' \in Seq(Token)
    BY <1>7, NoToken DEF SessionEnded, TokenGone
  <2>3. /\ user' \in {"out", "clearing", "saving", "in", "leaving"}
        /\ sock' \in {"none", "connecting", "open", "closing"} /\ untold' \in BOOLEAN
    BY <1>7 DEF SessionEnded
  <2>4. UNCHANGED <<phase, stage, snapshot, overtaken, timers, persist, summary,
                    history, listening, inbox, sessions, stops>>
    BY <1>7 DEF SessionEnded
  <2>5. QED
    BY <2>1, <2>2, <2>3, <2>4
<1>8. QED
  BY <1>1, <1>2, <1>3, <1>4, <1>5, <1>6, <1>7

LEMMA CallTyped ==
    ASSUME WorkerTyped,
           \/ \E c \in Calls :
                 CallCreate(c) \/ CallProgress(c) \/ CallHangup(c) \/ Transcription(c)
           \/ SummaryAnswer \/ PersistCall \/ SummaryTimeout
    PROVE  WorkerTyped'
<1> USE DEF WorkerTyped, storageVars, startVars, linkVars, timerVars, panelVars, userVars
<1>1. ASSUME NEW c \in Calls, CallCreate(c) PROVE WorkerTyped'
  <2>1. inbox' \in Seq(Message) /\ Len(inbox') <= MaxInbox
    BY <1>1, BroadcastTyped, MessageTypes DEF CallCreate
  <2>2. QED
    <3>1. phase' \in [Calls -> {"new", "live", "over"}] /\ call' \in MaybeCall /\ stored' \in Saved
      BY <1>1 DEF CallCreate, MaybeCall, Saved
    <3>2. summary' \in BOOLEAN /\ untold' \in BOOLEAN
      BY <1>1 DEF CallCreate
    <3>3. UNCHANGED <<changes, stage, snapshot, overtaken, config, sock, timers, persist, history,
                      listening, user, sessions, stops>>
      BY <1>1 DEF CallCreate
    <3>4. QED
      BY <2>1, <3>1, <3>2, <3>3
<1>2. ASSUME NEW c \in Calls, CallProgress(c) \/ Transcription(c) PROVE WorkerTyped'
  <2>1. stored' \in Saved /\ persist' \in BOOLEAN
    BY <1>2 DEF CallProgress, Transcription, MaybeCall, Saved
  <2>2. UNCHANGED <<phase, changes, stage, snapshot, overtaken, config, call, sock, timers, summary,
                    history, listening, inbox, untold, user, sessions, stops>>
    BY <1>2 DEF CallProgress, Transcription
  <2>3. QED
    BY <2>1, <2>2
<1>3. ASSUME NEW c \in Calls, CallHangup(c) PROVE WorkerTyped'
  <2>1. inbox' \in Seq(Message) /\ Len(inbox') <= MaxInbox
    BY <1>3, BroadcastTyped, MessageTypes DEF CallHangup
  <2>2. QED
    <3>1. phase' \in [Calls -> {"new", "live", "over"}] /\ call' \in MaybeCall /\ stored' \in Saved
      BY <1>3 DEF CallHangup, MaybeCall, Saved
    <3>2. history' \in [Calls -> Nat]
      <4>1. history' = history \/ history' = [history EXCEPT ![c] = @ + 1]
        BY <1>3 DEF CallHangup
      <4>2. QED
        BY <4>1
    <3>3. summary' \in BOOLEAN /\ untold' \in BOOLEAN
      BY <1>3 DEF CallHangup
    <3>4. UNCHANGED <<changes, stage, snapshot, overtaken, config, sock, timers, persist,
                      listening, user, sessions, stops>>
      BY <1>3 DEF CallHangup
    <3>5. QED
      BY <2>1, <3>1, <3>2, <3>3, <3>4
<1>4. CASE SummaryAnswer \/ SummaryTimeout
  <2>1. inbox' \in Seq(Message) /\ Len(inbox') <= MaxInbox
    BY <1>4, BroadcastTyped, MessageTypes DEF SummaryAnswer, SummaryTimeout
  <2>2. QED
    <3>1. summary' \in BOOLEAN
      BY <1>4, Zenon DEF SummaryAnswer, SummaryTimeout
    <3>2. UNCHANGED <<phase, stored, changes, stage, snapshot, overtaken, config, call, sock,
                      timers, persist, history, listening, untold, user, sessions, stops>>
      BY <1>4 DEF SummaryAnswer, SummaryTimeout
    <3>3. QED
      BY <2>1, <3>1, <3>2
<1>5. CASE PersistCall
  BY <1>5 DEF PersistCall, Saved
<1>6. QED
  BY <1>1, <1>2, <1>3, <1>4, <1>5

\* The actions of the panel leave the rest of the worker alone.
LEMMA PanelOnlyTyped ==
    ASSUME WorkerTyped, PanelOnly, listening' \in BOOLEAN, untold' \in BOOLEAN,
           inbox' \in Seq(Message), Len(inbox') <= MaxInbox
    PROVE  WorkerTyped'
<1>1. UNCHANGED <<phase, stored, changes, stage, snapshot, overtaken, config, call, sock, timers,
                  persist, summary, history, user, sessions, stops>>
  BY DEF PanelOnly, storageVars, startVars, linkVars, timerVars, userVars
<1>2. QED
  BY <1>1 DEF WorkerTyped

LEMMA ViewTyped ==
    ASSUME TypeOK, NEW m \in Message
    PROVE  ViewAfter(m) \in [call : MaybeCall, ended : MaybeCall, loading : BOOLEAN]
<1>1. CASE m.type \in {"create", "hangup", "current"}
  BY <1>1, MessageTypes DEF TypeOK, ViewAfter, MaybeCall
<1>2. CASE m.type \in {"answer", "completed"}
  BY <1>2, MessageTypes DEF TypeOK, ViewAfter, MaybeCall
<1>3. QED
  BY <1>1, <1>2, MessageTypes

LEMMA StepTyped == TypeOK /\ [Next]_vars => TypeOK'
<1> SUFFICES ASSUME TypeOK, [Next]_vars PROVE TypeOK'
  OBVIOUS
<1>0. WorkerTyped
  BY DEF TypeOK
<1>1. CASE WorkerNext /\ UNCHANGED <<viewVars, wrapupVars>>
  <2>1. WorkerTyped'
    BY <1>0, <1>1, LinkTyped, StartTyped, SessionTyped, CallTyped DEF WorkerNext
  <2>2. UNCHANGED <<view, asked, queue, kept, restore, owed>>
    BY <1>1 DEF viewVars, wrapupVars
  <2>3. QED
    BY <2>1, <2>2 DEF TypeOK
<1>2. CASE UNCHANGED vars
  <2>1. UNCHANGED <<workerVars, view, asked, queue, kept, restore, owed>>
    BY <1>2 DEF vars, viewVars, wrapupVars
  <2>2. WorkerTyped'
    BY <1>0, <2>1
       DEF WorkerTyped, workerVars, storageVars, startVars, linkVars, timerVars, panelVars, userVars
  <2>3. QED
    BY <2>1, <2>2 DEF TypeOK
<1>3a. CASE OpenPanel
  <2>1. /\ listening' \in BOOLEAN /\ untold' \in BOOLEAN
        /\ inbox' \in Seq(Message) /\ Len(inbox') <= MaxInbox
    BY <1>0, <1>3a, BoundAssumption DEF OpenPanel, WorkerTyped
  <2>2. WorkerTyped'
    BY <1>0, <1>3a, <2>1, PanelOnlyTyped DEF OpenPanel
  <2>3. asked' = TRUE /\ UNCHANGED <<view, queue, owed>> /\ kept' = NoItems
    BY <1>3a DEF OpenPanel
  <2>4. restore' \in [pending : BOOLEAN, items : [Calls -> ItemState]]
    BY <1>3a DEF OpenPanel, TypeOK
  <2>5. kept' \in [Calls -> ItemState]
    BY <2>3 DEF NoItems, ItemState
  <2>6. QED
    BY <2>2, <2>3, <2>4, <2>5 DEF TypeOK
<1>3b. CASE ClosePanel
  <2>1. /\ listening' \in BOOLEAN /\ untold' \in BOOLEAN
        /\ inbox' \in Seq(Message) /\ Len(inbox') <= MaxInbox
    <3>1. listening' = FALSE /\ untold' = untold /\ inbox' = <<>>
      BY <1>3b DEF ClosePanel
    <3>2. <<>> \in Seq(Message) /\ Len(<<>>) <= MaxInbox
      BY BoundAssumption
    <3>3. QED
      BY <1>0, <3>1, <3>2 DEF WorkerTyped
  <2>2. WorkerTyped'
    BY <1>0, <1>3b, <2>1, PanelOnlyTyped DEF ClosePanel
  <2>3. view' \in [call : MaybeCall, ended : MaybeCall, loading : BOOLEAN]
    BY <1>3b DEF ClosePanel, NoView, MaybeCall
  <2>4. asked' = FALSE /\ UNCHANGED kept
    BY <1>3b DEF ClosePanel
  <2>5. /\ queue' \in [Calls -> ItemState]
        /\ restore' \in [pending : BOOLEAN, items : [Calls -> ItemState]]
    BY <1>3b DEF ClosePanel, NoItems, NoRestore, ItemState
  <2>6. owed' \in SUBSET Calls
    BY <1>3b DEF ClosePanel, TypeOK
  <2>7. QED
    BY <2>2, <2>3, <2>4, <2>5, <2>6 DEF TypeOK
<1>4. CASE CurrentCallAnswered
  <2>1. inbox' \in Seq(Message) /\ Len(inbox') <= MaxInbox
    <3>1. CASE call = None
      BY <1>0, <1>4, <3>1 DEF CurrentCallAnswered, WorkerTyped
    <3>2. CASE call # None
      <4>1. [type |-> "current", call |-> call] \in Message
        BY <1>0, <3>2, MessageTypes DEF WorkerTyped, MaybeCall
      <4>2. QED
        BY <1>0, <1>4, <3>2, <4>1, BroadcastTyped DEF CurrentCallAnswered
    <3>3. QED
      BY <3>1, <3>2
  <2>2. WorkerTyped'
    BY <1>0, <1>4, <2>1, PanelOnlyTyped DEF CurrentCallAnswered, WorkerTyped
  <2>3. QED
    BY <1>4, <2>2 DEF CurrentCallAnswered, TypeOK, wrapupVars
<1>5. CASE Receive
  <2>1. /\ Head(inbox) \in Message
        /\ inbox' \in Seq(Message) /\ Len(inbox') <= MaxInbox
    BY <1>0, <1>5, BoundAssumption DEF Receive, WorkerTyped
  <2>2. WorkerTyped'
    BY <1>0, <1>5, <2>1, PanelOnlyTyped DEF Receive, WorkerTyped
  <2>3. view' \in [call : MaybeCall, ended : MaybeCall, loading : BOOLEAN]
    BY <1>5, <2>1, ViewTyped DEF Receive
  <2>4. queue' \in [Calls -> ItemState]
    BY <1>5 DEF Receive, TypeOK, AllCompleted, ItemState
  <2>5. QED
    BY <1>5, <2>2, <2>3, <2>4 DEF Receive, TypeOK
<1>6. CASE QueueEnded \/ RestoreQueue \/ PersistQueue \/ \E c \in Calls : CompleteItem(c)
  <2>1. WorkerTyped'
    BY <1>0, <1>6, PanelOnlyTyped
       DEF QueueEnded, RestoreQueue, PersistQueue, CompleteItem, WorkerTyped
  <2>2. UNCHANGED <<view, asked>>
    BY <1>6 DEF QueueEnded, RestoreQueue, PersistQueue, CompleteItem, viewVars
  <2>3. queue' \in [Calls -> ItemState]
    BY <1>6
       DEF QueueEnded, RestoreQueue, PersistQueue, CompleteItem, TypeOK, ItemState, MaybeCall
  <2>4. kept' \in [Calls -> ItemState]
    BY <1>6 DEF QueueEnded, RestoreQueue, PersistQueue, CompleteItem, TypeOK
  <2>5. restore' \in [pending : BOOLEAN, items : [Calls -> ItemState]]
    <3>1. restore' = restore \/ restore' = NoRestore
      BY <1>6 DEF QueueEnded, RestoreQueue, PersistQueue, CompleteItem
    <3>2. NoRestore \in [pending : BOOLEAN, items : [Calls -> ItemState]]
      BY DEF NoRestore, NoItems, ItemState
    <3>3. QED
      BY <3>1, <3>2 DEF TypeOK
  <2>6. owed' \in SUBSET Calls
    BY <1>6
       DEF QueueEnded, RestoreQueue, PersistQueue, CompleteItem, TypeOK, MaybeCall
  <2>7. QED
    BY <2>1, <2>2, <2>3, <2>4, <2>5, <2>6 DEF TypeOK
<1>7. CASE CompleteEnded \/ CompleteInPip
  <2>1. inbox' \in Seq(Message) /\ Len(inbox') <= MaxInbox
    BY <1>0, <1>7, BroadcastTyped, MessageTypes DEF CompleteEnded, CompleteInPip
  <2>2. /\ UNCHANGED <<phase, stored, changes, stage, snapshot, overtaken, config, call, sock,
                       timers, persist, history, listening, untold, user, sessions, stops>>
        /\ summary' = FALSE
    BY <1>7 DEF CompleteEnded, CompleteInPip, storageVars, startVars, linkVars, userVars
  <2>3. WorkerTyped'
    BY <1>0, <2>1, <2>2 DEF WorkerTyped
  <2>4. view' \in [call : MaybeCall, ended : MaybeCall, loading : BOOLEAN] /\ UNCHANGED asked
    BY <1>7 DEF CompleteEnded, CompleteInPip, TypeOK, MaybeCall, viewVars
  <2>5. queue' \in [Calls -> ItemState] /\ UNCHANGED <<kept, restore, owed>>
    BY <1>7 DEF CompleteEnded, CompleteInPip, TypeOK, ItemState, MaybeCall, wrapupVars
  <2>6. QED
    BY <2>3, <2>4, <2>5 DEF TypeOK
<1>8. CASE DismissSummary
  <2>1. WorkerTyped'
    BY <1>0, <1>8, PanelOnlyTyped DEF DismissSummary, WorkerTyped
  <2>2. view' \in [call : MaybeCall, ended : MaybeCall, loading : BOOLEAN]
    BY <1>8 DEF DismissSummary, TypeOK, MaybeCall
  <2>3. QED
    BY <1>8, <2>1, <2>2 DEF DismissSummary, TypeOK, wrapupVars
<1>9. QED
  BY <1>1, <1>2, <1>3a, <1>3b, <1>4, <1>5, <1>6, <1>7, <1>8 DEF Next, PanelNext

\* The variables always have their types.
THEOREM TypeCorrect == Spec => []TypeOK
BY InitTyped, StepTyped, PTL DEF Spec

-----------------------------------------------------------------------------
(* What is stored is what the worker has.  While the worker is stopped or  *)
(* reads the address it has no connection and no call; the last change of  *)
(* the storage that it has not handled leads to the stored token.          *)

IdleInv ==
    stage \in {"stopped", "sync"} =>
        sock = "none" /\ timers = 0 /\ call = None /\ ~config.api /\ ~persist

UserInv ==
    /\ user = "in" => stored.token # 0
    /\ user = "leaving" => stored.token = 0

PendingInv == changes # <<>> => changes[Len(changes)] = stored.token

TokenInv ==
    changes = <<>> =>
        /\ config.token \in {0, stored.token}
        /\ stage = "ready" => config.token = stored.token
        /\ stored.token = 0 => sock \in {"none", "closing"}

CallInv ==
    /\ stage = "ready" /\ user # "leaving" => call = stored.call
    /\ \A c \in Calls :
          /\ history[c] <= 1
          /\ history[c] = 1 => phase[c] = "over" /\ call # c /\ stored.call # c

StorageInv == IdleInv /\ UserInv /\ PendingInv /\ (~overtaken => TokenInv /\ CallInv)

linked == <<phase, stored, changes, stage, snapshot, overtaken, config, call, sock, timers,
            persist, history, user, sessions, stops>>

LEMMA PanelKeepsLinked == PanelNext \/ UNCHANGED vars => UNCHANGED linked
<1> USE DEF linked, storageVars, startVars, linkVars, timerVars, panelVars, userVars
<1>1. CASE UNCHANGED vars
  BY <1>1 DEF vars, workerVars
<1>2. CASE CompleteEnded
  BY <1>2 DEF CompleteEnded
<1>3. CASE CompleteInPip
  BY <1>3 DEF CompleteInPip
<1>4. CASE PanelOnly
  BY <1>4 DEF PanelOnly
<1>5. PanelNext => PanelOnly \/ CompleteEnded \/ CompleteInPip
  BY DEF PanelNext, OpenPanel, ClosePanel, CurrentCallAnswered, Receive, QueueEnded, RestoreQueue,
         PersistQueue, DismissSummary, CompleteItem
<1>6. QED
  BY <1>1, <1>2, <1>3, <1>4, <1>5

LEMMA InitStorage == Init => StorageInv
BY DEF Init, WorkerInit, StorageInv, IdleInv, UserInv, PendingInv, TokenInv, CallInv

\* How the unhandled changes grow and shrink.
LEMMA LastChange ==
    ASSUME WorkerTyped, PendingInv
    PROVE  /\ \A t \in Token : /\ Append(changes, t) # <<>>
                               /\ Append(changes, t)[Len(Append(changes, t))] = t
           /\ changes # <<>> =>
                 /\ Tail(changes) = <<>> => Head(changes) = stored.token
                 /\ Tail(changes) # <<>> => Tail(changes)[Len(Tail(changes))] = stored.token
BY DEF WorkerTyped, PendingInv

LEMMA StepIdle == TypeOK /\ StorageInv /\ WorkerNext => IdleInv'
<1> SUFFICES ASSUME TypeOK, StorageInv, WorkerNext PROVE IdleInv'
  OBVIOUS
<1> USE DEF TypeOK, WorkerTyped, StorageInv, IdleInv
<1> USE DEF storageVars, startVars, linkVars, timerVars, userVars
<1>1. CASE SocketOpens \/ SocketDrops \/ SocketReplaced \/ TimerFires \/ Alarm
  BY <1>1 DEF SocketOpens, SocketDrops, SocketReplaced, TimerFires, Alarm, LinkOnly, Connect
<1>2. CASE Stop \/ Wake \/ ReadSync \/ ReadLocal
  BY <1>2 DEF Stop, Wake, ReadSync, ReadLocal
<1>3. CASE TokenChanged \/ LoginAccepted \/ ClearActiveCall \/ SaveSession
  BY <1>3 DEF TokenChanged, LoginAccepted, ClearActiveCall, SaveSession
<1>4. CASE LogoutStores \/ LogoutMessage \/ SessionEnded
  BY <1>4 DEF LogoutStores, LogoutMessage, SessionEnded
<1>5. ASSUME NEW c \in Calls, CallCreate(c) \/ CallProgress(c) \/ CallHangup(c) \/ Transcription(c)
      PROVE  IdleInv'
  BY <1>5 DEF CallCreate, CallProgress, CallHangup, Transcription, Heard
<1>6. CASE SummaryAnswer \/ PersistCall \/ SummaryTimeout
  BY <1>6 DEF SummaryAnswer, PersistCall, SummaryTimeout
<1>7. QED
  BY <1>1, <1>2, <1>3, <1>4, <1>5, <1>6 DEF WorkerNext

LEMMA StepTokens ==
    TypeOK /\ StorageInv /\ WorkerNext =>
        UserInv' /\ PendingInv' /\ (~overtaken' => TokenInv')
<1> SUFFICES ASSUME TypeOK, StorageInv, WorkerNext
             PROVE  UserInv' /\ PendingInv' /\ (~overtaken' => TokenInv')
  OBVIOUS
<1> USE DEF TypeOK, WorkerTyped, StorageInv, UserInv, PendingInv, TokenInv
<1> USE DEF storageVars, startVars, linkVars, timerVars, userVars
<1>1. CASE SocketOpens \/ SocketDrops \/ SocketReplaced \/ TimerFires \/ Alarm
  BY <1>1 DEF SocketOpens, SocketDrops, SocketReplaced, TimerFires, Alarm, LinkOnly, Connect
<1>2. CASE Stop \/ Wake \/ ReadSync
  BY <1>2 DEF Stop, Wake, ReadSync
<1>3. CASE ReadLocal
  <2>1. stored'.token = stored.token /\ UNCHANGED <<changes, user>>
    BY <1>3 DEF ReadLocal, Saved
  <2>2. ~overtaken' => ~overtaken /\ snapshot.token = stored.token
    BY <1>3 DEF ReadLocal
  <2>3. /\ config'.token = IF snapshot.token # 0 THEN snapshot.token ELSE config.token
        /\ snapshot.token = 0 /\ config.token = 0 => sock' = sock
    BY <1>3 DEF ReadLocal, Connect
  <2>4. QED
    BY <2>1, <2>2, <2>3
<1>4. CASE TokenChanged
  BY <1>4, LastChange DEF TokenChanged
<1>5. CASE LoginAccepted \/ ClearActiveCall
  BY <1>5 DEF LoginAccepted, ClearActiveCall, Saved
<1>6. CASE SaveSession
  BY <1>6, LastChange DEF SaveSession, Saved, Token
<1>7. CASE LogoutStores
  BY <1>7, LastChange, NoToken DEF LogoutStores, TokenGone, Saved
<1>8. CASE LogoutMessage
  BY <1>8 DEF LogoutMessage, Saved
<1>9. CASE SessionEnded
  BY <1>9, LastChange, NoToken DEF SessionEnded, TokenGone, Saved
<1>10. ASSUME NEW c \in Calls, CallCreate(c) \/ CallProgress(c) \/ CallHangup(c) \/ Transcription(c)
       PROVE  UserInv' /\ PendingInv' /\ (~overtaken' => TokenInv')
  BY <1>10 DEF CallCreate, CallProgress, CallHangup, Transcription, Saved
<1>11. CASE SummaryAnswer \/ PersistCall \/ SummaryTimeout
  BY <1>11 DEF SummaryAnswer, PersistCall, SummaryTimeout, Saved
<1>12. QED
  BY <1>1, <1>2, <1>3, <1>4, <1>5, <1>6, <1>7, <1>8, <1>9, <1>10, <1>11 DEF WorkerNext

LEMMA StepCalls == TypeOK /\ StorageInv /\ WorkerNext => (~overtaken' => CallInv')
<1> SUFFICES ASSUME TypeOK, StorageInv, WorkerNext, ~overtaken' PROVE CallInv'
  OBVIOUS
<1> USE DEF TypeOK, WorkerTyped, StorageInv, CallInv
<1> USE DEF storageVars, startVars, linkVars, timerVars, userVars
<1>1. CASE SocketOpens \/ SocketDrops \/ SocketReplaced \/ TimerFires \/ Alarm
  BY <1>1 DEF SocketOpens, SocketDrops, SocketReplaced, TimerFires, Alarm, LinkOnly
<1>2. CASE Stop \/ Wake \/ ReadSync
  BY <1>2, NoneAssumption DEF Stop, Wake, ReadSync
<1>3. CASE ReadLocal
  BY <1>3, NoneAssumption DEF ReadLocal, Saved
<1>4. CASE TokenChanged \/ LoginAccepted \/ ClearActiveCall \/ SaveSession
  BY <1>4, NoneAssumption DEF TokenChanged, LoginAccepted, ClearActiveCall, SaveSession, Saved
<1>5a. CASE LogoutStores
  BY <1>5a, NoneAssumption DEF LogoutStores, Saved
<1>5b. CASE LogoutMessage
  BY <1>5b, NoneAssumption DEF LogoutMessage, Saved
<1>5c. CASE SessionEnded
  BY <1>5c, NoneAssumption DEF SessionEnded, Saved
<1>6. ASSUME NEW c \in Calls, CallCreate(c) \/ CallProgress(c) \/ Transcription(c) PROVE CallInv'
  BY <1>6 DEF CallCreate, CallProgress, Transcription, Saved
<1>7. ASSUME NEW c \in Calls, CallHangup(c) PROVE CallInv'
  BY <1>7, NoneAssumption DEF CallHangup, Saved
<1>8. CASE SummaryAnswer \/ PersistCall \/ SummaryTimeout
  BY <1>8 DEF SummaryAnswer, PersistCall, SummaryTimeout, Saved
<1>9. QED
  BY <1>1, <1>2, <1>3, <1>4, <1>5a, <1>5b, <1>5c, <1>6, <1>7, <1>8 DEF WorkerNext

LEMMA StepStorage == TypeOK /\ StorageInv /\ [Next]_vars => StorageInv'
<1> SUFFICES ASSUME TypeOK, StorageInv, [Next]_vars PROVE StorageInv'
  OBVIOUS
<1>1. CASE WorkerNext
  BY <1>1, StepIdle, StepTokens, StepCalls DEF StorageInv
<1>2. CASE PanelNext \/ UNCHANGED vars
  BY <1>2, PanelKeepsLinked
     DEF StorageInv, IdleInv, UserInv, PendingInv, TokenInv, CallInv, linked
<1>3. QED
  BY <1>1, <1>2 DEF Next

\* StorageAgrees for any calls and any number of stops and sign-ins: what the
\* next start of the worker would restore is what the worker has.
THEOREM StorageAlwaysAgrees == Spec => []StorageAgrees
<1>1. TypeOK /\ StorageInv => StorageAgrees
  BY DEF TypeOK, WorkerTyped, Saved, StorageInv, TokenInv, CallInv, StorageAgrees
<1>2. QED
  BY <1>1, InitTyped, StepTyped, InitStorage, StepStorage, PTL DEF Spec

-----------------------------------------------------------------------------
(* No wrap-up is forgotten.  What is owed is in the queue or in what the   *)
(* read at the mount has seen, or, while no panel is open, in the copy.    *)

ClosedInv == ~listening => inbox = <<>> /\ view = NoView /\ ~asked /\ ~restore.pending

OwedInv ==
    \A c \in owed :
        /\ ~listening => kept[c] # "none"
        /\ listening => queue[c] # "none" \/ (restore.pending /\ restore.items[c] # "none")

LEMMA InitClosed == Init => ClosedInv /\ OwedInv
BY DEF Init, WorkerInit, ClosedInv, OwedInv, NoRestore

\* The worker reaches the panel only while it is open.
LEMMA WorkerKeepsListening == WorkerNext => UNCHANGED listening /\ (~listening => inbox' = inbox)
<1> USE DEF panelVars, Broadcast
<1>1. CASE SocketOpens \/ SocketDrops \/ SocketReplaced \/ TimerFires \/ Alarm
  BY <1>1 DEF SocketOpens, SocketDrops, SocketReplaced, TimerFires, Alarm, LinkOnly
<1>2. CASE Stop \/ Wake \/ ReadSync \/ ReadLocal
  BY <1>2 DEF Stop, Wake, ReadSync, ReadLocal
<1>3. CASE TokenChanged \/ LoginAccepted \/ ClearActiveCall \/ SaveSession
  BY <1>3 DEF TokenChanged, LoginAccepted, ClearActiveCall, SaveSession
<1>4. CASE LogoutStores \/ LogoutMessage \/ SessionEnded
  BY <1>4 DEF LogoutStores, LogoutMessage, SessionEnded
<1>5. CASE \E c \in Calls : CallCreate(c) \/ CallProgress(c) \/ CallHangup(c) \/ Transcription(c)
  BY <1>5 DEF CallCreate, CallProgress, CallHangup, Transcription
<1>6. CASE SummaryAnswer \/ PersistCall \/ SummaryTimeout
  BY <1>6 DEF SummaryAnswer, PersistCall, SummaryTimeout
<1>7. QED
  BY <1>1, <1>2, <1>3, <1>4, <1>5, <1>6 DEF WorkerNext

LEMMA StepClosed == TypeOK /\ ClosedInv /\ [Next]_vars => ClosedInv'
<1> SUFFICES ASSUME TypeOK, ClosedInv, [Next]_vars PROVE ClosedInv'
  OBVIOUS
<1> USE DEF ClosedInv, viewVars, wrapupVars, panelVars
<1>1. CASE WorkerNext /\ UNCHANGED <<viewVars, wrapupVars>>
  <2>1. UNCHANGED <<view, asked, restore>>
    BY <1>1
  <2>2. UNCHANGED listening /\ (~listening => inbox' = inbox)
    BY <1>1, WorkerKeepsListening
  <2>3. QED
    BY <2>1, <2>2
<1>2. CASE UNCHANGED vars
  BY <1>2 DEF vars, workerVars
<1>3. CASE OpenPanel \/ ClosePanel \/ Receive
  BY <1>3 DEF OpenPanel, ClosePanel, Receive, NoRestore
<1>4. CASE CurrentCallAnswered
  BY <1>4 DEF CurrentCallAnswered, Broadcast
<1>5. CASE QueueEnded \/ RestoreQueue \/ PersistQueue \/ \E c \in Calls : CompleteItem(c)
  BY <1>5 DEF QueueEnded, RestoreQueue, PersistQueue, CompleteItem, NoRestore
<1>6. CASE CompleteEnded \/ DismissSummary
  BY <1>6 DEF CompleteEnded, DismissSummary, NoView, Broadcast
<1>7. CASE CompleteInPip
  BY <1>7 DEF CompleteInPip, Broadcast
<1>8. QED
  BY <1>1, <1>2, <1>3, <1>4, <1>5, <1>6, <1>7 DEF Next, PanelNext

LEMMA StepOwed == TypeOK /\ ClosedInv /\ OwedInv /\ [Next]_vars => OwedInv'
<1> SUFFICES ASSUME TypeOK, ClosedInv, OwedInv, [Next]_vars PROVE OwedInv'
  OBVIOUS
<1> USE DEF TypeOK, ItemState, OwedInv, viewVars, wrapupVars
<1>1. CASE WorkerNext /\ UNCHANGED <<viewVars, wrapupVars>>
  BY <1>1, WorkerKeepsListening
<1>2. CASE UNCHANGED vars
  BY <1>2 DEF vars, workerVars, panelVars
<1>3. CASE OpenPanel
  BY <1>3 DEF OpenPanel
<1>4. CASE ClosePanel
  BY <1>4 DEF ClosePanel
<1>5. CASE CurrentCallAnswered \/ DismissSummary \/ CompleteInPip
  BY <1>5 DEF CurrentCallAnswered, DismissSummary, CompleteInPip
<1>6. CASE Receive
  BY <1>6 DEF Receive, ClosedInv, AllCompleted
<1>7. CASE QueueEnded
  BY <1>7 DEF QueueEnded, ClosedInv, NoView, MaybeCall
<1>8. CASE RestoreQueue
  BY <1>8 DEF RestoreQueue, ClosedInv, NoRestore
<1>9. CASE PersistQueue
  BY <1>9 DEF PersistQueue
<1>10. ASSUME NEW c \in Calls, CompleteItem(c) PROVE OwedInv'
  BY <1>10 DEF CompleteItem
<1>11. CASE CompleteEnded
  BY <1>11 DEF CompleteEnded, MaybeCall
<1>12. QED
  BY <1>1, <1>2, <1>3, <1>4, <1>5, <1>6, <1>7, <1>8, <1>9, <1>10, <1>11 DEF Next, PanelNext

\* WrapupKept for any calls.
THEOREM WrapupAlwaysKept == Spec => []WrapupKept
<1>1. OwedInv => WrapupKept
  BY DEF OwedInv, WrapupKept
<1>2. QED
  BY <1>1, InitTyped, StepTyped, InitClosed, StepClosed, StepOwed, PTL DEF Spec

-----------------------------------------------------------------------------
(* The panel shows the call of the worker.  The last message on its way    *)
(* that tells of a call leads the panel to the call of the worker; if      *)
(* there is none, the panel shows it already.                              *)

Tells(m) == m.type \in {"create", "hangup", "current"}

Said(m) == IF m.type = "hangup" THEN None ELSE m.call

\* Whoever shows a call and handles the messages of box shows x in the end.
Leads(box, shown, x) ==
    \/ \E i \in 1 .. Len(box) :
          /\ Tells(box[i]) /\ Said(box[i]) = x
          /\ \A j \in 1 .. Len(box) : j > i => ~Tells(box[j])
    \/ shown = x /\ \A i \in 1 .. Len(box) : ~Tells(box[i])

ShowInv == listening /\ ~untold => Leads(inbox, view.call, call) \/ (asked /\ call # None)

LEMMA LeadsTelling ==
    ASSUME NEW box \in Seq(Message), NEW m \in Message, Tells(m), NEW shown
    PROVE  Leads(Append(box, m), shown, Said(m))
<1> DEFINE longer == Append(box, m)
<1>1. Len(longer) \in Nat \ {0} /\ longer[Len(longer)] = m
  OBVIOUS
<1> HIDE DEF longer
<1>2. Leads(longer, shown, Said(m))
  BY <1>1 DEF Leads
<1>3. QED
  BY <1>2 DEF longer

LEMMA LeadsSilent ==
    ASSUME NEW box \in Seq(Message), NEW m \in Message, ~Tells(m), NEW shown, NEW x,
           Leads(box, shown, x)
    PROVE  Leads(Append(box, m), shown, x)
<1> DEFINE longer == Append(box, m)
<1>1. /\ Len(box) \in Nat /\ Len(longer) = Len(box) + 1 /\ longer[Len(longer)] = m
      /\ \A i \in 1 .. Len(box) : longer[i] = box[i]
  OBVIOUS
<1> HIDE DEF longer
<1>2. Leads(longer, shown, x)
  BY <1>1 DEF Leads
<1>3. QED
  BY <1>2 DEF longer

LEMMA LeadsTail ==
    ASSUME NEW box \in Seq(Message), box # <<>>, NEW shown, NEW x, Leads(box, shown, x)
    PROVE  Leads(Tail(box), IF Tells(Head(box)) THEN Said(Head(box)) ELSE shown, x)
<1> DEFINE rest == Tail(box)
           next == IF Tells(Head(box)) THEN Said(Head(box)) ELSE shown
<1>1. /\ Len(box) \in Nat \ {0} /\ Len(rest) = Len(box) - 1 /\ Head(box) = box[1]
      /\ \A i \in 1 .. Len(rest) : rest[i] = box[i + 1]
  OBVIOUS
<1>2. \A i \in 1 .. Len(box) : i = 1 \/ (i - 1 \in 1 .. Len(rest) /\ box[i] = rest[i - 1])
  BY <1>1
<1> HIDE DEF rest
<1>3. CASE \E i \in 1 .. Len(box) :
              /\ Tells(box[i]) /\ Said(box[i]) = x
              /\ \A j \in 1 .. Len(box) : j > i => ~Tells(box[j])
  <2>1. PICK i \in 1 .. Len(box) :
              /\ Tells(box[i]) /\ Said(box[i]) = x
              /\ \A j \in 1 .. Len(box) : j > i => ~Tells(box[j])
    BY <1>3
  <2>2. CASE i = 1
    BY <1>1, <2>1, <2>2 DEF Leads
  <2>3. CASE i # 1
    <3>1. i - 1 \in 1 .. Len(rest) /\ Tells(rest[i - 1]) /\ Said(rest[i - 1]) = x
      BY <1>2, <2>1, <2>3
    <3>2. \A j \in 1 .. Len(rest) : j > i - 1 => ~Tells(rest[j])
      BY <1>1, <2>1
    <3>3. \E k \in 1 .. Len(rest) :
              /\ Tells(rest[k]) /\ Said(rest[k]) = x
              /\ \A j \in 1 .. Len(rest) : j > k => ~Tells(rest[j])
      BY <3>1, <3>2, Zenon
    <3>4. QED
      BY <3>3, Zenon DEF Leads, rest
  <2>4. QED
    BY <2>2, <2>3 DEF rest
<1>4. CASE shown = x /\ \A i \in 1 .. Len(box) : ~Tells(box[i])
  BY <1>1, <1>4 DEF Leads, rest
<1>5. QED
  BY <1>3, <1>4 DEF Leads

\* What the worker does to its call it tells the panel, or else it is untold.
LEMMA WorkerTells ==
    ASSUME TypeOK, WorkerNext
    PROVE  \/ UNCHANGED inbox /\ (untold' \/ (~untold /\ UNCHANGED call))
           \/ \E m \in Message : Tells(m) /\ Said(m) = call' /\ Broadcast(m)
           \/ \E m \in Message : ~Tells(m) /\ Broadcast(m) /\ UNCHANGED <<call, untold>>
<1> USE DEF storageVars, startVars, linkVars, timerVars, panelVars, userVars
<1>1. CASE SocketOpens \/ SocketDrops \/ SocketReplaced \/ TimerFires \/ Alarm
  BY <1>1 DEF SocketOpens, SocketDrops, SocketReplaced, TimerFires, Alarm, LinkOnly
<1>2. CASE Stop \/ Wake \/ ReadSync \/ ReadLocal
  BY <1>2 DEF Stop, Wake, ReadSync, ReadLocal
<1>3. CASE TokenChanged \/ LoginAccepted \/ ClearActiveCall \/ SaveSession
  BY <1>3 DEF TokenChanged, LoginAccepted, ClearActiveCall, SaveSession
<1>4. CASE LogoutStores \/ LogoutMessage \/ SessionEnded
  BY <1>4 DEF LogoutStores, LogoutMessage, SessionEnded
<1>5. ASSUME NEW c \in Calls, CallCreate(c)
      PROVE  \/ UNCHANGED inbox /\ (untold' \/ (~untold /\ UNCHANGED call))
             \/ \E m \in Message : Tells(m) /\ Said(m) = call' /\ Broadcast(m)
  <2>1. CASE Heard /\ call # c
    <3>1. Broadcast([type |-> "create", call |-> c]) /\ call' = c
      BY <1>5, <2>1 DEF CallCreate
    <3>2. QED
      BY <3>1, MessageTypes DEF Tells, Said
  <2>2. CASE ~(Heard /\ call # c)
    BY <1>5, <2>2 DEF CallCreate
  <2>3. QED
    BY <2>1, <2>2
<1>6. ASSUME NEW c \in Calls, CallHangup(c)
      PROVE  \/ UNCHANGED inbox /\ (untold' \/ (~untold /\ UNCHANGED call))
             \/ \E m \in Message : Tells(m) /\ Said(m) = call' /\ Broadcast(m)
  <2>1. CASE Heard /\ call = c
    <3>1. Broadcast([type |-> "hangup", call |-> c]) /\ call' = None
      BY <1>6, <2>1 DEF CallHangup
    <3>2. QED
      BY <3>1, MessageTypes DEF Tells, Said
  <2>2. CASE ~(Heard /\ call = c)
    BY <1>6, <2>2 DEF CallHangup
  <2>3. QED
    BY <2>1, <2>2
<1>7. CASE \E c \in Calls : CallProgress(c) \/ Transcription(c)
  BY <1>7 DEF CallProgress, Transcription
<1>8. CASE SummaryAnswer \/ SummaryTimeout
  <2>1. Broadcast([type |-> "answer"]) /\ UNCHANGED <<call, untold>>
    BY <1>8 DEF SummaryAnswer, SummaryTimeout
  <2>2. QED
    BY <2>1, MessageTypes DEF Tells
<1>9. CASE PersistCall
  BY <1>9 DEF PersistCall
<1>10. QED
  BY <1>1, <1>2, <1>3, <1>4, <1>5, <1>6, <1>7, <1>8, <1>9 DEF WorkerNext

LEMMA InitShow == Init => ShowInv
BY DEF Init, WorkerInit, ShowInv

LEMMA StepShow == TypeOK /\ ClosedInv /\ ShowInv /\ [Next]_vars => ShowInv'
<1> SUFFICES ASSUME TypeOK, ClosedInv, ShowInv, [Next]_vars, listening', ~untold'
             PROVE  Leads(inbox', view'.call, call') \/ (asked' /\ call' # None)
  BY DEF ShowInv
<1> USE DEF PanelOnly, viewVars, wrapupVars
<1>0. inbox \in Seq(Message)
  BY DEF TypeOK, WorkerTyped
<1>1. CASE WorkerNext /\ UNCHANGED <<viewVars, wrapupVars>>
  <2>1. listening /\ UNCHANGED <<view, asked>>
    BY <1>1, WorkerKeepsListening
  <2>2. CASE UNCHANGED inbox /\ (untold' \/ (~untold /\ UNCHANGED call))
    BY <2>1, <2>2 DEF ShowInv
  <2>3. ASSUME NEW m \in Message, Tells(m), Said(m) = call', Broadcast(m)
        PROVE  Leads(inbox', view'.call, call')
    BY <1>0, <2>1, <2>3, LeadsTelling DEF Broadcast
  <2>4. ASSUME NEW m \in Message, ~Tells(m), Broadcast(m), UNCHANGED <<call, untold>>
        PROVE  Leads(inbox', view'.call, call') \/ (asked' /\ call' # None)
    BY <1>0, <2>1, <2>4, LeadsSilent DEF Broadcast, ShowInv
  <2>5. QED
    BY <1>1, <2>2, <2>3, <2>4, WorkerTells
<1>2. CASE UNCHANGED vars
  BY <1>2 DEF vars, workerVars, panelVars, ShowInv
<1>3. CASE OpenPanel
  BY <1>3 DEF OpenPanel, ClosedInv, NoView, Leads
<1>4. CASE ClosePanel
  BY <1>4 DEF ClosePanel
<1>5. CASE CurrentCallAnswered
  <2>1. UNCHANGED <<listening, view, call>>
    BY <1>5 DEF CurrentCallAnswered
  <2>2. CASE call = None
    <3>1. UNCHANGED inbox
      BY <1>5, <2>2 DEF CurrentCallAnswered
    <3>2. ~untold
      BY <1>5, <2>2, Zenon DEF CurrentCallAnswered
    <3>3. QED
      BY <2>1, <2>2, <3>1, <3>2 DEF ShowInv
  <2>3. CASE call # None
    <3>1. [type |-> "current", call |-> call] \in Message
      BY <2>3, MessageTypes DEF TypeOK, WorkerTyped, MaybeCall
    <3>2. inbox' = Append(inbox, [type |-> "current", call |-> call])
      BY <1>5, <2>1, <2>3 DEF CurrentCallAnswered, Broadcast
    <3>3. Leads(inbox', view.call, call)
      BY <1>0, <3>1, <3>2, LeadsTelling DEF Tells, Said
    <3>4. QED
      BY <2>1, <3>3
  <2>4. QED
    BY <2>2, <2>3
<1>6. CASE Receive
  <2>1. inbox # <<>> /\ inbox' = Tail(inbox) /\ view' = ViewAfter(Head(inbox))
        /\ UNCHANGED <<listening, untold, asked, call>>
    BY <1>6 DEF Receive
  <2>2. Head(inbox) \in Message
    BY <1>0, <2>1
  <2>3. view'.call = IF Tells(Head(inbox)) THEN Said(Head(inbox)) ELSE view.call
    BY <2>1, <2>2, MessageTypes DEF ViewAfter, Tells, Said, TypeOK
  <2>4. QED
    BY <1>0, <2>1, <2>3, LeadsTail DEF ShowInv
<1>7. CASE QueueEnded \/ RestoreQueue \/ PersistQueue \/ \E c \in Calls : CompleteItem(c)
  BY <1>7 DEF QueueEnded, RestoreQueue, PersistQueue, CompleteItem, ShowInv
<1>8. CASE CompleteEnded \/ CompleteInPip
  <2>1. /\ Broadcast([type |-> "completed"]) /\ view'.call = view.call
        /\ UNCHANGED <<listening, untold, asked, call>>
    BY <1>8 DEF CompleteEnded, CompleteInPip, TypeOK
  <2>2. QED
    BY <1>0, <2>1, LeadsSilent, MessageTypes DEF Broadcast, Tells, ShowInv
<1>9. CASE DismissSummary
  BY <1>9 DEF DismissSummary, TypeOK, ShowInv
<1>10. QED
  BY <1>1, <1>2, <1>3, <1>4, <1>5, <1>6, <1>7, <1>8, <1>9 DEF Next, PanelNext

\* PanelAgrees for any calls and any number of messages on their way.
THEOREM PanelAlwaysAgrees == Spec => []PanelAgrees
<1>1. ShowInv => PanelAgrees
  BY DEF ShowInv, Leads, PanelAgrees
<1>2. QED
  BY <1>1, InitTyped, StepTyped, InitClosed, StepClosed, InitShow, StepShow, PTL DEF Spec

-----------------------------------------------------------------------------
(* The panel does not wait in vain.  Unless the timer of the worker runs,  *)
(* the wait that is shown, and the one that any message on its way begins, *)
(* is ended by a later message.                                            *)

Ends(m) == m.type \in {"create", "answer", "completed"}

Relieved(box, loading) ==
    /\ loading => \E j \in 1 .. Len(box) : Ends(box[j])
    /\ \A i \in 1 .. Len(box) : box[i].type = "hangup" =>
          \E j \in 1 .. Len(box) : j > i /\ Ends(box[j])

WaitInv == stops = 0 => summary \/ Relieved(inbox, view.loading)

LEMMA RelievedByEnd ==
    ASSUME NEW box \in Seq(Message), NEW m \in Message, Ends(m), NEW loading
    PROVE  Relieved(Append(box, m), loading)
<1> DEFINE longer == Append(box, m)
<1>1. /\ Len(longer) \in Nat \ {0} /\ longer[Len(longer)] = m
  OBVIOUS
<1> HIDE DEF longer
<1>2. Ends(longer[Len(longer)]) /\ longer[Len(longer)].type # "hangup"
  BY <1>1 DEF Ends
<1>3. \A i \in 1 .. Len(longer) : longer[i].type = "hangup" => Len(longer) > i
  BY <1>1, <1>2
<1>4. Len(longer) \in 1 .. Len(longer)
  BY <1>1
<1>5. Relieved(longer, loading)
  BY <1>2, <1>3, <1>4 DEF Relieved
<1>6. QED
  BY <1>5 DEF longer

LEMMA RelievedLonger ==
    ASSUME NEW box \in Seq(Message), NEW m \in Message, m.type # "hangup", NEW loading,
           Relieved(box, loading)
    PROVE  Relieved(Append(box, m), loading)
<1> DEFINE longer == Append(box, m)
<1>1. /\ Len(box) \in Nat /\ Len(longer) = Len(box) + 1 /\ longer[Len(longer)] = m
      /\ \A i \in 1 .. Len(box) : longer[i] = box[i]
  OBVIOUS
<1> HIDE DEF longer
<1>2. \A i \in 1 .. Len(longer) : longer[i].type = "hangup" =>
          i \in 1 .. Len(box) /\ box[i].type = "hangup"
  BY <1>1
<1>3. Relieved(longer, loading)
  BY <1>1, <1>2 DEF Relieved
<1>4. QED
  BY <1>3 DEF longer

\* Handling a message: a hangup begins the wait, an end ends it.
LEMMA RelievedTail ==
    ASSUME NEW box \in Seq(Message), box # <<>>, NEW loading, Relieved(box, loading), NEW next,
           next => Head(box).type = "hangup" \/ (loading /\ ~Ends(Head(box)))
    PROVE  Relieved(Tail(box), next)
<1> DEFINE rest == Tail(box)
<1>1. /\ Len(box) \in Nat \ {0} /\ Len(rest) = Len(box) - 1 /\ Head(box) = box[1]
      /\ \A i \in 1 .. Len(rest) : rest[i] = box[i + 1]
  OBVIOUS
<1>2. \A i \in 1 .. Len(box) : i > 1 => (i - 1 \in 1 .. Len(rest) /\ box[i] = rest[i - 1])
  BY <1>1
<1> HIDE DEF rest
<1>3. ASSUME next PROVE \E j \in 1 .. Len(rest) : Ends(rest[j])
  <2>1. PICK j \in 1 .. Len(box) : Ends(box[j]) /\ j > 1
    <3>1. CASE box[1].type = "hangup"
      BY <1>1, <3>1 DEF Relieved
    <3>2. CASE loading /\ ~Ends(box[1])
      <4>1. PICK j \in 1 .. Len(box) : Ends(box[j])
        BY <3>2 DEF Relieved
      <4>2. j # 1
        BY <3>2, <4>1
      <4>3. QED
        BY <1>1, <4>1, <4>2
    <3>3. QED
      BY <1>1, <1>3, <3>1, <3>2
  <2>2. QED
    BY <1>2, <2>1
<1>4. ASSUME NEW i \in 1 .. Len(rest), rest[i].type = "hangup"
      PROVE  \E j \in 1 .. Len(rest) : j > i /\ Ends(rest[j])
  <2>1. i + 1 \in 1 .. Len(box) /\ box[i + 1].type = "hangup"
    BY <1>1, <1>4
  <2>2. PICK j \in 1 .. Len(box) : j > i + 1 /\ Ends(box[j])
    BY <2>1 DEF Relieved
  <2>3. j - 1 \in 1 .. Len(rest) /\ j - 1 > i /\ Ends(rest[j - 1])
    BY <1>1, <1>2, <2>2
  <2>4. QED
    BY <2>3
<1>5. QED
  BY <1>3, <1>4 DEF Relieved, rest

\* The worker stops its timer only with a word to the panel, and begins a wait
\* only with its timer.
LEMMA WorkerTimes ==
    ASSUME TypeOK, WorkerNext
    PROVE  \/ stops' # 0
           \/ UNCHANGED <<stops, inbox, summary>>
           \/ UNCHANGED stops /\ \E m \in Message : Ends(m) /\ Broadcast(m)
           \/ summary'
<1> USE DEF storageVars, startVars, linkVars, timerVars, panelVars, userVars
<1>1. CASE SocketOpens \/ SocketDrops \/ SocketReplaced \/ TimerFires \/ Alarm
  BY <1>1 DEF SocketOpens, SocketDrops, SocketReplaced, TimerFires, Alarm, LinkOnly
<1>2. CASE Stop
  BY <1>2 DEF Stop, TypeOK, WorkerTyped
<1>3. CASE Wake \/ ReadSync \/ ReadLocal
  BY <1>3 DEF Wake, ReadSync, ReadLocal
<1>4. CASE TokenChanged \/ LoginAccepted \/ ClearActiveCall \/ SaveSession
  BY <1>4 DEF TokenChanged, LoginAccepted, ClearActiveCall, SaveSession
<1>5. CASE LogoutStores \/ LogoutMessage \/ SessionEnded
  BY <1>5 DEF LogoutStores, LogoutMessage, SessionEnded
<1>6. ASSUME NEW c \in Calls, CallCreate(c)
      PROVE  \/ UNCHANGED <<stops, inbox, summary>>
             \/ UNCHANGED stops /\ \E m \in Message : Ends(m) /\ Broadcast(m)
  <2>1. CASE Heard /\ call # c
    <3>1. Broadcast([type |-> "create", call |-> c]) /\ UNCHANGED stops
      BY <1>6, <2>1 DEF CallCreate
    <3>2. QED
      BY <3>1, MessageTypes DEF Ends
  <2>2. CASE ~(Heard /\ call # c)
    BY <1>6, <2>2 DEF CallCreate
  <2>3. QED
    BY <2>1, <2>2
<1>7. ASSUME NEW c \in Calls, CallHangup(c) PROVE UNCHANGED <<stops, inbox, summary>> \/ summary'
  BY <1>7 DEF CallHangup
<1>8. CASE \E c \in Calls : CallProgress(c) \/ Transcription(c)
  BY <1>8 DEF CallProgress, Transcription
<1>9. CASE SummaryAnswer \/ SummaryTimeout
  <2>1. Broadcast([type |-> "answer"]) /\ UNCHANGED stops
    BY <1>9 DEF SummaryAnswer, SummaryTimeout
  <2>2. QED
    BY <2>1, MessageTypes DEF Ends
<1>10. CASE PersistCall
  BY <1>10 DEF PersistCall
<1>11. QED
  BY <1>1, <1>2, <1>3, <1>4, <1>5, <1>6, <1>7, <1>8, <1>9, <1>10 DEF WorkerNext

LEMMA InitWait == Init => WaitInv
BY DEF Init, WorkerInit, WaitInv, Relieved, NoView

LEMMA StepWait == TypeOK /\ ClosedInv /\ WaitInv /\ [Next]_vars => WaitInv'
<1> SUFFICES ASSUME TypeOK, ClosedInv, WaitInv, [Next]_vars, stops' = 0, ~summary'
             PROVE  Relieved(inbox', view'.loading)
  BY DEF WaitInv
<1> USE DEF PanelOnly, viewVars, wrapupVars, timerVars
<1>0. inbox \in Seq(Message)
  BY DEF TypeOK, WorkerTyped
<1>1. CASE WorkerNext /\ UNCHANGED <<viewVars, wrapupVars>>
  <2>1. UNCHANGED <<listening, view>> /\ (~listening => inbox' = inbox)
    BY <1>1, WorkerKeepsListening
  <2>2. CASE UNCHANGED <<stops, inbox, summary>>
    BY <2>1, <2>2 DEF WaitInv
  <2>3. ASSUME NEW m \in Message, Ends(m), Broadcast(m) PROVE Relieved(inbox', view'.loading)
    <3>1. CASE listening
      BY <1>0, <2>1, <2>3, <3>1, RelievedByEnd DEF Broadcast
    <3>2. CASE ~listening
      BY <2>1, <3>2 DEF ClosedInv, NoView, Relieved
    <3>3. QED
      BY <3>1, <3>2
  <2>4. QED
    BY <1>1, <2>2, <2>3, WorkerTimes
<1>2. CASE UNCHANGED vars
  BY <1>2 DEF vars, workerVars, panelVars, WaitInv
<1>3. CASE OpenPanel
  BY <1>3 DEF OpenPanel, WaitInv
<1>4. CASE ClosePanel
  BY <1>4 DEF ClosePanel, NoView, Relieved
<1>5. CASE CurrentCallAnswered
  <2>1. UNCHANGED <<view, stops, summary>> /\ Relieved(inbox, view.loading)
    BY <1>5 DEF CurrentCallAnswered, WaitInv
  <2>2. CASE call = None \/ ~listening
    BY <1>5, <2>1, <2>2 DEF CurrentCallAnswered, Broadcast
  <2>3. CASE call # None /\ listening
    <3>1. [type |-> "current", call |-> call] \in Message
      BY <2>3, MessageTypes DEF TypeOK, WorkerTyped, MaybeCall
    <3>2. inbox' = Append(inbox, [type |-> "current", call |-> call])
      BY <1>5, <2>3 DEF CurrentCallAnswered, Broadcast
    <3>3. QED
      BY <1>0, <2>1, <3>1, <3>2, RelievedLonger
  <2>4. QED
    BY <2>2, <2>3
<1>6. CASE Receive
  <2>1. /\ inbox # <<>> /\ inbox' = Tail(inbox) /\ view' = ViewAfter(Head(inbox))
        /\ Relieved(inbox, view.loading)
    BY <1>6 DEF Receive, WaitInv
  <2>2. Head(inbox) \in Message
    BY <1>0, <2>1
  <2>3. view'.loading => Head(inbox).type = "hangup" \/ (view.loading /\ ~Ends(Head(inbox)))
    BY <2>1, <2>2, MessageTypes DEF ViewAfter, Ends, TypeOK
  <2>4. QED
    BY <1>0, <2>1, <2>3, RelievedTail
<1>7. CASE QueueEnded \/ RestoreQueue \/ PersistQueue \/ \E c \in Calls : CompleteItem(c)
  BY <1>7 DEF QueueEnded, RestoreQueue, PersistQueue, CompleteItem, WaitInv
<1>8. CASE CompleteEnded \/ CompleteInPip
  <2>1. Broadcast([type |-> "completed"]) /\ UNCHANGED listening
    BY <1>8 DEF CompleteEnded, CompleteInPip
  <2>2. CASE listening
    BY <1>0, <2>1, <2>2, RelievedByEnd, MessageTypes DEF Broadcast, Ends
  <2>3. CASE ~listening
    BY <1>8, <2>1, <2>3 DEF CompleteEnded, CompleteInPip, ClosedInv, NoView, Broadcast, Relieved
  <2>4. QED
    BY <2>2, <2>3
<1>9. CASE DismissSummary
  BY <1>9 DEF DismissSummary, TypeOK, WaitInv, Relieved
<1>10. QED
  BY <1>1, <1>2, <1>3, <1>4, <1>5, <1>6, <1>7, <1>8, <1>9 DEF Next, PanelNext

\* WaitIsTimed for any calls: a wait that the panel shows has an end.
THEOREM WaitAlwaysTimed == Spec => []WaitIsTimed
<1>1. WaitInv => WaitIsTimed
  BY DEF WaitInv, Relieved, Ends, WaitIsTimed
<1>2. QED
  BY <1>1, InitTyped, StepTyped, InitClosed, StepClosed, InitWait, StepWait, PTL DEF Spec

=============================================================================
