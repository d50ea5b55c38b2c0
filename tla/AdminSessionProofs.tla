-------------------------- MODULE AdminSessionProofs --------------------------
(***************************************************************************)
(* The safety properties of the session of the web interface, for any set  *)
(* of requests, any number of tokens and any number of attempts.  Each is  *)
(* inductive with the types, but the last: that a sign-out lasts rests on  *)
(* there being no renewal in flight that could bring a token back, and on  *)
(* isRefreshing telling of every one that a request has started.           *)
(***************************************************************************)
EXTENDS AdminSession, TLAPS

\* The state of a page that the user has left by signing out.
SignedOutQuiet ==
    signedOut /\ ~lateRenewal =>
        /\ local = EmptyStore /\ session = EmptyStore
        /\ token = 0
        /\ ~renewal /\ ~isRefreshing

Inv == TypeOK /\ QueueServed /\ ConnectionFollowsSession /\ SignedOutQuiet

-----------------------------------------------------------------------------
LEMMA PairType ==
    ASSUME NEW n \in Token, NEW user \in BOOLEAN
    PROVE  Pair(n, user) \in Store
  BY DEF Pair, Store

LEMMA EmptyType == EmptyStore \in Store /\ Idle \in Request /\ NoSocket \in Socket
  BY TokenAssumption DEF EmptyStore, Store, Idle, Request, NoSocket, Socket, Token

LEMMA StoredType ==
    ASSUME NEW l \in Store, NEW s \in Store
    PROVE  StoredAccess(l, s) \in Token /\ StoredRefresh(l, s) \in Token
  BY DEF StoredAccess, StoredRefresh, Store

LEMMA ConnectingType ==
    ASSUME NEW t \in Token
    PROVE  Connecting(t) \in Socket
  BY DEF Connecting, Socket

\* The types of what FollowToken sets, and that the connection follows.
LEMMA FollowTokenStep ==
    ASSUME NEW t \in Token, FollowToken(t), stale \in BOOLEAN, attempts \in 0 .. MaxAttempts,
           token' = t
    PROVE  /\ sock' \in Socket /\ stale' \in BOOLEAN /\ connected' \in BOOLEAN
           /\ timer' \in BOOLEAN /\ attempts' \in 0 .. MaxAttempts
           /\ ConnectionFollowsSession'
<1>1. sock' \in Socket
  BY EmptyType, ConnectingType DEF FollowToken
<1>2. ConnectionFollowsSession'
  BY DEF FollowToken, ConnectionFollowsSession, Connecting, NoSocket
<1>3. QED
  BY <1>1, <1>2 DEF FollowToken

\* Of what a load of the page sets, whatever is stored.
LEMMA LoadPageStep ==
    ASSUME local \in Store, session \in Store, NEW where \in {"login", "app"},
           LoadPage(local, session, where)
    PROVE  /\ path' \in {"login", "app"} /\ leaving' \in BOOLEAN /\ renewal' \in BOOLEAN
           /\ token' \in Token
           /\ isRefreshing' = FALSE /\ failedQueue' = {} /\ req' \in [Requests -> Request]
           /\ sock' \in Socket /\ stale' \in BOOLEAN /\ connected' \in BOOLEAN
           /\ timer' \in BOOLEAN /\ attempts' \in 0 .. MaxAttempts
           /\ QueueServed' /\ ConnectionFollowsSession'
           /\ local = EmptyStore /\ session = EmptyStore => token' = 0 /\ ~renewal'
<1> DEFINE restored == StoredAccess(local, session) # 0 /\ (local.user \/ session.user)
           renews == ~restored /\ StoredRefresh(local, session) # 0
<1>1. /\ token' = IF restored THEN StoredAccess(local, session) ELSE 0
      /\ renewal' = renews
      /\ path' = IF restored \/ renews THEN where ELSE "login"
      /\ leaving' = FALSE /\ isRefreshing' = FALSE /\ failedQueue' = {}
      /\ req' = [r \in Requests |-> Idle]
      /\ sock' = IF token' # 0 THEN Connecting(token') ELSE NoSocket
      /\ stale' = FALSE /\ connected' = FALSE /\ timer' = FALSE /\ attempts' = 0
  BY DEF LoadPage
<1>2. token' \in Token
  BY <1>1, StoredType, TokenAssumption DEF Token
<1>3. sock' \in Socket
  BY <1>1, <1>2, EmptyType, ConnectingType
<1>4. attempts' \in 0 .. MaxAttempts
  BY <1>1, AttemptsAssumption
<1>5. req' \in [Requests -> Request]
  BY <1>1, EmptyType
<1>6. QueueServed'
  BY <1>1 DEF QueueServed, Refreshing, Idle
<1>7. ConnectionFollowsSession'
  BY <1>1 DEF ConnectionFollowsSession, Connecting, NoSocket
<1>8. local = EmptyStore /\ session = EmptyStore => token' = 0 /\ ~renewal'
  <2>1. StoredAccess(EmptyStore, EmptyStore) = 0 /\ StoredRefresh(EmptyStore, EmptyStore) = 0
    BY DEF StoredAccess, StoredRefresh, EmptyStore
  <2>2. QED
    BY <1>1, <2>1
<1>9. renewal' \in BOOLEAN /\ path' \in {"login", "app"}
  BY <1>1
<1>10. QED
  BY <1>1, <1>2, <1>3, <1>4, <1>5, <1>6, <1>7, <1>8, <1>9

LEMMA InitInv == Init => Inv
<1> SUFFICES ASSUME Init PROVE Inv
  OBVIOUS
<1>1. TypeOK
  <2>1. req \in [Requests -> Request]
    BY EmptyType DEF Init
  <2>2. local \in Store /\ session \in Store /\ sock \in Socket
    BY EmptyType DEF Init
  <2>3. 0 \in Token /\ attempts \in 0 .. MaxAttempts
    BY TokenAssumption, AttemptsAssumption DEF Init, Token
  <2>4. QED
    BY <2>1, <2>2, <2>3 DEF Init, TypeOK
<1>2. QueueServed
  BY DEF Init, QueueServed, Refreshing, Idle
<1>3. ConnectionFollowsSession /\ SignedOutQuiet
  BY DEF Init, ConnectionFollowsSession, SignedOutQuiet, NoSocket
<1>4. QED
  BY <1>1, <1>2, <1>3 DEF Inv

-----------------------------------------------------------------------------
\* The actions of the page and of the socket.
LEMMA PageStep ==
    ASSUME Inv, Reload \/ Unload \/ Renewed \/ Login \/ Logout \/ SocketRefused
    PROVE  Inv'
<1>0. TypeOK /\ QueueServed /\ ConnectionFollowsSession /\ SignedOutQuiet
  BY DEF Inv
<1>1. CASE Reload \/ Unload
  <2>1. PICK where \in {"login", "app"} : LoadPage(local, session, where)
    BY <1>1 DEF Reload, Unload
  <2>2. UNCHANGED <<storeVars, serverVars, history>>
    BY <1>1 DEF Reload, Unload
  <2>3. local \in Store /\ session \in Store
    BY <1>0 DEF TypeOK
  <2>4. TypeOK'
    BY <1>0, <2>1, <2>2, <2>3, LoadPageStep
    DEF TypeOK, storeVars, serverVars, history
  <2>5. QueueServed' /\ ConnectionFollowsSession'
    BY <2>1, <2>3, LoadPageStep
  <2>6. SignedOutQuiet'
    BY <1>0, <2>1, <2>2, <2>3, LoadPageStep DEF SignedOutQuiet, storeVars, history
  <2>7. QED
    BY <2>4, <2>5, <2>6 DEF Inv
<1>2. CASE RenewalSucceeds
  <2>1. issued' \in Token
    BY <1>0, <1>2, TokenAssumption DEF RenewalSucceeds, TypeOK, Token
  <2>2. token' = issued' /\ FollowToken(issued')
        /\ UNCHANGED <<expired, path, leaving, apiVars, history>> /\ renewal' = FALSE /\ renewal
    BY <1>2 DEF RenewalSucceeds
  <2>3. local' \in Store /\ session' \in Store
    <3>1. PICK user \in BOOLEAN :
             LET kept(st) == Pair(issued', user \/ st.user)
             IN  IF local.refresh # 0
                 THEN local' = kept(local) /\ UNCHANGED session
                 ELSE session' = kept(session) /\ UNCHANGED local
      BY <1>2 DEF RenewalSucceeds
    <3>2. local \in Store /\ session \in Store
      BY <1>0 DEF TypeOK
    <3>3. (user \/ local.user) \in BOOLEAN /\ (user \/ session.user) \in BOOLEAN
      BY <3>2 DEF Store
    <3>4. Pair(issued', user \/ local.user) \in Store /\ Pair(issued', user \/ session.user) \in Store
      BY <2>1, <3>3, PairType
    <3>5. QED
      BY <3>1, <3>2, <3>4
  <2>4. TypeOK' /\ ConnectionFollowsSession'
    BY <1>0, <2>1, <2>2, <2>3, FollowTokenStep DEF TypeOK, apiVars, history
  <2>5. QueueServed'
    BY <1>0, <2>2 DEF QueueServed, Refreshing, apiVars
  <2>6. SignedOutQuiet'
    BY <1>0, <2>2 DEF SignedOutQuiet, history
  <2>7. QED
    BY <2>4, <2>5, <2>6 DEF Inv
<1>3. CASE RenewalFails
  <2>1. TypeOK'
    BY <1>0, <1>3, EmptyType
    DEF RenewalFails, TypeOK, serverVars, apiVars, socketVars, history
  <2>2. QueueServed' /\ ConnectionFollowsSession' /\ SignedOutQuiet'
    BY <1>0, <1>3
    DEF RenewalFails, QueueServed, Refreshing, ConnectionFollowsSession, SignedOutQuiet,
        serverVars, apiVars, socketVars, history
  <2>3. QED
    BY <2>1, <2>2 DEF Inv
<1>4. CASE Login
  <2>1. issued' \in Token
    BY <1>0, <1>4, TokenAssumption DEF Login, TypeOK, Token
  <2>2. /\ token' = issued' /\ FollowToken(issued') /\ path' = "app"
        /\ signedOut' = FALSE /\ lateRenewal' = FALSE
        /\ UNCHANGED <<expired, leaving, renewal, apiVars>>
    BY <1>4 DEF Login
  <2>3. local' \in Store /\ session' \in Store
    BY <1>0, <1>4, <2>1, PairType DEF Login, TypeOK
  <2>4. TypeOK' /\ ConnectionFollowsSession'
    BY <1>0, <2>1, <2>2, <2>3, FollowTokenStep DEF TypeOK, apiVars
  <2>5. QueueServed' /\ SignedOutQuiet'
    BY <1>0, <2>2 DEF QueueServed, Refreshing, SignedOutQuiet, apiVars
  <2>6. QED
    BY <2>4, <2>5 DEF Inv
<1>5. CASE SignOut /\ UNCHANGED <<serverVars, leaving, renewal, apiVars>>
  <2>1. 0 \in Token
    BY TokenAssumption DEF Token
  <2>2. token' = 0 /\ FollowToken(0)
    BY <1>5 DEF SignOut
  <2>3. TypeOK' /\ ConnectionFollowsSession'
    BY <1>0, <1>5, <2>1, <2>2, EmptyType, FollowTokenStep
    DEF SignOut, TypeOK, serverVars, apiVars
  <2>4. QueueServed'
    BY <1>0, <1>5 DEF QueueServed, Refreshing, apiVars
  <2>5. SignedOutQuiet'
    BY <1>5 DEF SignOut, SignedOutQuiet, apiVars
  <2>6. QED
    BY <2>3, <2>4, <2>5 DEF Inv
<1>6. QED
  BY <1>1, <1>2, <1>3, <1>4, <1>5 DEF Renewed, Logout, SocketRefused

LEMMA SocketStep ==
    ASSUME Inv,
           \/ SocketOpens \/ SocketDrops \/ StaleClose \/ TimerFires
           \/ \E n \in 1 .. MaxToken : Expire(n)
    PROVE  Inv'
<1> USE DEF storeVars, serverVars, pageVars, apiVars, history
<1>0. TypeOK /\ QueueServed /\ ConnectionFollowsSession /\ SignedOutQuiet
  BY DEF Inv
<1>1. UNCHANGED <<local, session, issued, path, leaving, token, renewal, apiVars, history>>
  BY DEF SocketOpens, SocketDrops, StaleClose, TimerFires, Expire
<1>2. QueueServed' /\ SignedOutQuiet'
  BY <1>0, <1>1 DEF QueueServed, Refreshing, SignedOutQuiet
<1>3. CASE SocketOpens
  <2>1. sock' \in Socket
    BY <1>0, <1>3 DEF SocketOpens, TypeOK, Socket
  <2>2. TypeOK'
    BY <1>0, <1>3, <2>1, AttemptsAssumption DEF SocketOpens, TypeOK
  <2>3. ConnectionFollowsSession'
    BY <1>0, <1>3 DEF SocketOpens, ConnectionFollowsSession, TypeOK, Socket
  <2>4. QED
    BY <1>2, <2>2, <2>3 DEF Inv
<1>4. CASE SocketDrops
  <2>1. attempts' \in 0 .. MaxAttempts /\ timer' \in BOOLEAN
    <3>1. attempts \in 0 .. MaxAttempts /\ timer \in BOOLEAN
      BY <1>0 DEF TypeOK
    <3>2. CASE attempts < MaxAttempts
      BY <1>4, <3>1, <3>2, AttemptsAssumption DEF SocketDrops
    <3>3. CASE ~(attempts < MaxAttempts)
      BY <1>4, <3>1, <3>3 DEF SocketDrops
    <3>4. QED
      BY <3>2, <3>3
  <2>2. TypeOK'
    BY <1>0, <1>4, <2>1, EmptyType DEF SocketDrops, TypeOK
  <2>3. ConnectionFollowsSession'
    BY <1>0, <1>4 DEF SocketDrops, ConnectionFollowsSession, NoSocket
  <2>4. QED
    BY <1>2, <2>2, <2>3 DEF Inv
<1>5. CASE StaleClose
  BY <1>0, <1>2, <1>5 DEF StaleClose, Inv, TypeOK, ConnectionFollowsSession
<1>6. CASE TimerFires
  <2>1. TypeOK'
    BY <1>0, <1>6, ConnectingType DEF TimerFires, TypeOK
  <2>2. ConnectionFollowsSession'
    BY <1>0, <1>6 DEF TimerFires, ConnectionFollowsSession, Connecting
  <2>3. QED
    BY <1>2, <2>1, <2>2 DEF Inv
<1>7. ASSUME NEW n \in 1 .. MaxToken, Expire(n) PROVE Inv'
  BY <1>0, <1>2, <1>7 DEF Expire, Inv, TypeOK, ConnectionFollowsSession, socketVars
<1>8. QED
  BY <1>3, <1>4, <1>5, <1>6, <1>7

\* The actions of a request.
LEMMA RequestStep ==
    ASSUME Inv, NEW r \in Requests, Send(r) \/ Answered(r) \/ Refreshed(r)
    PROVE  Inv'
<1> USE DEF storeVars, serverVars, pageVars, socketVars, history
<1>0. /\ TypeOK /\ QueueServed /\ ConnectionFollowsSession /\ SignedOutQuiet
      /\ req \in [Requests -> Request]
      /\ local \in Store /\ session \in Store
  BY DEF Inv, TypeOK
<1>1. UNCHANGED <<expired, path, token, renewal, socketVars, history>>
  BY DEF Send, Answered, Refreshed, Settle, Unauthorized_Queue, Unauthorized_Refresh,
         Unauthorized_Logout, RefreshSucceeds, RefreshFails
<1>2. ConnectionFollowsSession'
  BY <1>0, <1>1 DEF ConnectionFollowsSession
<1>3. CASE Send(r)
  <2>1. req' \in [Requests -> Request]
    <3>1. StoredAccess(local, session) \in Token
      BY <1>0, StoredType
    <3>2. [pc |-> "sent", token |-> StoredAccess(local, session), retried |-> FALSE] \in Request
      BY <3>1 DEF Request
    <3>3. QED
      BY <1>0, <1>3, <3>2 DEF Send
  <2>2. TypeOK'
    BY <1>0, <1>3, <2>1 DEF Send, TypeOK
  <2>3. QueueServed'
    BY <1>0, <1>3 DEF Send, QueueServed, Refreshing
  <2>4. SignedOutQuiet'
    BY <1>0, <1>3 DEF Send, SignedOutQuiet
  <2>5. QED
    BY <1>2, <2>2, <2>3, <2>4 DEF Inv
<1>4. CASE Settle(r) \/ Unauthorized_Logout(r)
  <2>1. req' = [req EXCEPT ![r] = Idle] /\ req[r].pc = "sent"
        /\ UNCHANGED <<issued, isRefreshing, failedQueue>>
    BY <1>4 DEF Settle, Unauthorized_Logout
  <2>2. local' \in Store /\ session' \in Store /\ leaving' \in BOOLEAN
    BY <1>0, <1>4, EmptyType DEF Settle, Unauthorized_Logout, ForceLogout, TypeOK
  <2>3. TypeOK'
    BY <1>0, <1>1, <2>1, <2>2, EmptyType DEF TypeOK
  <2>4. QueueServed'
    BY <1>0, <2>1 DEF QueueServed, Refreshing, Idle
  <2>5. SignedOutQuiet'
    BY <1>0, <1>1, <1>4, <2>1 DEF Settle, Unauthorized_Logout, ForceLogout, SignedOutQuiet
  <2>6. QED
    BY <1>2, <2>3, <2>4, <2>5 DEF Inv
<1>5. CASE Unauthorized_Queue(r)
  <2>1. req' = [req EXCEPT ![r].pc = "waiting"] /\ req[r].pc = "sent" /\ isRefreshing
        /\ failedQueue' = failedQueue \union {r}
        /\ UNCHANGED <<storeVars, serverVars, pageVars, isRefreshing, socketVars, history>>
    BY <1>5 DEF Unauthorized_Queue
  <2>2. req' \in [Requests -> Request]
    BY <1>0, <2>1 DEF Request
  <2>3. TypeOK'
    BY <1>0, <2>1, <2>2 DEF TypeOK
  <2>4. QueueServed'
    BY <1>0, <2>1, <2>2 DEF QueueServed, Refreshing
  <2>5. SignedOutQuiet'
    BY <1>0, <2>1 DEF SignedOutQuiet
  <2>6. QED
    BY <1>2, <2>3, <2>4, <2>5 DEF Inv
<1>6. CASE Unauthorized_Refresh(r)
  <2>1. /\ req' = [req EXCEPT ![r] = [@ EXCEPT !.pc = "refreshing", !.retried = TRUE]]
        /\ req[r].pc = "sent" /\ ~isRefreshing /\ isRefreshing' = TRUE
        /\ StoredRefresh(local, session) # 0
        /\ UNCHANGED <<storeVars, serverVars, pageVars, failedQueue, socketVars, history>>
    BY <1>6 DEF Unauthorized_Refresh
  <2>2. req' \in [Requests -> Request] /\ req'[r].pc = "refreshing"
        /\ \A q \in Requests : q # r => req'[q] = req[q]
    BY <1>0, <2>1 DEF Request
  <2>3. TypeOK'
    BY <1>0, <2>1, <2>2 DEF TypeOK
  <2>4. QueueServed'
    BY <1>0, <2>1, <2>2 DEF QueueServed, Refreshing
  <2>5. SignedOutQuiet'
    BY <1>0, <2>1 DEF SignedOutQuiet, StoredRefresh, EmptyStore
  <2>6. QED
    BY <1>2, <2>3, <2>4, <2>5 DEF Inv
<1>7. CASE RefreshSucceeds(r)
  <2>1. issued' \in Token
    BY <1>0, <1>7, TokenAssumption DEF RefreshSucceeds, TypeOK, Token
  <2>2. local.user \in BOOLEAN /\ session.user \in BOOLEAN
    BY <1>0 DEF Store
  <2>3. local' \in Store /\ session' \in Store
    BY <1>0, <1>7, <2>1, <2>2, PairType DEF RefreshSucceeds
  <2>4. /\ req' = [q \in Requests |->
                      IF q = r \/ q \in failedQueue
                      THEN [pc |-> "sent", token |-> StoredAccess(local', session'),
                            retried |-> req[q].retried]
                      ELSE req[q]]
        /\ failedQueue' = {} /\ isRefreshing' = FALSE
        /\ req[r].pc = "refreshing"
        /\ UNCHANGED <<expired, pageVars, socketVars, history>>
    BY <1>7 DEF RefreshSucceeds
  <2>5. req' \in [Requests -> Request]
    <3>1. StoredAccess(local', session') \in Token
      BY <2>3, StoredType
    <3>2. ASSUME NEW q \in Requests
          PROVE  [pc |-> "sent", token |-> StoredAccess(local', session'),
                  retried |-> req[q].retried] \in Request
      BY <1>0, <3>1 DEF Request
    <3>3. QED
      BY <1>0, <2>4, <3>2
  <2>6. TypeOK'
    BY <1>0, <2>1, <2>3, <2>4, <2>5 DEF TypeOK
  <2>7. QueueServed'
    BY <1>0, <2>4 DEF QueueServed, Refreshing
  <2>8. SignedOutQuiet'
    BY <1>0, <2>4 DEF SignedOutQuiet, QueueServed, Refreshing
  <2>9. QED
    BY <1>2, <2>6, <2>7, <2>8 DEF Inv
<1>8. CASE RefreshFails(r)
  <2>1. /\ req' = [q \in Requests |-> IF q = r \/ q \in failedQueue THEN Idle ELSE req[q]]
        /\ failedQueue' = {} /\ isRefreshing' = FALSE /\ req[r].pc = "refreshing"
        /\ local' = EmptyStore /\ session' = EmptyStore
        /\ leaving' = (leaving \/ path # "login") /\ UNCHANGED <<issued, expired>>
    BY <1>8 DEF RefreshFails, ForceLogout
  <2>2. req' \in [Requests -> Request]
    BY <1>0, <2>1, EmptyType
  <2>3. TypeOK'
    BY <1>0, <1>1, <2>1, <2>2, EmptyType DEF TypeOK
  <2>4. QueueServed'
    BY <1>0, <2>1 DEF QueueServed, Refreshing, Idle
  <2>5. SignedOutQuiet'
    BY <1>0, <1>1, <2>1 DEF SignedOutQuiet
  <2>6. QED
    BY <1>2, <2>3, <2>4, <2>5 DEF Inv
<1>9. QED
  BY <1>3, <1>4, <1>5, <1>6, <1>7, <1>8 DEF Answered, Refreshed

LEMMA NextInv == Inv /\ [Next]_vars => Inv'
<1>1. ASSUME Inv, UNCHANGED vars PROVE Inv'
  BY <1>1
  DEF Inv, TypeOK, QueueServed, Refreshing, ConnectionFollowsSession, SignedOutQuiet, vars,
      storeVars, serverVars, pageVars, apiVars, socketVars, history
<1>2. QED
  BY <1>1, PageStep, SocketStep, RequestStep DEF Next

LEMMA Invariance == Spec => []Inv
  BY InitInv, NextInv, PTL DEF Spec

-----------------------------------------------------------------------------
\* Type correctness of the session of the web interface.
THEOREM TypeCorrect == Spec => []TypeOK
  BY Invariance, PTL DEF Inv

\* The queue of the response interceptor has exactly one request that empties it.
THEOREM QueueAlwaysServed == Spec => []QueueServed
  BY Invariance, PTL DEF Inv

\* The live connection is always the one of the session.
THEOREM ConnectionAlwaysFollows == Spec => []ConnectionFollowsSession
  BY Invariance, PTL DEF Inv

\* Without a renewal in flight a sign-out lasts until the next sign-in.
THEOREM SignOutLasts == Spec => []SignedOutStaysOut
<1>1. Inv => SignedOutStaysOut
  BY DEF Inv, SignedOutQuiet, SignedOutStaysOut
<1>2. QED
  BY Invariance, <1>1, PTL
=============================================================================
