---------------------------- MODULE AdminSession ----------------------------
(***************************************************************************)
(* The sign-in session of one tab of the web interface: the tokens of      *)
(* AuthContext.tsx in the two stores of the browser, the interceptor of    *)
(* api.ts that renews an expired token once for all the requests that hit  *)
(* it, and the one live connection of WebSocketContext.tsx, opened and     *)
(* closed with the session and reopened after a failure.                   *)
(*                                                                         *)
(* Each action is one task of the browser's event loop: a handler, a timer *)
(* or the continuation of an await, with the microtasks and the effects    *)
(* that follow it.  A token is a number, 0 stands for none; the access and *)
(* the refresh token that the server issues together share one number.     *)
(* The server is external: it expires tokens, and accepts, refuses or      *)
(* never answers a renewal as it likes.                                    *)
(***************************************************************************)
EXTENDS Naturals, FiniteSets

CONSTANTS
    Requests,     \* the requests that the views may have in flight
    MaxToken,     \* bound of the model: tokens that the server issues
    MaxAttempts   \* MAX_RECONNECT_ATTEMPTS of WebSocketContext.tsx

ASSUME TokenAssumption == MaxToken \in Nat \ {0}
ASSUME AttemptsAssumption == MaxAttempts \in Nat \ {0}
ASSUME RequestAssumption == IsFiniteSet(Requests)

VARIABLES
    local,         \* localStorage: the pair of tokens and whether a user is stored
    session,       \* sessionStorage, alike
    issued,        \* tokens that the server has issued so far
    expired,       \* access tokens that the server no longer accepts
    path,          \* "login" or "app": where the tab is
    leaving,       \* a navigation to /login was started and the page still runs
    token,         \* the token in the state of AuthProvider
    renewal,       \* the renewal of the mount effect is in flight (loading)
    isRefreshing,  \* of api.ts
    failedQueue,   \* requests that wait for the renewal of another one
    req,           \* what each request is at
    sock,          \* the socket that socketRef holds, and the token it sends
    stale,         \* the close event of a socket that was replaced is to come
    connected,     \* the flag that the views read
    timer,         \* a reconnection is scheduled
    attempts,      \* reconnectAttemptsRef
    signedOut,     \* history: the user signed out and has not signed in again
    lateRenewal    \* history: a renewal was in flight at that moment

storeVars == <<local, session>>
serverVars == <<issued, expired>>
pageVars == <<path, leaving, token, renewal>>
apiVars == <<isRefreshing, failedQueue, req>>
socketVars == <<sock, stale, connected, timer, attempts>>
history == <<signedOut, lateRenewal>>
vars == <<storeVars, serverVars, pageVars, apiVars, socketVars, history>>

Token == 0 .. MaxToken
Store == [access: Token, refresh: Token, user: BOOLEAN]
Request == [pc: {"idle", "sent", "waiting", "refreshing"}, token: Token, retried: BOOLEAN]
Socket == [state: {"none", "connecting", "open"}, token: Token]

Idle == [pc |-> "idle", token |-> 0, retried |-> FALSE]
NoSocket == [state |-> "none", token |-> 0]
EmptyStore == [access |-> 0, refresh |-> 0, user |-> FALSE]

\* localStorage.getItem(...) || sessionStorage.getItem(...)
StoredAccess(l, s) == IF l.access # 0 THEN l.access ELSE s.access
StoredRefresh(l, s) == IF l.refresh # 0 THEN l.refresh ELSE s.refresh

Pair(n, user) == [access |-> n, refresh |-> n, user |-> user]

Refreshing == {r \in Requests : req[r].pc = "refreshing"}

(***************************************************************************)
(* The connection: its effect disconnects when the token changes, and      *)
(* connects again when there is one.                                       *)
(***************************************************************************)
Connecting(t) == [state |-> "connecting", token |-> t]

\* Mutant: disconnect() leaves the timer of a reconnection.
FollowTokenTimer(t) ==
    /\ sock' = IF t # 0 THEN Connecting(t) ELSE NoSocket
    /\ stale' = (stale \/ sock.state # "none")
    /\ connected' = FALSE
    /\ UNCHANGED <<timer, attempts>>

\* disconnect() followed by connect() with the new token
FollowToken(t) ==
    /\ sock' = IF t # 0 THEN Connecting(t) ELSE NoSocket
    /\ stale' = (stale \/ sock.state # "none")
    /\ connected' = FALSE
    /\ timer' = FALSE
    /\ UNCHANGED attempts

(***************************************************************************)
(* The page.  A load runs every provider afresh on what the stores hold.   *)
(***************************************************************************)
LoadPage(l, s, where) ==
    LET restored == StoredAccess(l, s) # 0 /\ (l.user \/ s.user)
        renews == ~restored /\ StoredRefresh(l, s) # 0
    IN  /\ token' = IF restored THEN StoredAccess(l, s) ELSE 0
        /\ renewal' = renews
        /\ path' = IF restored \/ renews THEN where ELSE "login"
        /\ leaving' = FALSE
        /\ isRefreshing' = FALSE
        /\ failedQueue' = {}
        /\ req' = [r \in Requests |-> Idle]
        /\ sock' = IF token' # 0 THEN Connecting(token') ELSE NoSocket
        /\ stale' = FALSE
        /\ connected' = FALSE
        /\ timer' = FALSE
        /\ attempts' = 0

\* The user opens or reloads the interface at any of its addresses.
Reload ==
    /\ \E where \in {"login", "app"} : LoadPage(local, session, where)
    /\ UNCHANGED <<storeVars, serverVars, history>>

\* The navigation that forceLogout started ends this page.
Unload ==
    /\ leaving
    /\ LoadPage(local, session, "login")
    /\ UNCHANGED <<storeVars, serverVars, history>>

\* The renewal of the mount effect is answered with a new pair.
RenewalSucceeds ==
    /\ renewal
    /\ issued < MaxToken
    /\ issued' = issued + 1
    /\ \E user \in BOOLEAN :
          LET kept(st) == Pair(issued', user \/ st.user)
          IN  IF local.refresh # 0
              THEN local' = kept(local) /\ UNCHANGED session
              ELSE session' = kept(session) /\ UNCHANGED local
    /\ token' = issued'
    /\ renewal' = FALSE
    /\ FollowToken(issued')
    /\ UNCHANGED <<expired, path, leaving, apiVars, history>>

\* It is refused, or never answered.
RenewalFails ==
    /\ renewal
    /\ local' = EmptyStore
    /\ session' = EmptyStore
    /\ renewal' = FALSE
    /\ path' = IF token = 0 THEN "login" ELSE path
    /\ UNCHANGED <<serverVars, leaving, token, apiVars, socketVars, history>>

\* The server accepted the credentials typed at /login.
Login ==
    /\ path = "login"
    /\ ~leaving
    /\ issued < MaxToken
    /\ issued' = issued + 1
    /\ \/ local' = Pair(issued', TRUE) /\ UNCHANGED session
       \/ session' = Pair(issued', TRUE) /\ UNCHANGED local
    /\ token' = issued'
    /\ path' = "app"
    /\ FollowToken(issued')
    /\ signedOut' = FALSE
    /\ lateRenewal' = FALSE
    /\ UNCHANGED <<expired, leaving, renewal, apiVars>>

\* Mutant: tokens that were kept for this tab only stay in sessionStorage.
SignOutLocal ==
    /\ local' = EmptyStore
    /\ token' = 0
    /\ path' = "login"
    /\ FollowToken(0)
    /\ signedOut' = TRUE
    /\ lateRenewal' = (renewal \/ isRefreshing)
    /\ UNCHANGED session

\* logout() of AuthContext: both stores, the state, and the connection with it.
SignOut ==
    /\ local' = EmptyStore
    /\ session' = EmptyStore
    /\ token' = 0
    /\ path' = "login"
    /\ FollowToken(0)
    /\ signedOut' = TRUE
    /\ lateRenewal' = (renewal \/ isRefreshing)

Logout ==
    /\ token # 0
    /\ path = "app"
    /\ SignOut
    /\ UNCHANGED <<serverVars, leaving, renewal, apiVars>>

(***************************************************************************)
(* The requests.                                                           *)
(***************************************************************************)
\* The request interceptor attaches the token that is stored at this moment.
Send(r) ==
    /\ req[r].pc = "idle"
    /\ req' = [req EXCEPT ![r] = [pc |-> "sent", token |-> StoredAccess(local, session),
                                  retried |-> FALSE]]
    /\ UNCHANGED <<storeVars, serverVars, pageVars, isRefreshing, failedQueue, socketVars, history>>

\* Whether the server answers 401 to a request that carries token t.
Refused(t) == t = 0 \/ t \in expired

\* An answer, or an error that is not a first 401: the promise settles.
Settle(r) ==
    /\ req[r].pc = "sent"
    /\ req' = [req EXCEPT ![r] = Idle]
    /\ UNCHANGED <<storeVars, serverVars, pageVars, isRefreshing, failedQueue, socketVars, history>>

\* Both stores are cleared and, except at /login, the page is left.
ForceLogout ==
    /\ local' = EmptyStore
    /\ session' = EmptyStore
    /\ leaving' = (leaving \/ path # "login")

\* A 401 while another request renews the token: the request queues.
Unauthorized_Queue(r) ==
    /\ req[r].pc = "sent" /\ Refused(req[r].token) /\ ~req[r].retried
    /\ isRefreshing
    /\ req' = [req EXCEPT ![r].pc = "waiting"]
    /\ failedQueue' = failedQueue \union {r}
    /\ UNCHANGED <<storeVars, serverVars, pageVars, isRefreshing, socketVars, history>>

\* Mutant: every request renews the token for itself.
Unauthorized_RefreshEach(r) ==
    /\ req[r].pc = "sent" /\ Refused(req[r].token) /\ ~req[r].retried
    /\ StoredRefresh(local, session) # 0
    /\ isRefreshing' = TRUE
    /\ req' = [req EXCEPT ![r] = [@ EXCEPT !.pc = "refreshing", !.retried = TRUE]]
    /\ UNCHANGED <<storeVars, serverVars, pageVars, failedQueue, socketVars, history>>

\* A 401 that starts the renewal.
Unauthorized_Refresh(r) ==
    /\ req[r].pc = "sent" /\ Refused(req[r].token) /\ ~req[r].retried
    /\ ~isRefreshing
    /\ StoredRefresh(local, session) # 0
    /\ isRefreshing' = TRUE
    /\ req' = [req EXCEPT ![r] = [@ EXCEPT !.pc = "refreshing", !.retried = TRUE]]
    /\ UNCHANGED <<storeVars, serverVars, pageVars, failedQueue, socketVars, history>>

\* A 401 with nothing to renew it with.
Unauthorized_Logout(r) ==
    /\ req[r].pc = "sent" /\ Refused(req[r].token) /\ ~req[r].retried
    /\ ~isRefreshing
    /\ StoredRefresh(local, session) = 0
    /\ req' = [req EXCEPT ![r] = Idle]
    /\ ForceLogout
    /\ UNCHANGED <<serverVars, path, token, renewal, isRefreshing, failedQueue, socketVars, history>>

\* The renewal succeeds: its owner and the whole queue are sent again.
RefreshSucceeds(r) ==
    /\ req[r].pc = "refreshing"
    /\ issued < MaxToken
    /\ issued' = issued + 1
    /\ IF local.access # 0
       THEN local' = Pair(issued', local.user) /\ UNCHANGED session
       ELSE session' = Pair(issued', session.user) /\ UNCHANGED local
    /\ req' = [q \in Requests |->
                  IF q = r \/ q \in failedQueue
                  THEN [pc |-> "sent", token |-> StoredAccess(local', session'),
                        retried |-> req[q].retried]
                  ELSE req[q]]
    /\ failedQueue' = {}
    /\ isRefreshing' = FALSE
    /\ UNCHANGED <<expired, pageVars, socketVars, history>>

\* Mutant: only the owner of the renewal fails, processQueue is not called.
RefreshFailsAlone(r) ==
    /\ req[r].pc = "refreshing"
    /\ req' = [req EXCEPT ![r] = Idle]
    /\ isRefreshing' = FALSE
    /\ ForceLogout
    /\ UNCHANGED <<serverVars, path, token, renewal, failedQueue, socketVars, history>>

\* It is refused or lost: all of them fail and the session ends.
RefreshFails(r) ==
    /\ req[r].pc = "refreshing"
    /\ req' = [q \in Requests |-> IF q = r \/ q \in failedQueue THEN Idle ELSE req[q]]
    /\ failedQueue' = {}
    /\ isRefreshing' = FALSE
    /\ ForceLogout
    /\ UNCHANGED <<serverVars, path, token, renewal, socketVars, history>>

(***************************************************************************)
(* The socket.                                                             *)
(***************************************************************************)
SocketOpens ==
    /\ sock.state = "connecting"
    /\ sock' = [sock EXCEPT !.state = "open"]
    /\ connected' = TRUE
    /\ attempts' = 0
    /\ UNCHANGED <<storeVars, serverVars, pageVars, apiVars, stale, timer, history>>

\* Mutant: the attempts are not bounded.
SocketDropsForever ==
    /\ sock.state # "none"
    /\ sock' = NoSocket
    /\ connected' = FALSE
    /\ attempts' = attempts + 1 /\ timer' = TRUE
    /\ UNCHANGED <<storeVars, serverVars, pageVars, apiVars, stale, history>>

\* Closed by the network or the server, or never opened.
SocketDrops ==
    /\ sock.state # "none"
    /\ sock' = NoSocket
    /\ connected' = FALSE
    /\ IF attempts < MaxAttempts
       THEN attempts' = attempts + 1 /\ timer' = TRUE
       ELSE UNCHANGED <<attempts, timer>>
    /\ UNCHANGED <<storeVars, serverVars, pageVars, apiVars, stale, history>>

\* Closed with 1008: the server refuses the token that the socket sent.
SocketRefused ==
    /\ sock.state = "open"
    /\ sock.token \in expired
    /\ SignOut
    /\ UNCHANGED <<serverVars, leaving, renewal, apiVars>>

\* The close event of a socket that socketRef no longer holds is ignored.
StaleClose ==
    /\ stale
    /\ stale' = FALSE
    /\ UNCHANGED <<storeVars, serverVars, pageVars, apiVars, sock, connected, timer, attempts, history>>

\* Mutant: the timer finds a socket that has not been cleared, and gives up.
TimerFiresIdle ==
    /\ timer
    /\ timer' = FALSE
    /\ UNCHANGED <<storeVars, serverVars, pageVars, apiVars, sock, stale, connected, attempts, history>>

\* The timer calls connect(), which replaces whatever socket there is.
TimerFires ==
    /\ timer
    /\ timer' = FALSE
    /\ sock' = Connecting(token)
    /\ stale' = (stale \/ sock.state # "none")
    /\ UNCHANGED <<storeVars, serverVars, pageVars, apiVars, connected, attempts, history>>

\* The server: an access token runs out or is revoked.
Expire(n) ==
    /\ n \in 1 .. issued \ expired
    /\ expired' = expired \union {n}
    /\ UNCHANGED <<storeVars, issued, pageVars, apiVars, socketVars, history>>

Init ==
    /\ local = EmptyStore
    /\ session = EmptyStore
    /\ issued = 0
    /\ expired = {}
    /\ path = "login"
    /\ leaving = FALSE
    /\ token = 0
    /\ renewal = FALSE
    /\ isRefreshing = FALSE
    /\ failedQueue = {}
    /\ req = [r \in Requests |-> Idle]
    /\ sock = NoSocket
    /\ stale = FALSE
    /\ connected = FALSE
    /\ timer = FALSE
    /\ attempts = 0
    /\ signedOut = FALSE
    /\ lateRenewal = FALSE

\* What becomes of a request that was sent, as the interceptors see it.
Answered(r) ==
    \/ Settle(r)
    \/ Unauthorized_Queue(r) \/ Unauthorized_Refresh(r) \/ Unauthorized_Logout(r)

Refreshed(r) == RefreshSucceeds(r) \/ RefreshFails(r)

Renewed == RenewalSucceeds \/ RenewalFails

\* A handshake ends: the socket opens, or closes without having opened.
Handshake == SocketOpens \/ (sock.state = "connecting" /\ SocketDrops)

Next ==
    \/ Reload \/ Unload \/ Renewed \/ Login \/ Logout
    \/ SocketOpens \/ SocketDrops \/ SocketRefused \/ StaleClose \/ TimerFires
    \/ \E r \in Requests : Send(r) \/ Answered(r) \/ Refreshed(r)
    \/ \E n \in 1 .. MaxToken : Expire(n)

Spec == Init /\ [][Next]_vars

\* The browser runs what is due: navigations and timers happen, a handshake
\* ends, and every request is answered or fails.
Fairness ==
    /\ WF_vars(Unload) /\ WF_vars(Renewed)
    /\ WF_vars(Handshake) /\ WF_vars(TimerFires)
    /\ \A r \in Requests : WF_vars(Answered(r)) /\ WF_vars(Refreshed(r))

FairSpec == Spec /\ Fairness

-----------------------------------------------------------------------------
(***************************************************************************)
(* Properties.                                                             *)
(***************************************************************************)
\* Every variable has its type.
TypeOK ==
    /\ local \in Store /\ session \in Store
    /\ issued \in Token /\ expired \in SUBSET (1 .. MaxToken)
    /\ path \in {"login", "app"}
    /\ leaving \in BOOLEAN /\ renewal \in BOOLEAN
    /\ token \in Token
    /\ isRefreshing \in BOOLEAN
    /\ failedQueue \in SUBSET Requests
    /\ req \in [Requests -> Request]
    /\ sock \in Socket
    /\ stale \in BOOLEAN /\ connected \in BOOLEAN /\ timer \in BOOLEAN
    /\ attempts \in 0 .. MaxAttempts
    /\ signedOut \in BOOLEAN /\ lateRenewal \in BOOLEAN

\* The queue of the response interceptor always has exactly one request that
\* will empty it: isRefreshing is set while one request, and one only, has its
\* renewal in flight, and a request is in failedQueue just while it waits.
QueueServed ==
    /\ isRefreshing <=> Refreshing # {}
    /\ \A a, b \in Refreshing : a = b
    /\ failedQueue = {r \in Requests : req[r].pc = "waiting"}
    /\ failedQueue # {} => isRefreshing

\* The live connection belongs to the session in the state of AuthProvider:
\* without one there is no socket and no timer, the socket authenticates with
\* the token of that session, a reconnection is scheduled only while there is
\* no socket for it to tear down, and the views' flag tells the truth.
ConnectionFollowsSession ==
    /\ sock.state # "none" => token # 0 /\ sock.token = token
    /\ timer => token # 0 /\ sock.state = "none"
    /\ connected <=> sock.state = "open"

\* A sign-out lasts: unless a renewal was in flight when the user signed out,
\* no token comes back, to either store or to the state, before the next sign-in.
SignedOutStaysOut ==
    signedOut /\ ~lateRenewal =>
        /\ local = EmptyStore /\ session = EmptyStore
        /\ token = 0

\* Every request that was sent is settled in the end, through any number of
\* expirations, renewals and queues.
EveryRequestSettles ==
    \A r \in Requests : req[r].pc # "idle" ~> req[r].pc = "idle"

GaveUp == attempts = MaxAttempts /\ sock.state = "none" /\ ~timer

\* A session gets its live connection, ends, or has used up its attempts,
\* unless the user keeps reloading the page, which starts the attempts anew.
ConnectionSettles ==
    \/ token # 0 ~> (connected \/ token = 0 \/ GaveUp)
    \/ []<><<Reload>>_vars
=============================================================================
