----------------------------- MODULE CallSession -----------------------------
(***************************************************************************)
(* The SIP session timer of the ingestion engine                           *)
(* (src/ie/internal/callsession/manager.go) with the goroutines that call  *)
(* it: the HEP workers, each handling one SIP message at a time, and the   *)
(* timeout monitor of the RTP sniffer.                                     *)
(*                                                                         *)
(* SessionManager keeps three structures that no common lock protects:     *)
(*   sessions    a sync.Map from Call-ID to a session object,              *)
(*   timeouts    a min-heap of the same objects, under the mutex mu,       *)
(*   terminated  a sync.Map of tombstones that must keep the late messages *)
(*               of a finished call from opening its session again.        *)
(* Every access to one of them is a step of its own here, so that every    *)
(* interleaving of two operations on one call is a behaviour.              *)
(*                                                                         *)
(* Time is relative: left[o] is the time that remains until ExpiresAt of   *)
(* the session object o, and Tick lets one unit pass for every clock at    *)
(* once.  A deadline that has passed stays at 0, which loses nothing: the  *)
(* code only asks whether a deadline is after now, and the entries of the  *)
(* heap whose key has passed are all looked at before any other one.       *)
(***************************************************************************)
EXTENDS Naturals, Sequences, FiniteSets

CONSTANTS
    Calls,      \* Call-IDs
    Workers,    \* goroutines of the HEP worker pool
    Monitor,    \* the goroutine of rtp.Sniffer.monitorTimeouts
    Slots,      \* one per CallSession object a call may have at a time (a bound)
    None,       \* nil: no object, no call
    MaxTTL,     \* the longest deadline: 300 s by the margin
    ShortTTL,   \* the deadline after an authentication challenge: 33 s
    TombTTL,    \* age from which the cleanup loop removes a tombstone
    Sweeps,     \* FALSE bounds a behaviour to less than the cleanup loop's TTL
    Kinds,      \* kinds of SIP message: "signal", "hangup", "challenge"
    Media,      \* calls whose RTP reaches the engine
    Deadlines   \* remaining times a SIP message may ask for: its packet
                \* timestamp plus the negotiated expiry, seen from now

ASSUME TimeAssumption ==
    /\ MaxTTL \in Nat /\ ShortTTL \in Nat /\ TombTTL \in Nat
    /\ ShortTTL <= MaxTTL
    /\ Deadlines \subseteq 0..MaxTTL

ASSUME TrafficAssumption ==
    /\ Sweeps \in BOOLEAN
    /\ Kinds \subseteq {"signal", "hangup", "challenge"}
    /\ Media \subseteq Calls

ASSUME ThreadAssumption == Monitor \notin Workers

\* A CallSession object: its CallID and a name among those of that call.
Objects == Calls \X Slots
Owner(o) == o[1]

ASSUME NoneAssumption == None \notin Objects /\ None \notin Calls

Threads == Workers \union {Monitor}

VARIABLES
    sessions,   \* sync.Map: call -> object or None
    left,       \* time until ExpiresAtNano of an object (atomic field)
    heapLeft,   \* time until heapExpiresAt of an object (under mu)
    heap,       \* the objects in the heap, those with heapIndex # -1
    terminated, \* calls with a tombstone
    tombLeft,   \* time until the tombstone of a call is old enough to go
    sweeping,   \* tombstone the cleanup loop has found old, or None
    tsCache,    \* calls with a timestamp to be written to Redis
    rtp,        \* the RTP stream of a call: "none", "active" or "idle"
    trash,      \* calls queued on trashBin for StopListenerByCallID
    pc, call, due, ref, after,  \* locals of a thread
    expired,    \* sessions returned by GetExpiredSessions, yet to handle
    stale,      \* calls of expired RTP streams, yet to clean up
    owed,       \* calls with a session opened and no end reported since (history)
    raced       \* calls an end of which overlapped something else (history)

maps    == <<sessions, left, heapLeft, heap>>
tombs   == <<terminated, tombLeft, sweeping>>
streams == <<rtp, trash>>
locals  == <<pc, call, due, ref, after>>
passes  == <<expired, stale>>

vars == <<maps, tombs, tsCache, streams, locals, passes, owed, raced>>

-----------------------------------------------------------------------------
Labels ==
    {"idle", "update", "store", "touch", "push", "cache",
     "shorten", "load", "shortenTouch", "fix",
     "hangup", "stop", "tomb", "delete", "unheap", "report",
     "scan", "unmap", "expire", "handle", "reactivate",
     "stale", "again"}

\* Where an operation may return to.
Returns == {"idle", "cache", "hangup", "report", "again", "handle"}

TypeOK ==
    /\ sessions \in [Calls -> Objects \union {None}]
    /\ left \in [Objects -> 0..MaxTTL]
    /\ heapLeft \in [Objects -> 0..MaxTTL]
    /\ heap \subseteq Objects
    /\ terminated \subseteq Calls
    /\ tombLeft \in [Calls -> 0..TombTTL]
    /\ sweeping \in Calls \union {None}
    /\ tsCache \subseteq Calls
    /\ rtp \in [Calls -> {"none", "active", "idle"}]
    /\ trash \subseteq Calls
    /\ pc \in [Threads -> Labels]
    /\ call \in [Threads -> Calls \union {None}]
    /\ due \in [Threads -> 0..MaxTTL]
    /\ ref \in [Threads -> Objects \union {None}]
    /\ after \in [Threads -> Returns]
    /\ expired \in Seq(Calls)
    /\ stale \subseteq Calls
    /\ owed \subseteq Calls
    /\ raced \subseteq Calls

Init ==
    /\ sessions = [c \in Calls |-> None]
    /\ left = [o \in Objects |-> 0]
    /\ heapLeft = [o \in Objects |-> 0]
    /\ heap = {}
    /\ terminated = {}
    /\ tombLeft = [c \in Calls |-> 0]
    /\ sweeping = None
    /\ tsCache = {}
    /\ rtp = [c \in Calls |-> "none"]
    /\ trash = {}
    /\ pc = [t \in Threads |-> "idle"]
    /\ call = [t \in Threads |-> None]
    /\ due = [t \in Threads |-> 0]
    /\ ref = [t \in Threads |-> None]
    /\ after = [t \in Threads |-> "idle"]
    /\ expired = <<>>
    /\ stale = {}
    /\ owed = {}
    /\ raced = {}

-----------------------------------------------------------------------------
(* Control of the threads. *)

Goto(t, label) ==
    /\ pc' = [pc EXCEPT ![t] = label]
    /\ UNCHANGED <<call, due, ref, after>>

\* Continue at label with the session object o in hand.
GotoWith(t, label, o) ==
    /\ pc' = [pc EXCEPT ![t] = label]
    /\ ref' = [ref EXCEPT ![t] = o]
    /\ UNCHANGED <<call, due, after>>

\* Call the operation that starts at label for call c and deadline d, and
\* continue at next when it returns.
Start(t, label, c, d, next) ==
    /\ pc' = [pc EXCEPT ![t] = label]
    /\ call' = [call EXCEPT ![t] = c]
    /\ due' = [due EXCEPT ![t] = d]
    /\ ref' = [ref EXCEPT ![t] = None]
    /\ after' = [after EXCEPT ![t] = next]

\* A thread that is back in its loop has no call in hand any more.
Return(t) ==
    LET c == IF after[t] \in {"idle", "handle"} THEN None ELSE call[t]
    IN  Start(t, after[t], c, 0, "idle")

\* GetExpiredSessions holds mu from its first to its last step.
MuFree == pc[Monitor] \notin {"scan", "unmap", "expire"}

\* The objects of a call that the program has no pointer to.
Unused(c) ==
    {o \in {c} \X Slots :
        sessions[c] # o /\ o \notin heap /\ \A t \in Threads : ref[t] # o}

NewObject(c) == CHOOSE o \in Unused(c) : TRUE

\* f after thread t dropped the object it holds, which is in neither the map
\* nor the heap: unless another thread holds it too, it is garbage, and its
\* fields go back to 0 so that they tell no states apart.
Dropped(f, t) ==
    IF \E u \in Threads \ {t} : ref[u] = ref[t]
    THEN f
    ELSE [f EXCEPT ![ref[t]] = 0]

\* tsCache.Add ends an update.  The buffer has a lock of its own and no
\* operation reads it, so it is filled in the step that precedes the call.
CacheTimestamp(t) ==
    /\ tsCache' = tsCache \union {call[t]}
    /\ Return(t)

\* tsCache.Remove ends a removal, in the same way.
ForgetTimestamp(t) ==
    /\ tsCache' = tsCache \ {call[t]}
    /\ Return(t)

-----------------------------------------------------------------------------
(* UpdateSession, lines 126-167. *)

\* Mutant: the tombstone is not looked at.
UpdateGuard_Dropped(t) ==
    /\ pc[t] = "update"
    /\ Goto(t, "store")
    /\ UNCHANGED <<maps, tombs, tsCache, streams, passes, owed>>

UpdateGuard(t) ==
    /\ pc[t] = "update"
    /\ IF call[t] \in terminated THEN Return(t) ELSE Goto(t, "store")
    /\ UNCHANGED <<maps, tombs, tsCache, streams, passes, owed>>

LoadOrStore(t) ==
    /\ pc[t] = "store"
    /\ \/ /\ sessions[call[t]] # None
          /\ GotoWith(t, "touch", sessions[call[t]])
          /\ UNCHANGED <<maps, owed>>
       \/ /\ sessions[call[t]] = None
          /\ Unused(call[t]) # {}
          /\ LET o == NewObject(call[t]) IN
               /\ sessions' = [sessions EXCEPT ![call[t]] = o]
               /\ left' = [left EXCEPT ![o] = due[t]]
               /\ heapLeft' = [heapLeft EXCEPT ![o] = due[t]]
               /\ GotoWith(t, "push", o)
          /\ owed' = owed \union {call[t]}
          /\ UNCHANGED heap
    /\ UNCHANGED <<tombs, tsCache, streams, passes>>

\* The lock-free update of an existing session: the heap key is left alone.
Touch(t) ==
    /\ pc[t] = "touch"
    /\ left' = [left EXCEPT ![ref[t]] = due[t]]
    /\ CacheTimestamp(t)
    /\ UNCHANGED <<sessions, heapLeft, heap, tombs, streams, passes, owed>>

\* Mutant: a session whose call has ended meanwhile gets no timer.
Push_UnlessEnded(t) ==
    /\ pc[t] = "push"
    /\ MuFree
    /\ heap' = IF call[t] \in terminated THEN heap ELSE heap \union {ref[t]}
    /\ CacheTimestamp(t)
    /\ UNCHANGED <<sessions, left, heapLeft, tombs, streams, passes, owed>>

Push(t) ==
    /\ pc[t] = "push"
    /\ MuFree
    /\ heap' = heap \union {ref[t]}
    /\ CacheTimestamp(t)
    /\ UNCHANGED <<sessions, left, heapLeft, tombs, streams, passes, owed>>

\* What is left of ShortenSession when UpdateSession has returned to it.
ShortenCache(t) ==
    /\ pc[t] = "cache"
    /\ CacheTimestamp(t)
    /\ UNCHANGED <<maps, tombs, streams, passes, owed>>

-----------------------------------------------------------------------------
(* ShortenSession, lines 172-200. *)

ShortenGuard(t) ==
    /\ pc[t] = "shorten"
    /\ IF call[t] \in terminated THEN Return(t) ELSE Goto(t, "load")
    /\ UNCHANGED <<maps, tombs, tsCache, streams, passes, owed>>

\* Without a session it calls UpdateSession, then adds to the cache again.
ShortenLoad(t) ==
    /\ pc[t] = "load"
    /\ IF sessions[call[t]] # None
       THEN GotoWith(t, "shortenTouch", sessions[call[t]])
       ELSE Start(t, "update", call[t], due[t], "cache")
    /\ UNCHANGED <<maps, tombs, tsCache, streams, passes, owed>>

ShortenTouch(t) ==
    /\ pc[t] = "shortenTouch"
    /\ left' = [left EXCEPT ![ref[t]] = due[t]]
    /\ Goto(t, "fix")
    /\ UNCHANGED <<sessions, heapLeft, heap>>
    /\ UNCHANGED <<tombs, tsCache, streams, passes, owed>>

ShortenFix(t) ==
    /\ pc[t] = "fix"
    /\ MuFree
    /\ heapLeft' = [heapLeft EXCEPT ![ref[t]] = due[t]]
    /\ CacheTimestamp(t)
    /\ UNCHANGED <<sessions, left, heap, tombs, streams, passes, owed>>

-----------------------------------------------------------------------------
(* handleTermination (BYE, CANCEL, final error) up to its call_hangup      *)
(* event, and RemoveSession, which the monitor calls as well.              *)

HangupGuard(t) ==
    /\ pc[t] = "hangup"
    /\ IF call[t] \in terminated THEN Return(t) ELSE Goto(t, "stop")
    /\ UNCHANGED <<maps, tombs, tsCache, streams, passes, owed>>

StopListener(t) ==
    /\ pc[t] = "stop"
    /\ rtp' = [rtp EXCEPT ![call[t]] = "none"]
    /\ Start(t, "tomb", call[t], 0, "report")
    /\ UNCHANGED <<maps, tombs, tsCache, trash, passes, owed>>

\* Mutant: the tombstone lives one unit longer than the longest it may.
Tombstone_OffByOne(t) ==
    /\ pc[t] \in {"tomb", "again"}
    /\ terminated' = terminated \union {call[t]}
    /\ tombLeft' = [tombLeft EXCEPT ![call[t]] = TombTTL + 1]
    /\ pc' = [pc EXCEPT ![t] = "delete"]
    /\ after' = [after EXCEPT ![t] = IF pc[t] = "again" THEN "report" ELSE @]
    /\ UNCHANGED <<call, due, ref>>
    /\ UNCHANGED <<maps, sweeping, tsCache, streams, passes, owed>>

Tombstone(t) ==
    /\ pc[t] \in {"tomb", "again"}
    /\ terminated' = terminated \union {call[t]}
    /\ tombLeft' = [tombLeft EXCEPT ![call[t]] = TombTTL]
    /\ pc' = [pc EXCEPT ![t] = "delete"]
    /\ after' = [after EXCEPT ![t] = IF pc[t] = "again" THEN "report" ELSE @]
    /\ UNCHANGED <<call, due, ref>>
    /\ UNCHANGED <<maps, sweeping, tsCache, streams, passes, owed>>

LoadAndDelete(t) ==
    /\ pc[t] = "delete"
    /\ IF sessions[call[t]] # None
       THEN /\ sessions' = [sessions EXCEPT ![call[t]] = None]
            /\ GotoWith(t, "unheap", sessions[call[t]])
            /\ UNCHANGED tsCache
       ELSE /\ ForgetTimestamp(t)
            /\ UNCHANGED sessions
    /\ UNCHANGED <<left, heapLeft, heap, tombs, streams, passes, owed>>

\* An object that is not (yet) in the heap has heapIndex -1 and is skipped.
RemoveFromHeap(t) ==
    /\ pc[t] = "unheap"
    /\ MuFree
    /\ heap' = heap \ {ref[t]}
    /\ left' = Dropped(left, t)
    /\ heapLeft' = Dropped(heapLeft, t)
    /\ ForgetTimestamp(t)
    /\ UNCHANGED <<sessions, tombs, streams, passes, owed>>

\* The call_hangup event and the final record of the call.
Report(t) ==
    /\ pc[t] = "report"
    /\ owed' = owed \ {call[t]}
    /\ IF t = Monitor
       THEN /\ Start(t, IF call[t] \in stale THEN "stale" ELSE "handle",
                     None, 0, "idle")
            /\ stale' = stale \ {call[t]}
       ELSE Return(t) /\ UNCHANGED stale
    /\ UNCHANGED <<maps, tombs, tsCache, streams, expired>>

-----------------------------------------------------------------------------
(* What a HEP worker does with one SIP message (HandleSIPPayload).         *)

\* INVITE, 1xx, 2xx, ACK...: refresh the session.  A re-INVITE is two of
\* these in a row, with a short and then the negotiated expiry.
Signal(w, c, d) ==
    /\ "signal" \in Kinds /\ pc[w] = "idle"
    /\ Start(w, "update", c, d, "idle")
    /\ UNCHANGED <<maps, tombs, tsCache, streams, passes, owed>>

\* BYE, CANCEL or a final error refreshes the session too, then ends the call.
Hangup(w, c, d) ==
    /\ "hangup" \in Kinds /\ pc[w] = "idle"
    /\ Start(w, "update", c, d, "hangup")
    /\ UNCHANGED <<maps, tombs, tsCache, streams, passes, owed>>

\* 401 or 407.
Challenge(w, c) ==
    /\ "challenge" \in Kinds /\ pc[w] = "idle"
    /\ Start(w, "shorten", c, ShortTTL, "idle")
    /\ UNCHANGED <<maps, tombs, tsCache, streams, passes, owed>>

-----------------------------------------------------------------------------
(* The timeout monitor: GetExpiredSessions, lines 204-239, then the RTP    *)
(* guard, then the streams whose RTP has stopped (rtp/server.go 216-266).  *)

NothingElse == UNCHANGED <<tsCache, streams, owed>>

\* The ticker fires; GetExpiredSessions takes mu and reads the clock.
Wake ==
    /\ pc[Monitor] = "idle"
    /\ Goto(Monitor, "scan")
    /\ UNCHANGED <<maps, tombs, passes>> /\ NothingElse

\* The entries the heap may have at its top.
Tops == {o \in heap : \A p \in heap : heapLeft[o] <= heapLeft[p]}

\* The top was extended without the lock: give it its real key and go on.
ScanExtended ==
    /\ pc[Monitor] = "scan"
    /\ \E o \in Tops :
         /\ left[o] > 0 /\ heapLeft[o] < left[o]
         /\ heapLeft' = [heapLeft EXCEPT ![o] = left[o]]
    /\ UNCHANGED <<sessions, left, heap, tombs, locals, passes>>
    /\ NothingElse

\* Mutant: the scan ends at a top that was extended.
ScanEnds_AtExtended ==
    /\ pc[Monitor] = "scan"
    /\ heap = {} \/ \E o \in Tops : left[o] > 0
    /\ Goto(Monitor, "handle")
    /\ UNCHANGED <<maps, tombs, passes>> /\ NothingElse

ScanEnds ==
    /\ pc[Monitor] = "scan"
    /\ \/ heap = {}
       \/ \E o \in Tops : left[o] > 0 /\ heapLeft[o] >= left[o]
    /\ Goto(Monitor, "handle")
    /\ UNCHANGED <<maps, tombs, passes>> /\ NothingElse

\* Mutant: the key of the heap is trusted, the real deadline not looked at.
ScanPops_TrustsKey ==
    /\ pc[Monitor] = "scan"
    /\ \E o \in Tops :
         /\ heapLeft[o] = 0
         /\ heap' = heap \ {o}
         /\ pc' = [pc EXCEPT ![Monitor] = "unmap"]
         /\ ref' = [ref EXCEPT ![Monitor] = o]
         /\ call' = [call EXCEPT ![Monitor] = Owner(o)]
    /\ UNCHANGED <<sessions, left, heapLeft, due, after, tombs, passes>>
    /\ NothingElse

ScanPops ==
    /\ pc[Monitor] = "scan"
    /\ \E o \in Tops :
         /\ left[o] = 0
         /\ heap' = heap \ {o}
         /\ pc' = [pc EXCEPT ![Monitor] = "unmap"]
         /\ ref' = [ref EXCEPT ![Monitor] = o]
         /\ call' = [call EXCEPT ![Monitor] = Owner(o)]
    /\ UNCHANGED <<sessions, left, heapLeft, due, after, tombs, passes>>
    /\ NothingElse

\* Mutant: a session extended since its timer was popped is left in the map.
Unmap_SparesExtended ==
    /\ pc[Monitor] = "unmap"
    /\ LET c == call[Monitor]
       IN  sessions' = IF sessions[c] # None /\ left[ref[Monitor]] > 0
                       THEN sessions ELSE [sessions EXCEPT ![c] = None]
    /\ heapLeft' = Dropped(heapLeft, Monitor)
    /\ GotoWith(Monitor, "expire", None)
    /\ UNCHANGED <<left, heap, tombs, passes>> /\ NothingElse

\* sessions.Delete is by Call-ID, whichever object is there by now.
Unmap ==
    /\ pc[Monitor] = "unmap"
    /\ sessions' = [sessions EXCEPT ![call[Monitor]] = None]
    /\ heapLeft' = Dropped(heapLeft, Monitor)
    /\ GotoWith(Monitor, "expire", None)
    /\ UNCHANGED <<left, heap, tombs, passes>> /\ NothingElse

Expire ==
    /\ pc[Monitor] = "expire"
    /\ terminated' = terminated \union {call[Monitor]}
    /\ tombLeft' = [tombLeft EXCEPT ![call[Monitor]] = TombTTL]
    /\ expired' = Append(expired, call[Monitor])
    /\ Start(Monitor, "scan", None, 0, "idle")
    /\ UNCHANGED <<maps, sweeping, stale>> /\ NothingElse

\* RTP still flows: the session is to be extended.
HandleActive ==
    /\ pc[Monitor] = "handle"
    /\ expired # <<>>
    /\ rtp[Head(expired)] = "active"
    /\ expired' = Tail(expired)
    /\ Start(Monitor, "reactivate", Head(expired), MaxTTL, "handle")
    /\ UNCHANGED <<maps, tombs, stale>> /\ NothingElse

\* Mutant: ReactivateSession is forgotten, UpdateSession finds the tombstone.
Reactivate_KeepsTombstone ==
    /\ pc[Monitor] = "reactivate"
    /\ Goto(Monitor, "update")
    /\ UNCHANGED <<maps, tombs, passes>> /\ NothingElse

\* ReactivateSession, then UpdateSession from now.
Reactivate ==
    /\ pc[Monitor] = "reactivate"
    /\ terminated' = terminated \ {call[Monitor]}
    /\ tombLeft' = [tombLeft EXCEPT ![call[Monitor]] = 0]
    /\ Goto(Monitor, "update")
    /\ UNCHANGED <<maps, sweeping, passes>> /\ NothingElse

\* session_timeout: tear down the listener later, clean up the call now.
HandleTimeout ==
    /\ pc[Monitor] = "handle"
    /\ expired # <<>>
    /\ rtp[Head(expired)] # "active"
    /\ trash' = trash \union {Head(expired)}
    /\ expired' = Tail(expired)
    /\ Start(Monitor, "tomb", Head(expired), 0, "report")
    /\ UNCHANGED <<maps, tombs, tsCache, rtp, stale, owed>>

\* collectExpiredStreams: a call with a tombstone needs no cleanup.
Collect ==
    /\ pc[Monitor] = "handle"
    /\ expired = <<>>
    /\ stale' = {c \in Calls : rtp[c] = "idle"} \ terminated
    /\ rtp' = [c \in Calls |-> IF rtp[c] = "idle" THEN "none" ELSE rtp[c]]
    /\ Goto(Monitor, "stale")
    /\ UNCHANGED <<maps, tombs, tsCache, trash, expired, owed>>

\* rtp_timeout: RemoveSession, then cleanupTimeoutCall with a second one.
HandleStale ==
    /\ pc[Monitor] = "stale"
    /\ \E c \in stale : Start(Monitor, "tomb", c, 0, "again")
    /\ UNCHANGED <<maps, tombs, passes>> /\ NothingElse

Sleep ==
    /\ pc[Monitor] = "stale"
    /\ stale = {}
    /\ Goto(Monitor, "idle")
    /\ UNCHANGED <<maps, tombs, passes>> /\ NothingElse

-----------------------------------------------------------------------------
(* The other goroutines, the clock and the network.                        *)

\* A worker of the trashBin runs StopListenerByCallID.
EmptyTrash(c) ==
    /\ c \in trash
    /\ trash' = trash \ {c}
    /\ rtp' = [rtp EXCEPT ![c] = "none"]
    /\ UNCHANGED <<maps, tombs, tsCache, locals, passes, owed>>

\* CleanupTerminatedTTL reads the age of a tombstone...
SweepFinds(c) ==
    /\ Sweeps /\ sweeping = None
    /\ c \in terminated /\ tombLeft[c] = 0
    /\ sweeping' = c
    /\ UNCHANGED <<maps, terminated, tombLeft, locals, passes>> /\ NothingElse

\* ...and then deletes whatever tombstone the call has by then.
SweepDeletes ==
    /\ sweeping # None
    /\ terminated' = terminated \ {sweeping}
    /\ tombLeft' = [tombLeft EXCEPT ![sweeping] = 0]
    /\ sweeping' = None
    /\ UNCHANGED <<maps, tsCache, streams, locals, passes, owed>>

\* batchUpdateRedis takes the buffered timestamps.
Flush ==
    /\ tsCache # {}
    /\ tsCache' = {}
    /\ UNCHANGED <<maps, tombs, streams, locals, passes, owed>>

\* RTP opens a stream, or wakes it up, unless the call has a tombstone.
StreamActive(c) ==
    /\ c \in Media /\ c \notin terminated /\ rtp[c] # "active"
    /\ rtp' = [rtp EXCEPT ![c] = "active"]
    /\ UNCHANGED <<maps, tombs, tsCache, trash, locals, passes, owed>>

\* No RTP for rtp_timeout_seconds.
StreamIdles(c) ==
    /\ rtp[c] = "active"
    /\ rtp' = [rtp EXCEPT ![c] = "idle"]
    /\ UNCHANGED <<maps, tombs, tsCache, trash, locals, passes, owed>>

Less(n) == IF n = 0 THEN 0 ELSE n - 1

\* One unit of time.  It does not pass inside a scan of the heap, which
\* compares every deadline with one reading of the clock.
Tick ==
    /\ MuFree
    /\ left' = [o \in Objects |-> Less(left[o])]
    /\ heapLeft' = [o \in Objects |-> Less(heapLeft[o])]
    /\ due' = [t \in Threads |-> Less(due[t])]
    /\ tombLeft' = [c \in Calls |-> Less(tombLeft[c])]
    /\ UNCHANGED <<sessions, heap, terminated, sweeping, tsCache, streams>>
    /\ UNCHANGED <<pc, call, ref, after, passes, owed>>

-----------------------------------------------------------------------------
\* A bound: a message is only taken on while enough objects are left for
\* every thread, so that LoadOrStore never waits for one.
Room(c) == Cardinality(Unused(c)) >= Cardinality(Threads)

Receive(w) ==
    \E c \in {c \in Calls : Room(c)} :
        \/ Challenge(w, c)
        \/ \E d \in Deadlines : Signal(w, c, d) \/ Hangup(w, c, d)

Operation(t) ==
    \/ UpdateGuard(t) \/ LoadOrStore(t) \/ Touch(t) \/ Push(t)
    \/ ShortenCache(t)
    \/ ShortenGuard(t) \/ ShortenLoad(t) \/ ShortenTouch(t) \/ ShortenFix(t)
    \/ HangupGuard(t) \/ StopListener(t)
    \/ Tombstone(t) \/ LoadAndDelete(t) \/ RemoveFromHeap(t) \/ Report(t)

MonitorStep ==
    \/ Wake \/ ScanExtended \/ ScanEnds \/ ScanPops \/ Unmap \/ Expire
    \/ HandleActive \/ Reactivate \/ HandleTimeout
    \/ Collect \/ HandleStale \/ Sleep

Environment ==
    \/ \E c \in Calls : EmptyTrash(c) \/ SweepFinds(c)
    \/ SweepDeletes \/ Flush \/ Tick
    \/ \E c \in Calls : StreamActive(c) \/ StreamIdles(c)

Step ==
    \/ \E w \in Workers : Receive(w)
    \/ \E t \in Threads : Operation(t)
    \/ MonitorStep
    \/ Environment

\* Thread t is in the middle of something that concerns call c.
Involved(t, c) ==
    \/ call[t] = c
    \/ t = Monitor /\ (c \in stale \/ \E i \in DOMAIN expired : expired[i] = c)

\* Thread t may be ending call c.
Ending(t, c) ==
    /\ Involved(t, c)
    /\ \/ t = Monitor
       \/ after[t] \in {"hangup", "report"} \/ pc[t] \in {"hangup", "stop", "report"}

Busy(c) == \E t \in Threads : Involved(t, c)

Overlap(c) ==
    \E t, u \in Threads : t # u /\ Ending(t, c) /\ Involved(u, c)

\* The three structures agree about call c.
Agrees(c) ==
    /\ {o \in heap : Owner(o) = c} =
         IF sessions[c] = None THEN {} ELSE {sessions[c]}
    /\ c \in terminated => sessions[c] = None /\ c \notin tsCache

\* raced is history: the calls an end of which overlapped another operation
\* on the same call, until the call is at rest and has no trace of it left.
Remember ==
    raced' = {c \in Calls :
                \/ Overlap(c)'
                \/ c \in raced /\ (Busy(c) \/ ~Agrees(c))'}

Next == Step /\ Remember

\* Every goroutine is scheduled, and a Go mutex starves nobody (hence strong
\* fairness: mu comes and goes); time passes, though not inside a scan; and no
\* RTP stream goes on for ever.  Nothing obliges the network to send.
Fairness ==
    /\ \A t \in Threads : SF_vars(Operation(t) /\ Remember)
    /\ WF_vars(MonitorStep /\ Remember)
    /\ SF_vars(Tick /\ Remember)
    /\ \A c \in Calls : WF_vars(EmptyTrash(c) /\ Remember)
    /\ \A c \in Calls : WF_vars(StreamIdles(c) /\ Remember)

-----------------------------------------------------------------------------
(* Properties. *)

\* Every session has a timer: its object is in the heap, or the thread that
\* stored it is about to push it, or the monitor is about to delete the
\* session.  A session without a timer would stay for ever once its call
\* falls silent, since nothing but the heap finds it (manager.go 150-163).
SessionsTimed ==
    \A c \in Calls : sessions[c] # None =>
        \/ sessions[c] \in heap
        \/ \E t \in Threads : pc[t] = "push" /\ ref[t] = sessions[c]
        \/ pc[Monitor] = "unmap" /\ call[Monitor] = c

\* Map, heap, tombstones and timestamp buffer agree about every call at rest,
\* although no lock covers more than one of them, unless an end of the call
\* overlapped another operation on it (manager.go 126-258).
QuietCallsAgree == \A c \in Calls : Busy(c) \/ c \in raced \/ Agrees(c)

\* What a scan expires is the session of the call and is overdue, however
\* often the lock-free updates moved its deadline past its key in the heap:
\* the lazy heap of manager.go 155-157 and 215-226.
OnlyOverdueExpire ==
    (pc[Monitor] = "unmap" /\ call[Monitor] \notin raced) =>
        /\ sessions[call[Monitor]] = ref[Monitor]
        /\ left[ref[Monitor]] = 0

\* Something reaches the engine from the network.
Arrival == (\E w \in Workers : Receive(w)) \/ (\E c \in Calls : StreamActive(c))

\* A scan leaves no session overdue unless its deadline was moved forward
\* behind the back of the heap: a timer is late only by its stale key, which
\* is never more than MaxTTL away (manager.go 212-226).
NoOverdueKeyLeft ==
    [][ScanEnds => \A o \in heap : left[o] > 0 \/ heapLeft[o] > 0]_vars

TrafficEnds == <>[][~Arrival]_vars

\* Once nothing arrives any more every session ends, and so does every timer,
\* the ghost sessions and orphan timers of overlapping operations included.
AllReaped ==
    TrafficEnds => <>[](heap = {} /\ \A c \in Calls : sessions[c] = None)

\* Once nothing arrives any more every session that was opened has its end
\* reported: the guards of handleTermination and collectExpiredStreams, which
\* skip a call with a tombstone, never skip the last chance to do so
\* (handlers.go 215-220, cleanup.go 86-92, 332-333).
EveryEndReported ==
    TrafficEnds => \A c \in Calls : <>[](c \notin owed)

Spec == Init /\ [][Next]_vars

FairSpec == Spec /\ Fairness
=============================================================================
