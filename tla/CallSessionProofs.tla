-------------------------- MODULE CallSessionProofs --------------------------
(***************************************************************************)
(* Proofs about CallSession for any sets of calls, workers and objects and *)
(* any deadlines: the types, that every session has a timer, that the      *)
(* structures agree about a call at rest, and what a scan takes from the   *)
(* heap and leaves in it.                                                  *)
(***************************************************************************)
EXTENDS CallSession, TLAPS

\* Where the locals call and ref of a thread are in use.
CallLabels == Labels \ {"idle", "scan", "handle", "stale"}
RefLabels == {"touch", "push", "shortenTouch", "fix", "unheap", "unmap"}

LocalsInUse ==
    \A t \in Threads :
        /\ pc[t] \in CallLabels => call[t] \in Calls
        /\ pc[t] \in RefLabels => ref[t] \in Objects
        /\ after[t] # "idle" => call[t] \in Calls

LocalsOK ==
    /\ pc \in [Threads -> Labels]
    /\ call \in [Threads -> Calls \union {None}]
    /\ due \in [Threads -> 0..MaxTTL]
    /\ ref \in [Threads -> Objects \union {None}]
    /\ after \in [Threads -> Returns]
    /\ LocalsInUse

SharedOK ==
    /\ sessions \in [Calls -> Objects \union {None}]
    /\ left \in [Objects -> 0..MaxTTL]
    /\ heapLeft \in [Objects -> 0..MaxTTL]
    /\ heap \subseteq Objects
    /\ terminated \subseteq Calls
    /\ tombLeft \in [Calls -> 0..TombTTL]
    /\ sweeping \in Calls \union {None}
    /\ tsCache \subseteq Calls
    /\ rtp \in [Calls -> {"none", "active", "idle"}]
    /\ trash \subseteq Calls
    /\ expired \in Seq(Calls)
    /\ stale \subseteq Calls
    /\ owed \subseteq Calls

TypeInv == LocalsOK /\ SharedOK /\ raced \subseteq Calls

\* A session is stored under the call of its object, and an object that has
\* been taken out of the map is nowhere in it.
MapInv ==
    /\ \A c \in Calls : sessions[c] # None => Owner(sessions[c]) = c
    /\ \A t \in Threads : pc[t] = "unheap" =>
         \A c \in Calls : sessions[c] # ref[t]

TimerInv == TypeInv /\ MapInv /\ SessionsTimed

-----------------------------------------------------------------------------
LEMMA TypeInit == Init => TypeInv
  BY TimeAssumption
  DEF Init, TypeInv, LocalsOK, SharedOK, LocalsInUse, Labels, Returns,
      CallLabels, RefLabels

LEMMA TypeInvImpliesTypeOK == TypeInv => TypeOK
  BY DEF TypeInv, LocalsOK, SharedOK, TypeOK

\* A step of control keeps the locals well typed.
LEMMA StartType ==
  ASSUME LocalsOK, NEW t \in Threads,
         NEW label \in Labels \ RefLabels, NEW c \in Calls \union {None},
         NEW d \in 0..MaxTTL, NEW next \in Returns,
         label \in CallLabels => c \in Calls,
         next # "idle" => c \in Calls,
         Start(t, label, c, d, next)
  PROVE  LocalsOK'
  BY DEF LocalsOK, LocalsInUse, Start

LEMMA GotoType ==
  ASSUME LocalsOK, NEW t \in Threads, NEW label \in Labels,
         label \in CallLabels => call[t] \in Calls,
         label \in RefLabels => ref[t] \in Objects,
         Goto(t, label)
  PROVE  LocalsOK'
  BY DEF LocalsOK, LocalsInUse, Goto

LEMMA GotoWithType ==
  ASSUME LocalsOK, NEW t \in Threads, NEW label \in Labels,
         NEW o \in Objects \union {None},
         label \in CallLabels => call[t] \in Calls,
         label \in RefLabels => o \in Objects,
         GotoWith(t, label, o)
  PROVE  LocalsOK'
  BY DEF LocalsOK, LocalsInUse, GotoWith

LEMMA ReturnType ==
  ASSUME LocalsOK, NEW t \in Threads, Return(t)
  PROVE  LocalsOK'
  <1>1. after[t] \in Returns /\ Returns \subseteq Labels \ RefLabels
    BY DEF LocalsOK, Returns, Labels, RefLabels
  <1>2. 0 \in 0..MaxTTL
    BY TimeAssumption
  <1>3. CASE after[t] \in {"idle", "handle"}
    BY <1>1, <1>2, <1>3, StartType DEF Return, CallLabels, Labels, Returns
  <1>4. CASE after[t] \notin {"idle", "handle"}
    <2>1. call[t] \in Calls
      BY <1>4 DEF LocalsOK, LocalsInUse
    <2> QED
      BY <1>1, <1>2, <1>4, <2>1, StartType DEF Return, Returns
  <1> QED
    BY <1>3, <1>4
-----------------------------------------------------------------------------
(* The types are preserved: first by the operations any thread may run.    *)

LEMMA LocalsFacts ==
  ASSUME LocalsOK, NEW t \in Threads
  PROVE  /\ pc[t] \in Labels /\ due[t] \in 0..MaxTTL
         /\ pc[t] \notin {"idle", "scan", "handle", "stale"} => call[t] \in Calls
         /\ pc[t] \in RefLabels => ref[t] \in Objects
  BY DEF LocalsOK, LocalsInUse, CallLabels

LEMMA NewObjectFacts ==
  ASSUME NEW c \in Calls, Unused(c) # {}
  PROVE  /\ NewObject(c) \in Objects /\ Owner(NewObject(c)) = c
         /\ sessions[c] # NewObject(c) /\ NewObject(c) \notin heap
         /\ \A t \in Threads : ref[t] # NewObject(c)
  <1>1. NewObject(c) \in Unused(c)
    BY DEF NewObject
  <1> QED
    BY <1>1 DEF Unused, Objects, Owner

LEMMA OperationType ==
  ASSUME TypeInv, NEW t \in Threads, Operation(t)
  PROVE  LocalsOK' /\ SharedOK'
  <1> USE DEF TypeInv
  <1>1. CASE UpdateGuard(t)
    <2>1. LocalsOK'
      BY <1>1, LocalsFacts, GotoType, ReturnType, TimeAssumption
      DEF UpdateGuard, SharedOK, Labels, CallLabels, RefLabels, Returns
    <2>2. SharedOK'
      BY <1>1, LocalsFacts, TimeAssumption
      DEF UpdateGuard, SharedOK, RefLabels, maps, tombs, streams, passes
    <2> QED
      BY <2>1, <2>2
  <1>2. CASE LoadOrStore(t)
    <2>1. call[t] \in Calls /\ due[t] \in 0..MaxTTL
      BY <1>2, LocalsFacts DEF LoadOrStore
    <2>2. CASE sessions[call[t]] # None
      <3>1. sessions[call[t]] \in Objects
        BY <2>1, <2>2 DEF SharedOK
      <3>2. LocalsOK'
        BY <1>2, <2>1, <2>2, <3>1, GotoWithType
        DEF LoadOrStore, Labels, CallLabels, RefLabels
      <3> QED
        BY <1>2, <2>2, <3>2
        DEF LoadOrStore, SharedOK, maps, tombs, streams, passes
    <2>3. CASE sessions[call[t]] = None
      <3> DEFINE o == NewObject(call[t])
      <3>1. o \in Objects
        BY <1>2, <2>1, <2>3, NewObjectFacts DEF LoadOrStore
      <3>2. LocalsOK'
        BY <1>2, <2>1, <2>3, <3>1, GotoWithType
        DEF LoadOrStore, Labels, CallLabels, RefLabels
      <3>3. SharedOK'
        BY <1>2, <2>1, <2>3, <3>1
        DEF LoadOrStore, SharedOK, tombs, streams, passes
      <3> QED
        BY <3>2, <3>3
    <2> QED
      BY <2>2, <2>3
  <1>3. CASE Touch(t)
    <2>1. LocalsOK'
      BY <1>3, LocalsFacts, ReturnType, TimeAssumption
      DEF Touch, SharedOK, Labels, CallLabels, RefLabels, Returns, CacheTimestamp
    <2>2. SharedOK'
      BY <1>3, LocalsFacts, TimeAssumption
      DEF Touch, SharedOK, RefLabels, maps, tombs, streams, passes, CacheTimestamp
    <2> QED
      BY <2>1, <2>2
  <1>4. CASE Push(t)
    <2>1. LocalsOK'
      BY <1>4, LocalsFacts, ReturnType, TimeAssumption
      DEF Push, SharedOK, Labels, CallLabels, RefLabels, Returns, CacheTimestamp
    <2>2. SharedOK'
      BY <1>4, LocalsFacts, TimeAssumption
      DEF Push, SharedOK, RefLabels, maps, tombs, streams, passes, CacheTimestamp
    <2> QED
      BY <2>1, <2>2
  <1>5. CASE ShortenCache(t)
    <2>1. LocalsOK'
      BY <1>5, LocalsFacts, ReturnType, TimeAssumption
      DEF ShortenCache, SharedOK, Labels, CallLabels, RefLabels, Returns, CacheTimestamp
    <2>2. SharedOK'
      BY <1>5, LocalsFacts, TimeAssumption
      DEF ShortenCache, SharedOK, RefLabels, maps, tombs, streams, passes, CacheTimestamp
    <2> QED
      BY <2>1, <2>2
  <1>6. CASE ShortenGuard(t)
    <2>1. LocalsOK'
      BY <1>6, LocalsFacts, GotoType, ReturnType, TimeAssumption
      DEF ShortenGuard, SharedOK, Labels, CallLabels, RefLabels, Returns
    <2>2. SharedOK'
      BY <1>6, LocalsFacts, TimeAssumption
      DEF ShortenGuard, SharedOK, RefLabels, maps, tombs, streams, passes
    <2> QED
      BY <2>1, <2>2
  <1>7. CASE ShortenLoad(t)
    <2>1. LocalsOK'
      BY <1>7, LocalsFacts, GotoWithType, StartType, TimeAssumption
      DEF ShortenLoad, SharedOK, Labels, CallLabels, RefLabels, Returns
    <2>2. SharedOK'
      BY <1>7, LocalsFacts, TimeAssumption
      DEF ShortenLoad, SharedOK, RefLabels, maps, tombs, streams, passes
    <2> QED
      BY <2>1, <2>2
  <1>8. CASE ShortenTouch(t)
    <2>1. LocalsOK'
      BY <1>8, LocalsFacts, GotoType, TimeAssumption
      DEF ShortenTouch, SharedOK, Labels, CallLabels, RefLabels, Returns
    <2>2. SharedOK'
      BY <1>8, LocalsFacts, TimeAssumption
      DEF ShortenTouch, SharedOK, RefLabels, maps, tombs, streams, passes
    <2> QED
      BY <2>1, <2>2
  <1>9. CASE ShortenFix(t)
    <2>1. LocalsOK'
      BY <1>9, LocalsFacts, ReturnType, TimeAssumption
      DEF ShortenFix, SharedOK, Labels, CallLabels, RefLabels, Returns, CacheTimestamp
    <2>2. SharedOK'
      BY <1>9, LocalsFacts, TimeAssumption
      DEF ShortenFix, SharedOK, RefLabels, maps, tombs, streams, passes, CacheTimestamp
    <2> QED
      BY <2>1, <2>2
  <1>10. CASE HangupGuard(t)
    <2>1. LocalsOK'
      BY <1>10, LocalsFacts, GotoType, ReturnType, TimeAssumption
      DEF HangupGuard, SharedOK, Labels, CallLabels, RefLabels, Returns
    <2>2. SharedOK'
      BY <1>10, LocalsFacts, TimeAssumption
      DEF HangupGuard, SharedOK, RefLabels, maps, tombs, streams, passes
    <2> QED
      BY <2>1, <2>2
  <1>11. CASE StopListener(t)
    <2>1. LocalsOK'
      <3>1. /\ call[t] \in Calls /\ 0 \in 0..MaxTTL
            /\ "tomb" \in Labels \ RefLabels /\ "report" \in Returns
        BY <1>11, LocalsFacts, TimeAssumption
        DEF StopListener, Labels, RefLabels, Returns
      <3> QED
        BY <1>11, <3>1, StartType DEF StopListener
    <2>2. SharedOK'
      BY <1>11, LocalsFacts, TimeAssumption
      DEF StopListener, SharedOK, RefLabels, maps, tombs, streams, passes
    <2> QED
      BY <2>1, <2>2
  <1>12. CASE Tombstone(t)
    <2>1. LocalsOK'
      <3>1. call[t] \in Calls
        BY <1>12, LocalsFacts DEF Tombstone
      <3>2. /\ "delete" \in Labels \ RefLabels
            /\ (IF pc[t] = "again" THEN "report" ELSE after[t]) \in Returns
        BY DEF Labels, RefLabels, Returns, LocalsOK
      <3> QED
        BY <1>12, <3>1, <3>2 DEF Tombstone, LocalsOK, LocalsInUse
    <2>2. SharedOK'
      <3>1. call[t] \in Calls /\ TombTTL \in 0..TombTTL
        BY <1>12, LocalsFacts, TimeAssumption DEF Tombstone
      <3> QED
        BY <1>12, <3>1 DEF Tombstone, SharedOK, maps, streams, passes
    <2> QED
      BY <2>1, <2>2
  <1>13. CASE LoadAndDelete(t)
    <2>1. LocalsOK'
      BY <1>13, LocalsFacts, GotoWithType, ReturnType, TimeAssumption
      DEF LoadAndDelete, SharedOK, Labels, CallLabels, RefLabels, Returns, ForgetTimestamp
    <2>2. SharedOK'
      BY <1>13, LocalsFacts, TimeAssumption
      DEF LoadAndDelete, SharedOK, RefLabels, maps, tombs, streams, passes, ForgetTimestamp
    <2> QED
      BY <2>1, <2>2
  <1>14. CASE RemoveFromHeap(t)
    <2>1. LocalsOK'
      BY <1>14, LocalsFacts, ReturnType, TimeAssumption
      DEF RemoveFromHeap, SharedOK, Labels, CallLabels, RefLabels, Returns, ForgetTimestamp
    <2>2. SharedOK'
      BY <1>14, LocalsFacts, TimeAssumption
      DEF RemoveFromHeap, SharedOK, RefLabels, maps, tombs, streams, passes, ForgetTimestamp, Dropped
    <2> QED
      BY <2>1, <2>2
  <1>15. CASE Report(t)
    <2>1. LocalsOK'
      <3>1. /\ 0 \in 0..MaxTTL /\ "idle" \in Returns
            /\ {"stale", "handle"} \subseteq Labels \ RefLabels
            /\ {"stale", "handle"} \intersect CallLabels = {}
        BY TimeAssumption DEF Labels, CallLabels, RefLabels, Returns
      <3>2. CASE t = Monitor
        BY <1>15, <3>1, <3>2, StartType DEF Report
      <3>3. CASE t # Monitor
        BY <1>15, <3>3, ReturnType DEF Report
      <3> QED
        BY <3>2, <3>3
    <2>2. SharedOK'
      BY <1>15, LocalsFacts, TimeAssumption
      DEF Report, SharedOK, RefLabels, maps, tombs, streams, passes
    <2> QED
      BY <2>1, <2>2
  <1> QED
    BY <1>1, <1>2, <1>3, <1>4, <1>5, <1>6, <1>7, <1>8, <1>9, <1>10, <1>11, <1>12, <1>13, <1>14, <1>15 DEF Operation

(* The steps of the monitor. *)

LEMMA MonitorType ==
  ASSUME TypeInv, MonitorStep
  PROVE  LocalsOK' /\ SharedOK'
  <1> USE DEF TypeInv, NothingElse
  <1>m. Monitor \in Threads
    BY DEF Threads
  <1>1. CASE Wake
    <2>1. LocalsOK'
      BY <1>m, <1>1, LocalsFacts, GotoType, TimeAssumption
      DEF Wake, SharedOK, Labels, CallLabels, RefLabels, Returns
    <2>2. SharedOK'
      BY <1>m, <1>1, LocalsFacts, TimeAssumption
      DEF Wake, SharedOK, RefLabels, maps, tombs, streams, passes
    <2> QED
      BY <2>1, <2>2
  <1>2. CASE ScanExtended
    <2>1. LocalsOK'
      BY <1>m, <1>2, LocalsFacts,  TimeAssumption
      DEF ScanExtended, SharedOK, Labels, CallLabels, RefLabels, Returns, LocalsOK, locals, LocalsInUse
    <2>2. SharedOK'
      BY <1>m, <1>2, LocalsFacts, TimeAssumption
      DEF ScanExtended, SharedOK, RefLabels, maps, tombs, streams, passes, Tops
    <2> QED
      BY <2>1, <2>2
  <1>3. CASE ScanEnds
    <2>1. LocalsOK'
      BY <1>m, <1>3, LocalsFacts, GotoType, TimeAssumption
      DEF ScanEnds, SharedOK, Labels, CallLabels, RefLabels, Returns
    <2>2. SharedOK'
      BY <1>m, <1>3, LocalsFacts, TimeAssumption
      DEF ScanEnds, SharedOK, RefLabels, maps, tombs, streams, passes
    <2> QED
      BY <2>1, <2>2
  <1>4. CASE ScanPops
    <2>1. LocalsOK'
      BY <1>m, <1>4, LocalsFacts,  TimeAssumption
      DEF ScanPops, SharedOK, Labels, CallLabels, RefLabels, Returns, Tops, Owner, Objects, LocalsOK, LocalsInUse
    <2>2. SharedOK'
      BY <1>m, <1>4, LocalsFacts, TimeAssumption
      DEF ScanPops, SharedOK, RefLabels, maps, tombs, streams, passes, Tops
    <2> QED
      BY <2>1, <2>2
  <1>5. CASE Unmap
    <2>1. LocalsOK'
      BY <1>m, <1>5, LocalsFacts, GotoWithType, TimeAssumption
      DEF Unmap, SharedOK, Labels, CallLabels, RefLabels, Returns
    <2>2. SharedOK'
      <3>1. call[Monitor] \in Calls /\ ref[Monitor] \in Objects /\ 0 \in 0..MaxTTL
        BY <1>m, <1>5, LocalsFacts, TimeAssumption DEF Unmap, RefLabels
      <3>2. heapLeft' \in [Objects -> 0..MaxTTL]
        BY <1>5, <3>1 DEF Unmap, Dropped, SharedOK
      <3> QED
        BY <1>5, <3>1, <3>2 DEF Unmap, SharedOK, tombs, streams, passes
    <2> QED
      BY <2>1, <2>2
  <1>6. CASE Expire
    <2>1. LocalsOK'
      <3>1. /\ 0 \in 0..MaxTTL /\ "idle" \in Returns
            /\ "scan" \in Labels \ RefLabels /\ "scan" \notin CallLabels
        BY TimeAssumption DEF Labels, CallLabels, RefLabels, Returns
      <3> QED
        BY <1>m, <1>6, <3>1, StartType DEF Expire
    <2>2. SharedOK'
      <3>1. call[Monitor] \in Calls /\ TombTTL \in 0..TombTTL
        BY <1>m, <1>6, LocalsFacts, TimeAssumption DEF Expire
      <3>2. expired' \in Seq(Calls)
        BY <1>6, <3>1 DEF Expire, SharedOK
      <3> QED
        BY <1>6, <3>1, <3>2 DEF Expire, SharedOK, maps, streams
    <2> QED
      BY <2>1, <2>2
  <1>7. CASE HandleActive
    <2>1. LocalsOK'
      <3>1. /\ Head(expired) \in Calls /\ MaxTTL \in 0..MaxTTL
            /\ "reactivate" \in Labels \ RefLabels /\ "handle" \in Returns
        BY <1>7, TimeAssumption DEF HandleActive, SharedOK, Labels, RefLabels, Returns
      <3> QED
        BY <1>m, <1>7, <3>1, StartType DEF HandleActive
    <2>2. SharedOK'
      BY <1>m, <1>7, LocalsFacts, TimeAssumption
      DEF HandleActive, SharedOK, RefLabels, maps, tombs, streams, passes
    <2> QED
      BY <2>1, <2>2
  <1>8. CASE Reactivate
    <2>1. LocalsOK'
      BY <1>m, <1>8, LocalsFacts, GotoType, TimeAssumption
      DEF Reactivate, SharedOK, Labels, CallLabels, RefLabels, Returns
    <2>2. SharedOK'
      <3>1. call[Monitor] \in Calls /\ 0 \in 0..TombTTL
        BY <1>m, <1>8, LocalsFacts, TimeAssumption DEF Reactivate
      <3> QED
        BY <1>8, <3>1 DEF Reactivate, SharedOK, maps, streams, passes
    <2> QED
      BY <2>1, <2>2
  <1>9. CASE HandleTimeout
    <2>1. LocalsOK'
      <3>1. /\ Head(expired) \in Calls /\ 0 \in 0..MaxTTL
            /\ "tomb" \in Labels \ RefLabels /\ "report" \in Returns
        BY <1>9, TimeAssumption DEF HandleTimeout, SharedOK, Labels, RefLabels, Returns
      <3> QED
        BY <1>m, <1>9, <3>1, StartType DEF HandleTimeout
    <2>2. SharedOK'
      BY <1>m, <1>9, LocalsFacts, TimeAssumption
      DEF HandleTimeout, SharedOK, RefLabels, maps, tombs, streams, passes
    <2> QED
      BY <2>1, <2>2
  <1>10. CASE Collect
    <2>1. LocalsOK'
      BY <1>m, <1>10, LocalsFacts, GotoType, TimeAssumption
      DEF Collect, SharedOK, Labels, CallLabels, RefLabels, Returns
    <2>2. SharedOK'
      BY <1>m, <1>10, LocalsFacts, TimeAssumption
      DEF Collect, SharedOK, RefLabels, maps, tombs, streams, passes
    <2> QED
      BY <2>1, <2>2
  <1>11. CASE HandleStale
    <2>1. LocalsOK'
      <3>1. /\ stale \subseteq Calls /\ 0 \in 0..MaxTTL
            /\ "tomb" \in Labels \ RefLabels /\ "again" \in Returns
        BY TimeAssumption DEF SharedOK, Labels, RefLabels, Returns
      <3> QED
        BY <1>m, <1>11, <3>1, StartType DEF HandleStale
    <2>2. SharedOK'
      BY <1>m, <1>11, LocalsFacts, TimeAssumption
      DEF HandleStale, SharedOK, RefLabels, maps, tombs, streams, passes
    <2> QED
      BY <2>1, <2>2
  <1>12. CASE Sleep
    <2>1. LocalsOK'
      BY <1>m, <1>12, LocalsFacts, GotoType, TimeAssumption
      DEF Sleep, SharedOK, Labels, CallLabels, RefLabels, Returns
    <2>2. SharedOK'
      BY <1>m, <1>12, LocalsFacts, TimeAssumption
      DEF Sleep, SharedOK, RefLabels, maps, tombs, streams, passes
    <2> QED
      BY <2>1, <2>2
  <1> QED
    BY <1>1, <1>2, <1>3, <1>4, <1>5, <1>6, <1>7, <1>8, <1>9, <1>10, <1>11, <1>12 DEF MonitorStep

(* The network, the other goroutines and the clock. *)

LEMMA EnvironmentType ==
  ASSUME TypeInv, Environment \/ \E w \in Workers : Receive(w)
  PROVE  LocalsOK' /\ SharedOK'
  <1> USE DEF TypeInv, NothingElse
  <1>1. CASE \E w \in Workers : Receive(w)
    <2>1. PICK w \in Workers, c \in Calls, d \in 0..MaxTTL :
            Challenge(w, c) \/ Signal(w, c, d) \/ Hangup(w, c, d)
      BY <1>1, TimeAssumption DEF Receive
    <2>2. w \in Threads
      BY DEF Threads
    <2>3. LocalsOK'
      BY <2>1, <2>2, StartType, TimeAssumption
      DEF Challenge, Signal, Hangup, Labels, RefLabels, Returns
    <2>4. SharedOK'
      BY <2>1 DEF Challenge, Signal, Hangup, SharedOK, maps, tombs, streams, passes
    <2> QED
      BY <2>3, <2>4
  <1>2. CASE Tick
    <2>1. \A k \in Nat : \A n \in 0..k : Less(n) \in 0..k
      BY DEF Less
    <2>2. LocalsOK'
      BY <1>2, <2>1, TimeAssumption DEF Tick, LocalsOK, LocalsInUse
    <2>3. SharedOK'
      BY <1>2, <2>1, TimeAssumption DEF Tick, SharedOK, streams, passes
    <2> QED
      BY <2>2, <2>3
  <1>3. CASE \E c \in Calls : EmptyTrash(c)
    BY <1>3 DEF EmptyTrash, SharedOK, LocalsOK, LocalsInUse, locals, maps, tombs, passes
  <1>4. CASE \E c \in Calls : SweepFinds(c)
    BY <1>4 DEF SweepFinds, SharedOK, LocalsOK, LocalsInUse, locals, maps, streams, passes
  <1>5. CASE SweepDeletes
    BY <1>5, TimeAssumption
    DEF SweepDeletes, SharedOK, LocalsOK, LocalsInUse, locals, maps, streams, passes
  <1>6. CASE Flush
    BY <1>6 DEF Flush, SharedOK, LocalsOK, LocalsInUse, locals, maps, tombs, streams, passes
  <1>7. CASE \E c \in Calls : StreamActive(c) \/ StreamIdles(c)
    BY <1>7
    DEF StreamActive, StreamIdles, SharedOK, LocalsOK, LocalsInUse,
        locals, maps, tombs, passes
  <1> QED
    BY <1>1, <1>2, <1>3, <1>4, <1>5, <1>6, <1>7 DEF Environment

LEMMA TypeStep == TypeInv /\ [Next]_vars => TypeInv'
  <1> SUFFICES ASSUME TypeInv, [Next]_vars PROVE TypeInv'
    OBVIOUS
  <1>1. CASE Next
    <2>1. raced' \subseteq Calls
      BY <1>1 DEF Next, Remember
    <2>2. LocalsOK' /\ SharedOK'
      BY <1>1, OperationType, MonitorType, EnvironmentType DEF Next, Step
    <2> QED
      BY <2>1, <2>2 DEF TypeInv
  <1>2. CASE UNCHANGED vars
    BY <1>2
    DEF TypeInv, LocalsOK, SharedOK, LocalsInUse, vars, maps, tombs, streams,
        locals, passes
  <1> QED
    BY <1>1, <1>2

\* In every reachable state of the session timer and its callers the maps,
\* the heap and the locals of every goroutine have their types.
THEOREM TypeCorrect == Spec => []TypeOK
  <1>1. Spec => []TypeInv
    BY TypeInit, TypeStep, PTL DEF Spec
  <1> QED
    BY <1>1, TypeInvImpliesTypeOK, PTL

-----------------------------------------------------------------------------
(* Every session has a timer.  The steps of control first: what one thread *)
(* does leaves the other threads where they are.                            *)

OthersStay(u) ==
    \A t \in Threads \ {u} :
        /\ pc'[t] = pc[t] /\ call'[t] = call[t]
        /\ ref'[t] = ref[t] /\ after'[t] = after[t]

LEMMA GotoControl ==
  ASSUME LocalsOK, NEW u \in Threads, NEW label, Goto(u, label)
  PROVE  OthersStay(u) /\ pc'[u] = label
  BY DEF LocalsOK, Goto, OthersStay

LEMMA GotoWithControl ==
  ASSUME LocalsOK, NEW u \in Threads, NEW label, NEW o, GotoWith(u, label, o)
  PROVE  OthersStay(u) /\ pc'[u] = label /\ ref'[u] = o
  BY DEF LocalsOK, GotoWith, OthersStay

LEMMA StartControl ==
  ASSUME LocalsOK, NEW u \in Threads, NEW label, NEW c, NEW d, NEW next,
         Start(u, label, c, d, next)
  PROVE  OthersStay(u) /\ pc'[u] = label
  BY DEF LocalsOK, Start, OthersStay

LEMMA ReturnControl ==
  ASSUME LocalsOK, NEW u \in Threads, Return(u)
  PROVE  OthersStay(u) /\ pc'[u] \in Returns
  <1>1. after[u] \in Returns
    BY DEF LocalsOK
  <1> QED
    BY <1>1, StartControl DEF Return

LEMMA RefsAreObjects ==
  ASSUME TypeInv, NEW t \in Threads, pc[t] \in RefLabels
  PROVE  ref[t] \in Objects /\ ref[t] # None
  BY NoneAssumption DEF TypeInv, LocalsOK, LocalsInUse

\* A thread that holds no session without a timer may let sessions go and
\* add timers, wherever it continues but at the removal of a timer.
LEMMA TimersStay ==
  ASSUME TimerInv, NEW u \in Threads, OthersStay(u),
         pc[u] \notin {"push", "unmap"}, pc'[u] # "unheap",
         heap \subseteq heap',
         \A c \in Calls : sessions'[c] \in {sessions[c], None}
  PROVE  MapInv' /\ SessionsTimed'
  <1>1. MapInv'
    <2>1. ASSUME NEW t \in Threads, pc'[t] = "unheap", NEW c \in Calls
          PROVE  sessions'[c] # ref'[t]
      <3>1. pc[t] = "unheap" /\ ref'[t] = ref[t]
        BY <2>1 DEF OthersStay
      <3> QED
        BY <3>1, RefsAreObjects DEF TimerInv, MapInv, RefLabels
    <2> QED
      BY <2>1 DEF TimerInv, MapInv
  <1>2. Monitor \in Threads
    BY DEF Threads
  <1>3. ASSUME NEW c \in Calls, sessions'[c] # None
        PROVE  \/ sessions'[c] \in heap'
               \/ \E t \in Threads : pc'[t] = "push" /\ ref'[t] = sessions'[c]
               \/ pc'[Monitor] = "unmap" /\ call'[Monitor] = c
    <2>1. sessions'[c] = sessions[c]
      BY <1>3
    <2>2. CASE sessions[c] \in heap
      BY <2>1, <2>2
    <2>3. CASE \E t \in Threads : pc[t] = "push" /\ ref[t] = sessions[c]
      BY <2>1, <2>3 DEF OthersStay
    <2>4. CASE pc[Monitor] = "unmap" /\ call[Monitor] = c
      BY <1>2, <2>4 DEF OthersStay
    <2> QED
      BY <1>3, <2>1, <2>2, <2>3, <2>4 DEF TimerInv, SessionsTimed
  <1> QED
    BY <1>1, <1>3 DEF SessionsTimed

LEMMA OperationTimer ==
  ASSUME TimerInv, NEW t \in Threads, Operation(t)
  PROVE  MapInv' /\ SessionsTimed'
  <1> USE DEF TimerInv, TypeInv
  <1>1. CASE LoadOrStore(t)
    <2> DEFINE c == call[t]
               o == NewObject(c)
    <2>1. c \in Calls
      BY <1>1, LocalsFacts DEF LoadOrStore
    <2>2. CASE sessions[c] # None
      <3>1. OthersStay(t) /\ pc'[t] = "touch" /\ sessions' = sessions /\ heap' = heap
        BY <1>1, <2>2, GotoWithControl DEF LoadOrStore, maps
      <3> QED
        BY <1>1, <3>1, TimersStay DEF LoadOrStore
    <2>3. CASE sessions[c] = None
      <3>1. /\ OthersStay(t) /\ pc'[t] = "push" /\ ref'[t] = o
            /\ sessions' = [sessions EXCEPT ![c] = o] /\ heap' = heap
            /\ Unused(c) # {}
        BY <1>1, <2>3, GotoWithControl DEF LoadOrStore
      <3>2. /\ o \in Objects /\ Owner(o) = c
            /\ \A u \in Threads : ref[u] # o
        BY <2>1, <3>1, NewObjectFacts
      <3>3. MapInv'
        BY <2>1, <3>1, <3>2 DEF MapInv, OthersStay, SharedOK
      <3>4. SessionsTimed'
        <4>1. ASSUME NEW d \in Calls, d # c, sessions[d] # None
              PROVE  \/ sessions[d] \in heap'
                     \/ \E u \in Threads : pc'[u] = "push" /\ ref'[u] = sessions[d]
                     \/ pc'[Monitor] = "unmap" /\ call'[Monitor] = d
          BY <1>1, <3>1, <4>1 DEF SessionsTimed, OthersStay, LoadOrStore, Threads
        <4> QED
          BY <2>1, <3>1, <4>1 DEF SessionsTimed, SharedOK
      <3> QED
        BY <3>3, <3>4
    <2> QED
      BY <2>2, <2>3
  <1>2. CASE Push(t)
    <2>1. /\ OthersStay(t) /\ pc'[t] \in Returns
          /\ sessions' = sessions /\ heap' = heap \union {ref[t]}
      BY <1>2, ReturnControl DEF Push, CacheTimestamp
    <2>2. MapInv'
      BY <2>1 DEF MapInv, OthersStay, Returns
    <2>3. SessionsTimed'
      BY <1>2, <2>1 DEF SessionsTimed, OthersStay, Push, Threads
    <2> QED
      BY <2>2, <2>3
  <1>3. CASE LoadAndDelete(t)
    <2>1. call[t] \in Calls
      BY <1>3, LocalsFacts DEF LoadAndDelete
    <2>2. CASE sessions[call[t]] = None
      <3>1. OthersStay(t) /\ pc'[t] \in Returns /\ sessions' = sessions /\ heap' = heap
        BY <1>3, <2>2, ReturnControl DEF LoadAndDelete, ForgetTimestamp
      <3> QED
        BY <1>3, <3>1, TimersStay DEF LoadAndDelete, Returns
    <2>3. CASE sessions[call[t]] # None
      <3>1. /\ OthersStay(t) /\ pc'[t] = "unheap" /\ ref'[t] = sessions[call[t]]
            /\ sessions' = [sessions EXCEPT ![call[t]] = None] /\ heap' = heap
        BY <1>3, <2>3, GotoWithControl DEF LoadAndDelete
      <3>2. /\ sessions'[call[t]] = None
            /\ \A c \in Calls \ {call[t]} : sessions'[c] = sessions[c]
        BY <2>1, <3>1 DEF SharedOK
      <3>3. MapInv'
        <4>1. ASSUME NEW u \in Threads, pc'[u] = "unheap", NEW c \in Calls
              PROVE  sessions'[c] # ref'[u]
          <5>1. CASE u = t
            BY <2>1, <2>3, <3>1, <3>2, <5>1 DEF MapInv
          <5>2. CASE u # t
            <6>1. pc[u] = "unheap" /\ ref'[u] = ref[u]
              BY <3>1, <4>1, <5>2 DEF OthersStay
            <6> QED
              BY <3>2, <6>1, RefsAreObjects DEF MapInv, RefLabels
          <5> QED
            BY <5>1, <5>2
        <4> QED
          BY <3>2, <4>1 DEF MapInv
      <3>4. SessionsTimed'
        BY <1>3, <3>1, <3>2
        DEF SessionsTimed, OthersStay, LoadAndDelete, Threads
      <3> QED
        BY <3>3, <3>4
    <2> QED
      BY <2>2, <2>3
  <1>4. CASE RemoveFromHeap(t)
    <2>1. /\ OthersStay(t) /\ pc'[t] \in Returns /\ pc[t] = "unheap"
          /\ sessions' = sessions /\ heap' = heap \ {ref[t]}
      BY <1>4, ReturnControl DEF RemoveFromHeap, ForgetTimestamp
    <2>2. MapInv'
      BY <2>1 DEF MapInv, OthersStay, Returns
    <2>3. SessionsTimed'
      BY <2>1 DEF SessionsTimed, MapInv, OthersStay, Threads
    <2> QED
      BY <2>2, <2>3
  <1>5. CASE \/ UpdateGuard(t) \/ Touch(t) \/ ShortenCache(t) \/ ShortenGuard(t)
             \/ ShortenLoad(t) \/ ShortenTouch(t) \/ ShortenFix(t)
             \/ HangupGuard(t) \/ StopListener(t) \/ Tombstone(t) \/ Report(t)
    <2>1. pc[t] \notin {"push", "unmap"} /\ sessions' = sessions /\ heap' = heap
      BY <1>5
      DEF UpdateGuard, Touch, ShortenCache, ShortenGuard, ShortenLoad,
          ShortenTouch, ShortenFix, HangupGuard, StopListener, Tombstone,
          Report, maps
    <2>2. OthersStay(t) /\ pc'[t] # "unheap"
      <3>1. CASE UpdateGuard(t) \/ ShortenGuard(t) \/ HangupGuard(t)
        BY <3>1, GotoControl, ReturnControl
        DEF UpdateGuard, ShortenGuard, HangupGuard, Returns
      <3>2. CASE Touch(t) \/ ShortenCache(t) \/ ShortenFix(t)
        BY <3>2, ReturnControl
        DEF Touch, ShortenCache, ShortenFix, CacheTimestamp, Returns
      <3>3. CASE ShortenLoad(t)
        BY <3>3, GotoWithControl, StartControl DEF ShortenLoad
      <3>4. CASE ShortenTouch(t) \/ StopListener(t)
        BY <3>4, GotoControl, StartControl DEF ShortenTouch, StopListener
      <3>5. CASE Tombstone(t)
        BY <3>5 DEF Tombstone, OthersStay, LocalsOK
      <3>6. CASE Report(t)
        BY <3>6, ReturnControl, StartControl DEF Report, Returns
      <3> QED
        BY <1>5, <3>1, <3>2, <3>3, <3>4, <3>5, <3>6
    <2> QED
      BY <2>1, <2>2, TimersStay
  <1> QED
    BY <1>1, <1>2, <1>3, <1>4, <1>5 DEF Operation

LEMMA MonitorTimer ==
  ASSUME TimerInv, MonitorStep
  PROVE  MapInv' /\ SessionsTimed'
  <1> USE DEF TimerInv, TypeInv
  <1>m. Monitor \in Threads
    BY DEF Threads
  <1>1. CASE ScanPops
    <2>1. PICK o \in Tops :
            /\ heap' = heap \ {o} /\ sessions' = sessions
            /\ pc' = [pc EXCEPT ![Monitor] = "unmap"]
            /\ ref' = [ref EXCEPT ![Monitor] = o]
            /\ call' = [call EXCEPT ![Monitor] = Owner(o)]
      BY <1>1 DEF ScanPops
    <2>2. /\ OthersStay(Monitor) /\ pc[Monitor] = "scan"
          /\ pc'[Monitor] = "unmap" /\ call'[Monitor] = Owner(o)
      BY <1>m, <1>1, <2>1 DEF OthersStay, LocalsOK, ScanPops
    <2>3. MapInv'
      BY <2>1, <2>2 DEF MapInv, OthersStay
    <2>4. SessionsTimed'
      BY <2>1, <2>2 DEF SessionsTimed, MapInv, OthersStay
    <2> QED
      BY <2>3, <2>4
  <1>2. CASE Unmap
    <2>1. /\ OthersStay(Monitor) /\ pc'[Monitor] = "expire" /\ pc[Monitor] = "unmap"
          /\ sessions' = [sessions EXCEPT ![call[Monitor]] = None] /\ heap' = heap
      BY <1>m, <1>2, GotoWithControl DEF Unmap
    <2>2. call[Monitor] \in Calls
      BY <1>m, <2>1, LocalsFacts
    <2>3. /\ sessions'[call[Monitor]] = None
          /\ \A c \in Calls \ {call[Monitor]} : sessions'[c] = sessions[c]
      BY <2>1, <2>2 DEF SharedOK
    <2>4. MapInv'
      <3>1. ASSUME NEW u \in Threads, pc'[u] = "unheap", NEW c \in Calls
            PROVE  sessions'[c] # ref'[u]
        <4>1. pc[u] = "unheap" /\ ref'[u] = ref[u]
          BY <2>1, <3>1 DEF OthersStay
        <4> QED
          BY <2>3, <4>1, RefsAreObjects DEF MapInv, RefLabels
      <3> QED
        BY <2>3, <3>1 DEF MapInv
    <2>5. SessionsTimed'
      BY <2>1, <2>3 DEF SessionsTimed, OthersStay
    <2> QED
      BY <2>4, <2>5
  <1>3. CASE \/ Wake \/ ScanExtended \/ ScanEnds \/ Expire \/ HandleActive
             \/ Reactivate \/ HandleTimeout \/ Collect \/ HandleStale \/ Sleep
    <2>1. pc[Monitor] \notin {"push", "unmap"} /\ sessions' = sessions /\ heap' = heap
      BY <1>3
      DEF Wake, ScanExtended, ScanEnds, Expire, HandleActive, Reactivate,
          HandleTimeout, Collect, HandleStale, Sleep, maps
    <2>2. OthersStay(Monitor) /\ pc'[Monitor] # "unheap"
      <3>1. CASE Wake \/ ScanEnds \/ Reactivate \/ Collect \/ Sleep
        BY <1>m, <3>1, GotoControl DEF Wake, ScanEnds, Reactivate, Collect, Sleep
      <3>2. CASE Expire \/ HandleActive \/ HandleTimeout \/ HandleStale
        BY <1>m, <3>2, StartControl
        DEF Expire, HandleActive, HandleTimeout, HandleStale
      <3>3. CASE ScanExtended
        BY <3>3 DEF ScanExtended, locals, OthersStay
      <3> QED
        BY <1>3, <3>1, <3>2, <3>3
    <2> QED
      BY <1>m, <2>1, <2>2, TimersStay
  <1> QED
    BY <1>1, <1>2, <1>3 DEF MonitorStep

LEMMA EnvironmentTimer ==
  ASSUME TimerInv, Environment \/ \E w \in Workers : Receive(w)
  PROVE  MapInv' /\ SessionsTimed'
  <1> USE DEF TimerInv, TypeInv
  <1>1. CASE \E w \in Workers : Receive(w)
    <2>1. PICK w \in Workers, c \in Calls, d \in 0..MaxTTL :
            Challenge(w, c) \/ Signal(w, c, d) \/ Hangup(w, c, d)
      BY <1>1, TimeAssumption DEF Receive
    <2>2. w \in Threads
      BY DEF Threads
    <2>3. /\ OthersStay(w) /\ pc'[w] # "unheap" /\ pc[w] = "idle"
          /\ sessions' = sessions /\ heap' = heap
      BY <2>1, <2>2, StartControl DEF Challenge, Signal, Hangup, maps
    <2> QED
      BY <2>2, <2>3, TimersStay
  <1>2. CASE Environment
    <2>1. UNCHANGED <<sessions, heap, pc, ref, call>>
      BY <1>2
      DEF Environment, EmptyTrash, SweepFinds, SweepDeletes, Flush, Tick,
          StreamActive, StreamIdles, maps, locals
    <2> QED
      BY <2>1 DEF MapInv, SessionsTimed
  <1> QED
    BY <1>1, <1>2

LEMMA TimerStep == TimerInv /\ [Next]_vars => TimerInv'
  <1> SUFFICES ASSUME TimerInv, [Next]_vars PROVE TimerInv'
    OBVIOUS
  <1>1. TypeInv'
    BY TypeStep DEF TimerInv
  <1>2. CASE Next
    BY <1>1, <1>2, OperationTimer, MonitorTimer, EnvironmentTimer
    DEF TimerInv, Next, Step
  <1>3. CASE UNCHANGED vars
    BY <1>1, <1>3 DEF TimerInv, MapInv, SessionsTimed, vars, maps, locals
  <1> QED
    BY <1>2, <1>3

\* Whatever the interleaving of updates, removals and scans, a session in the
\* map has a timer in the heap, or a goroutine is between storing it and
\* pushing it, or the monitor is about to delete it (manager.go 126-258).
THEOREM EverySessionTimed == Spec => []SessionsTimed
  <1>1. Init => TimerInv
    BY TypeInit DEF Init, TimerInv, MapInv, SessionsTimed
  <1>2. Spec => []TimerInv
    BY <1>1, TimerStep, PTL DEF Spec
  <1> QED
    BY <1>2, PTL DEF TimerInv
-----------------------------------------------------------------------------
(* Calls at rest.  First what the program counter of a thread says about   *)
(* its other locals, whatever the threads do to each other.                *)

LoopLabels == {"idle", "scan", "handle", "stale"}
UpdateLabels == {"update", "store", "touch", "push"}
RemoveLabels == {"tomb", "delete", "unheap"}

WorkerLabels ==
    {"idle", "cache", "shorten", "load", "shortenTouch", "fix",
     "hangup", "stop", "report"} \union UpdateLabels \union RemoveLabels
MonitorLabels ==
    {"unmap", "expire", "reactivate", "again", "report"}
        \union LoopLabels \union UpdateLabels \union RemoveLabels

\* A thread at label p, with the call k and the object r in hand, that is to
\* continue at a.
ThreadOK(t, p, k, r, a) ==
    /\ t \in Workers => p \in WorkerLabels /\ a \in {"idle", "cache", "hangup", "report"}
    /\ t = Monitor => p \in MonitorLabels /\ a \in {"idle", "report", "again", "handle"}
    /\ p \in LoopLabels => k = None
    /\ p \in RefLabels => Owner(r) = k
    /\ p \in RemoveLabels => a \in {"report", "again"}
    /\ p \in UpdateLabels => a \in {"idle", "cache", "hangup", "handle"}
    /\ p = "reactivate" => a = "handle"
    /\ p \notin RemoveLabels \union UpdateLabels \union {"reactivate"} => a = "idle"

ControlInv == \A t \in Threads : ThreadOK(t, pc[t], call[t], ref[t], after[t])

LEMMA ControlStays ==
  ASSUME ControlInv, NEW u \in Threads, OthersStay(u),
         ThreadOK(u, pc'[u], call'[u], ref'[u], after'[u])
  PROVE  ControlInv'
  <1> SUFFICES ASSUME NEW t \in Threads
               PROVE  ThreadOK(t, pc'[t], call'[t], ref'[t], after'[t])
    BY DEF ControlInv
  <1>1. CASE t = u
    BY <1>1
  <1>2. CASE t # u
    <2>1. /\ pc'[t] = pc[t] /\ call'[t] = call[t]
          /\ ref'[t] = ref[t] /\ after'[t] = after[t]
      BY <1>2 DEF OthersStay
    <2> QED
      BY <2>1 DEF ControlInv
  <1> QED
    BY <1>1, <1>2

LEMMA StartLocals ==
  ASSUME LocalsOK, NEW u \in Threads, NEW label, NEW c, NEW d, NEW next,
         Start(u, label, c, d, next)
  PROVE  /\ OthersStay(u)
         /\ pc'[u] = label /\ call'[u] = c /\ ref'[u] = None /\ after'[u] = next
  BY DEF LocalsOK, Start, OthersStay

LEMMA GotoLocals ==
  ASSUME LocalsOK, NEW u \in Threads, NEW label, Goto(u, label)
  PROVE  /\ OthersStay(u) /\ pc'[u] = label
         /\ call'[u] = call[u] /\ ref'[u] = ref[u] /\ after'[u] = after[u]
  BY DEF LocalsOK, Goto, OthersStay

LEMMA GotoWithLocals ==
  ASSUME LocalsOK, NEW u \in Threads, NEW label, NEW o, GotoWith(u, label, o)
  PROVE  /\ OthersStay(u) /\ pc'[u] = label
         /\ call'[u] = call[u] /\ ref'[u] = o /\ after'[u] = after[u]
  BY DEF LocalsOK, GotoWith, OthersStay

LEMMA ReturnLocals ==
  ASSUME LocalsOK, ControlInv, NEW u \in Threads, Return(u)
  PROVE  /\ OthersStay(u) /\ pc'[u] = after[u] /\ after'[u] = "idle"
         /\ call'[u] \in {call[u], None} /\ pc'[u] \in Returns
         /\ ThreadOK(u, pc'[u], call'[u], ref'[u], after'[u])
  <1> DEFINE c == IF after[u] \in {"idle", "handle"} THEN None ELSE call[u]
  <1>1. /\ OthersStay(u) /\ pc'[u] = after[u] /\ call'[u] = c
        /\ ref'[u] = None /\ after'[u] = "idle"
    BY StartLocals DEF Return
  <1>2. after[u] \in Returns
    BY DEF LocalsOK
  <1>3. ThreadOK(u, pc[u], call[u], ref[u], after[u])
    BY DEF ControlInv
  <1>4. ThreadOK(u, after[u], c, None, "idle")
    BY <1>2, <1>3
    DEF ThreadOK, Returns, LoopLabels, UpdateLabels, RemoveLabels,
        WorkerLabels, MonitorLabels, RefLabels
  <1> QED
    BY <1>1, <1>2, <1>4

LEMMA OperationControl ==
  ASSUME TimerInv, ControlInv, NEW u \in Threads, Operation(u)
  PROVE  OthersStay(u) /\ ThreadOK(u, pc'[u], call'[u], ref'[u], after'[u])
  <1> USE DEF TimerInv, TypeInv
  <1>t. ThreadOK(u, pc[u], call[u], ref[u], after[u])
    BY DEF ControlInv
  <1> USE DEF ThreadOK, LoopLabels, UpdateLabels, RemoveLabels, WorkerLabels,
          MonitorLabels, RefLabels
  <1>m. Monitor \notin Workers /\ u \in Workers \union {Monitor}
    BY ThreadAssumption DEF Threads
  <1>1. CASE UpdateGuard(u) \/ ShortenGuard(u) \/ HangupGuard(u)
    <2>1. CASE Return(u)
      BY <2>1, ReturnLocals
    <2>2. CASE ~Return(u)
      <3>1. \/ pc[u] = "update" /\ Goto(u, "store")
            \/ pc[u] = "shorten" /\ Goto(u, "load")
            \/ pc[u] = "hangup" /\ Goto(u, "stop")
        BY <1>1, <2>2 DEF UpdateGuard, ShortenGuard, HangupGuard
      <3> QED
        BY <1>t, <1>m, <3>1, GotoLocals
    <2> QED
      BY <2>1, <2>2
  <1>2. CASE Touch(u) \/ Push(u) \/ ShortenCache(u) \/ ShortenFix(u) \/ RemoveFromHeap(u)
    BY <1>2, ReturnLocals
    DEF Touch, Push, ShortenCache, ShortenFix, RemoveFromHeap, CacheTimestamp,
        ForgetTimestamp
  <1>3. CASE LoadOrStore(u)
    <2>1. call[u] \in Calls
      BY <1>3, LocalsFacts DEF LoadOrStore
    <2>2. PICK o : Owner(o) = call[u] /\ (GotoWith(u, "touch", o) \/ GotoWith(u, "push", o))
      BY <1>3, <2>1, NewObjectFacts DEF LoadOrStore, MapInv
    <2>3. pc[u] = "store"
      BY <1>3 DEF LoadOrStore
    <2> QED
      BY <1>t, <1>m, <2>2, <2>3, GotoWithLocals
  <1>4. CASE ShortenLoad(u)
    <2>1. call[u] \in Calls /\ pc[u] = "load"
      BY <1>4, LocalsFacts DEF ShortenLoad
    <2>2. CASE sessions[call[u]] # None
      <3>1. Owner(sessions[call[u]]) = call[u]
        BY <2>1, <2>2 DEF MapInv
      <3> QED
        BY <1>4, <1>t, <1>m, <2>1, <2>2, <3>1, GotoWithLocals DEF ShortenLoad
    <2>3. CASE sessions[call[u]] = None
      BY <1>4, <1>t, <1>m, <2>1, <2>3, StartLocals DEF ShortenLoad
    <2> QED
      BY <2>2, <2>3
  <1>5. CASE ShortenTouch(u)
    BY <1>5, <1>t, <1>m, GotoLocals DEF ShortenTouch
  <1>6. CASE StopListener(u)
    BY <1>6, <1>t, <1>m, StartLocals DEF StopListener
  <1>7. CASE Tombstone(u)
    BY <1>7, <1>t, <1>m DEF Tombstone, OthersStay, LocalsOK
  <1>8. CASE LoadAndDelete(u)
    <2>1. call[u] \in Calls /\ pc[u] = "delete"
      BY <1>8, LocalsFacts DEF LoadAndDelete
    <2>2. CASE sessions[call[u]] # None
      <3>1. Owner(sessions[call[u]]) = call[u]
        BY <2>1, <2>2 DEF MapInv
      <3> QED
        BY <1>8, <1>t, <1>m, <2>1, <2>2, <3>1, GotoWithLocals DEF LoadAndDelete
    <2>3. CASE sessions[call[u]] = None
      BY <1>8, <2>3, ReturnLocals DEF LoadAndDelete, ForgetTimestamp
    <2> QED
      BY <2>2, <2>3
  <1>9. CASE Report(u)
    <2>1. CASE u = Monitor
      BY <1>9, <1>t, <1>m, <2>1, StartLocals DEF Report
    <2>2. CASE u # Monitor
      BY <1>9, <2>2, ReturnLocals DEF Report
    <2> QED
      BY <2>1, <2>2
  <1> QED
    BY <1>1, <1>2, <1>3, <1>4, <1>5, <1>6, <1>7, <1>8, <1>9 DEF Operation

LEMMA MonitorControl ==
  ASSUME TimerInv, ControlInv, MonitorStep
  PROVE  /\ OthersStay(Monitor)
         /\ ThreadOK(Monitor, pc'[Monitor], call'[Monitor], ref'[Monitor], after'[Monitor])
  <1> USE DEF TimerInv, TypeInv
  <1>m. Monitor \in Threads /\ Monitor \notin Workers
    BY ThreadAssumption DEF Threads
  <1>t. ThreadOK(Monitor, pc[Monitor], call[Monitor], ref[Monitor], after[Monitor])
    BY <1>m DEF ControlInv
  <1> USE DEF ThreadOK, LoopLabels, UpdateLabels, RemoveLabels, WorkerLabels,
          MonitorLabels, RefLabels
  <1>1. CASE Wake \/ ScanEnds \/ Reactivate \/ Collect \/ Sleep
    BY <1>1, <1>t, <1>m, GotoLocals DEF Wake, ScanEnds, Reactivate, Collect, Sleep
  <1>2. CASE Expire \/ HandleActive \/ HandleTimeout \/ HandleStale
    BY <1>2, <1>m, StartLocals DEF Expire, HandleActive, HandleTimeout, HandleStale
  <1>3. CASE ScanExtended
    BY <1>3, <1>t DEF ScanExtended, locals, OthersStay
  <1>4. CASE ScanPops
    BY <1>4, <1>t, <1>m DEF ScanPops, OthersStay, LocalsOK
  <1>5. CASE Unmap
    BY <1>5, <1>t, <1>m, GotoWithLocals DEF Unmap
  <1> QED
    BY <1>1, <1>2, <1>3, <1>4, <1>5 DEF MonitorStep

LEMMA ReceiveControl ==
  ASSUME TimerInv, NEW w \in Workers, Receive(w)
  PROVE  /\ OthersStay(w) /\ pc[w] = "idle"
         /\ pc'[w] \in {"update", "shorten"} /\ after'[w] \in {"idle", "hangup"}
         /\ ThreadOK(w, pc'[w], call'[w], ref'[w], after'[w])
         /\ UNCHANGED <<maps, tombs, tsCache, streams, passes, owed>>
  <1>1. PICK c \in Calls, d \in Deadlines \union {ShortTTL} :
          Challenge(w, c) \/ Signal(w, c, d) \/ Hangup(w, c, d)
    BY DEF Receive
  <1>2. w \in Threads /\ w # Monitor
    BY ThreadAssumption DEF Threads
  <1>3. \/ Start(w, "update", c, d, "idle") \/ Start(w, "update", c, d, "hangup")
        \/ Start(w, "shorten", c, ShortTTL, "idle")
    BY <1>1 DEF Challenge, Signal, Hangup
  <1>4. /\ OthersStay(w) /\ ref'[w] = None
        /\ \/ pc'[w] = "update" /\ after'[w] \in {"idle", "hangup"}
           \/ pc'[w] = "shorten" /\ after'[w] = "idle"
    BY <1>2, <1>3, StartLocals DEF TimerInv, TypeInv
  <1>5. ThreadOK(w, pc'[w], call'[w], ref'[w], after'[w])
    BY <1>2, <1>4
    DEF ThreadOK, LoopLabels, UpdateLabels, RemoveLabels, WorkerLabels, RefLabels
  <1> QED
    BY <1>1, <1>4, <1>5 DEF Challenge, Signal, Hangup

LEMMA EnvironmentLocals ==
  ASSUME Environment
  PROVE  UNCHANGED <<sessions, heap, pc, ref, call, after, passes>>
  BY DEF Environment, EmptyTrash, SweepFinds, SweepDeletes, Flush, Tick,
         StreamActive, StreamIdles, maps, locals, passes

LEMMA ControlStep ==
  ASSUME TimerInv, ControlInv, [Next]_vars
  PROVE  ControlInv'
  <1>1. CASE \E w \in Workers : Receive(w)
    BY <1>1, ReceiveControl, ControlStays DEF Threads
  <1>2. CASE \E t \in Threads : Operation(t)
    BY <1>2, OperationControl, ControlStays
  <1>3. CASE MonitorStep
    BY <1>3, MonitorControl, ControlStays DEF Threads
  <1>4. CASE Environment
    BY <1>4, EnvironmentLocals DEF ControlInv
  <1>5. CASE UNCHANGED vars
    BY <1>5 DEF ControlInv, vars, locals
  <1> QED
    BY <1>1, <1>2, <1>3, <1>4, <1>5 DEF Next, Step

-----------------------------------------------------------------------------
(* What the threads that are busy with a call may leave unsaid, while no   *)
(* end of the call overlaps anything else.                                 *)

\* A thread that has found no tombstone and relies on it.
PastGuard(t) ==
    \/ pc[t] \in {"store", "touch", "push", "cache", "load", "shortenTouch", "fix"}
    \/ after[t] = "cache"
    \/ t = Monitor /\ pc[t] = "update"

\* The monitor has yet to handle the expiry of the call.
Waiting(c) == \E i \in DOMAIN expired : expired[i] = c

\* A thread is about to lift the tombstone of the call, or to remove what the
\* call has left behind it.
Clearing(c) ==
    \E t \in Threads : call[t] = c /\ pc[t] \in RemoveLabels \union {"reactivate"}

\* The timer of a call is that of its session, or about to be removed; what
\* each thread has in hand is what the map still holds of the call, or does
\* not hold any more; and a tombstone finds the call gone, or going.
CallInv(c) ==
    /\ \A o \in heap : Owner(o) = c =>
         \/ o = sessions[c]
         \/ \E t \in Threads : call[t] = c /\ pc[t] = "unheap" /\ ref[t] = o
    /\ \A t \in Threads : call[t] = c =>
         /\ pc[t] = "push" => ref[t] = sessions[c]
         /\ pc[t] \in {"unheap", "expire"} => sessions[c] = None
         /\ pc[t] = "unmap" =>
              ref[t] = sessions[c] /\ ref[t] \notin heap /\ left[ref[t]] = 0
         /\ PastGuard(t) => c \notin terminated
    /\ c \in terminated =>
         /\ \/ sessions[c] = None
            \/ \E t \in Threads : call[t] = c /\ pc[t] = "delete"
         /\ c \notin tsCache \/ Waiting(c) \/ Clearing(c)

QuietInv ==
    /\ TimerInv
    /\ ControlInv
    /\ \A c \in Calls \ raced : ~Overlap(c) /\ CallInv(c)

\* Thread u is the only one that has the call in hand.
Alone(u, c) == \A t \in Threads \ {u} : call[t] # c

LEMMA EndingAlone ==
  ASSUME NEW u \in Threads, NEW c, Ending(u, c), ~Overlap(c)
  PROVE  Alone(u, c)
  BY DEF Overlap, Alone, Involved

\* The monitor, and a worker that removes a session, end a call.
LEMMA RemoverEnds ==
  ASSUME ControlInv, NEW u \in Threads, NEW c, call[u] = c,
         u = Monitor \/ pc[u] \in RemoveLabels
  PROVE  Ending(u, c)
  BY DEF ControlInv, ThreadOK, RemoveLabels, Ending, Involved, Threads

\* A step of thread u that adds nothing to the map, and no timer but that of
\* the session, leaves the call as it was.
LEMMA CallStays ==
  ASSUME NEW c \in Calls, CallInv(c), NEW u \in Threads, OthersStay(u),
         call[u] = c => pc[u] \notin RemoveLabels \union {"reactivate"},
         call'[u] = c =>
           /\ pc'[u] \notin {"push", "unheap", "expire", "unmap"}
           /\ PastGuard(u)' => c \notin terminated,
         sessions'[c] = sessions[c],
         \A o \in heap' : Owner(o) = c => o \in heap \/ o = sessions[c],
         \A t \in Threads : (call[t] = c /\ pc[t] = "unmap" /\ left[ref[t]] = 0) =>
           (left'[ref[t]] = 0 /\ (ref[t] \notin heap => ref[t] \notin heap')),
         c \in terminated' => c \in terminated,
         (c \in tsCache' /\ c \in terminated') => c \in tsCache,
         Waiting(c) => Waiting(c)' \/ Clearing(c)'
  PROVE  CallInv(c)'
  <1>1. ASSUME NEW o \in heap', Owner(o) = c, o # sessions'[c]
        PROVE  \E t \in Threads : call'[t] = c /\ pc'[t] = "unheap" /\ ref'[t] = o
    <2>1. PICK t \in Threads : call[t] = c /\ pc[t] = "unheap" /\ ref[t] = o
      BY <1>1 DEF CallInv
    <2> QED
      BY <2>1 DEF OthersStay, RemoveLabels
  <1>2. ASSUME NEW t \in Threads, call'[t] = c
        PROVE  /\ pc'[t] = "push" => ref'[t] = sessions'[c]
               /\ pc'[t] \in {"unheap", "expire"} => sessions'[c] = None
               /\ pc'[t] = "unmap" =>
                    ref'[t] = sessions'[c] /\ ref'[t] \notin heap' /\ left'[ref'[t]] = 0
               /\ PastGuard(t)' => c \notin terminated'
    <2>1. CASE t = u
      BY <1>2, <2>1
    <2>2. CASE t # u
      <3>1. /\ pc'[t] = pc[t] /\ call'[t] = call[t]
            /\ ref'[t] = ref[t] /\ after'[t] = after[t]
        BY <2>2 DEF OthersStay
      <3>2. PastGuard(t)' <=> PastGuard(t)
        BY <3>1 DEF PastGuard
      <3> QED
        BY <1>2, <3>1, <3>2 DEF CallInv
    <2> QED
      BY <2>1, <2>2
  <1>3. ASSUME c \in terminated', sessions'[c] # None
        PROVE  \E t \in Threads : call'[t] = c /\ pc'[t] = "delete"
    <2>1. PICK t \in Threads : call[t] = c /\ pc[t] = "delete"
      BY <1>3 DEF CallInv
    <2> QED
      BY <2>1 DEF OthersStay, RemoveLabels
  <1>4. ASSUME c \in terminated', c \in tsCache'
        PROVE  Waiting(c)' \/ Clearing(c)'
    <2>1. CASE Waiting(c)
      BY <2>1
    <2>2. CASE Clearing(c)
      BY <2>2 DEF Clearing, OthersStay
    <2> QED
      BY <1>4, <2>1, <2>2 DEF CallInv
  <1> QED
    BY <1>1, <1>2, <1>3, <1>4 DEF CallInv

\* What an operation of thread u does to calls other than the one in hand.
LEMMA OperationEffect ==
  ASSUME TimerInv, ControlInv, NEW u \in Threads, Operation(u)
  PROVE  /\ call'[u] \in {call[u], None}
         /\ \A c \in Calls \ {call[u]} : sessions'[c] = sessions[c]
         /\ \A o \in heap' : o \in heap \/ Owner(o) = call[u]
         /\ \A o \in Objects : Owner(o) # call[u] => left'[o] \in {left[o], 0}
         /\ terminated' \subseteq terminated \union {call[u]}
         /\ tsCache' \subseteq tsCache \union {call[u]}
         /\ expired' = expired
  <1> USE DEF TimerInv, TypeInv, maps, tombs, streams, passes
  <1>t. pc[u] \in RefLabels => Owner(ref[u]) = call[u] /\ ref[u] \in Objects
    BY LocalsFacts DEF ControlInv, ThreadOK
  <1>1. CASE \/ UpdateGuard(u) \/ ShortenGuard(u) \/ HangupGuard(u)
             \/ StopListener(u) \/ Tombstone(u) \/ Report(u)
    <2>1. call'[u] \in {call[u], None}
      <3>1. CASE Tombstone(u)
        BY <3>1 DEF Tombstone
      <3>2. CASE ~Tombstone(u)
        BY <1>1, <3>2, ReturnLocals, GotoLocals, StartLocals
        DEF UpdateGuard, ShortenGuard, HangupGuard, StopListener, Report
      <3> QED
        BY <3>1, <3>2
    <2>2. /\ UNCHANGED <<maps, tsCache, expired>>
          /\ terminated' \in {terminated, terminated \union {call[u]}}
      BY <1>1
      DEF UpdateGuard, ShortenGuard, HangupGuard, StopListener, Tombstone, Report
    <2> QED
      BY <2>1, <2>2
  <1>2. CASE Touch(u) \/ Push(u) \/ ShortenCache(u) \/ ShortenFix(u) \/ ShortenTouch(u)
    <2>1. call'[u] \in {call[u], None}
      BY <1>2, ReturnLocals, GotoLocals
      DEF Touch, Push, ShortenCache, ShortenFix, ShortenTouch, CacheTimestamp
    <2>2. /\ UNCHANGED <<sessions, terminated, expired>>
          /\ tsCache' = tsCache \/ tsCache' = tsCache \union {call[u]}
          /\ heap' = heap \/ (pc[u] = "push" /\ heap' = heap \union {ref[u]})
          /\ \/ left' = left
             \/ pc[u] \in RefLabels /\ left' = [left EXCEPT ![ref[u]] = due[u]]
      <3>1. CASE Touch(u) \/ ShortenTouch(u)
        BY <3>1 DEF Touch, ShortenTouch, CacheTimestamp, RefLabels
      <3>2. CASE Push(u) \/ ShortenCache(u) \/ ShortenFix(u)
        BY <3>2 DEF Push, ShortenCache, ShortenFix, CacheTimestamp
      <3> QED
        BY <1>2, <3>1, <3>2
    <2>3. \A o \in Objects : Owner(o) # call[u] => left'[o] = left[o]
      BY <1>t, <2>2 DEF SharedOK
    <2> QED
      BY <1>t, <2>1, <2>2, <2>3 DEF RefLabels
  <1>3. CASE LoadOrStore(u) \/ ShortenLoad(u) \/ LoadAndDelete(u)
    <2>1. call[u] \in Calls
      BY <1>3, LocalsFacts DEF LoadOrStore, ShortenLoad, LoadAndDelete
    <2>2. call'[u] \in {call[u], None}
      BY <1>3, GotoWithLocals, StartLocals, ReturnLocals
      DEF LoadOrStore, ShortenLoad, LoadAndDelete, ForgetTimestamp
    <2>3. /\ UNCHANGED <<heap, terminated, expired>>
          /\ tsCache' \subseteq tsCache
          /\ \A c \in Calls \ {call[u]} : sessions'[c] = sessions[c]
      BY <1>3, <2>1
      DEF LoadOrStore, ShortenLoad, LoadAndDelete, ForgetTimestamp, SharedOK
    <2>4. \A o \in Objects : Owner(o) # call[u] => left'[o] = left[o]
      <3>1. CASE left' = left
        BY <3>1
      <3>2. CASE left' # left
        <4>1. /\ Unused(call[u]) # {}
              /\ left' = [left EXCEPT ![NewObject(call[u])] = due[u]]
          BY <1>3, <3>2 DEF LoadOrStore, ShortenLoad, LoadAndDelete
        <4> QED
          BY <2>1, <4>1, NewObjectFacts DEF SharedOK
      <3> QED
        BY <3>1, <3>2
    <2> QED
      BY <2>2, <2>3, <2>4
  <1>4. CASE RemoveFromHeap(u)
    <2>1. call'[u] \in {call[u], None}
      BY <1>4, ReturnLocals DEF RemoveFromHeap, ForgetTimestamp
    <2>2. \A o \in Objects : Owner(o) # call[u] => left'[o] = left[o]
      BY <1>4, <1>t DEF RemoveFromHeap, Dropped, SharedOK, RefLabels
    <2> QED
      BY <1>4, <2>1, <2>2 DEF RemoveFromHeap, ForgetTimestamp
  <1> QED
    BY <1>1, <1>2, <1>3, <1>4 DEF Operation

\* While thread u has the call in hand, the monitor is not about to delete
\* its session, unless u is the monitor.
LEMMA NoOtherUnmap ==
  ASSUME ControlInv, NEW u \in Threads, NEW c, call[u] = c, ~Overlap(c),
         pc[u] # "unmap", NEW t \in Threads, call[t] = c
  PROVE  pc[t] # "unmap"
  <1> SUFFICES ASSUME pc[t] = "unmap" PROVE FALSE
    OBVIOUS
  <1>1. t = Monitor
    BY DEF ControlInv, ThreadOK, WorkerLabels, UpdateLabels, RemoveLabels, Threads
  <1>2. Alone(t, c)
    BY <1>1, RemoverEnds, EndingAlone
  <1> QED
    BY <1>2 DEF Alone

\* Operations that concern another call.
LEMMA OtherCallStays ==
  ASSUME TimerInv, ControlInv, NEW u \in Threads, Operation(u),
         NEW c \in Calls, c # call[u], CallInv(c)
  PROVE  CallInv(c)'
  <1>1. c # None /\ OthersStay(u)
    BY NoneAssumption, OperationControl
  <1>2. ASSUME NEW t \in Threads, call[t] = c, pc[t] = "unmap"
        PROVE  ref[t] \in Objects /\ Owner(ref[t]) = c
    BY <1>2, LocalsFacts DEF TimerInv, TypeInv, ControlInv, ThreadOK, RefLabels
  <1>3. ASSUME NEW t \in Threads, call[t] = c, pc[t] = "unmap", left[ref[t]] = 0
        PROVE  left'[ref[t]] = 0 /\ (ref[t] \notin heap => ref[t] \notin heap')
    BY <1>2, <1>3, OperationEffect
  <1>4. Waiting(c) => Waiting(c)'
    BY OperationEffect DEF Waiting
  <1>5. /\ call'[u] # c /\ sessions'[c] = sessions[c]
        /\ \A o \in heap' : Owner(o) = c => o \in heap
        /\ c \in terminated' => c \in terminated
        /\ c \in tsCache' => c \in tsCache
    BY <1>1, OperationEffect
  <1> QED
    BY <1>1, <1>3, <1>4, <1>5, CallStays

\* Operations on the call in hand that leave the map and the tombstones alone.
LEMMA UpdatesKeepCall ==
  ASSUME TimerInv, ControlInv, NEW u \in Threads, NEW c \in Calls, call[u] = c,
         CallInv(c), ~Overlap(c),
         \/ UpdateGuard(u) \/ Touch(u) \/ Push(u) \/ ShortenCache(u)
         \/ ShortenGuard(u) \/ ShortenLoad(u) \/ ShortenTouch(u) \/ ShortenFix(u)
         \/ HangupGuard(u) \/ StopListener(u) \/ Report(u)
         \/ LoadOrStore(u) /\ sessions[c] # None
  PROVE  CallInv(c)'
  <1> USE DEF TimerInv, TypeInv
  <1>o. Operation(u)
    BY DEF Operation
  <1>t. ThreadOK(u, pc[u], call[u], ref[u], after[u])
    BY DEF ControlInv
  <1>1. /\ OthersStay(u) /\ c # None
        /\ pc[u] \notin RemoveLabels \union {"reactivate", "unmap"}
    BY <1>o, OperationControl, NoneAssumption
    DEF RemoveLabels, UpdateGuard, Touch, Push, ShortenCache, ShortenGuard,
        ShortenLoad, ShortenTouch, ShortenFix, HangupGuard, StopListener,
        Report, LoadOrStore
  <1>2. \A t \in Threads : call[t] = c => pc[t] # "unmap"
    BY <1>1, NoOtherUnmap
  <1>3. PastGuard(u) => c \notin terminated
    BY DEF CallInv
  <1>4. Waiting(c) => Waiting(c)'
    BY <1>o, OperationEffect DEF Waiting
  <1>5. sessions' = sessions /\ terminated' = terminated
    BY DEF UpdateGuard, Touch, Push, ShortenCache, ShortenGuard, ShortenLoad,
           ShortenTouch, ShortenFix, HangupGuard, StopListener, Report,
           LoadOrStore, maps, tombs
  <1>6. ASSUME NEW o \in heap', Owner(o) = c
        PROVE  o \in heap \/ o = sessions[c]
    <2>1. CASE Push(u)
      BY <2>1 DEF Push, CallInv
    <2>2. CASE ~Push(u)
      BY <2>2
      DEF UpdateGuard, Touch, ShortenCache, ShortenGuard, ShortenLoad,
          ShortenTouch, ShortenFix, HangupGuard, StopListener, Report,
          LoadOrStore, maps
    <2> QED
      BY <2>1, <2>2
  <1>7. (c \in tsCache' /\ c \in terminated') => c \in tsCache
    <2>1. CASE Touch(u) \/ Push(u) \/ ShortenCache(u) \/ ShortenFix(u)
      BY <1>3, <1>5, <2>1 DEF PastGuard, Touch, Push, ShortenCache, ShortenFix
    <2>2. CASE ~(Touch(u) \/ Push(u) \/ ShortenCache(u) \/ ShortenFix(u))
      BY <2>2
      DEF UpdateGuard, ShortenGuard, ShortenLoad, ShortenTouch, HangupGuard,
          StopListener, Report, LoadOrStore
    <2> QED
      BY <2>1, <2>2
  <1>8. ASSUME call'[u] = c
        PROVE  /\ pc'[u] \notin {"push", "unheap", "expire", "unmap"}
               /\ PastGuard(u)' => c \notin terminated
    <2>1. CASE Return(u)
      BY <1>3, <2>1, ReturnLocals DEF PastGuard, Returns
    <2>2. CASE UpdateGuard(u) /\ ~Return(u)
      BY <2>2, GotoLocals DEF UpdateGuard
    <2>3. CASE ShortenGuard(u) /\ ~Return(u)
      BY <2>3, GotoLocals DEF ShortenGuard
    <2>4. CASE HangupGuard(u) /\ ~Return(u)
      BY <1>t, <2>4, GotoLocals
      DEF HangupGuard, PastGuard, ThreadOK, RemoveLabels, UpdateLabels
    <2>5. CASE Touch(u) \/ Push(u) \/ ShortenCache(u) \/ ShortenFix(u)
      BY <2>1, <2>5 DEF Touch, Push, ShortenCache, ShortenFix, CacheTimestamp
    <2>6. CASE ShortenLoad(u)
      BY <1>3, <2>6, GotoWithLocals, StartLocals DEF ShortenLoad, PastGuard
    <2>7. CASE ShortenTouch(u)
      BY <1>3, <2>7, GotoLocals DEF ShortenTouch, PastGuard
    <2>8. CASE StopListener(u)
      BY <2>8, StartLocals DEF StopListener, PastGuard
    <2>9. CASE Report(u)
      BY <1>1, <1>8, <2>1, <2>9, StartLocals DEF Report
    <2>10. CASE LoadOrStore(u) /\ sessions[c] # None
      BY <1>3, <2>10, GotoWithLocals DEF LoadOrStore, PastGuard
    <2> QED
      BY <2>1, <2>2, <2>3, <2>4, <2>5, <2>6, <2>7, <2>8, <2>9, <2>10
  <1> QED
    BY <1>1, <1>2, <1>4, <1>5, <1>6, <1>7, <1>8, CallStays

\* A thread that opens the session of a call...
LEMMA StoreKeepsCall ==
  ASSUME TimerInv, ControlInv, NEW u \in Threads, NEW c \in Calls, call[u] = c,
         CallInv(c), ~Overlap(c), LoadOrStore(u), sessions[c] = None
  PROVE  CallInv(c)'
  <1> USE DEF TimerInv, TypeInv
  <1> DEFINE n == NewObject(c)
  <1>1. /\ pc[u] = "store" /\ Unused(c) # {} /\ GotoWith(u, "push", n)
        /\ sessions' = [sessions EXCEPT ![c] = n]
        /\ heap' = heap /\ terminated' = terminated
    BY DEF LoadOrStore, tombs
  <1>2. n \in Objects /\ n # None /\ sessions'[c] = n
    BY <1>1, NewObjectFacts, NoneAssumption DEF SharedOK
  <1>3. /\ OthersStay(u) /\ pc'[u] = "push" /\ ref'[u] = n
    BY <1>1, GotoWithLocals
  <1>4. c \notin terminated
    BY <1>1 DEF CallInv, PastGuard
  <1>5. ASSUME NEW t \in Threads, call[t] = c
        PROVE  pc[t] \notin {"push", "unheap", "expire", "unmap"}
    <2>1. pc[t] \notin {"push", "unmap"}
      BY <1>5, RefsAreObjects DEF CallInv, RefLabels
    <2>2. ASSUME pc[t] \in {"unheap", "expire"}
          PROVE  FALSE
      <3>1. t = Monitor \/ pc[t] \in RemoveLabels
        BY <2>2
        DEF ControlInv, ThreadOK, WorkerLabels, UpdateLabels, RemoveLabels, Threads
      <3>2. Alone(t, c)
        BY <1>5, <3>1, RemoverEnds, EndingAlone
      <3> QED
        BY <1>1, <2>2, <3>2 DEF Alone
    <2> QED
      BY <2>1, <2>2
  <1>6. ASSUME NEW o \in heap', Owner(o) = c
        PROVE  FALSE
    BY <1>1, <1>5, <1>6, NoneAssumption DEF CallInv, SharedOK
  <1>7. ASSUME NEW t \in Threads, call'[t] = c
        PROVE  /\ pc'[t] = "push" => ref'[t] = sessions'[c]
               /\ pc'[t] \notin {"unheap", "expire", "unmap"}
    <2>1. CASE t = u
      BY <1>2, <1>3, <2>1
    <2>2. CASE t # u
      BY <1>3, <1>5, <1>7, <2>2 DEF OthersStay
    <2> QED
      BY <2>1, <2>2
  <1> QED
    BY <1>1, <1>4, <1>6, <1>7 DEF CallInv

\* ...and one that ends it.  No other thread has the call in hand.
LEMMA RemovalKeepsCall ==
  ASSUME TimerInv, ControlInv, NEW u \in Threads, NEW c \in Calls, call[u] = c,
         CallInv(c), ~Overlap(c),
         Tombstone(u) \/ LoadAndDelete(u) \/ RemoveFromHeap(u)
  PROVE  CallInv(c)'
  <1> USE DEF TimerInv, TypeInv
  <1>o. Operation(u)
    BY DEF Operation
  <1>1. u = Monitor \/ pc[u] \in RemoveLabels
    BY DEF Tombstone, LoadAndDelete, RemoveFromHeap, RemoveLabels,
           ControlInv, ThreadOK, WorkerLabels, UpdateLabels, Threads
  <1>2. Alone(u, c) /\ OthersStay(u)
    BY <1>o, <1>1, RemoverEnds, EndingAlone, OperationControl
  <1>3. \A t \in Threads : call'[t] = c => t = u
    BY <1>2 DEF Alone, OthersStay
  <1>t. ThreadOK(u, pc[u], call[u], ref[u], after[u])
    BY DEF ControlInv
  <1>n. c # None
    BY NoneAssumption
  <1>4. CASE Tombstone(u)
    <2>1. /\ pc[u] \in {"tomb", "again"} /\ pc'[u] = "delete" /\ call' = call
          /\ after'[u] # "cache"
          /\ sessions' = sessions /\ heap' = heap
      BY <1>4, <1>t DEF Tombstone, maps, LocalsOK, ThreadOK, RemoveLabels
    <2>2. ASSUME NEW o \in heap', Owner(o) = c
          PROVE  o = sessions'[c]
      BY <1>2, <2>1, <2>2 DEF CallInv, Alone
    <2>3. ~PastGuard(u)' /\ pc'[u] \notin {"push", "unheap", "expire", "unmap"}
      BY <2>1 DEF PastGuard
    <2>4. Clearing(c)'
      BY <2>1 DEF Clearing, RemoveLabels
    <2> QED
      BY <1>3, <2>1, <2>2, <2>3, <2>4 DEF CallInv
  <1>5. CASE LoadAndDelete(u) /\ sessions[c] # None
    <2>1. /\ pc[u] = "delete" /\ pc'[u] = "unheap" /\ call'[u] = c
          /\ ref'[u] = sessions[c] /\ after'[u] = after[u] /\ heap' = heap
          /\ sessions' = [sessions EXCEPT ![c] = None]
      BY <1>5, GotoWithLocals DEF LoadAndDelete
    <2>2. sessions'[c] = None
      BY <2>1 DEF SharedOK
    <2>3. ~PastGuard(u)'
      BY <1>t, <2>1 DEF PastGuard, ThreadOK, RemoveLabels
    <2>4. ASSUME NEW o \in heap', Owner(o) = c
          PROVE  o = ref'[u]
      BY <1>2, <2>1, <2>4 DEF CallInv, Alone
    <2>5. Clearing(c)'
      BY <2>1 DEF Clearing, RemoveLabels
    <2> QED
      BY <1>3, <2>1, <2>2, <2>3, <2>4, <2>5 DEF CallInv
  <1>6. CASE LoadAndDelete(u) /\ sessions[c] = None
    <2>1. /\ pc[u] = "delete" /\ Return(u) /\ heap' = heap
          /\ sessions' = sessions /\ tsCache' = tsCache \ {c}
      BY <1>6 DEF LoadAndDelete, ForgetTimestamp
    <2>2. pc'[u] \in {"report", "again"} /\ after'[u] = "idle"
      BY <1>t, <2>1, ReturnLocals DEF ThreadOK, RemoveLabels
    <2>3. ~PastGuard(u)' /\ pc'[u] \notin {"push", "unheap", "expire", "unmap"}
      BY <2>2 DEF PastGuard
    <2>4. ASSUME NEW o \in heap', Owner(o) = c
          PROVE  o = sessions'[c]
      BY <1>2, <2>1, <2>4 DEF CallInv, Alone
    <2> QED
      BY <1>3, <1>6, <2>1, <2>3, <2>4 DEF CallInv
  <1>7. CASE RemoveFromHeap(u)
    <2>1. /\ pc[u] = "unheap" /\ Return(u) /\ heap' = heap \ {ref[u]}
          /\ sessions' = sessions /\ tsCache' = tsCache \ {c}
      BY <1>7 DEF RemoveFromHeap, ForgetTimestamp
    <2>2. pc'[u] \in {"report", "again"} /\ after'[u] = "idle"
      BY <1>t, <2>1, ReturnLocals DEF ThreadOK, RemoveLabels
    <2>3. ~PastGuard(u)' /\ pc'[u] \notin {"push", "unheap", "expire", "unmap"}
      BY <2>2 DEF PastGuard
    <2>4. ASSUME NEW o \in heap', Owner(o) = c
          PROVE  o = sessions'[c]
      BY <1>2, <2>1, <2>4 DEF CallInv, Alone
    <2>5. sessions'[c] = None
      BY <2>1 DEF CallInv
    <2> QED
      BY <1>3, <2>1, <2>3, <2>4, <2>5 DEF CallInv
  <1> QED
    BY <1>4, <1>5, <1>6, <1>7

LEMMA OperationCall ==
  ASSUME TimerInv, ControlInv, NEW u \in Threads, Operation(u),
         NEW c \in Calls, CallInv(c), ~Overlap(c)
  PROVE  CallInv(c)'
  <1>1. CASE c # call[u]
    BY <1>1, OtherCallStays
  <1>2. CASE c = call[u]
    BY <1>2, UpdatesKeepCall, StoreKeepsCall, RemovalKeepsCall DEF Operation
  <1> QED
    BY <1>1, <1>2

\* The list of the expired calls keeps those it is not asked to give up.
LEMMA WaitingLists ==
  ASSUME NEW c \in Calls, expired \in Seq(Calls)
  PROVE  /\ (/\ expired # <<>> /\ expired' = Tail(expired)
             /\ c # Head(expired) /\ Waiting(c)) => Waiting(c)'
         /\ \A d \in Calls :
              (expired' = Append(expired, d) /\ (Waiting(c) \/ c = d)) => Waiting(c)'
  <1>1. ASSUME expired # <<>>, expired' = Tail(expired), c # Head(expired), Waiting(c)
        PROVE  Waiting(c)'
    <2>1. PICK i \in 1..Len(expired) : expired[i] = c
      BY <1>1 DEF Waiting
    <2>2. i # 1 /\ i - 1 \in 1..Len(expired')
      BY <1>1, <2>1
    <2>3. expired'[i - 1] = c /\ i - 1 \in DOMAIN expired'
      BY <1>1, <2>1, <2>2
    <2> QED
      BY <2>3 DEF Waiting
  <1>2. ASSUME NEW d \in Calls, expired' = Append(expired, d), Waiting(c) \/ c = d
        PROVE  Waiting(c)'
    <2>1. CASE Waiting(c)
      <3>1. PICK i \in 1..Len(expired) : expired[i] = c
        BY <2>1 DEF Waiting
      <3>2. expired'[i] = c /\ i \in DOMAIN expired'
        BY <1>2, <3>1
      <3> QED
        BY <3>2 DEF Waiting
    <2>2. CASE c = d
      <3>1. expired'[Len(expired) + 1] = c /\ Len(expired) + 1 \in DOMAIN expired'
        BY <1>2, <2>2
      <3> QED
        BY <3>1 DEF Waiting
    <2> QED
      BY <1>2, <2>1, <2>2
  <1> QED
    BY <1>1, <1>2

\* The steps of the monitor that hand a call over, or take none on.
LEMMA MonitorKeepsCall ==
  ASSUME TimerInv, ControlInv, NEW c \in Calls, CallInv(c),
         \/ Wake \/ ScanExtended \/ ScanEnds \/ HandleActive \/ HandleTimeout
         \/ Collect \/ HandleStale \/ Sleep
  PROVE  CallInv(c)'
  <1> USE DEF TimerInv, TypeInv, NothingElse, maps, tombs, streams, passes
  <1>o. MonitorStep
    BY DEF MonitorStep
  <1>m. Monitor \in Threads /\ c # None
    BY NoneAssumption DEF Threads
  <1>t. ThreadOK(Monitor, pc[Monitor], call[Monitor], ref[Monitor], after[Monitor])
    BY <1>m DEF ControlInv
  <1>1. pc[Monitor] \in LoopLabels /\ call[Monitor] = None
    BY <1>t
    DEF ThreadOK, LoopLabels, Wake, ScanExtended, ScanEnds, HandleActive,
        HandleTimeout, Collect, HandleStale, Sleep
  <1>2. OthersStay(Monitor)
    BY <1>o, MonitorControl
  <1>3. UNCHANGED <<sessions, left, heap, terminated, tsCache>>
    BY DEF Wake, ScanExtended, ScanEnds, HandleActive, HandleTimeout, Collect,
           HandleStale, Sleep
  <1>4. CASE Wake \/ ScanExtended \/ ScanEnds \/ Collect \/ Sleep
    <2>1. call'[Monitor] = None /\ expired' = expired
      BY <1>m, <1>1, <1>4, GotoLocals
      DEF Wake, ScanExtended, ScanEnds, Collect, Sleep, locals
    <2> QED
      BY <1>m, <1>1, <1>2, <1>3, <2>1, CallStays DEF Waiting
  <1>5. CASE HandleActive \/ HandleTimeout
    <2>1. /\ expired # <<>> /\ expired' = Tail(expired)
          /\ call'[Monitor] = Head(expired)
          /\ pc'[Monitor] \in {"reactivate", "tomb"}
          /\ after'[Monitor] \in {"handle", "report"}
      BY <1>m, <1>5, StartLocals DEF HandleActive, HandleTimeout
    <2>2. Waiting(c) => Waiting(c)' \/ Clearing(c)'
      <3>1. CASE c = Head(expired)
        BY <1>m, <2>1, <3>1 DEF Clearing, RemoveLabels
      <3>2. CASE c # Head(expired)
        BY <2>1, <3>2, WaitingLists DEF SharedOK
      <3> QED
        BY <3>1, <3>2
    <2>3. ~PastGuard(Monitor)'
      BY <2>1 DEF PastGuard
    <2> QED
      BY <1>m, <1>1, <1>2, <1>3, <2>1, <2>2, <2>3, CallStays
  <1>6. CASE HandleStale
    <2>1. pc'[Monitor] = "tomb" /\ after'[Monitor] = "again" /\ expired' = expired
      BY <1>m, <1>6, StartLocals DEF HandleStale
    <2>2. ~PastGuard(Monitor)'
      BY <2>1 DEF PastGuard
    <2> QED
      BY <1>m, <1>1, <1>2, <1>3, <2>1, <2>2, CallStays DEF Waiting
  <1> QED
    BY <1>4, <1>5, <1>6

\* The monitor lifts a tombstone, takes a timer, deletes the session, and
\* puts the tombstone.
LEMMA MonitorCall ==
  ASSUME TimerInv, ControlInv, MonitorStep,
         NEW c \in Calls, CallInv(c), ~Overlap(c), ~Overlap(c)'
  PROVE  CallInv(c)'
  <1> USE DEF TimerInv, TypeInv, NothingElse, maps, tombs, streams, passes
  <1>m. Monitor \in Threads /\ c # None
    BY NoneAssumption DEF Threads
  <1>1. OthersStay(Monitor)
    BY MonitorControl
  <1>2. ASSUME call[Monitor] = c
        PROVE  \A t \in Threads : (call[t] = c \/ call'[t] = c) => t = Monitor
    <2>1. Alone(Monitor, c)
      BY <1>m, <1>2, RemoverEnds, EndingAlone
    <2> QED
      BY <1>1, <2>1 DEF Alone, OthersStay
  <1>3. CASE ScanPops
    <2>1. PICK o \in heap :
            /\ pc[Monitor] = "scan" /\ left[o] = 0
            /\ heap' = heap \ {o} /\ pc' = [pc EXCEPT ![Monitor] = "unmap"]
            /\ ref' = [ref EXCEPT ![Monitor] = o]
            /\ call' = [call EXCEPT ![Monitor] = Owner(o)]
            /\ UNCHANGED <<sessions, left, after, terminated, tsCache, expired>>
      BY <1>3 DEF ScanPops, Tops
    <2>2. /\ pc'[Monitor] = "unmap" /\ ref'[Monitor] = o
          /\ call'[Monitor] = Owner(o) /\ after'[Monitor] = after[Monitor]
      BY <1>m, <2>1 DEF LocalsOK
    <2>3. call[Monitor] # c /\ after[Monitor] = "idle"
      BY <1>m, <2>1
      DEF ControlInv, ThreadOK, LoopLabels, RemoveLabels, UpdateLabels
    <2>4. CASE c = Owner(o)
      <3>1. \A t \in Threads \ {Monitor} : call'[t] # c /\ call[t] # c
        BY <1>m, <1>1, <2>2, <2>4 DEF Overlap, Ending, Involved, OthersStay
      <3>2. \A t \in Threads : call[t] # c
        BY <2>3, <3>1
      <3>3. \A p \in heap : Owner(p) = c => p = sessions[c]
        BY <3>2 DEF CallInv
      <3>4. o = sessions[c] /\ o # None
        BY <2>1, <2>4, <3>3, NoneAssumption DEF SharedOK
      <3>5. c \notin terminated
        BY <3>2, <3>4 DEF CallInv
      <3> QED
        BY <2>1, <2>2, <3>1, <3>3, <3>4, <3>5 DEF CallInv
    <2>5. CASE c # Owner(o)
      BY <1>m, <1>1, <2>1, <2>2, <2>3, <2>5, CallStays DEF Waiting
    <2> QED
      BY <2>4, <2>5
  <1>4. CASE Unmap
    <2>1. /\ pc[Monitor] = "unmap" /\ pc'[Monitor] = "expire"
          /\ call'[Monitor] = call[Monitor] /\ after'[Monitor] = after[Monitor]
          /\ sessions' = [sessions EXCEPT ![call[Monitor]] = None]
          /\ UNCHANGED <<left, heap, terminated, tsCache, expired>>
      BY <1>m, <1>4, GotoWithLocals DEF Unmap
    <2>2. after[Monitor] = "idle"
      BY <1>m, <2>1 DEF ControlInv, ThreadOK, RemoveLabels, UpdateLabels
    <2>3. CASE c = call[Monitor]
      <3>1. sessions'[c] = None
        BY <2>1, <2>3 DEF SharedOK
      <3>2. \A o \in heap' : Owner(o) # c
        BY <1>m, <1>2, <2>1, <2>3 DEF CallInv
      <3>3. ~PastGuard(Monitor)'
        BY <2>1, <2>2 DEF PastGuard
      <3>4. c \in terminated => c \notin tsCache \/ Waiting(c)
        BY <1>2, <2>1, <2>3 DEF CallInv, Clearing, RemoveLabels
      <3> QED
        BY <1>2, <2>1, <2>3, <3>1, <3>2, <3>3, <3>4 DEF CallInv, Waiting
    <2>4. CASE c # call[Monitor]
      <3>1. sessions'[c] = sessions[c]
        BY <2>1, <2>4 DEF SharedOK
      <3> QED
        BY <1>m, <1>1, <2>1, <2>4, <3>1, CallStays DEF Waiting
    <2> QED
      BY <2>3, <2>4
  <1>5. CASE Expire
    <2>1. /\ pc[Monitor] = "expire" /\ call'[Monitor] = None
          /\ terminated' = terminated \union {call[Monitor]}
          /\ expired' = Append(expired, call[Monitor])
          /\ UNCHANGED <<sessions, left, heap, tsCache>>
      BY <1>m, <1>5, StartLocals DEF Expire
    <2>2. call[Monitor] \in Calls
      BY <1>m, <2>1, LocalsFacts
    <2>3. (Waiting(c) \/ c = call[Monitor]) => Waiting(c)'
      BY <2>1, <2>2, WaitingLists DEF SharedOK
    <2>4. CASE c = call[Monitor]
      <3>1. \A t \in Threads : call'[t] # c
        BY <1>m, <1>2, <2>1, <2>4
      <3>2. \A o \in heap' : Owner(o) = c => o = sessions'[c]
        BY <1>2, <2>1, <2>4 DEF CallInv
      <3>3. sessions'[c] = None
        BY <1>m, <2>1, <2>4 DEF CallInv
      <3> QED
        BY <2>3, <2>4, <3>1, <3>2, <3>3 DEF CallInv
    <2>5. CASE c # call[Monitor]
      BY <1>m, <1>1, <2>1, <2>3, <2>5, CallStays
    <2> QED
      BY <2>4, <2>5
  <1>6. CASE Reactivate
    <2>1. /\ pc[Monitor] = "reactivate" /\ pc'[Monitor] = "update"
          /\ call'[Monitor] = call[Monitor]
          /\ terminated' = terminated \ {call[Monitor]}
          /\ UNCHANGED <<sessions, left, heap, tsCache, expired>>
      BY <1>m, <1>6, GotoLocals DEF Reactivate
    <2>2. CASE c = call[Monitor]
      <3>1. \A o \in heap' : Owner(o) = c => o = sessions'[c]
        BY <1>2, <2>1, <2>2 DEF CallInv
      <3> QED
        BY <1>2, <2>1, <2>2, <3>1 DEF CallInv
    <2>3. CASE c # call[Monitor]
      BY <1>m, <1>1, <2>1, <2>3, CallStays DEF Waiting
    <2> QED
      BY <2>2, <2>3
  <1> QED
    BY <1>3, <1>4, <1>5, <1>6, MonitorKeepsCall DEF MonitorStep

LEMMA ReceiveCall ==
  ASSUME TimerInv, NEW w \in Workers, Receive(w), NEW c \in Calls, CallInv(c)
  PROVE  CallInv(c)'
  <1>1. w \in Threads /\ w # Monitor
    BY ThreadAssumption DEF Threads
  <1>2. ~PastGuard(w)'
    BY <1>1, ReceiveControl DEF PastGuard
  <1> QED
    BY <1>1, <1>2, ReceiveControl, CallStays
    DEF RemoveLabels, Waiting, maps, tombs, passes

LEMMA EnvironmentCall ==
  ASSUME TimerInv, Environment, NEW c \in Calls, CallInv(c)
  PROVE  CallInv(c)'
  <1>1. /\ UNCHANGED <<sessions, heap, pc, ref, call, after, expired>>
        /\ terminated' \subseteq terminated /\ tsCache' \subseteq tsCache
    BY EnvironmentLocals
    DEF passes, Environment, EmptyTrash, SweepFinds, SweepDeletes, Flush, Tick,
        StreamActive, StreamIdles, tombs, NothingElse
  <1>2. \A o \in Objects : left[o] = 0 => left'[o] = 0
    BY DEF Environment, EmptyTrash, SweepFinds, SweepDeletes, Flush, Tick, Less,
           StreamActive, StreamIdles, maps
  <1>3. \A t \in Threads : pc[t] = "unmap" => ref[t] \in Objects
    BY LocalsFacts DEF TimerInv, TypeInv, RefLabels
  <1> QED
    BY <1>1, <1>2, <1>3 DEF CallInv, PastGuard, Waiting, Clearing

\* Once nobody is busy with the call, its structures tell all there is to it.
LEMMA RestGivesCallInv ==
  ASSUME NEW c \in Calls, ~Busy(c), Agrees(c)
  PROVE  CallInv(c)
  BY DEF Busy, Involved, Agrees, CallInv

LEMMA CallInvGivesRest ==
  ASSUME TimerInv, ControlInv, NEW c \in Calls, ~Busy(c), CallInv(c)
  PROVE  Agrees(c)
  <1>1. /\ \A t \in Threads : call[t] # c
        /\ ~Waiting(c)
    BY DEF Busy, Involved, Waiting, Threads
  <1>2. \A o \in heap : Owner(o) = c => o = sessions[c]
    BY <1>1 DEF CallInv
  <1>3. ASSUME sessions[c] # None
        PROVE  sessions[c] \in heap /\ Owner(sessions[c]) = c
    <2>1. Owner(sessions[c]) = c
      BY <1>3 DEF TimerInv, MapInv
    <2>2. ASSUME NEW t \in Threads, pc[t] = "push"
          PROVE  ref[t] # sessions[c]
      BY <1>1, <2>1, <2>2 DEF ControlInv, ThreadOK, RefLabels
    <2> QED
      BY <1>1, <1>3, <2>1, <2>2 DEF TimerInv, SessionsTimed, Threads
  <1>4. sessions[c] = None => \A o \in heap : Owner(o) # c
    BY <1>2, NoneAssumption DEF TimerInv, TypeInv, SharedOK
  <1>5. c \in terminated => sessions[c] = None /\ c \notin tsCache
    BY <1>1 DEF CallInv, Clearing
  <1> QED
    BY <1>2, <1>3, <1>4, <1>5 DEF Agrees

LEMMA QuietStep == QuietInv /\ [Next]_vars => QuietInv'
  <1> SUFFICES ASSUME QuietInv, [Next]_vars PROVE QuietInv'
    OBVIOUS
  <1> USE DEF QuietInv
  <1>1. TimerInv' /\ ControlInv'
    BY TimerStep, ControlStep
  <1>2. CASE Next
    <2> SUFFICES ASSUME NEW c \in Calls \ raced' PROVE (~Overlap(c) /\ CallInv(c))'
      BY <1>1
    <2>1. ~Overlap(c)'
      BY <1>2 DEF Next, Remember
    <2>2. CASE c \in raced
      <3>1. ~Busy(c)' /\ Agrees(c)'
        BY <1>2, <2>2 DEF Next, Remember
      <3>2. CallInv(c)'
        BY <3>1 DEF Busy, Involved, Agrees, CallInv
      <3> QED
        BY <2>1, <3>2
    <2>3. CASE c \notin raced
      BY <1>2, <2>1, <2>3, OperationCall, MonitorCall, ReceiveCall, EnvironmentCall
      DEF Next, Step
    <2> QED
      BY <2>2, <2>3
  <1>3. CASE UNCHANGED vars
    <2>1. \A c \in Calls : (CallInv(c)' <=> CallInv(c)) /\ (Overlap(c)' <=> Overlap(c))
      BY <1>3
      DEF vars, maps, tombs, locals, passes, CallInv, Overlap, Ending, Involved,
          PastGuard, Waiting, Clearing
    <2>2. raced' = raced
      BY <1>3 DEF vars
    <2> QED
      BY <1>1, <2>1, <2>2
  <1> QED
    BY <1>2, <1>3

LEMMA QuietAlways == Spec => []QuietInv
  <1>1. Init => QuietInv
    <2> SUFFICES ASSUME Init PROVE QuietInv
      OBVIOUS
    <2>1. TimerInv
      BY TypeInit DEF Init, TimerInv, MapInv, SessionsTimed
    <2>2. ControlInv
      BY ThreadAssumption
      DEF Init, ControlInv, ThreadOK, WorkerLabels, MonitorLabels, LoopLabels,
          UpdateLabels, RemoveLabels, RefLabels
    <2>3. ASSUME NEW c \in Calls
          PROVE  ~Overlap(c) /\ CallInv(c)
      <3>1. ~Busy(c) /\ Agrees(c)
        BY NoneAssumption DEF Init, Busy, Involved, Agrees
      <3> QED
        BY <3>1, RestGivesCallInv DEF Overlap, Busy
    <2> QED
      BY <2>1, <2>2, <2>3 DEF QuietInv
  <1> QED
    BY <1>1, QuietStep, PTL DEF Spec

\* For a call no end of which overlapped another operation on it, the map, the
\* heap, the tombstones and the timestamp buffer agree whenever no goroutine
\* is busy with it, although no lock covers more than one of them: any number
\* of refreshes may interleave with each other (manager.go 126-258).
THEOREM QuietAgreement == Spec => []QuietCallsAgree
  <1>1. QuietInv => QuietCallsAgree
    BY CallInvGivesRest DEF QuietInv, QuietCallsAgree
  <1> QED
    BY <1>1, QuietAlways, PTL

\* What GetExpiredSessions takes from the heap for such a call is the session
\* the map holds, and its real deadline has passed, wherever the lock-free
\* updates had moved it meanwhile (manager.go 204-239).
THEOREM ExpiryIsDue == Spec => []OnlyOverdueExpire
  <1>1. ASSUME QuietInv, pc[Monitor] = "unmap", call[Monitor] \notin raced
        PROVE  sessions[call[Monitor]] = ref[Monitor] /\ left[ref[Monitor]] = 0
    <2>1. Monitor \in Threads
      BY DEF Threads
    <2>2. call[Monitor] \in Calls
      BY <1>1, <2>1, LocalsFacts DEF QuietInv, TimerInv, TypeInv
    <2> QED
      BY <1>1, <2>1, <2>2 DEF QuietInv, CallInv
  <1>2. QuietInv => OnlyOverdueExpire
    BY <1>1 DEF OnlyOverdueExpire
  <1> QED
    BY <1>2, QuietAlways, PTL

\* When a scan ends, every session left in the heap has time to go, or a key
\* that has: the top of the heap says so for all of them, even though it is
\* its real deadline the scan has looked at (manager.go 210-226).
THEOREM ScanMissesNoKey == Spec => NoOverdueKeyLeft
  <1>1. ASSUME TypeOK, ScanEnds, NEW o \in heap
        PROVE  left[o] > 0 \/ heapLeft[o] > 0
    <2>1. PICK p \in Tops : left[p] > 0 /\ heapLeft[p] >= left[p]
      BY <1>1 DEF ScanEnds
    <2>2. /\ p \in heap /\ heapLeft[p] <= heapLeft[o]
          /\ heapLeft[o] \in Nat /\ heapLeft[p] \in Nat /\ left[p] \in Nat
      BY <1>1, TimeAssumption DEF Tops, TypeOK
    <2> QED
      BY <2>1, <2>2
  <1>2. TypeOK => [ScanEnds => \A o \in heap : left[o] > 0 \/ heapLeft[o] > 0]_vars
    BY <1>1
  <1> QED
    BY <1>2, TypeCorrect, PTL DEF NoOverdueKeyLeft
=============================================================================
