--------------------------- MODULE MonitoringProofs ---------------------------
(***************************************************************************)
(* The safety properties of the monitoring page, for any number of         *)
(* segments, speakers, messages and requests.  The inductive invariant     *)
(* adds to them that nothing is joined without a session or while the      *)
(* connection is down, which is what a stop at that time relies on, that   *)
(* the history of a view ends with it, and that a segment other than the   *)
(* first can be in the list twice only while an answer is to come that     *)
(* will merge it, or after the last request failed.                        *)
(***************************************************************************)
EXTENDS Monitoring, TLAPS

JoinedOfSessions ==
    /\ rooms \subseteq sessions
    /\ ~open => rooms = {}
    /\ connected => open /\ rooms = sessions

HistoryOfView == ~Viewing => owed = {}

OwedShown == \A n \in owed : shown[n] > 0

DoublesHeal == fetches = {} /\ ~failed => \A n \in Segments : n > 1 => shown[n] <= 1

Inv == TypeOK /\ JoinedOfSessions /\ HistoryOfView /\ OwedShown /\ DoublesHeal

-----------------------------------------------------------------------------
LEMMA InitInv == Init => Inv
<1> SUFFICES ASSUME Init PROVE Inv
  OBVIOUS
<1>1. TypeOK
  <2>1. shown \in [Segments -> Nat]
    BY DEF Init, NothingShown
  <2>2. published \in 0 .. MaxSeq
    BY BoundAssumption DEF Init
  <2>3. stored = {} /\ wire = <<>> /\ wire \in Seq(Message)
    BY DEF Init
  <2>4. QED
    BY <2>1, <2>2, <2>3 DEF Init, TypeOK
<1>2. JoinedOfSessions /\ HistoryOfView /\ OwedShown
  BY DEF Init, JoinedOfSessions, HistoryOfView, OwedShown
<1>3. DoublesHeal
  BY DEF Init, DoublesHeal, NothingShown
<1>4. QED
  BY <1>1, <1>2, <1>3 DEF Inv

\* What a message does to the wire.
LEMMA WireStep ==
    ASSUME wire \in Seq(Message)
    PROVE  /\ \A m \in Message : Deliver(m) => wire' \in Seq(Message)
           /\ wire # <<>> => Head(wire) \in Message /\ Tail(wire) \in Seq(Message)
  BY DEF Deliver

LEMMA RequestType ==
    ASSUME NEW before \in 2 .. MaxSeq + 1
    PROVE  Request(before) \in Fetch
<1>1. {} \in SUBSET Segments
  OBVIOUS
<1>2. QED
  BY <1>1 DEF Request, Fetch

\* Every action keeps the types.
LEMMA TypeStep == Inv /\ [Next]_vars => TypeOK'
<1> SUFFICES ASSUME Inv, [Next]_vars PROVE TypeOK'
  OBVIOUS
<1> USE BoundAssumption DEF Inv, TypeOK, Segments, Kind, serverVars, linkVars, listVars, fetchVars
<1>1. ASSUME NEW s \in Speakers, PublishPartial(s) PROVE TypeOK'
  <2>1. [seq |-> 0, speaker |-> s] \in Message
    BY DEF Message
  <2>2. wire' \in Seq(Message)
    BY <1>1, <2>1, WireStep DEF PublishPartial
  <2>3. QED
    BY <1>1, <2>2 DEF PublishPartial
<1>2. ASSUME NEW s \in Speakers, PublishFinal(s) PROVE TypeOK'
  <2>1. published' \in 1 .. MaxSeq /\ [seq |-> published', speaker |-> s] \in Message
    BY <1>2 DEF PublishFinal, Message
  <2>2. wire' \in Seq(Message)
    BY <1>2, <2>1, WireStep DEF PublishFinal
  <2>3. QED
    BY <1>2, <2>1, <2>2 DEF PublishFinal
<1>3. ASSUME NEW n \in Segments, Store(n) PROVE TypeOK'
  BY <1>3 DEF Store
<1>4. CASE Connect
  BY <1>4 DEF Connect
<1>5. CASE Disconnect
  <2>1. wire' = <<>> /\ wire' \in Seq(Message)
    BY <1>5 DEF Disconnect
  <2>2. QED
    BY <1>5, <2>1 DEF Disconnect
<1>6. CASE RestoreSessions
  BY <1>6 DEF RestoreSessions, Send
<1>7. CASE StartMonitoring \/ StopMonitoring
  BY <1>7 DEF StartMonitoring, StopMonitoring, Send
<1>8. CASE StartViewing
  <2>1. Request(MaxSeq + 1) \in Fetch
    BY RequestType
  <2>2. QED
    BY <1>8, <2>1 DEF StartViewing, Send
<1>9. CASE StopViewing
  BY <1>9 DEF StopViewing, Send, NothingShown
<1>10. CASE ReceivePartial
  <2>1. Head(wire) \in Message /\ wire' \in Seq(Message)
    BY <1>10, WireStep DEF ReceivePartial
  <2>2. Head(wire).speaker \in Speakers
    BY <2>1 DEF Message
  <2>3. QED
    BY <1>10, <2>1, <2>2 DEF ReceivePartial
<1>11. CASE ReceiveFinal
  <2> DEFINE m == Head(wire)
  <2>0. m \in Message /\ m.seq # 0 /\ wire' \in Seq(Message)
    BY <1>11, WireStep DEF ReceiveFinal
  <2>1. m.seq \in Segments
    BY <2>0 DEF Message
  <2>2. fetches' \in SUBSET Fetch
    <3>1. CASE fetches' = fetches
      BY <3>1
    <3>2. CASE m.seq > 1 /\ fetches' = fetches \union {Request(m.seq)}
      <4>1. m.seq \in 2 .. MaxSeq + 1
        BY <2>1, <3>2
      <4>2. Request(m.seq) \in Fetch
        BY <4>1, RequestType
      <4>3. QED
        BY <3>2, <4>2
    <3>3. QED
      BY <1>11, <3>1, <3>2 DEF ReceiveFinal
  <2>3. partials' \in SUBSET Speakers /\ shown' \in [Segments -> Nat] /\ owed' \in SUBSET Segments
    <3>1. CASE UNCHANGED listVars
      BY <3>1
    <3>2. CASE ShowFinal(m.seq, m.speaker)
      <4> DEFINE count == IF m.speaker \in partials THEN shown[m.seq] + 1
                          ELSE IF shown[m.seq] = 0 THEN 1 ELSE shown[m.seq]
      <4>1. shown[m.seq] \in Nat
        BY <2>1
      <4>2. count \in Nat
        BY <4>1
      <4>3. shown' = [shown EXCEPT ![m.seq] = count]
        BY <3>2 DEF ShowFinal
      <4> HIDE DEF count
      <4>4. shown' \in [Segments -> Nat]
        BY <4>2, <4>3
      <4>5. partials' \in SUBSET Speakers /\ owed' \in SUBSET Segments
        BY <2>1, <3>2 DEF ShowFinal
      <4>6. QED
        BY <4>4, <4>5
    <3>3. QED
      BY <1>11, <3>1, <3>2 DEF ReceiveFinal
  <2>4. QED
    BY <1>11, <2>0, <2>2, <2>3 DEF ReceiveFinal
<1>12. ASSUME NEW f \in fetches, ReadFetch(f) PROVE TypeOK'
  <2>1. {n \in stored : n < f.before} \in SUBSET Segments
    <3>1. stored \subseteq Segments
      <4>1. ASSUME NEW n \in stored PROVE n \in 1 .. MaxSeq
        BY <4>1
      <4>2. QED
        BY <4>1
    <3>2. QED
      BY <3>1
  <2>2. [f EXCEPT !.read = TRUE, !.result = {n \in stored : n < f.before}] \in Fetch
    BY <2>1 DEF Fetch
  <2>3. QED
    BY <1>12, <2>2 DEF ReadFetch
<1>13. ASSUME NEW f \in fetches, FetchSucceeds(f) PROVE TypeOK'
  BY <1>13 DEF FetchSucceeds, Merge, Fetch
<1>14. ASSUME NEW f \in fetches, FetchFails(f) PROVE TypeOK'
  BY <1>14 DEF FetchFails
<1>15. CASE UNCHANGED vars
  BY <1>15 DEF vars
<1>16. QED
  BY <1>1, <1>2, <1>3, <1>4, <1>5, <1>6, <1>7, <1>8, <1>9, <1>10, <1>11, <1>12, <1>13, <1>14,
     <1>15 DEF Next

\* The rooms follow the sessions through every start, stop and reconnection.
LEMMA RoomsStep == Inv /\ [Next]_vars => JoinedOfSessions'
<1> SUFFICES ASSUME Inv, [Next]_vars PROVE JoinedOfSessions'
  OBVIOUS
<1> USE DEF Inv, JoinedOfSessions, serverVars, linkVars, listVars, fetchVars
<1>1. CASE Connect \/ Disconnect \/ RestoreSessions
  BY <1>1 DEF Connect, Disconnect, RestoreSessions, Send
<1>2. CASE StartMonitoring \/ StopMonitoring
  BY <1>2 DEF StartMonitoring, StopMonitoring, Send
<1>3. CASE StartViewing \/ StopViewing
  BY <1>3 DEF StartViewing, StopViewing, Send
<1>4. CASE UNCHANGED <<open, connected, rooms, sessions>>
  BY <1>4
<1>5. QED
  BY <1>1, <1>2, <1>3, <1>4
  DEF Next, vars, PublishPartial, PublishFinal, Store, ReceivePartial, ReceiveFinal,
      ReadFetch, FetchSucceeds, FetchFails

\* What the view has received stays in the list, and doubles are waited for.
LEMMA ListStep == Inv /\ [Next]_vars => HistoryOfView' /\ OwedShown' /\ DoublesHeal'
<1> SUFFICES ASSUME Inv, [Next]_vars PROVE HistoryOfView' /\ OwedShown' /\ DoublesHeal'
  OBVIOUS
<1>0. /\ TypeOK /\ HistoryOfView /\ OwedShown /\ DoublesHeal
      /\ owed \in SUBSET Segments /\ shown \in [Segments -> Nat]
  BY DEF Inv, TypeOK
<1>1. CASE StartViewing
  <2>1. fetches' # {} /\ UNCHANGED listVars /\ Viewing'
    BY <1>1 DEF StartViewing, Viewing
  <2>2. QED
    BY <1>0, <2>1 DEF HistoryOfView, OwedShown, DoublesHeal, listVars
<1>2. CASE StopViewing
  BY <1>0, <1>2
  DEF StopViewing, HistoryOfView, OwedShown, DoublesHeal, NothingShown, Viewing
<1>3. CASE StartMonitoring \/ StopMonitoring
  BY <1>0, <1>3
  DEF StartMonitoring, StopMonitoring, HistoryOfView, OwedShown, DoublesHeal, Viewing,
      listVars, fetchVars
<1>4. CASE ReceiveFinal
  <2> DEFINE n == Head(wire).seq
             s == Head(wire).speaker
  <2>1. CASE sessions = {}
    BY <1>0, <1>4, <2>1
    DEF ReceiveFinal, HistoryOfView, OwedShown, DoublesHeal, Viewing, listVars
  <2>2. CASE sessions # {}
    <3>1. n \in Segments
      <4>1. Head(wire) \in Message /\ n # 0
        BY <1>0, <1>4, WireStep DEF ReceiveFinal, TypeOK
      <4>2. QED
        BY <4>1, BoundAssumption DEF Message, Segments
    <3>2. ShowFinal(n, s) /\ UNCHANGED <<sessions, failed>>
      BY <1>4, <2>2 DEF ReceiveFinal
    <3>0. IF n > 1 THEN fetches' # {} ELSE UNCHANGED fetches
      BY <1>4, <2>2 DEF ReceiveFinal
    <3> HIDE DEF n, s
    <3>3. /\ shown' \in [Segments -> Nat] /\ shown'[n] > 0
          /\ \A q \in Segments : q # n => shown'[q] = shown[q]
      BY <1>0, <3>1, <3>2 DEF ShowFinal
    <3>4. HistoryOfView' /\ OwedShown'
      BY <1>0, <3>1, <3>2, <3>3 DEF ShowFinal, HistoryOfView, OwedShown, Viewing
    <3>5. DoublesHeal'
      BY <1>0, <3>0, <3>1, <3>2, <3>3 DEF DoublesHeal, Segments
    <3>6. QED
      BY <3>4, <3>5
  <2>3. QED
    BY <2>1, <2>2
<1>5. ASSUME NEW f \in fetches, ReadFetch(f)
      PROVE HistoryOfView' /\ OwedShown' /\ DoublesHeal'
  <2>1. fetches' # {} /\ UNCHANGED <<sessions, listVars>>
    BY <1>5 DEF ReadFetch
  <2>2. QED
    BY <1>0, <2>1 DEF HistoryOfView, OwedShown, DoublesHeal, Viewing, listVars
<1>6. ASSUME NEW f \in fetches, FetchSucceeds(f)
      PROVE HistoryOfView' /\ OwedShown' /\ DoublesHeal'
  <2>1. f.result \in SUBSET Segments
    BY <1>0 DEF TypeOK, Fetch
  <2>2. shown' = Merge(f.result) /\ UNCHANGED sessions
        /\ owed' = IF Viewing THEN owed \union f.result ELSE owed
    BY <1>6 DEF FetchSucceeds
  <2>3. QED
    BY <1>0, <2>1, <2>2 DEF Merge, HistoryOfView, OwedShown, DoublesHeal, Viewing
<1>7. ASSUME NEW f \in fetches, FetchFails(f)
      PROVE HistoryOfView' /\ OwedShown' /\ DoublesHeal'
  BY <1>0, <1>7 DEF FetchFails, HistoryOfView, OwedShown, DoublesHeal, Viewing, listVars
<1>8. CASE UNCHANGED <<sessions, shown, owed, fetches, failed>>
  BY <1>0, <1>8 DEF HistoryOfView, OwedShown, DoublesHeal, Viewing
<1>9. QED
  BY <1>1, <1>2, <1>3, <1>4, <1>5, <1>6, <1>7, <1>8
  DEF Next, vars, PublishPartial, PublishFinal, Store, Connect, Disconnect, RestoreSessions,
      ReceivePartial, listVars, fetchVars

LEMMA NextInv == Inv /\ [Next]_vars => Inv'
  BY TypeStep, RoomsStep, ListStep DEF Inv

LEMMA Invariance == Spec => []Inv
  BY InitInv, NextInv, PTL DEF Spec

-----------------------------------------------------------------------------
\* Type correctness of the monitoring page.
THEOREM TypeCorrect == Spec => []TypeOK
  BY Invariance, PTL DEF Inv

\* The page is in the rooms of just its sessions whenever it has rendered an open
\* connection, whatever was started or stopped before.
THEOREM SessionsAlwaysJoined == Spec => []SessionsJoined
<1>1. Inv => SessionsJoined
  BY DEF Inv, JoinedOfSessions, SessionsJoined
<1>2. QED
  BY Invariance, <1>1, PTL

\* A view goes on showing what it has received, and once when it has settled.
THEOREM ReceivedAlwaysShown == Spec => []ReceivedIsShown
<1>1. Inv => ReceivedIsShown
  BY DEF Inv, TypeOK, OwedShown, DoublesHeal, ReceivedIsShown
<1>2. QED
  BY Invariance, <1>1, PTL
=============================================================================
