----------------------------- MODULE CallRecord -----------------------------
(***************************************************************************)
(* What the table sip_calls promises its readers of one call, whichever    *)
(* goroutine writes the row and in which order the writes arrive: the call *)
(* is shown as started only at first, an answer and a timeout may replace  *)
(* each other (StateVersion gives them the same rank), and a call shown as *)
(* ended by its signalling is shown so for ever                            *)
(* (src/ie/internal/clickhouse/constants.go).                              *)
(***************************************************************************)

VARIABLE shown  \* what the row of the call says

Init == shown = "none"

Start == shown = "none" /\ shown' = "active"

Answer == shown # "hangup" /\ shown' = "answered"

TimeOut == shown # "hangup" /\ shown' \in {"timeout", "challenged"}

HangUp == shown' = "hangup"

Next == Start \/ Answer \/ TimeOut \/ HangUp

Spec == Init /\ [][Next]_shown
=============================================================================
