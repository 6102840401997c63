------------------------- MODULE ReadinessContract -------------------------
(***************************************************************************)
(* What the orchestration core may rely on when it calls Probe or          *)
(* WaitReady: an answer is about the time of the call, and each answer has *)
(* a reason.  "seen" collects what was the case since the call began.      *)
(***************************************************************************)
VARIABLES mode, up, call, ctxDone, seen, result

vars == <<mode, up, call, ctxDone, seen, result>>

Sight(u) == IF u THEN "up" ELSE "down"

Init ==
  /\ mode \in {"a2s", "pterodactyl"} /\ up \in BOOLEAN
  /\ call = "none" /\ ctxDone = FALSE /\ seen = {} /\ result = "none"

\* The backend comes and goes.
Moves ==
  /\ up' \in BOOLEAN
  /\ seen' = IF call = "none" THEN seen ELSE seen \cup {Sight(up')}
  /\ UNCHANGED <<mode, call, ctxDone, result>>

\* The panel refuses for good.
Refusal == call # "none" /\ seen' = seen \cup {"refusal"} /\ UNCHANGED <<mode, up, call, ctxDone, result>>

Begin ==
  /\ call = "none" /\ call' \in {"probe", "wait"}
  /\ ctxDone' \in BOOLEAN /\ seen' = {Sight(up)} /\ result' = "none"
  /\ UNCHANGED <<mode, up>>

Cancel == call # "none" /\ ctxDone' = TRUE /\ UNCHANGED <<mode, up, call, seen, result>>

\* Ready only if the backend was up during the call; the panel probe says
\* unavailable only if it was down; a wait ends early only for its context,
\* a refusal, or (A2S) a socket it cannot open.
Justified(r) ==
  CASE r = "ready" -> "up" \in seen
    [] r = "unavailable" -> call = "probe" /\ (mode = "pterodactyl" => "down" \in seen)
    [] r = "inconclusive" -> call = "probe" /\ mode = "pterodactyl"
    [] r = "cancelled" -> call = "wait" /\ ctxDone
    [] r = "refused" -> call = "wait" /\ "refusal" \in seen
    [] OTHER -> call = "wait" /\ mode = "a2s"

Return ==
  /\ call # "none" /\ call' = "none"
  /\ \E r \in {"ready", "unavailable", "inconclusive", "cancelled", "refused", "failed"} :
       Justified(r) /\ result' = r
  /\ ctxDone' = FALSE /\ seen' = {} /\ UNCHANGED <<mode, up>>

Next == Moves \/ Refusal \/ Begin \/ Cancel \/ Return
Spec == Init /\ [][Next]_vars
=============================================================================
