--------------------------- MODULE SnoozeContract ---------------------------
(***************************************************************************)
(* What the proxy promises the panel and the players, without goroutines,  *)
(* locks, timers or queues: a gate to the game server, at most one power   *)
(* request in flight, and a set of active sessions.  Proxy implements it;  *)
(* the mapping is in ProxyProperties.                                      *)
(***************************************************************************)
CONSTANT Session

VARIABLES
  gate,      \* "open": traffic passes to the game server
  power,     \* the power request the panel has not answered
  active     \* sessions with an open upstream socket

vars == <<gate, power, active>>

Init == gate = "closed" /\ power = "none" /\ active = {}

\* A session begins, never while the server is being stopped.
Admit(s) == power # "stop" /\ active' = active \cup {s} /\ UNCHANGED <<gate, power>>

\* Sessions end.
Leave(S) == active' = active \ S /\ UNCHANGED <<gate, power>>

\* A start is requested only behind a closed gate.
SendStart == gate = "closed" /\ power = "none" /\ power' = "start" /\ UNCHANGED <<gate, active>>

\* A stop is requested only of a server that is up and that nobody uses.
SendStop ==
  /\ gate = "open" /\ power = "none" /\ active = {}
  /\ power' = "stop" /\ UNCHANGED <<gate, active>>

\* The panel answers; a stop that was accepted closes the gate.
Answered ==
  /\ power # "none" /\ power' = "none" /\ UNCHANGED active
  /\ gate' \in (IF power = "stop" THEN {"open", "closed"} ELSE {gate})

\* The gate opens with no request in flight; sessions whose first datagrams
\* cannot be delivered end.
OpenGate ==
  /\ gate = "closed" /\ power = "none"
  /\ gate' = "open" /\ UNCHANGED power
  /\ \E S \in SUBSET active : active' = active \ S

\* The server was lost, or the proxy ends.
CloseGate == gate = "open" /\ power = "none" /\ gate' = "closed" /\ UNCHANGED <<power, active>>

Next ==
  \/ \E s \in Session : Admit(s)
  \/ \E S \in SUBSET Session : Leave(S)
  \/ SendStart \/ SendStop \/ Answered \/ OpenGate \/ CloseGate

Spec == Init /\ [][Next]_vars

\* A power request is consistent with the gate, and nobody plays while the
\* server is told to stop (runAutoStopAttempt, startServer).
PowerSafe ==
  /\ power = "start" => gate = "closed"
  /\ power = "stop" => gate = "open" /\ active = {}
=============================================================================
