--------------------------- MODULE ReadinessCall ---------------------------
(***************************************************************************)
(* A call of BackendReadiness (Probe or WaitReady) and the backend it asks *)
(* about, shared by the A2S probe and the panel probe.  The caller passes  *)
(* a context that may end at any moment.                                   *)
(***************************************************************************)
EXTENDS Naturals

CONSTANTS Challenges   \* the numbers a game server asks its clients to echo

VARIABLES
  mode,        \* cfg.BackendReadinessMode; "delay" has no probe
  backend,     \* state of the game server
  challenge,   \* the number the server that runs now expects
  stable,      \* from now on the backend stays up and nothing is lost
  call,        \* "none", "probe" or "wait"
  ctxDone,     \* the call's context is done
  pc,          \* where the call is
  seen,        \* history: what was the case at some moment of the call
  result       \* what the last call returned

callVars == <<mode, backend, challenge, stable, call, ctxDone, pc, seen, result>>

States == {"offline", "starting", "running", "stopping"}
Sight(b) == IF b = "running" THEN "up" ELSE "down"

\* newBackendReadiness builds one of the two probes.
CallInit ==
  /\ mode \in {"a2s", "pterodactyl"}
  /\ backend \in States /\ challenge \in Challenges /\ stable = FALSE
  /\ call = "none" /\ ctxDone = FALSE /\ pc = "idle" /\ seen = {} /\ result = "none"

\* The backend enters state b; whoever asks meanwhile could have seen it.
Enters(b) ==
  /\ backend' = b
  /\ seen' = IF call = "none" THEN seen ELSE seen \cup {Sight(b)}

\* The backend starts, stops or crashes; every start draws a new number.
BackendMoves ==
  /\ ~stable
  /\ \E b \in (CASE backend = "offline" -> {"starting"}
                 [] backend = "starting" -> {"running", "offline"}
                 [] backend = "running" -> {"stopping", "offline"}
                 [] OTHER -> {"offline"}) :
       /\ Enters(b)
       /\ challenge' \in IF b = "running" /\ mode = "a2s" THEN Challenges ELSE {challenge}
  /\ UNCHANGED <<mode, stable, call, ctxDone, pc, result>>

\* A backend that is up may be up to stay, with a network that has recovered.
Settles ==
  /\ backend = "running" /\ ~stable /\ stable' = TRUE
  /\ UNCHANGED <<mode, backend, challenge, call, ctxDone, pc, seen, result>>

\* The startup calls WaitReady, the startup or the monitor calls Probe.
Begins(kind) ==
  /\ call = "none" /\ call' = kind
  /\ ctxDone' \in BOOLEAN
  /\ seen' = {Sight(backend)} /\ result' = "none"
  /\ UNCHANGED <<mode, backend, challenge, stable, pc>>

\* The context of the call is cancelled or passes its deadline.
Cancelled ==
  /\ call # "none" /\ ~ctxDone /\ ctxDone' = TRUE
  /\ UNCHANGED <<mode, backend, challenge, stable, call, pc, seen, result>>

Returns(r) ==
  /\ call' = "none" /\ pc' = "idle" /\ result' = r /\ ctxDone' = FALSE /\ seen' = {}
  /\ UNCHANGED <<mode, backend, challenge, stable>>

GoesTo(l) == pc' = l /\ UNCHANGED <<mode, backend, challenge, stable, call, ctxDone, seen, result>>
=============================================================================
