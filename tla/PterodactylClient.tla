-------------------------- MODULE PterodactylClient --------------------------
(***************************************************************************)
(* PterodactylClient, pkg/server/pterodactyl.go, and the panel it talks to *)
(* over HTTP: Status on behalf of a readiness call, and Start and Stop on  *)
(* behalf of a startup or an auto-stop that runs at the same time.  A      *)
(* request or its response may be lost, or time out on either side.        *)
(***************************************************************************)
EXTENDS ReadinessCall

CONSTANTS
  OkCodes, MovedCodes, DeniedCodes, BusyCodes, BrokenCodes   \* HTTP status codes the panel uses

\* What the codes mean to the panel.
ASSUME CodesAssumption ==
  /\ OkCodes \subseteq 200..299 /\ MovedCodes \subseteq 300..399
  /\ DeniedCodes \subseteq (400..499) \ {408, 429}
  /\ BusyCodes \subseteq {408, 429} /\ BrokenCodes \subseteq 500..599

VARIABLES
  exchange,   \* the status request: "none", "asked" or "answered"
  reply,      \* its response
  power,      \* the signal of a power request in flight, or "none"
  accepted,   \* history: the panel has accepted the last one
  outcome     \* what power returned

panelVars == <<exchange, reply, power, accepted, outcome>>
powerVars == <<power, accepted, outcome>>

Codes == OkCodes \cup MovedCodes \cup DeniedCodes \cup BusyCodes \cup BrokenCodes

\* Bodies of a success that carry no state: too large, not JSON, more than
\* one value, a state nobody knows.
Unusable == {"oversize", "undecodable", "trailing", "unknown"}
Bodies == States \cup Unusable \cup {"cut"}
\* The body of an answer that is not a success is read only for the log.
Responses == [code : OkCodes, body : Bodies] \cup [code : Codes \ OkCodes, body : {"cut"}]
NoReply == [code |-> 0, body |-> "cut"]

PanelInit ==
  /\ exchange = "none" /\ reply = NoReply
  /\ power = "none" /\ accepted = FALSE /\ outcome = "none"

-----------------------------------------------------------------------------
\* Mutant: a redirect, which the client does not follow, passes for success.
NotAnError(c) == c >= 200 /\ c < 400
Success(c) == c >= 200 /\ c < 300

ClassifyHTTPError(c) ==
  IF c >= 400 /\ c < 500 /\ c \notin {408, 429} THEN "permanent" ELSE "transient"

\* Status: a state, or the class of the error.
StatusOf(r) ==
  IF ~Success(r.code) THEN ClassifyHTTPError(r.code)
  ELSE IF r.body = "cut" THEN "transient"
  ELSE IF r.body \in Unusable THEN "permanent"
  ELSE r.body

-----------------------------------------------------------------------------
(* The panel.                                                              *)

\* It refuses for good: it denies access, or its answers make no sense.
Refuses(r) == r.code \in DeniedCodes \/ (r.code \in OkCodes /\ r.body \in Unusable)

PanelAnswers(r) ==
  /\ exchange = "asked" /\ exchange' = "answered" /\ reply' = r
  /\ r.body \in States => r.body = backend
  /\ stable => r.code \in OkCodes /\ r.body = backend
  /\ seen' = IF Refuses(r) THEN seen \cup {"refusal"} ELSE seen
  /\ UNCHANGED <<mode, backend, challenge, stable, call, ctxDone, pc, result, powerVars>>

Panel == \E r \in Responses : PanelAnswers(r)

-----------------------------------------------------------------------------
(* power, with the panel at the other end.                                 *)

\* Start or Stop is called: by one caller at a time, StartStopExclusive.
PowerCalled(signal) ==
  /\ mode = "pterodactyl" /\ ~stable /\ power = "none" /\ power' = signal
  /\ accepted' = FALSE /\ outcome' = "none"
  /\ UNCHANGED <<callVars, exchange, reply>>

\* The panel accepts the signal and obeys, or it does not.
Accepts ==
  /\ accepted' = TRUE
  /\ Enters(CASE power = "start" /\ backend = "offline" -> "starting"
              [] power = "stop" /\ backend \in {"starting", "running"} -> "stopping"
              [] OTHER -> backend)
Declines == accepted' = FALSE /\ UNCHANGED <<backend, seen>>

PowerEnds(o) ==
  /\ ~stable /\ power # "none" /\ power' = "none" /\ outcome' = o
  /\ UNCHANGED <<mode, challenge, stable, call, ctxDone, pc, result, exchange, reply>>

\* The panel answers with a code: a success is an acceptance, a server error
\* may hide one.
PowerReturns ==
  \E c \in Codes :
    /\ PowerEnds(IF Success(c) THEN "ok" ELSE ClassifyHTTPError(c))
    /\ (c \in OkCodes \cup BrokenCodes /\ Accepts) \/ (c \notin OkCodes /\ Declines)

\* Do fails: the request or the response was lost, or the time is up.  The
\* panel may also obey later, which is one of BackendMoves.
PowerFails == PowerEnds("transient") /\ (Accepts \/ Declines)

PowerClient == (\E s \in {"start", "stop"} : PowerCalled(s)) \/ PowerReturns \/ PowerFails
=============================================================================
