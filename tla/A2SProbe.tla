------------------------------ MODULE A2SProbe ------------------------------
(***************************************************************************)
(* A2SProbe, pkg/readiness/a2s.go: Probe and WaitReady ask the game server *)
(* for its info over UDP; the server may first hand out a number that the  *)
(* next query has to echo.  Queries and answers are lost, delayed,         *)
(* duplicated and reordered.                                               *)
(*                                                                         *)
(* An answer is a complete info or a challenge; anything else (truncated,  *)
(* wrong header, incomplete, unknown type) may be read at any time and is  *)
(* treated like a failing read.                                            *)
(***************************************************************************)
EXTENDS ReadinessCall

CONSTANTS Plain, NoQuery, MaxCopies

\* MaxCopies bounds the unread copies of one answer.
ASSUME A2SAssumption ==
  /\ Plain \notin Challenges /\ NoQuery \notin Challenges \cup {Plain}
  /\ "info" \notin Challenges
  /\ MaxCopies \in Nat \ {0}

VARIABLES
  query,      \* the query to send: Plain or the challenge it echoes
  attempts,   \* Probe's counter
  outbound,   \* the query on its way to the server, or NoQuery
  answers     \* unread copies of each answer

a2sVars == <<query, attempts, outbound, answers>>

Answers == {"info"} \cup Challenges
NoAnswers == [a \in Answers |-> 0]

A2SInit == query = Plain /\ attempts = 0 /\ outbound = NoQuery /\ answers = NoAnswers

\* Mutant: the socket is kept from call to call, with what it has received.
KeepSocket == query' = Plain /\ attempts' = 0 /\ UNCHANGED <<outbound, answers>>
\* The deferred Close: whatever comes later for this call goes nowhere.
CloseSocket == query' = Plain /\ attempts' = 0 /\ outbound' = NoQuery /\ answers' = NoAnswers

A2SReturns(r) == Returns(r) /\ CloseSocket

\* Any failure of Probe is an ordinary error; WaitReady's own end is the
\* context's.
GivesUp == A2SReturns(IF call = "probe" THEN "unavailable" ELSE "cancelled")

-----------------------------------------------------------------------------
\* DialUDP, which may fail.  Probe looks at its context first.
A2SDials ==
  /\ mode = "a2s" /\ call # "none" /\ pc = "idle"
  /\ \/ ~(call = "probe" /\ ctxDone) /\ GoesTo("write") /\ UNCHANGED a2sVars
     \/ call = "probe" /\ GivesUp
     \/ call = "wait" /\ A2SReturns("failed")

\* Mutant: WaitReady looks at its context only while it waits.
NeverLooks == FALSE
\* The test at the head of WaitReady's loop.
LoopEnds == call = "wait" /\ ctxDone

A2SStops == pc = "write" /\ mode = "a2s" /\ LoopEnds /\ GivesUp

\* Write: the query is on its way, in place of one that is still unanswered.
A2SSends ==
  /\ pc = "write" /\ mode = "a2s" /\ ~LoopEnds
  /\ outbound' = query /\ GoesTo("read") /\ UNCHANGED <<query, attempts, answers>>

\* Write fails, or WaitReady cannot set the deadline of the read after it.
A2SWriteFails ==
  /\ ~stable
  /\ pc = "write" /\ mode = "a2s" /\ ~LoopEnds
  /\ \/ call = "probe" /\ GivesUp
     \/ call = "wait" /\ GoesTo("retry") /\ UNCHANGED a2sVars
     \/ call = "wait" /\ A2SReturns("failed")

-----------------------------------------------------------------------------
(* The game server.                                                        *)

\* What a server answers: info to the right number, the number to another
\* one, either to a plain query.
Replies(q) ==
  CASE q = challenge -> {"info"}
    [] q = Plain -> {challenge, "info"}
    [] OTHER -> {challenge}

\* The answer to q arrives, once or twice, after any delay.
ServerReplies(q) ==
  /\ mode = "a2s" /\ backend = "running" /\ outbound = q
  /\ outbound' = NoQuery
  /\ \E a \in Replies(q), n \in 1..2 :
       answers[a] + n <= MaxCopies /\ answers' = [answers EXCEPT ![a] = @ + n]
  /\ UNCHANGED <<callVars, query, attempts>>

\* Query or answer is lost, or the server has no answer to a wrong number.
ServerIgnores ==
  /\ mode = "a2s" /\ outbound # NoQuery /\ outbound' = NoQuery
  /\ ~stable \/ outbound \notin {Plain, challenge}
  /\ UNCHANGED <<callVars, query, attempts, answers>>

Server == (\E q \in Challenges \cup {Plain} : ServerReplies(q)) \/ ServerIgnores

-----------------------------------------------------------------------------
\* Mutant: every attempt of Probe follows a challenge.
FollowsAlways == TRUE
\* Probe follows one challenge, WaitReady every one.
FollowsChallenge == call = "wait" \/ attempts = 0

\* One datagram is read.  A challenge is echoed at once.
A2SReads(a) ==
  /\ pc = "read" /\ mode = "a2s" /\ answers[a] > 0
  /\ \/ a = "info" /\ A2SReturns("ready")
     \/ /\ a \in Challenges /\ FollowsChallenge
        /\ query' = a /\ attempts' = IF call = "probe" THEN attempts + 1 ELSE attempts
        /\ answers' = [answers EXCEPT ![a] = @ - 1] /\ UNCHANGED outbound /\ GoesTo("write")
     \/ a \in Challenges /\ ~FollowsChallenge /\ GivesUp

\* Mutant: after a timeout the challenge is echoed again.
KeepQuery == UNCHANGED query
ResetQuery == query' = Plain

\* The loop goes on with the plain query.
AsksAgain == ResetQuery /\ GoesTo("write") /\ UNCHANGED <<attempts, outbound, answers>>

\* ReadMsgUDP fails, or the datagram is no answer.  WaitReady asks again at
\* once after a timeout, and waits first otherwise; a datagram that is no
\* answer does not make it look at its context.  In a network
\* that has recovered a round trip is shorter than the poll interval.
A2SReadFails ==
  /\ pc = "read" /\ mode = "a2s" /\ (stable => outbound = NoQuery /\ answers = NoAnswers)
  /\ \/ (call = "probe" \/ ctxDone) /\ GivesUp
     \/ call = "wait" /\ ~ctxDone /\ AsksAgain
     \/ call = "wait" /\ ~stable /\ GoesTo("retry") /\ UNCHANGED a2sVars

\* waitForRetry: the context or the timer.
A2SRetries ==
  /\ pc = "retry" /\ mode = "a2s"
  /\ (ctxDone /\ GivesUp) \/ AsksAgain

A2SClient ==
  \/ A2SDials \/ A2SStops \/ A2SSends \/ A2SWriteFails \/ A2SReadFails \/ A2SRetries
  \/ \E a \in Answers : A2SReads(a)
=============================================================================
