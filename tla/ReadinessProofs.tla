-------------------------- MODULE ReadinessProofs --------------------------
(***************************************************************************)
(* Both readiness probes keep the contract and a power request is reported *)
(* honestly, for any number of challenges, any bound on datagrams in       *)
(* flight and any status codes.                                            *)
(***************************************************************************)
EXTENDS Readiness, TLAPS

A2SPCs == {"idle", "write", "read", "retry"}
PanelPCs == {"idle", "asked", "retry"}

\* The types the argument needs.
Types ==
  /\ mode \in {"a2s", "pterodactyl"} /\ backend \in States /\ challenge \in Challenges
  /\ call \in {"none", "probe", "wait"} /\ ctxDone \in BOOLEAN
  /\ answers \in [Answers -> Nat]
  /\ exchange \in {"none", "asked", "answered"}

\* No call, nothing under way: whatever was received is gone with the socket.
IdleInv ==
  call = "none" =>
    pc = "idle" /\ ctxDone = FALSE /\ seen = {} /\ outbound = NoQuery /\ answers = NoAnswers /\ exchange = "none"

\* Each probe goes its own way; only a wait waits to ask again.
ModeInv ==
  /\ mode = "a2s" => pc \in A2SPCs /\ exchange = "none"
  /\ mode = "pterodactyl" => pc \in PanelPCs /\ outbound = NoQuery /\ answers = NoAnswers
  /\ pc # "asked" => exchange = "none"
  /\ pc = "retry" => call = "wait"

\* What is held of the backend was the case during the call.
SeenInv ==
  /\ call # "none" => Sight(backend) \in seen
  /\ answers["info"] > 0 => "up" \in seen
  /\ exchange = "answered" =>
       /\ reply \in Responses
       /\ reply.body \in States => Sight(reply.body) \in seen
       /\ Refuses(reply) => "refusal" \in seen

ReadinessInv == Types /\ IdleInv /\ ModeInv /\ SeenInv

-----------------------------------------------------------------------------
\* The client reads the panel's codes as the panel means them.
LEMMA CodeMeaning ==
  ASSUME NEW c \in Codes
  PROVE  /\ Success(c) <=> c \in OkCodes
         /\ ClassifyHTTPError(c) \in {"permanent", "transient"}
         /\ ClassifyHTTPError(c) = "permanent" <=> c \in DeniedCodes
BY CodesAssumption DEF Codes, Success, ClassifyHTTPError

\* A state Status returns is the one in the response, and a permanent error
\* is a refusal.
LEMMA StatusMeaning ==
  ASSUME NEW r \in Responses
  PROVE  /\ StatusOf(r) \in States => StatusOf(r) = r.body
         /\ StatusOf(r) = "permanent" => Refuses(r)
<1>1. r.code \in Codes
  BY DEF Responses, Codes
<1>2. r.body \notin {"permanent", "transient"}
  BY DEF Responses, Bodies, States, Unusable
<1>3. CASE ~Success(r.code)
  BY <1>1, <1>3, CodeMeaning DEF StatusOf, Refuses, States
<1>4. CASE Success(r.code)
  <2>1. r.code \in OkCodes
    BY <1>1, <1>4, CodeMeaning
  <2>2. CASE r.body = "cut"
    BY <1>4, <2>2 DEF StatusOf, States
  <2>3. CASE r.body \in Unusable
    BY <1>4, <2>1, <2>3 DEF StatusOf, States, Refuses, Unusable
  <2>4. CASE r.body # "cut" /\ r.body \notin Unusable
    BY <1>2, <1>4, <2>4 DEF StatusOf
  <2>5. QED
    BY <2>2, <2>3, <2>4
<1>5. QED
  BY <1>3, <1>4

\* The invariant holds initially.
LEMMA ReadinessInit == Init => ReadinessInv
<1> SUFFICES ASSUME Init PROVE ReadinessInv
  OBVIOUS
<1>1. Types
  BY DEF Init, CallInit, A2SInit, PanelInit, Types, NoAnswers
<1>2. IdleInv /\ ModeInv
  BY DEF Init, CallInit, A2SInit, PanelInit, IdleInv, ModeInv, A2SPCs, PanelPCs
<1>3. answers["info"] = 0
  BY DEF Init, A2SInit, NoAnswers, Answers
<1>4. SeenInv
  BY <1>3 DEF Init, CallInit, PanelInit, SeenInv
<1>5. QED
  BY <1>1, <1>2, <1>4 DEF ReadinessInv

-----------------------------------------------------------------------------
\* A call that returns leaves nothing behind.
LEMMA InvReturn ==
  ASSUME ReadinessInv, NEW r, Returns(r),
         outbound' = NoQuery, answers' = NoAnswers, exchange' = "none"
  PROVE  ReadinessInv'
<1>1. Types'
  BY DEF ReadinessInv, Types, Returns, NoAnswers
<1>2. IdleInv' /\ ModeInv'
  BY DEF Returns, IdleInv, ModeInv, A2SPCs, PanelPCs
<1>3. answers'["info"] = 0
  BY DEF NoAnswers, Answers
<1>4. SeenInv'
  BY <1>3 DEF Returns, SeenInv
<1>5. QED
  BY <1>1, <1>2, <1>4 DEF ReadinessInv

\* A call that goes on keeps what it holds; its receipts and queries may
\* change as long as an info came from a backend that was up.
LEMMA InvGoesOn ==
  ASSUME ReadinessInv, NEW l, GoesTo(l), call # "none", exchange' = exchange \/ exchange' # "answered",
         exchange' \in {"none", "asked", "answered"},
         exchange' = "answered" => reply' = reply,
         answers' \in [Answers -> Nat], answers'["info"] = answers["info"],
         mode = "a2s" => l \in A2SPCs /\ exchange' = "none",
         mode = "pterodactyl" => l \in PanelPCs /\ outbound' = NoQuery /\ answers' = NoAnswers,
         l # "asked" => exchange' = "none", l = "retry" => call = "wait"
  PROVE  ReadinessInv'
<1>1. Types'
  BY DEF ReadinessInv, Types, GoesTo
<1>2. IdleInv' /\ ModeInv'
  BY DEF ReadinessInv, Types, GoesTo, IdleInv, ModeInv
<1>3. SeenInv'
  BY DEF ReadinessInv, SeenInv, GoesTo, Refuses, Sight
<1>4. QED
  BY <1>1, <1>2, <1>3 DEF ReadinessInv

\* The environment changes neither what was received nor what was answered,
\* and what it changes is seen.
LEMMA InvEnvironment ==
  ASSUME ReadinessInv, Environment, UNCHANGED <<a2sVars, panelVars>>
  PROVE  ReadinessInv'
<1> USE DEF ReadinessInv, Types, IdleInv, ModeInv, SeenInv, a2sVars, panelVars
<1>1. CASE BackendMoves
  <2>1. /\ backend' \in States /\ challenge' \in Challenges
        /\ seen' = IF call = "none" THEN seen ELSE seen \cup {Sight(backend')}
        /\ UNCHANGED <<mode, call, ctxDone, pc>>
    BY <1>1 DEF BackendMoves, Enters, States
  <2>2. Types' /\ IdleInv' /\ ModeInv'
    BY <2>1
  <2>3. SeenInv'
    BY <2>1 DEF Refuses
  <2>4. QED
    BY <2>2, <2>3
<1>2. CASE Settles
  BY <1>2 DEF Settles, Refuses
<1>3. CASE Cancelled
  BY <1>3 DEF Cancelled, Refuses
<1>4. ASSUME NEW k \in {"probe", "wait"}, Begins(k)
      PROVE  ReadinessInv'
  <2>1. answers["info"] = 0
    BY <1>4 DEF Begins, NoAnswers, Answers
  <2>2. Types' /\ IdleInv' /\ ModeInv'
    BY <1>4 DEF Begins
  <2>3. SeenInv'
    BY <1>4, <2>1 DEF Begins
  <2>4. QED
    BY <2>2, <2>3
<1>5. QED
  BY <1>1, <1>2, <1>3, <1>4 DEF Environment

\* The A2S probe keeps the invariant: an answer it reads is gone, and its
\* end closes the socket.
LEMMA InvA2SClient ==
  ASSUME ReadinessInv, A2SClient, UNCHANGED panelVars
  PROVE  ReadinessInv'
<1>1. exchange' = exchange /\ reply' = reply /\ call \in {"none", "probe", "wait"}
      /\ exchange \in {"none", "asked", "answered"} /\ answers \in [Answers -> Nat]
  BY DEF panelVars, ReadinessInv, Types
<1>2. mode = "a2s" /\ call # "none" /\ exchange = "none"
  BY DEF A2SClient, A2SDials, A2SStops, A2SSends, A2SWriteFails, A2SReads, A2SReadFails, A2SRetries,
         LoopEnds, ReadinessInv, IdleInv, ModeInv
<1>3. ASSUME NEW r, A2SReturns(r)
      PROVE  ReadinessInv'
  BY <1>1, <1>2, <1>3, InvReturn DEF A2SReturns, CloseSocket
<1>4. ASSUME GivesUp
      PROVE  ReadinessInv'
  BY <1>3, <1>4 DEF GivesUp
<1>5. ASSUME NEW l \in A2SPCs, GoesTo(l), l = "retry" => call = "wait",
             answers' \in [Answers -> Nat], answers'["info"] = answers["info"]
      PROVE  ReadinessInv'
  <2>1. l # "asked"
    BY DEF A2SPCs
  <2>2. QED
    BY <1>1, <1>2, <1>5, <2>1, InvGoesOn
<1>6. ASSUME AsksAgain
      PROVE  ReadinessInv'
  BY <1>1, <1>5, <1>6 DEF AsksAgain, A2SPCs
<1>7. CASE A2SDials
  BY <1>1, <1>3, <1>4, <1>5, <1>7 DEF A2SDials, A2SPCs, a2sVars
<1>8. CASE A2SStops
  BY <1>4, <1>8 DEF A2SStops
<1>9. CASE A2SSends
  BY <1>1, <1>5, <1>9 DEF A2SSends, A2SPCs
<1>10. CASE A2SWriteFails
  BY <1>1, <1>3, <1>4, <1>5, <1>10 DEF A2SWriteFails, A2SPCs, a2sVars
<1>11. CASE A2SReadFails
  BY <1>1, <1>4, <1>5, <1>6, <1>11 DEF A2SReadFails, A2SPCs, a2sVars
<1>12. CASE A2SRetries
  BY <1>4, <1>6, <1>12 DEF A2SRetries
<1>13. ASSUME NEW a \in Answers, A2SReads(a)
       PROVE  ReadinessInv'
  <2>1. CASE GivesUp
    BY <1>4, <2>1
  <2>2. CASE A2SReturns("ready")
    BY <1>3, <2>2
  <2>3. CASE a \in Challenges /\ answers' = [answers EXCEPT ![a] = @ - 1] /\ GoesTo("write")
    <3>1. answers[a] \in Nat \ {0} /\ a # "info"
      BY <1>1, <1>13, <2>3, A2SAssumption DEF A2SReads
    <3>2. answers' \in [Answers -> Nat] /\ answers'["info"] = answers["info"]
      BY <1>1, <2>3, <3>1 DEF Answers
    <3>3. QED
      BY <1>5, <2>3, <3>2 DEF A2SPCs
  <2>4. QED
    BY <1>13, <2>1, <2>2, <2>3 DEF A2SReads
<1>14. QED
  BY <1>7, <1>8, <1>9, <1>10, <1>11, <1>12, <1>13 DEF A2SClient

\* The game server answers while it runs, and so within a call that has
\* seen it run.
LEMMA InvServer ==
  ASSUME ReadinessInv, Server, UNCHANGED panelVars
  PROVE  ReadinessInv'
<1> USE DEF ReadinessInv, Types, IdleInv, ModeInv, SeenInv, callVars, panelVars
<1>1. ASSUME NEW q \in Challenges \cup {Plain}, ServerReplies(q)
      PROVE  ReadinessInv'
  <2>1. outbound # NoQuery /\ backend = "running" /\ outbound' = NoQuery /\ UNCHANGED callVars
    BY <1>1, A2SAssumption DEF ServerReplies
  <2>2. call # "none" /\ "up" \in seen
    BY <2>1 DEF Sight
  <2>3. answers' \in [Answers -> Nat]
    <3>1. PICK a \in Replies(q), n \in 1..2 : answers' = [answers EXCEPT ![a] = @ + n]
      BY <1>1 DEF ServerReplies
    <3>2. a \in Answers
      BY <3>1 DEF Replies, Answers
    <3>3. QED
      BY <3>1, <3>2
  <2>4. mode = "a2s"
    BY <1>1 DEF ServerReplies
  <2>5. QED
    BY <2>1, <2>2, <2>3, <2>4 DEF Refuses
<1>2. CASE ServerIgnores
  BY <1>2 DEF ServerIgnores, Refuses
<1>3. QED
  BY <1>1, <1>2 DEF Server

\* The panel answers with the state the backend is in.
LEMMA InvPanel ==
  ASSUME ReadinessInv, Panel, UNCHANGED a2sVars
  PROVE  ReadinessInv'
<1> USE DEF ReadinessInv, Types, IdleInv, ModeInv, SeenInv, a2sVars
<1>1. PICK r \in Responses : PanelAnswers(r)
  BY DEF Panel
<1>2. /\ exchange = "asked" /\ exchange' = "answered" /\ reply' = r
      /\ r.body \in States => r.body = backend
      /\ seen' = IF Refuses(r) THEN seen \cup {"refusal"} ELSE seen
      /\ UNCHANGED <<mode, backend, challenge, call, ctxDone, pc, answers, outbound>>
  BY <1>1 DEF PanelAnswers
<1>3. call # "none" /\ pc = "asked"
  BY <1>2
<1>4. Types' /\ IdleInv' /\ ModeInv'
  BY <1>2, <1>3
<1>5. SeenInv'
  BY <1>2, <1>3
<1>6. QED
  BY <1>4, <1>5

\* The panel probe keeps the invariant: it takes one answer per question.
LEMMA InvProbeClient ==
  ASSUME ReadinessInv, ProbeClient, UNCHANGED a2sVars
  PROVE  ReadinessInv'
<1>1. mode = "pterodactyl" /\ call # "none" /\ call \in {"none", "probe", "wait"}
  BY DEF ProbeClient, ProbeAsks, StatusFails, ProbeRetries, StatusReturns, ReadinessInv, IdleInv, Types
<1>2. /\ outbound' = NoQuery /\ answers' = NoAnswers /\ answers' = answers
      /\ answers' \in [Answers -> Nat]
  BY <1>1 DEF ReadinessInv, Types, ModeInv, a2sVars
<1>3. ASSUME NEW r, Returns(r), exchange' = "none"
      PROVE  ReadinessInv'
  BY <1>2, <1>3, InvReturn
<1>4. ASSUME NEW l, GoesTo(l), l = "retry" => call = "wait",
             (l = "asked" /\ exchange' = "asked") \/ (l \in {"idle", "retry"} /\ exchange' = "none")
      PROVE  ReadinessInv'
  BY <1>1, <1>2, <1>4, InvGoesOn DEF PanelPCs
<1>5. ASSUME NEW s, ProbeConcludes(s)
      PROVE  ReadinessInv'
  BY <1>1, <1>3, <1>4, <1>5 DEF ProbeConcludes
<1>6. CASE ProbeAsks
  <2>1. exchange = "none"
    BY <1>6 DEF ProbeAsks, ReadinessInv, ModeInv
  <2>2. CASE ctxDone
    <3>1. PICK r : Returns(r) /\ exchange' = exchange
      BY <1>6, <2>2 DEF ProbeAsks
    <3>2. QED
      BY <1>3, <2>1, <3>1
  <2>3. CASE ~ctxDone
    BY <1>4, <1>6, <2>3 DEF ProbeAsks
  <2>4. QED
    BY <2>2, <2>3
<1>7. CASE ProbeRetries
  <2>1. exchange = "none" /\ exchange' = exchange
    BY <1>7 DEF ProbeRetries, ReadinessInv, ModeInv, panelVars
  <2>2. QED
    BY <1>3, <1>4, <1>7, <2>1 DEF ProbeRetries
<1>8. QED
  BY <1>5, <1>6, <1>7 DEF ProbeClient, StatusFails, StatusReturns

\* A power request moves the backend, which is seen.
LEMMA InvPowerClient ==
  ASSUME ReadinessInv, PowerClient, UNCHANGED a2sVars
  PROVE  ReadinessInv'
<1> USE DEF ReadinessInv, Types, IdleInv, ModeInv, SeenInv, a2sVars
<1>1. ASSUME NEW s, PowerCalled(s)
      PROVE  ReadinessInv'
  BY <1>1 DEF PowerCalled, callVars, Refuses
<1>2. ASSUME NEW o, PowerEnds(o), Accepts \/ Declines
      PROVE  ReadinessInv'
  <2>1. /\ backend' \in States
        /\ \/ seen' = IF call = "none" THEN seen ELSE seen \cup {Sight(backend')}
           \/ seen' = seen /\ backend' = backend
        /\ UNCHANGED <<mode, challenge, call, ctxDone, pc, exchange, reply>>
    BY <1>2 DEF PowerEnds, Accepts, Declines, Enters, States
  <2>2. Types' /\ IdleInv' /\ ModeInv'
    BY <2>1
  <2>3. SeenInv'
    BY <2>1 DEF Refuses
  <2>4. QED
    BY <2>2, <2>3
<1>3. QED
  BY <1>1, <1>2 DEF PowerClient, PowerReturns, PowerFails

\* The invariant is inductive.
LEMMA ReadinessStep == ReadinessInv /\ [Next]_vars => ReadinessInv'
<1> SUFFICES ASSUME ReadinessInv, [Next]_vars PROVE ReadinessInv'
  OBVIOUS
<1>1. CASE UNCHANGED vars
  BY <1>1 DEF vars, callVars, a2sVars, panelVars, ReadinessInv, Types, IdleInv, ModeInv, SeenInv, Refuses
<1>2. CASE Next
  BY <1>2, InvEnvironment, InvA2SClient, InvServer, InvPanel, InvProbeClient, InvPowerClient DEF Next
<1>3. QED
  BY <1>1, <1>2

\* And so it always holds.
LEMMA ReadinessAlways == Spec => []ReadinessInv
BY ReadinessInit, ReadinessStep, PTL DEF Spec

-----------------------------------------------------------------------------
\* A power request that returned nil was accepted by the panel, and one
\* that failed permanently was not: power and ClassifyHTTPError read the
\* codes as the panel means them.
THEOREM PowerAlwaysHonest == Spec => []PowerHonest
<1>1. Init => PowerHonest
  BY DEF Init, PanelInit, PowerHonest
<1>2. PowerHonest /\ [Next]_vars => PowerHonest'
  <2> SUFFICES ASSUME PowerHonest, [Next]_vars PROVE PowerHonest'
    OBVIOUS
  <2>1. ASSUME UNCHANGED powerVars
        PROVE  PowerHonest'
    BY <2>1 DEF PowerHonest, powerVars
  <2>2. CASE Environment /\ UNCHANGED <<a2sVars, panelVars>>
    BY <2>1, <2>2 DEF panelVars, powerVars
  <2>3. CASE (A2SClient \/ Server) /\ UNCHANGED panelVars
    BY <2>1, <2>3 DEF panelVars, powerVars
  <2>4. CASE ProbeClient \/ Panel
    BY <2>1, <2>4 DEF ProbeClient, ProbeAsks, StatusFails, ProbeRetries, StatusReturns, Panel, PanelAnswers,
                      panelVars, powerVars
  <2>5. ASSUME NEW s, PowerCalled(s)
        PROVE  PowerHonest'
    BY <2>5 DEF PowerCalled, PowerHonest
  <2>6. CASE PowerFails
    BY <2>6 DEF PowerFails, PowerEnds, PowerHonest
  <2>7. CASE PowerReturns
    <3>1. PICK c \in Codes :
            /\ outcome' = IF Success(c) THEN "ok" ELSE ClassifyHTTPError(c)
            /\ (c \in OkCodes \cup BrokenCodes /\ accepted' = TRUE) \/ (c \notin OkCodes /\ accepted' = FALSE)
      BY <2>7 DEF PowerReturns, PowerEnds, Accepts, Declines
    <3>2. c \in DeniedCodes => c \notin OkCodes \cup BrokenCodes
      BY CodesAssumption
    <3>3. QED
      BY <3>1, <3>2, CodeMeaning DEF PowerHonest
  <2>8. CASE UNCHANGED vars
    BY <2>1, <2>8 DEF vars, panelVars, powerVars
  <2>9. QED
    BY <2>2, <2>3, <2>4, <2>5, <2>6, <2>7, <2>8 DEF Next, PowerClient
<1>3. QED
  BY <1>1, <1>2, PTL DEF Spec

-----------------------------------------------------------------------------
Results == {"ready", "unavailable", "inconclusive", "cancelled", "refused", "failed"}

\* A return with a reason is one of the contract.
LEMMA ReturnRefines ==
  ASSUME NEW r \in Results, Returns(r), call # "none", Contract!Justified(r)
  PROVE  Contract!Return
BY DEF Returns, Contract!Return, Results

\* A call that goes on is a stutter.
LEMMA GoesOnRefines ==
  ASSUME NEW l, GoesTo(l)
  PROVE  UNCHANGED Contract!vars
BY DEF GoesTo, Contract!vars

\* A backend that is seen to move moves in the contract.
LEMMA EntersRefines ==
  ASSUME NEW b, Enters(b), UNCHANGED <<mode, call, ctxDone, result>>
  PROVE  Contract!Moves
<1>1. Sight(b) = Contract!Sight((backend = "running")')
  BY DEF Enters, Sight, Contract!Sight
<1>2. (backend = "running")' \in BOOLEAN
  OBVIOUS
<1>3. seen' = IF call = "none" THEN seen ELSE seen \cup {Contract!Sight((backend = "running")')}
  BY <1>1 DEF Enters
<1>4. QED
  BY <1>2, <1>3 DEF Contract!Moves

\* The environment of the probes is the contract's.
LEMMA EnvironmentRefines ==
  ASSUME ReadinessInv, Environment
  PROVE  Contract!Next \/ UNCHANGED Contract!vars
<1>1. CASE BackendMoves
  <2>1. \E b : Enters(b)
    BY <1>1 DEF BackendMoves
  <2>2. UNCHANGED <<mode, call, ctxDone, result>>
    BY <1>1 DEF BackendMoves
  <2>3. QED
    BY <2>1, <2>2, EntersRefines DEF Contract!Next
<1>2. CASE Settles
  BY <1>2 DEF Settles, Contract!vars
<1>3. CASE Cancelled
  BY <1>3 DEF Cancelled, Contract!Next, Contract!Cancel
<1>4. ASSUME NEW k \in {"probe", "wait"}, Begins(k)
      PROVE  Contract!Next
  <2>1. Sight(backend) = Contract!Sight(backend = "running")
    BY DEF Sight, Contract!Sight
  <2>2. QED
    BY <1>4, <2>1 DEF Begins, Contract!Next, Contract!Begin
<1>5. QED
  BY <1>1, <1>2, <1>3, <1>4 DEF Environment

\* The A2S probe returns for a reason: an info it reads was sent in this
\* call by a backend that ran, and only its context or the socket ends a
\* wait early.
LEMMA A2SRefines ==
  ASSUME ReadinessInv, A2SClient
  PROVE  Contract!Next \/ UNCHANGED Contract!vars
<1>1. call \in {"none", "probe", "wait"} /\ mode = "a2s" /\ call # "none"
  BY DEF A2SClient, A2SDials, A2SStops, A2SSends, A2SWriteFails, A2SReads, A2SReadFails, A2SRetries,
         LoopEnds, ReadinessInv, IdleInv, Types
<1>2. ASSUME GivesUp, call = "probe" \/ ctxDone
      PROVE  Contract!Next
  <2>1. CASE call = "probe"
    <3>1. Returns("unavailable") /\ "unavailable" \in Results
      BY <1>2, <2>1 DEF GivesUp, A2SReturns, Results
    <3>2. Contract!Justified("unavailable")
      BY <1>1, <2>1, Zenon DEF Contract!Justified
    <3>3. QED
      BY <1>1, <3>1, <3>2, ReturnRefines DEF Contract!Next
  <2>2. CASE call = "wait"
    <3>1. Returns("cancelled") /\ "cancelled" \in Results
      BY <1>2, <2>2 DEF GivesUp, A2SReturns, Results
    <3>2. Contract!Justified("cancelled")
      BY <1>2, <2>2, Zenon DEF Contract!Justified
    <3>3. QED
      BY <1>1, <3>1, <3>2, ReturnRefines DEF Contract!Next
  <2>3. QED
    BY <1>1, <2>1, <2>2
<1>f. ASSUME call = "wait", A2SReturns("failed")
      PROVE  Contract!Next
  <2>1. Contract!Justified("failed")
    BY <1>1, <1>f, Zenon DEF Contract!Justified
  <2>2. QED
    BY <1>1, <1>f, <2>1, ReturnRefines DEF A2SReturns, Contract!Next, Results
<1>3. CASE A2SDials
  BY <1>2, <1>3, <1>f, GoesOnRefines DEF A2SDials
<1>4. CASE A2SStops \/ A2SSends \/ A2SWriteFails \/ A2SRetries
  BY <1>2, <1>4, <1>f, GoesOnRefines DEF A2SStops, A2SSends, A2SWriteFails, A2SRetries, AsksAgain, LoopEnds
<1>5. CASE A2SReadFails
  BY <1>2, <1>5, GoesOnRefines DEF A2SReadFails, AsksAgain
<1>6. ASSUME NEW a \in Answers, A2SReads(a)
      PROVE  Contract!Next \/ UNCHANGED Contract!vars
  <2>1. CASE a = "info" /\ A2SReturns("ready")
    <3>1. "up" \in seen
      BY <1>6, <2>1 DEF A2SReads, ReadinessInv, SeenInv
    <3>2. Contract!Justified("ready")
      BY <3>1, Zenon DEF Contract!Justified
    <3>3. QED
      BY <1>1, <2>1, <3>2, ReturnRefines DEF A2SReturns, Contract!Next, Results
  <2>2. CASE GoesTo("write")
    BY <2>2, GoesOnRefines
  <2>3. CASE ~FollowsChallenge /\ GivesUp
    BY <1>1, <1>2, <2>3 DEF FollowsChallenge
  <2>4. QED
    BY <1>6, <2>1, <2>2, <2>3 DEF A2SReads
<1>7. QED
  BY <1>3, <1>4, <1>5, <1>6 DEF A2SClient

\* The panel probe returns for a reason, whatever ends Status: a state the
\* backend was in during the call, a refusal of the panel, or an error that
\* tells nothing.
LEMMA ProbeRefines ==
  ASSUME ReadinessInv, ProbeClient
  PROVE  Contract!Next \/ UNCHANGED Contract!vars
<1>1. call \in {"none", "probe", "wait"} /\ mode = "pterodactyl" /\ call # "none"
  BY DEF ProbeClient, ProbeAsks, StatusFails, ProbeRetries, StatusReturns, ReadinessInv, IdleInv, Types
<1>2. ASSUME NEW r \in Results, Returns(r), Contract!Justified(r)
      PROVE  Contract!Next
  BY <1>1, <1>2, ReturnRefines DEF Contract!Next
<1>3. ASSUME call = "wait", ctxDone, Returns("cancelled")
      PROVE  Contract!Next
  <2>1. Contract!Justified("cancelled")
    BY <1>3, Zenon DEF Contract!Justified
  <2>2. QED
    BY <1>2, <1>3, <2>1 DEF Results
<1>4. ASSUME call = "probe", Returns("inconclusive")
      PROVE  Contract!Next
  <2>1. Contract!Justified("inconclusive")
    BY <1>1, <1>4, Zenon DEF Contract!Justified
  <2>2. QED
    BY <1>2, <1>4, <2>1 DEF Results
<1>5. ASSUME NEW s, ProbeConcludes(s), s \in States => Sight(s) \in seen, s = "permanent" => "refusal" \in seen
      PROVE  Contract!Next \/ UNCHANGED Contract!vars
  <2>1. CASE s = "running"
    <3>1. Returns("ready") /\ "up" \in seen
      BY <1>5, <2>1 DEF ProbeConcludes, States, Sight
    <3>2. Contract!Justified("ready")
      BY <3>1, Zenon DEF Contract!Justified
    <3>3. QED
      BY <1>2, <3>1, <3>2 DEF Results
  <2>2. CASE s # "running" /\ call = "probe" /\ s \in States
    <3>1. Returns("unavailable") /\ "down" \in seen
      BY <1>5, <2>2 DEF ProbeConcludes, Verdict, Sight
    <3>2. Contract!Justified("unavailable")
      BY <2>2, <3>1, Zenon DEF Contract!Justified
    <3>3. QED
      BY <1>2, <3>1, <3>2 DEF Results
  <2>3. CASE s # "running" /\ call = "probe" /\ s \notin States
    BY <1>4, <1>5, <2>3 DEF ProbeConcludes, Verdict
  <2>4. CASE s # "running" /\ call = "wait" /\ ctxDone
    BY <1>3, <1>5, <2>4 DEF ProbeConcludes
  <2>5. CASE s = "permanent" /\ call = "wait" /\ ~ctxDone
    <3>1. Returns("refused") /\ "refusal" \in seen
      BY <1>5, <2>5 DEF ProbeConcludes
    <3>2. Contract!Justified("refused")
      BY <2>5, <3>1, Zenon DEF Contract!Justified
    <3>3. QED
      BY <1>2, <3>1, <3>2 DEF Results
  <2>6. CASE s \notin {"running", "permanent"} /\ call = "wait" /\ ~ctxDone
    BY <1>5, <2>6, GoesOnRefines DEF ProbeConcludes
  <2>7. QED
    BY <1>1, <2>1, <2>2, <2>3, <2>4, <2>5, <2>6
<1>6. ASSUME NEW s, StatusReturns(s)
      PROVE  Contract!Next \/ UNCHANGED Contract!vars
  <2>1. reply \in Responses /\ s = StatusOf(reply) /\ ProbeConcludes(s)
    BY <1>6 DEF StatusReturns, ReadinessInv, SeenInv
  <2>2. s \in States => Sight(s) \in seen
    BY <1>6, <2>1, StatusMeaning DEF StatusReturns, ReadinessInv, SeenInv
  <2>3. s = "permanent" => "refusal" \in seen
    BY <1>6, <2>1, StatusMeaning DEF StatusReturns, ReadinessInv, SeenInv
  <2>4. QED
    BY <1>5, <2>1, <2>2, <2>3
<1>7. CASE StatusFails
  <2>1. ProbeConcludes("transient") /\ "transient" \notin States
    BY <1>7 DEF StatusFails, States
  <2>2. QED
    BY <1>5, <2>1
<1>8. CASE ProbeAsks
  <2>1. CASE ctxDone
    BY <1>1, <1>3, <1>4, <1>8, <2>1 DEF ProbeAsks
  <2>2. CASE ~ctxDone
    BY <1>8, <2>2, GoesOnRefines DEF ProbeAsks
  <2>3. QED
    BY <2>1, <2>2
<1>9. CASE ProbeRetries
  <2>1. CASE ctxDone /\ Returns("cancelled") /\ call = "wait"
    BY <1>3, <2>1
  <2>2. CASE GoesTo("idle")
    BY <2>2, GoesOnRefines
  <2>3. call = "wait"
    BY <1>1, <1>9 DEF ProbeRetries, ReadinessInv, ModeInv
  <2>4. QED
    BY <1>9, <2>1, <2>2, <2>3 DEF ProbeRetries
<1>10. QED
  BY <1>6, <1>7, <1>8, <1>9 DEF ProbeClient

\* Power requests move the backend; the panel may refuse.
LEMMA PanelRefines ==
  ASSUME ReadinessInv, PowerClient \/ Panel
  PROVE  Contract!Next \/ UNCHANGED Contract!vars
<1>1. ASSUME NEW s, PowerCalled(s)
      PROVE  UNCHANGED Contract!vars
  BY <1>1 DEF PowerCalled, callVars, Contract!vars
<1>2. ASSUME NEW o, PowerEnds(o), Accepts
      PROVE  Contract!Next
  <2>1. \E b : Enters(b)
    BY <1>2 DEF Accepts
  <2>2. UNCHANGED <<mode, call, ctxDone, result>>
    BY <1>2 DEF PowerEnds
  <2>3. QED
    BY <2>1, <2>2, EntersRefines DEF Contract!Next
<1>3. ASSUME NEW o, PowerEnds(o), Declines
      PROVE  UNCHANGED Contract!vars
  BY <1>3 DEF PowerEnds, Declines, Contract!vars
<1>4. ASSUME NEW r \in Responses, PanelAnswers(r)
      PROVE  Contract!Next \/ UNCHANGED Contract!vars
  <2>1. call # "none"
    BY <1>4 DEF PanelAnswers, ReadinessInv, IdleInv
  <2>2. CASE Refuses(r)
    BY <1>4, <2>1, <2>2 DEF PanelAnswers, Contract!Next, Contract!Refusal
  <2>3. CASE ~Refuses(r)
    BY <1>4, <2>3 DEF PanelAnswers, Contract!vars
  <2>4. QED
    BY <2>2, <2>3
<1>5. QED
  BY <1>1, <1>2, <1>3, <1>4 DEF PowerClient, PowerReturns, PowerFails, Panel

\* Every step is one of the contract, or a stutter.
LEMMA ContractStep ==
  ASSUME ReadinessInv, [Next]_vars
  PROVE  Contract!Next \/ UNCHANGED Contract!vars
<1>1. CASE UNCHANGED vars
  BY <1>1 DEF vars, callVars, Contract!vars
<1>2. CASE Server
  BY <1>2 DEF Server, ServerReplies, ServerIgnores, callVars, Contract!vars
<1>3. CASE Environment \/ A2SClient \/ ProbeClient \/ PowerClient \/ Panel
  BY <1>3, EnvironmentRefines, A2SRefines, ProbeRefines, PanelRefines
<1>4. QED
  BY <1>1, <1>2, <1>3 DEF Next

\* Both probes implement the contract of readiness: a late answer of an
\* earlier call never counts, "unavailable" is never a guess of the panel
\* probe, and a wait is given up only for a reason.
THEOREM ReadinessImplemented == Spec => ImplementsReadiness
<1>1. Init => Contract!Init
  <2>1. (backend = "running") \in BOOLEAN
    OBVIOUS
  <2>2. QED
    BY <2>1 DEF Init, CallInit, Contract!Init
<1>2. ReadinessInv /\ [Next]_vars => [Contract!Next]_(Contract!vars)
  BY ContractStep
<1>3. QED
  BY <1>1, <1>2, ReadinessAlways, PTL DEF Spec, ImplementsReadiness, Contract!Spec

-----------------------------------------------------------------------------
\* The part of TypeOK that the invariant above does not hold: what the A2S
\* probe keeps,
A2STypes ==
  /\ query \in Challenges \cup {Plain} /\ attempts \in 0..1
  /\ outbound \in Challenges \cup {Plain, NoQuery} /\ answers \in [Answers -> 0..MaxCopies]

\* what the panel client keeps,
PanelTypes ==
  /\ reply \in Responses \cup {NoReply}
  /\ power \in {"none", "start", "stop"} /\ accepted \in BOOLEAN
  /\ outcome \in {"none", "ok", "transient", "permanent"}

\* and what a call keeps.
CallTypes ==
  /\ stable \in BOOLEAN /\ seen \subseteq {"up", "down", "refusal"}
  /\ result \in Results \cup {"none"}

\* Nothing but the A2S probe and the game server touches its variables.
LEMMA A2STypesStep ==
  ASSUME A2STypes, ReadinessInv, A2SClient \/ Server
  PROVE  A2STypes'
<1> USE DEF A2STypes
<1>1. NoAnswers \in [Answers -> 0..MaxCopies]
  BY A2SAssumption DEF NoAnswers
<1>2. ASSUME CloseSocket
      PROVE  A2STypes'
  BY <1>1, <1>2 DEF CloseSocket
<1>3. ASSUME UNCHANGED <<attempts, outbound, answers>>, query' = Plain
      PROVE  A2STypes'
  BY <1>3
<1>4. ASSUME UNCHANGED a2sVars
      PROVE  A2STypes'
  BY <1>4 DEF a2sVars
<1>5. CASE A2SDials \/ A2SStops \/ A2SWriteFails
  BY <1>2, <1>4, <1>5 DEF A2SDials, A2SStops, A2SWriteFails, GivesUp, A2SReturns
<1>6. CASE A2SSends
  BY <1>6 DEF A2SSends
<1>7. CASE A2SReadFails \/ A2SRetries
  BY <1>2, <1>3, <1>4, <1>7 DEF A2SReadFails, A2SRetries, GivesUp, A2SReturns, AsksAgain, ResetQuery
<1>8. ASSUME NEW a \in Answers, A2SReads(a)
      PROVE  A2STypes'
  <2>1. CASE CloseSocket
    BY <1>2, <2>1
  <2>2. CASE /\ a \in Challenges /\ FollowsChallenge /\ query' = a
             /\ attempts' = IF call = "probe" THEN attempts + 1 ELSE attempts
             /\ answers' = [answers EXCEPT ![a] = @ - 1] /\ UNCHANGED outbound
    <3>1. attempts' \in 0..1
      BY <2>2 DEF FollowsChallenge
    <3>2. answers[a] > 0
      BY <1>8 DEF A2SReads
    <3>3. answers' \in [Answers -> 0..MaxCopies]
      BY <2>2, <3>2, A2SAssumption
    <3>4. QED
      BY <2>2, <3>1, <3>3
  <2>3. QED
    BY <1>8, <2>1, <2>2 DEF A2SReads, GivesUp, A2SReturns
<1>9. CASE ServerIgnores
  BY <1>9 DEF ServerIgnores
<1>10. ASSUME NEW q, ServerReplies(q)
       PROVE  A2STypes'
  <2>1. PICK a \in Replies(q), n \in 1..2 :
          answers[a] + n <= MaxCopies /\ answers' = [answers EXCEPT ![a] = @ + n]
    BY <1>10 DEF ServerReplies
  <2>2. challenge \in Challenges
    BY DEF ReadinessInv, Types
  <2>3. a \in Answers
    BY <2>1, <2>2 DEF Replies, Answers
  <2>4. answers' \in [Answers -> 0..MaxCopies]
    BY <2>1, <2>3, A2SAssumption
  <2>5. QED
    BY <1>10, <2>4 DEF ServerReplies
<1>11. QED
  BY <1>5, <1>6, <1>7, <1>8, <1>9, <1>10 DEF A2SClient, Server

\* Nothing but the panel, its client and the panel probe touches theirs.
LEMMA PanelTypesStep ==
  ASSUME PanelTypes, ReadinessInv, ProbeClient \/ PowerClient \/ Panel
  PROVE  PanelTypes'
<1> USE DEF PanelTypes
<1>1. CASE ProbeClient
  BY <1>1 DEF ProbeClient, ProbeAsks, StatusFails, ProbeRetries, StatusReturns, powerVars, panelVars
<1>2. CASE Panel
  BY <1>2 DEF Panel, PanelAnswers, powerVars
<1>3. ASSUME NEW s \in {"start", "stop"}, PowerCalled(s)
      PROVE  PanelTypes'
  BY <1>3 DEF PowerCalled
<1>4. ASSUME NEW o \in {"ok", "transient", "permanent"}, PowerEnds(o), Accepts \/ Declines
      PROVE  PanelTypes'
  BY <1>4 DEF PowerEnds, Accepts, Declines
<1>5. CASE PowerReturns
  <2>1. PICK c \in Codes : PowerEnds(IF Success(c) THEN "ok" ELSE ClassifyHTTPError(c)) /\ (Accepts \/ Declines)
    BY <1>5 DEF PowerReturns
  <2>2. (IF Success(c) THEN "ok" ELSE ClassifyHTTPError(c)) \in {"ok", "transient", "permanent"}
    BY CodeMeaning
  <2>3. QED
    BY <1>4, <2>1, <2>2
<1>6. CASE PowerFails
  BY <1>4, <1>6 DEF PowerFails
<1>7. QED
  BY <1>1, <1>2, <1>3, <1>5, <1>6 DEF PowerClient

\* A call keeps its types: what it sees and what it returns are the
\* contract's.
LEMMA CallTypesStep ==
  ASSUME CallTypes, ReadinessInv, [Next]_vars
  PROVE  CallTypes'
<1>1. stable' \in BOOLEAN
  BY DEF CallTypes, Next, Environment, BackendMoves, Settles, Cancelled, Begins,
         A2SClient, A2SDials, A2SStops, A2SSends, A2SWriteFails, A2SReadFails, A2SRetries, A2SReads, GivesUp,
         A2SReturns, AsksAgain, Returns, GoesTo, Server, ServerReplies, ServerIgnores, callVars,
         ProbeClient, ProbeAsks, StatusFails, ProbeRetries, StatusReturns, ProbeConcludes,
         PowerClient, PowerCalled, PowerReturns, PowerFails, PowerEnds, Panel, PanelAnswers, vars
<1>2. Contract!Next \/ UNCHANGED Contract!vars
  BY ContractStep
<1>3. seen' \subseteq {"up", "down", "refusal"} /\ result' \in Results \cup {"none"}
  BY <1>2 DEF CallTypes, Contract!Next, Contract!vars, Contract!Moves, Contract!Refusal, Contract!Begin,
              Contract!Cancel, Contract!Return, Contract!Sight, Results
<1>4. QED
  BY <1>1, <1>3 DEF CallTypes

\* Every variable keeps its type; in particular Probe sends two queries at
\* most.
THEOREM ReadinessTypes == Spec => []TypeOK
<1> DEFINE I == ReadinessInv /\ A2STypes /\ PanelTypes /\ CallTypes
<1>1. Init => I
  <2> SUFFICES ASSUME Init PROVE I
    OBVIOUS
  <2>1. A2STypes
    BY A2SAssumption DEF Init, A2SInit, NoAnswers, A2STypes
  <2>2. PanelTypes /\ CallTypes
    BY DEF Init, PanelInit, CallInit, PanelTypes, CallTypes
  <2>3. QED
    BY <2>1, <2>2, ReadinessInit
<1>2. I /\ [Next]_vars => I'
  <2> SUFFICES ASSUME I, [Next]_vars PROVE I'
    OBVIOUS
  <2>1. A2STypes'
    <3>1. CASE UNCHANGED a2sVars
      BY <3>1 DEF a2sVars, A2STypes
    <3>2. QED
      BY <3>1, A2STypesStep DEF Next, vars
  <2>2. PanelTypes'
    <3>1. CASE UNCHANGED panelVars
      BY <3>1 DEF panelVars, PanelTypes
    <3>2. QED
      BY <3>1, PanelTypesStep DEF Next, vars
  <2>3. CallTypes' /\ ReadinessInv'
    BY CallTypesStep, ReadinessStep
  <2>4. QED
    BY <2>1, <2>2, <2>3
<1>3. I => TypeOK
  <2> SUFFICES ASSUME I PROVE TypeOK
    OBVIOUS
  <2>1. pc \in {"idle", "write", "read", "retry", "asked"}
    BY DEF ReadinessInv, Types, ModeInv, A2SPCs, PanelPCs
  <2>2. QED
    BY <2>1 DEF ReadinessInv, Types, A2STypes, PanelTypes, CallTypes, Results, TypeOK
<1>4. QED
  BY <1>1, <1>2, <1>3, PTL DEF Spec
=============================================================================
