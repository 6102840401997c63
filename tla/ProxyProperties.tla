-------------------------- MODULE ProxyProperties --------------------------
(***************************************************************************)
(* What makes the orchestration core correct: the type invariant, safety   *)
(* invariants, action properties, and liveness under the fairness of the   *)
(* Go scheduler and of the timeouts in the code.                           *)
(***************************************************************************)
EXTENDS Proxy

ServePC ==
  {"boot", "idle", "forward", "kick", "send", "admit", "remove", "removing", "dropQueue", "sample",
   "create", "watch", "finish", "shutdown", "shutdownGate", "shutdownClosing", "timerWait",
   "wgWait", "returned"}
Timer == [gen : Nat, attempt : 1..MaxAutoStopAttempts]
SessionOrNone == Session \cup {NoSession}
Request == [key : Keys \cup {NoKey}, cur : SessionOrNone, size : Sizes \cup {0}, wake : BOOLEAN,
            site : {"none", "fast", "admitted", "created"}, sawReady : BOOLEAN]

\* The type of every variable but queuedBytes (see QueueAccounting); attempts
\* and confirmations stay within their limits.
BooleanType ==
  /\ backendReady \in BOOLEAN /\ backendRunning \in BOOLEAN /\ startupRunning \in BOOLEAN
  /\ blocked \in BOOLEAN /\ gaveUp \in BOOLEAN /\ lastExpired \in BOOLEAN
  /\ shuttingDown \in BOOLEAN /\ ctxDone \in BOOLEAN /\ listenerOpen \in BOOLEAN
StartupRecord == [gen : Nat, pc : StartupPC, sent : BOOLEAN, permanent : BOOLEAN]
StartupType == startupGeneration \in Nat /\ startups \subseteq StartupRecord
CallbackRecord == [timer : Timer, pc : {"lock", "stopping"}]
TimerType ==
  /\ stopTimer \in Timer \cup {NoTimer} /\ stopGeneration \in Nat /\ timers \subseteq Timer
  /\ timerWG \in Int /\ callbacks \subseteq CallbackRecord /\ quiet \in {"empty", "occupied", "interrupted"}
LockType ==
  /\ admission \in {"free", "ingress", "startup", "monitor", "callback", "shutdown"}
  /\ forwarding \in {"free", "ingress", "startup", "monitor", "shutdown"}
  /\ closeAll \in {"none", "detach", "closing"} /\ detached \subseteq Session
MonitorType ==
  /\ readinessGeneration \in Nat /\ streak \in 0..HealthFailureThreshold
  /\ monitor \in [pc : {"idle", "probe", "lose", "loseGate", "loseClosing", "ended"}, gen : Nat]
  /\ failures \in [generation : Nat, count : 0..(HealthFailureThreshold - 1)]
ServeType == pc \in ServePC /\ req \in Request /\ received \in 0..MaxPackets
SessionType ==
  /\ sessions \in [Keys -> SessionOrNone]
  /\ state \in [Session -> {"none", "open", "closing", "done"}]
  /\ owner \in [Session -> Keys \cup {NoKey}] /\ sent \in [Session -> SessionOrNone]
  /\ watcher \in [Session -> {"none", "wait", "drop", "dropLast", "schedule", "ended"}]
  /\ sweeper \in {"idle", "refresh", "expire", "closing", "schedule", "ended"}
  /\ expired \subseteq Session /\ recent \subseteq Session
QueueType == DOMAIN queues \subseteq Session /\ queues \in [DOMAIN queues -> Queue]
TypeOK ==
  /\ BooleanType /\ StartupType /\ TimerType /\ LockType /\ MonitorType /\ ServeType /\ SessionType
  /\ QueueType

-----------------------------------------------------------------------------
(* Power requests.                                                         *)

\* While Controller.Stop is in flight the store is empty and no session is
\* open: runAutoStopAttempt keeps admissionMu from its tests to the answer.
NoStopWhileActive == StopInFlight => StoreEmpty /\ Open = {}

\* The panel never has a start and a stop of this proxy in flight together.
StartStopExclusive == ~(StartInFlight /\ StopInFlight)

\* At most one startup is under way, however many goroutines are still
\* ending one: closing the sessions of a failed startup, or about to call
\* startServer again after a completed one.
UnderWay(r) == r.pc \notin {"failClosing", "restart"}
SingleFlight == \A r, q \in startups : UnderWay(r) /\ UnderWay(q) => r = q

\* A stop belongs to a period without new sessions: none was created since
\* the timer whose callback sends it was armed.
StopNotInterrupted == StopInFlight => quiet # "interrupted"

\* Every stop is sent a full auto-stop delay after the store became empty:
\* the timer was armed with an empty store, which has stayed empty since.
StopAfterQuietDelay == StopInFlight => quiet = "empty"

\* Shutdown sends no stop, and none is in flight once it has closed the gate.
NoStopInShutdown == shuttingDown => ~StopInFlight

\* Without a single datagram from a client there is no request to start.
NoStartWithoutTraffic == StartInFlight => received > 0

-----------------------------------------------------------------------------
(* The gate.                                                               *)

\* A datagram is written to the backend only while the gate is open, though
\* the gate is read under mu and the write happens after mu is released.
SendOnlyWhenReady == pc = "send" => backendReady

\* The datagrams of a session reach its socket in the order of arrival, each
\* at most once: what is queued is increasing and newer than what was sent.
DeliveryInOrder ==
  \A s \in DOMAIN queues :
    LET q == queues[s].packets
    IN  /\ \A i \in 1..Len(q) : q[i].id > sent[s]
        /\ \A i, j \in 1..Len(q) : i < j => q[i].id < q[j].id

\* The health monitor closes the gate only after as many failed probes in a
\* row as the threshold says, each of which was sent through this gate and
\* answered while it was open: a late failure of an earlier one does not count.
GateLossConfirmed ==
  [][monitor.pc = "loseGate" /\ backendReady /\ ~backendReady' => streak >= HealthFailureThreshold]_vars

\* No lost wake-up: a queued datagram behind a closed gate has a startup that
\* will resolve it, or a goroutine that is about to start one.
NoStrandedQueue ==
  DOMAIN queues # {} /\ ~shuttingDown =>
    startupRunning \/ pc = "kick" \/ \E r \in startups : r.pc = "restart"

\* The global cooldown: until it is over no session waits for the backend and
\* no startup talks to the panel.
CooldownQuiet ==
  blocked => DOMAIN queues = {} /\ \A r \in startups : r.pc \notin Polling \cup Opening

-----------------------------------------------------------------------------
(* Auto-stop.                                                              *)

\* Somebody is going to call scheduleAutoStop.
WillSchedule ==
  \/ \E s \in Session : watcher[s] \in {"dropLast", "schedule"}
  \/ lastExpired \/ sweeper = "schedule"
  \/ \E r \in startups : r.pc = "opened"

\* A backend that is up without a session is on its way to a stop: a timer or
\* callback of the current generation exists or is about to, unless the
\* attempts are used up or the ingress is replacing a dead session.
AutoStopArmed ==
  backendReady /\ StoreEmpty /\ ~ctxDone /\ ~gaveUp =>
    \/ \E t \in timers : t.gen = stopGeneration
    \/ \E c \in callbacks : c.timer.gen = stopGeneration
    \/ WillSchedule
    \/ pc \in {"removing", "dropQueue", "sample", "create"}

\* The timer WaitGroup counts the armed timers and the running callbacks, so
\* that it is never negative and shutdown waits for the last callback; and
\* only the timer stopTimer refers to is armed.
TimerAccounting ==
  /\ timerWG = Cardinality(timers) + Cardinality(callbacks)
  /\ timers \subseteq {stopTimer}

-----------------------------------------------------------------------------
(* Sessions, queues, shutdown.                                             *)

\* GetOrCreate never meets an existing session: between the admission's
\* second look-up and the creation nobody else fills the key.
NoDuplicateKey == pc \in {"sample", "create"} => sessions[req.key] = NoSession

\* The upstream sockets in use stay within MaxSessions, whoever removes the
\* sessions from the store.
SessionBound == Cardinality(Open) <= MaxSessions

\* The byte counters agree with the queues, and the limits hold.
QueueAccounting ==
  /\ queuedBytes = SumFunction([s \in DOMAIN queues |-> queues[s].bytes])
  /\ queuedBytes <= StartupBufferBytesGlobal
  /\ \A s \in DOMAIN queues :
       /\ Len(queues[s].packets) <= StartupBufferPackets
       /\ queues[s].bytes <= StartupBufferBytesPerSession
       /\ queues[s].bytes = SumFunction([i \in DOMAIN queues[s].packets |-> queues[s].packets[i].size])

\* Every queue has a watcher that is still going to remove it: no datagram is
\* enqueued for a session after its clean-up.
NoOrphanQueue == \A s \in DOMAIN queues : watcher[s] \in {"wait", "drop", "dropLast"}

\* A session that waits for the backend is not expired by the sweeper.
PendingNotExpired ==
  [][\A s \in DOMAIN queues : state[s] = "open" => s \notin expired' \ expired]_vars

\* When Serve has returned nothing is left: no session, queue, timer or
\* goroutine, and no lock is held.
ShutdownClean ==
  pc = "returned" =>
    /\ StoreEmpty /\ \A s \in Session : state[s] \in {"none", "done"}
    /\ DOMAIN queues = {} /\ queuedBytes = 0
    /\ timers = {} /\ callbacks = {} /\ startups = {}
    /\ admission = "free" /\ forwarding = "free"

-----------------------------------------------------------------------------
(* The inductive invariant behind the theorems about the core.             *)

\* A datagram in hand was numbered, its endpoint and size are real, and so is
\* the session it is handled for.
HandlingPC ==
  {"forward", "kick", "send", "admit", "remove", "removing", "dropQueue", "sample", "create", "watch",
   "finish"}
RequestOK ==
  pc \in HandlingPC =>
    /\ req.key \in Keys /\ req.size \in Sizes /\ req.site # "none" /\ received \in Session
    /\ pc \notin {"admit", "sample", "create"} => req.cur \in Session

\* The states of each goroutine in which it holds admissionMu.
AdmittedPC == {"remove", "removing", "dropQueue", "sample", "create", "watch", "finish"}
IngressHolds ==
  pc \in AdmittedPC \/ (pc \in {"forward", "kick", "send"} /\ req.site \in {"admitted", "created"})
Holds(r) == r.pc \in {"openGate", "opened", "failGate", "failClosing"}
MonitorHolds == monitor.pc \in {"loseGate", "loseClosing"}
ShutdownHolds == pc \in {"shutdownGate", "shutdownClosing"}
Stopping(c) == c.pc = "stopping"

\* admissionMu is a mutex: whoever is in one of those states is its holder.
AdmissionOwned ==
  /\ IngressHolds => admission = "ingress"
  /\ ShutdownHolds => admission = "shutdown"
  /\ MonitorHolds => admission = "monitor"
  /\ \A r \in startups : Holds(r) => admission = "startup"
  /\ \A c \in callbacks : Stopping(c) => admission = "callback"
  /\ \A r, q \in startups : Holds(r) /\ Holds(q) => r = q
  /\ \A c, d \in callbacks : Stopping(c) /\ Stopping(d) => c = d

\* CloseAll runs on behalf of a holder that waits for it.
CloseAllOwned ==
  /\ closeAll # "none" =>
       \/ \E r \in startups : r.pc = "failClosing"
       \/ monitor.pc = "loseClosing" \/ pc = "shutdownClosing"
  /\ detached # {} => closeAll = "closing"

\* No open session is lost: it is in the store or CloseAll is closing it.
SessionsTracked == Open \subseteq Stored \cup detached

\* Under the admission lock the key of the datagram in hand can only be
\* vacated, never filled by somebody else.
KeyHeld ==
  /\ pc \in {"removing", "dropQueue", "sample", "create"} => sessions[req.key] = NoSession
  /\ pc = "remove" \/ (pc \in {"forward", "kick", "send"} /\ req.site = "admitted") =>
       sessions[req.key] \in {req.cur, NoSession}
  /\ pc = "watch" => req.site = "created"

\* A startup under way is the only one and behind a closed gate until it
\* opens the gate itself.
StartupAlone ==
  /\ SingleFlight
  /\ \A r \in startups : UnderWay(r) /\ ~shuttingDown => startupRunning
  /\ \A r \in startups : UnderWay(r) /\ r.pc \notin {"opened", "finish"} => ~backendReady
  /\ pc = "boot" => startups = {} /\ ~backendReady /\ ~shuttingDown
  /\ shuttingDown => ~backendReady

\* A stop is in flight only with the gate open and nobody there.
StopJustified == \A c \in callbacks : Stopping(c) => backendReady /\ StoreEmpty /\ Open = {}

PowerInv ==
  /\ RequestOK /\ AdmissionOwned /\ CloseAllOwned /\ SessionsTracked /\ KeyHeld /\ StartupAlone
  /\ StopJustified

\* forwardingMu is a mutex too, and both locks are held only by somebody who
\* is going to give them back.
ForwardingOwned ==
  /\ forwarding = "ingress" <=> pc \in {"kick", "send"}
  /\ forwarding = "shutdown" <=> pc = "shutdownClosing"
  /\ forwarding = "monitor" <=> monitor.pc = "loseClosing"
  /\ forwarding = "startup" <=> \E r \in startups : r.pc \in {"opened", "failClosing"}
AdmissionReturned ==
  /\ admission = "ingress" => IngressHolds
  /\ admission = "shutdown" => ShutdownHolds
  /\ admission = "monitor" => MonitorHolds
  /\ admission = "startup" => \E r \in startups : Holds(r)
  /\ admission = "callback" => \E c \in callbacks : Stopping(c)
LockInv == ForwardingOwned /\ AdmissionReturned /\ SendOnlyWhenReady

\* One timer or callback at most belongs to a generation of the auto-stop, the
\* armed one to the current generation; a generation that a new session has
\* interrupted ends before admissionMu is free again.
TimersCurrent ==
  /\ \A t \in timers : t = stopTimer /\ t.gen = stopGeneration
  /\ \A c \in callbacks : c.timer.gen <= stopGeneration
  /\ \A t \in timers, c \in callbacks : c.timer.gen # t.gen
  /\ \A c, d \in callbacks : c.timer.gen = d.timer.gen => c = d
TimersCounted ==
  IsFiniteSet(callbacks) /\ timerWG = Cardinality(timers) + Cardinality(callbacks)
InterruptionEnds ==
  /\ StopNotInterrupted
  /\ quiet = "interrupted" /\ pc # "watch" =>
       timers = {} /\ \A c \in callbacks : c.timer.gen # stopGeneration
TimerInv == TimersCurrent /\ TimersCounted /\ InterruptionEnds

\* The failures the monitor has counted are failures in a row of the gate's
\* current generation, if they are of that generation at all.
HealthInv ==
  /\ failures.generation <= readinessGeneration /\ monitor.gen <= readinessGeneration
  /\ GenerationCurrent(failures.generation) => failures.count <= streak
  /\ monitor.pc \in {"lose", "loseGate"} /\ GenerationCurrent(monitor.gen) =>
       streak >= HealthFailureThreshold

\* Sessions are new when they are created, a live one has a watcher that waits
\* for it, and the store maps every session from its own key.
SessionsNew ==
  /\ \A s \in Session : state[s] # "none" \/ watcher[s] # "none" => s <= received
  /\ pc \in HandlingPC /\ req.site # "created" => state[received] = "none" /\ watcher[received] = "none"
  /\ pc \in HandlingPC /\ req.site = "created" => req.cur = received
  /\ pc \in {"admit", "remove", "removing", "dropQueue", "sample", "create"} => req.site # "created"
SessionsWatched ==
  \A s \in Session : state[s] \in {"open", "closing"} => watcher[s] = "wait" \/ (pc = "watch" /\ s = req.cur)
SessionsKeyed ==
  \A k \in Keys : sessions[k] # NoSession => owner[sessions[k]] = k /\ state[sessions[k]] # "none"
StoreBounded ==
  LET occupied == {k \in Keys : sessions[k] # NoSession}
  IN  /\ IsFiniteSet(occupied) /\ Cardinality(occupied) <= MaxSessions
      /\ IsFiniteSet(detached) /\ Cardinality(detached) <= MaxSessions
      /\ closeAll = "closing" => occupied = {}
SessionInv == SessionsNew /\ SessionsWatched /\ SessionsKeyed /\ StoreBounded

\* The datagram in hand that is neither queued nor written yet is newer than
\* every other; queues exist only behind a closed gate; the cooldown begins
\* with CloseAll and lets no session in.
InHandPC == {"forward", "send", "admit", "remove", "removing", "dropQueue", "sample", "create", "watch"}
Newest(n) == n <= received /\ (pc \in InHandPC => n < received)
QueuesNumbered ==
  /\ \A s \in Session : Newest(sent[s])
  /\ \A s \in DOMAIN queues : \A i \in 1..Len(queues[s].packets) : Newest(queues[s].packets[i].id)
QueuesGated == (backendReady \/ pc = "boot" => DOMAIN queues = {}) /\ (pc = "boot" => ~blocked)
CooldownHolds ==
  blocked =>
    /\ DOMAIN queues = {} /\ ~backendReady /\ pc # "create" /\ \A r \in startups : ~UnderWay(r)
    /\ Open = {} \/ \E r \in startups : r.pc = "failClosing"
PendingTouched == sweeper = "expire" => PendingSessions \subseteq recent
QueueInv ==
  /\ NoOrphanQueue /\ NoStrandedQueue /\ DeliveryInOrder /\ QueuesNumbered /\ QueuesGated
  /\ CooldownHolds /\ PendingTouched

\* What each wait at the end of Serve has seen stays as it was.
EndInv ==
  /\ pc \in {"shutdownClosing", "timerWait", "wgWait", "returned"} => shuttingDown
  /\ pc \in {"timerWait", "wgWait", "returned"} => StoreEmpty
  /\ shuttingDown => timers = {}
  /\ pc \in {"wgWait", "returned"} => callbacks = {}
  /\ pc = "returned" => GoroutinesEnded

\* What the call of scheduleAutoStop rests on: the sweeper remembers that it
\* emptied the store only until it has closed the sessions, a session is in the
\* store when its admission cancels the timer, and CloseAll empties the store
\* only behind a closed gate.
ScheduleInv ==
  /\ lastExpired => sweeper = "closing"
  /\ pc = "watch" => sessions[req.key] = req.cur /\ watcher[req.cur] = "none"
  /\ closeAll # "none" => ~backendReady /\ pc # "boot"

Inductive ==
  PowerInv /\ LockInv /\ TimerInv /\ HealthInv /\ SessionInv /\ QueueInv /\ EndInv /\ ScheduleInv

-----------------------------------------------------------------------------
(* The contract.                                                           *)

Power == IF StopInFlight THEN "stop" ELSE IF StartInFlight THEN "start" ELSE "none"
Contract == INSTANCE SnoozeContract
              WITH gate <- IF backendReady THEN "open" ELSE "closed", power <- Power, active <- Open

\* Every step of the orchestration core is a step of SnoozeContract or leaves
\* gate, power request and active sessions alone.
ImplementsContract == Contract!Spec

-----------------------------------------------------------------------------
(* Liveness.  A goroutine that can go on does go on, and a mutex that stays *)
(* free is granted: weak fairness.  The panel's HTTP client and the probes *)
(* time out; a timer fires.  Strong fairness only where the code waits for *)
(* what recurs: a startup that keeps polling meets its deadline, and a     *)
(* select with a closed context takes that branch eventually.  Nothing is  *)
(* assumed of clients, of the tickers or of what the panel and the probes  *)
(* answer.                                                                 *)

IngressRuns == Ingress /\ pc # "idle"
StartupRuns(underWay) == \E r \in startups : UnderWay(r) = underWay /\ Startup(r)
StartupTimesOut ==
  \E r \in startups : r.pc = "tick" /\ Startup(r) /\ \E q \in startups' : q.gen = r.gen /\ q.pc # "status"
CallbackRuns == \E c \in callbacks : Callback(c)
SessionEnds(s) == SessionStep(s) /\ state' # state /\ (state[s] = "closing" \/ s \in detached)
ContextEnds == (Sweeper /\ sweeper' = "ended") \/ (Monitor /\ monitor'.pc = "ended")
ServeEnds == Shutdown /\ ctxDone /\ (pc = "idle" => ~listenerOpen')

Fairness ==
  /\ WF_vars(ServeBoots) /\ WF_vars(IngressRuns) /\ WF_vars(CloseAllDetaches)
  /\ \A s \in Session : WF_vars(SessionEnds(s)) /\ WF_vars(Watcher(s))
  /\ WF_vars(Sweeper /\ sweeper # "idle") /\ WF_vars(Monitor /\ monitor.pc # "idle") /\ SF_vars(ContextEnds)
  /\ WF_vars(StartupRuns(TRUE)) /\ WF_vars(StartupRuns(FALSE)) /\ SF_vars(StartupTimesOut)
  /\ WF_vars(\E t \in timers : TimerFires(t)) /\ WF_vars(CallbackRuns) /\ WF_vars(ServeEnds)

FairSpec == Spec /\ Fairness

\* A cancelled context or a failed listener ends Serve: shutdown gets its
\* locks, CloseAll ends, the timers and every goroutine end.
ShutdownCompletes == ctxDone ~> pc = "returned"

\* Every queue is resolved: flushed to the backend, or dropped with its session.
QueuesResolve == \A s \in Session : s \in DOMAIN queues ~> s \notin DOMAIN queues

\* A backend that is up with no session is eventually sent a stop, unless a
\* session comes, the gate closes, the attempts run out or the proxy ends.
IdleBackendStops ==
  backendReady /\ StoreEmpty ~> StopInFlight \/ ~StoreEmpty \/ ~backendReady \/ gaveUp \/ ctxDone
=============================================================================
