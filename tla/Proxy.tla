------------------------------- MODULE Proxy -------------------------------
(***************************************************************************)
(* The orchestration core of game-server-snooze: pkg/proxy/proxy.go over   *)
(* pkg/session/store.go.  One UDP ingress goroutine (Serve), the startup   *)
(* goroutines, the backend health monitor, the idle sweeper, one watcher   *)
(* per session and the callbacks of the auto-stop timer share the Proxy    *)
(* struct under three locks taken in the order                             *)
(*      admissionMu  ->  forwardingMu  ->  mu.                             *)
(*                                                                         *)
(* Granularity: every critical section of mu (and of the store's own lock) *)
(* is one step.  admissionMu and forwardingMu are held across steps and    *)
(* are the variables admission and forwarding.  Only the ingress takes     *)
(* forwardingMu for reading, so it is modelled as a plain mutex.           *)
(*                                                                         *)
(* Data: a session is named by the number of the datagram that created it; *)
(* a datagram is its arrival number, its size and whether DetectStart      *)
(* accepts it.  Clocks are abstracted to what is compared with them: the   *)
(* cooldown is a flag, an idle deadline is "not touched since this sweep   *)
(* began", timers fire at any time.  The panel and the probes answer with  *)
(* any of the results listed in the constants.                             *)
(***************************************************************************)
EXTENDS Integers, Sequences, FiniteSets, Functions

CONSTANTS
  Keys,                           \* client endpoints ("ip:port")
  NoKey,                          \* no datagram in hand
  MaxPackets,                     \* bound: datagrams received in a behaviour
  MaxStartups,                    \* bound: startups before shutdown
  Sizes,                          \* datagram sizes, in bytes
  MaxSessions,                    \* Options.MaxSessions
  StartupBufferPackets,           \* Options.StartupBufferPackets
  StartupBufferBytesPerSession,   \* Options.StartupBufferBytesPerSession
  StartupBufferBytesGlobal,       \* Options.StartupBufferBytesGlobal
  MaxAutoStopAttempts,            \* maxAutoStopAttempts
  HealthFailureThreshold,         \* backendHealthFailureThreshold
  HasReadiness,                   \* Options.Readiness # nil
  DialMayFail,                    \* net.DialUDP may fail in NewSession
  Events,                         \* what the environment and the tickers do in a run
  StatusResults,                  \* what Controller.Status may answer
  StartResults,                   \* what Controller.Start may answer
  StopResults,                    \* what Controller.Stop may answer
  ProbeResults                    \* what Readiness.Probe may answer

NotRunningStates == {"offline", "starting", "stopping"}
Errors == {"transient", "permanent"}

\* What New and the configuration enforce of the options.
ASSUME OptionsAssumption ==
  /\ NoKey \notin Keys
  /\ MaxPackets \in Nat /\ MaxStartups \in Nat /\ MaxSessions \in Nat \ {0}
  /\ Sizes \subseteq Nat \ {0}
  /\ StartupBufferPackets \in Nat \ {0}
  /\ StartupBufferBytesPerSession \in Nat /\ StartupBufferBytesGlobal \in Nat
  /\ \A n \in Sizes : n <= StartupBufferBytesPerSession
  /\ StartupBufferBytesPerSession <= StartupBufferBytesGlobal
  /\ MaxAutoStopAttempts \in Nat \ {0} /\ HealthFailureThreshold \in Nat \ {0}
  /\ HasReadiness \in BOOLEAN /\ DialMayFail \in BOOLEAN

\* "error": sessions fail by themselves; "sweep" and "probe": the sweeper's
\* and the monitor's tickers tick; "shutdown": the context is cancelled or
\* the listener fails.
AllEvents == {"error", "sweep", "probe", "shutdown"}

\* The answers an external party can give; see Controller and Readiness.
ASSUME AnswersAssumption ==
  /\ Events \subseteq AllEvents
  /\ StatusResults \subseteq {"running"} \cup NotRunningStates \cup Errors
  /\ StartResults \subseteq {"ok"} \cup Errors
  /\ StopResults \subseteq {"ok", "error"}
  /\ ProbeResults \subseteq {"ok", "unavailable", "inconclusive"}

VARIABLES
  \* --- the Proxy struct ---
  backendReady, readinessGeneration, backendRunning,
  startupRunning, startupGeneration,
  blocked,          \* time.Now() is before startupBlockedUntil
  shuttingDown,
  queues,           \* session -> [packets, bytes], for the sessions in the map
  queuedBytes, stopTimer, stopGeneration,
  admission, forwarding,          \* who holds admissionMu, forwardingMu
  timerWG,
  \* --- timers and goroutines ---
  timers,           \* armed timers, named by the generation and attempt they carry
  callbacks,        \* running timer callbacks
  startups,         \* startup goroutines
  watcher,          \* session -> program counter of its watcher
  monitor,          \* [pc, gen] of the health monitor
  failures,         \* backendHealthFailures
  sweeper, expired, lastExpired,  \* the sweeper, its toClose and "count == 0"
  recent,           \* sessions touched since the sweeper took its cutoff
  pc, req,          \* the Serve goroutine and the datagram in its hand
  received,         \* datagrams read so far
  ctxDone, listenerOpen,
  \* --- the session store ---
  sessions,         \* Store.sessions
  state,            \* lifecycle of every session, see SessionContract
  owner,            \* the key a session was created for
  closeAll,         \* progress of the Store.CloseAll its caller waits for
  detached,         \* sessions CloseAll took out of the store and is closing
  \* --- history, read by properties only ---
  sent,             \* session -> last datagram written to the backend
  streak,           \* failed health probes in a row of the open gate's generation
  gaveUp,           \* the last auto-stop used up its attempts
  quiet             \* what the store held since the stop timer was armed

gateVars    == <<backendReady, readinessGeneration, backendRunning>>
startupVars == <<startupRunning, startupGeneration, startups>>
queueVars   == <<queues, queuedBytes>>
timerVars   == <<stopTimer, stopGeneration, timers, timerWG, gaveUp, quiet>>
lockVars    == <<admission, forwarding>>
closeVars   == <<closeAll, detached>>
sweepVars   == <<sweeper, expired, lastExpired>>
monitorVars == <<monitor, failures>>
serveVars   == <<pc, req, received>>
ctlVars     == <<shuttingDown, ctxDone, listenerOpen>>
vars == <<gateVars, startupVars, blocked, queueVars, timerVars, callbacks, lockVars, watcher,
          monitorVars, streak, sweepVars, recent, serveVars, ctlVars, sessions, owner, state,
          closeVars, sent>>

-----------------------------------------------------------------------------
(* Values.                                                                 *)

Session == 1..MaxPackets
NoSession == 0
Packet == [id : Session, size : Sizes]
Queue == [packets : Seq(Packet), bytes : Nat]
NoQueues == [s \in {} |-> [packets |-> <<>>, bytes |-> 0]]
NoTimer == [gen |-> 0, attempt |-> 0]
NoRequest == [key |-> NoKey, cur |-> NoSession, size |-> 0, wake |-> FALSE,
              site |-> "none", sawReady |-> FALSE]

Stored == {sessions[k] : k \in Keys} \ {NoSession}
StoreEmpty == \A k \in Keys : sessions[k] = NoSession
Open == {s \in Session : state[s] = "open"}
StoreLen == Cardinality({k \in Keys : sessions[k] # NoSession})

\* Startup goroutines by what they are doing.
Polling == {"status", "start", "tick", "waitReady", "settle"}
Opening == {"open", "openGate", "opened"}
Failing == {"fail", "failGate", "failClosing"}
StartupPC == Polling \cup Opening \cup Failing \cup {"finish", "restart"}

Replace(S, old, new) == (S \ {old}) \cup {new}
Without(f, S) == Restrict(f, DOMAIN f \ S)

StopInFlight == \E c \in callbacks : c.pc = "stopping"
StartInFlight == \E r \in startups : r.pc = "start"

-----------------------------------------------------------------------------
(* Helpers shared by several goroutines.  Each is the body of one critical *)
(* section of mu, or of the store, and says which variables it changes.    *)

\* Session.touch, for the idle cutoff of the sweep in progress: an activity
\* timestamp taken after the cutoff keeps the session alive.
Touched(S) == recent' = IF sweeper \in {"refresh", "expire"} THEN recent \cup S ELSE recent

\* Mutants: startServer forgets one of its tests.
StartAllowedWhenReady == ~shuttingDown /\ ~startupRunning /\ ~blocked
StartAllowedTwice == ~shuttingDown /\ ~backendReady /\ ~blocked

\* The guard of startServer.
StartAllowed == ~shuttingDown /\ ~backendReady /\ ~startupRunning /\ ~blocked

\* startServer: at most one startup goroutine is launched; "running" are the
\* startup goroutines that remain besides the new one.
StartServer(running) ==
  IF StartAllowed
    THEN /\ startupRunning' = TRUE
         /\ startupGeneration' = startupGeneration + 1
         /\ startups' = running \cup {[gen |-> startupGeneration + 1, pc |-> "status",
                                       sent |-> FALSE, permanent |-> FALSE]}
    ELSE startups' = running /\ UNCHANGED <<startupRunning, startupGeneration>>

\* The gate closes and, if it was open, its generation ends.
CloseGate ==
  /\ backendRunning' = FALSE
  /\ backendReady' = FALSE
  /\ readinessGeneration' = IF backendReady THEN readinessGeneration + 1 ELSE readinessGeneration

\* markBackendNotRunning, with forwardingMu taken and released inside; the
\* mutant does not wait for forwardingMu.
MarkWithoutLock == CloseGate
MarkBackendNotRunning == forwarding = "free" /\ CloseGate

\* removeQueue, for every session in S that has a queue; the mutant forgets
\* the bytes.
KeepBytes(S) == queues' = Without(queues, S) /\ UNCHANGED queuedBytes
RemoveQueues(S) ==
  /\ queues' = Without(queues, S)
  /\ queuedBytes' = queuedBytes
        - SumFunctionOnSet([s \in DOMAIN queues |-> queues[s].bytes], S \cap DOMAIN queues)

\* queues = make(map), queuedBytes = 0; the mutant keeps what was flushed.
KeepQueues == UNCHANGED queueVars
ClearQueues == queues' = NoQueues /\ queuedBytes' = 0

\* Mutant: the global limit is forgotten.
QueueFullPerSession(q, size) ==
  \/ Len(q.packets) >= StartupBufferPackets
  \/ q.bytes + size > StartupBufferBytesPerSession

\* The test of enqueueLocked that refuses a datagram.
QueueFull(q, size) ==
  \/ Len(q.packets) >= StartupBufferPackets
  \/ q.bytes + size > StartupBufferBytesPerSession
  \/ queuedBytes + size > StartupBufferBytesGlobal

\* enqueueLocked: the queue exists afterwards even when the datagram is refused.
Enqueue(s, p) ==
  LET q == IF s \in DOMAIN queues THEN queues[s] ELSE [packets |-> <<>>, bytes |-> 0]
      accepted == ~QueueFull(q, p.size)
      after == IF accepted THEN [packets |-> Append(q.packets, p), bytes |-> q.bytes + p.size] ELSE q
  IN  /\ queues' = [x \in DOMAIN queues \cup {s} |-> IF x = s THEN after ELSE queues[x]]
      /\ queuedBytes' = IF accepted THEN queuedBytes + p.size ELSE queuedBytes

\* Timer.Stop reports whether the timer was still armed; only then does
\* stopAutoStopTimerLocked give back the timer's WaitGroup unit.  Mutants:
\* always, never.
UnitAlways == IF stopTimer # NoTimer THEN 1 ELSE 0
UnitNever == 0
StoppedUnits == IF stopTimer \in timers THEN 1 ELSE 0

\* Mutant: cancelAutoStop stops the timer but keeps its generation.
CancelKeepsGeneration ==
  /\ timers' = timers \ {stopTimer}
  /\ timerWG' = timerWG - StoppedUnits
  /\ stopTimer' = NoTimer
  /\ gaveUp' = FALSE
  /\ UNCHANGED <<stopGeneration, quiet>>

\* stopAutoStopTimerLocked after a bump of the generation: cancelAutoStop.
CancelAutoStop ==
  /\ stopGeneration' = stopGeneration + 1
  /\ timers' = timers \ {stopTimer}
  /\ timerWG' = timerWG - StoppedUnits
  /\ stopTimer' = NoTimer
  /\ gaveUp' = FALSE
  /\ UNCHANGED quiet

\* scheduleAutoStop: a fresh generation and its first attempt, unless the
\* gate is closed or the proxy is shutting down.
ScheduleAutoStop ==
  IF shuttingDown \/ ~backendReady
    THEN UNCHANGED timerVars
    ELSE LET t == [gen |-> stopGeneration + 1, attempt |-> 1]
         IN  /\ stopGeneration' = t.gen
             /\ timers' = (timers \ {stopTimer}) \cup {t}
             /\ timerWG' = timerWG - StoppedUnits + 1
             /\ stopTimer' = t
             /\ gaveUp' = FALSE
             /\ quiet' = IF StoreEmpty THEN "empty" ELSE "occupied"

\* Store.Remove and the closing of the session it took out.
StoreRemove(k) == sessions' = [sessions EXCEPT ![k] = NoSession]
CloseSessions(S) == state' = [s \in Session |-> IF s \in S /\ state[s] = "open"
                                                  THEN "closing" ELSE state[s]]

\* Store.CloseAll is called with both outer locks held, by one goroutine at a
\* time.  Its caller waits until the sessions it took out are done.
BeginCloseAll == closeAll' = "detach" /\ UNCHANGED detached

\* Mutant: CloseAll does not wait for the sessions.
CloseAllHurries ==
  /\ closeAll = "closing"
  /\ closeAll' = "none" /\ detached' = {}
  /\ admission' = "free" /\ forwarding' = "free"

CloseAllReturns ==
  /\ closeAll = "closing" /\ \A s \in detached : state[s] = "done"
  /\ closeAll' = "none" /\ detached' = {}
  /\ admission' = "free" /\ forwarding' = "free"

-----------------------------------------------------------------------------
Init ==
  /\ backendReady = FALSE /\ readinessGeneration = 0 /\ backendRunning = FALSE
  /\ startupRunning = FALSE /\ startupGeneration = 0 /\ startups = {} /\ blocked = FALSE
  /\ queues = NoQueues /\ queuedBytes = 0
  /\ stopTimer = NoTimer /\ stopGeneration = 0 /\ timers = {} /\ timerWG = 0 /\ callbacks = {}
  /\ admission = "free" /\ forwarding = "free"
  /\ watcher = [s \in Session |-> "none"]
  /\ monitor = [pc |-> IF HasReadiness THEN "idle" ELSE "ended", gen |-> 0]
  /\ failures = [generation |-> 0, count |-> 0]
  /\ sweeper = "idle" /\ expired = {} /\ lastExpired = FALSE /\ recent = {}
  /\ pc = "boot" /\ req = NoRequest /\ received = 0
  /\ shuttingDown = FALSE /\ ctxDone = FALSE /\ listenerOpen = TRUE
  /\ sessions = [k \in Keys |-> NoSession]
  /\ state = [s \in Session |-> "none"] /\ owner = [s \in Session |-> NoKey]
  /\ closeAll = "none" /\ detached = {}
  /\ sent = [s \in Session |-> 0] /\ streak = 0 /\ gaveUp = FALSE /\ quiet = "empty"

-----------------------------------------------------------------------------
(* Serve: the first status query, then the read loop.                      *)

\* The answer to the first Controller.Status.  Delay mode (no readiness
\* probe) opens the gate at once; otherwise a startup checks readiness.
ServeBoots ==
  /\ pc = "boot"
  /\ pc' = "idle"
  /\ \E result \in StatusResults :
       IF result = "running"
         THEN /\ backendRunning' = TRUE
              /\ backendReady' = ~HasReadiness
              /\ readinessGeneration' = IF HasReadiness THEN readinessGeneration ELSE readinessGeneration + 1
              /\ IF HasReadiness THEN StartServer(startups) ELSE UNCHANGED startupVars
         ELSE UNCHANGED <<gateVars, startupVars>>
  /\ UNCHANGED <<blocked, queueVars, timerVars, callbacks, lockVars, watcher, monitorVars, streak,
                 sweepVars, recent, req, received, ctlVars, sessions, owner, state, closeVars, sent>>

\* handleClientPacket up to the first Get: a datagram of a known endpoint is
\* forwarded without admission.
ReceivePacket(k) ==
  /\ pc = "idle" /\ listenerOpen /\ received < MaxPackets
  /\ received' = received + 1
  /\ \E size \in Sizes, wake \in BOOLEAN :
       req' = [NoRequest EXCEPT !.key = k, !.cur = sessions[k], !.size = size, !.wake = wake,
                                !.site = "fast"]
  /\ pc' = IF sessions[k] # NoSession THEN "forward" ELSE "admit"
  /\ UNCHANGED <<startupVars, queueVars, timerVars, lockVars, watcher, recent, sessions, owner,
                 state, sent>>

\* Where handleClientPacket continues when forwardOrQueue has returned ok.
\* The call for the created session is the one whose result is ignored.
AfterForward(ok) ==
  CASE req.site = "created" -> pc' = "finish" /\ UNCHANGED <<req, admission>>
    [] req.site # "created" /\ ok -> pc' = "idle" /\ req' = NoRequest
                                     /\ admission' = IF req.site = "admitted" THEN "free" ELSE admission
    [] req.site = "fast" /\ ~ok -> pc' = "admit" /\ UNCHANGED <<req, admission>>
    [] req.site = "admitted" /\ ~ok -> pc' = "remove" /\ UNCHANGED <<req, admission>>

\* Session.RecordActivity fails on a closed session; the mutant ignores it.
RecordAlways(s) == TRUE
RecordActivity(s) == state[s] = "open"

\* forwardOrQueue, gate closed: unless RecordActivity fails the datagram is
\* queued, and startServer follows.
QueuePacket ==
  /\ pc = "forward" /\ forwarding = "free" /\ ~backendReady
  /\ IF RecordActivity(req.cur)
       THEN /\ forwarding' = "ingress" /\ pc' = "kick"
            /\ Enqueue(req.cur, [id |-> received, size |-> req.size])
            /\ Touched({req.cur})
            /\ UNCHANGED <<req, admission>>
       ELSE /\ AfterForward(FALSE)
            /\ UNCHANGED <<queueVars, recent, forwarding>>
  /\ UNCHANGED <<startupVars, timerVars, watcher, received, sessions, owner, state, sent>>

\* forwardOrQueue, gate closed, after the enqueue: startServer under RLock.
KickStartup ==
  /\ pc = "kick"
  /\ StartServer(startups)
  /\ forwarding' = "free"
  /\ AfterForward(TRUE)
  /\ UNCHANGED <<queueVars, timerVars, watcher, recent, received, sessions, owner, state, sent>>

\* forwardOrQueue, gate open: RLock is kept while the datagram is written.
SeeGateOpen ==
  /\ pc = "forward" /\ forwarding = "free" /\ backendReady
  /\ pc' = "send" /\ forwarding' = "ingress"
  /\ UNCHANGED <<startupVars, queueVars, timerVars, admission, watcher, recent, req, received,
                 sessions, owner, state, sent>>

\* Session.ForwardClient: refused by a closed session, written, or failed,
\* which closes the session.
ForwardClient ==
  /\ pc = "send"
  /\ forwarding' = "free"
  /\ \/ /\ state[req.cur] # "open"
        /\ AfterForward(FALSE)
        /\ UNCHANGED <<state, sent, recent>>
     \/ /\ state[req.cur] = "open"
        /\ AfterForward(TRUE)
        /\ sent' = [sent EXCEPT ![req.cur] = received]
        /\ Touched({req.cur})
        /\ UNCHANGED state
     \/ /\ state[req.cur] = "open" /\ "error" \in Events
        /\ AfterForward(FALSE)
        /\ CloseSessions({req.cur})
        /\ Touched({req.cur})
        /\ UNCHANGED sent
  /\ UNCHANGED <<startupVars, queueVars, timerVars, watcher, received, sessions, owner>>

\* admissionMu and the second Get.
TakeAdmission ==
  /\ pc = "admit" /\ admission = "free"
  /\ admission' = "ingress"
  /\ pc' = IF sessions[req.key] # NoSession THEN "forward" ELSE "sample"
  /\ req' = [req EXCEPT !.cur = sessions[req.key], !.site = "admitted"]
  /\ UNCHANGED <<startupVars, queueVars, timerVars, forwarding, watcher, recent, received, sessions,
                 owner, state, sent>>

\* store.Remove of the closed session the endpoint still maps to; the
\* watcher or the sweeper may have removed it in between.
RemoveDeadSession ==
  /\ pc = "remove"
  /\ IF sessions[req.key] = req.cur
       THEN pc' = "removing" /\ StoreRemove(req.key) /\ CloseSessions({req.cur})
       ELSE pc' = "dropQueue" /\ UNCHANGED <<sessions, state>>
  /\ UNCHANGED <<startupVars, queueVars, timerVars, lockVars, watcher, recent, req, received, owner,
                 sent>>

\* Remove has waited for Session.Close, then removeQueue.
DropDeadQueue ==
  /\ \/ pc = "dropQueue"
     \/ pc = "removing" /\ state[req.cur] = "done"
  /\ pc' = "sample"
  /\ RemoveQueues({req.cur})
  /\ UNCHANGED <<startupVars, timerVars, lockVars, watcher, recent, req, received, sessions, owner,
                 state, sent>>

\* handleClientPacket returns without a session and unlocks admissionMu.
DropPacket == pc' = "idle" /\ req' = NoRequest /\ admission' = "free"

\* Mutant: the cooldown is not tested.
RefusedUnmatched == ~backendReady /\ ~backendRunning /\ ~req.wake

\* The early returns between the sample of the gate and the creation.
PacketRefused == blocked \/ (~backendReady /\ ~backendRunning /\ ~req.wake)

\* The sample of backendReady, backendRunning and the cooldown, and the wake
\* detector: unmatched traffic opens no session while the backend is down.
SampleGate ==
  /\ pc = "sample"
  /\ IF PacketRefused
       THEN DropPacket
       ELSE pc' = "create" /\ req' = [req EXCEPT !.sawReady = backendReady] /\ UNCHANGED admission
  /\ UNCHANGED <<startupVars, queueVars, timerVars, forwarding, watcher, recent, received, sessions,
                 owner, state, sent>>

\* The test of Store.GetOrCreate that refuses a new session, and one off by one.
BeyondCapacity == StoreLen > MaxSessions
AtCapacity == StoreLen >= MaxSessions

\* GetOrCreate refuses: the store is full, or the upstream dial fails.
CreateFails ==
  /\ pc = "create"
  /\ AtCapacity \/ DialMayFail
  /\ DropPacket
  /\ UNCHANGED <<startupVars, queueVars, timerVars, forwarding, watcher, recent, received, sessions,
                 owner, state, sent>>

\* GetOrCreate creates.  Its "existing" branch cannot be taken here: the key
\* was absent, or was removed, under the admission lock (NoDuplicateKey).
CreateSession ==
  /\ pc = "create" /\ ~AtCapacity
  /\ \E s \in Session :
       /\ s = received
       /\ sessions' = [sessions EXCEPT ![req.key] = s]
       /\ state' = [state EXCEPT ![s] = "open"]
       /\ owner' = [owner EXCEPT ![s] = req.key]
       /\ req' = [req EXCEPT !.cur = s, !.site = "created"]
       /\ Touched({s})
  /\ pc' = "watch"
  /\ quiet' = "interrupted"
  /\ UNCHANGED <<startupVars, queueVars, stopTimer, stopGeneration, timers, timerWG, gaveUp, lockVars,
                 watcher, received, sent>>

\* cancelAutoStop and watchSession for the session just created.
WatchSession ==
  /\ pc = "watch"
  /\ CancelAutoStop
  /\ watcher' = [watcher EXCEPT ![req.cur] = "wait"]
  /\ pc' = "forward"
  /\ UNCHANGED <<startupVars, queueVars, lockVars, recent, req, received, sessions, owner, state, sent>>

\* The startServer that ends an admission which had sampled a closed gate.
FinishAdmission ==
  /\ pc = "finish"
  /\ IF req.sawReady THEN UNCHANGED startupVars ELSE StartServer(startups)
  /\ DropPacket
  /\ UNCHANGED <<queueVars, timerVars, forwarding, watcher, recent, received, sessions, owner, state,
                 sent>>

Ingress ==
  /\ \/ \E k \in Keys : ReceivePacket(k)
     \/ QueuePacket \/ KickStartup \/ SeeGateOpen \/ ForwardClient
     \/ TakeAdmission \/ RemoveDeadSession \/ DropDeadQueue \/ SampleGate
     \/ CreateFails \/ CreateSession \/ WatchSession \/ FinishAdmission
  /\ UNCHANGED <<gateVars, blocked, callbacks, monitorVars, streak, sweepVars, ctlVars, closeVars>>

-----------------------------------------------------------------------------
(* Sessions, seen from outside; Session.tla models one from inside.        *)

\* A backend datagram was relayed: Session.readBackend touches the session.
BackendTraffic(s) == state[s] = "open" /\ s \notin recent /\ Touched({s}) /\ UNCHANGED state

\* A socket error in readBackend, or the cancelled context in watchContext.
SessionFails(s) ==
  /\ "error" \in Events \/ ctxDone
  /\ state[s] = "open" /\ CloseSessions({s}) /\ UNCHANGED recent

\* CloseAll closes one more of the sessions it took out of the store.
CloseDetached(s) == s \in detached /\ state[s] = "open" /\ CloseSessions({s}) /\ UNCHANGED recent

\* readBackend returns and closes the session's done channel.
SessionDone(s) == state[s] = "closing" /\ state' = [state EXCEPT ![s] = "done"] /\ UNCHANGED recent

SessionStep(s) ==
  /\ BackendTraffic(s) \/ SessionFails(s) \/ CloseDetached(s) \/ SessionDone(s)
  /\ UNCHANGED <<gateVars, startupVars, blocked, queueVars, timerVars, callbacks, lockVars, watcher,
                 monitorVars, streak, sweepVars, serveVars, ctlVars, sessions, owner, closeVars, sent>>

\* Store.Remove counts what is left after the deletion; the mutant before it.
CountBefore(s) == Stored = {}
EmptiesStore(s) == Stored = {s}

\* watchSession: Done, then store.Remove; "dropLast" when it emptied the store.
WatcherRemoves(s) ==
  /\ watcher[s] = "wait" /\ state[s] = "done"
  /\ IF sessions[owner[s]] = s
       THEN /\ StoreRemove(owner[s])
            /\ watcher' = [watcher EXCEPT ![s] = IF EmptiesStore(s) THEN "dropLast" ELSE "drop"]
       ELSE watcher' = [watcher EXCEPT ![s] = "drop"] /\ UNCHANGED sessions
  /\ UNCHANGED <<queueVars, timerVars>>

\* watchSession: removeQueue, then the test of proxy.ctx.
WatcherDropsQueue(s) ==
  /\ watcher[s] \in {"drop", "dropLast"}
  /\ RemoveQueues({s})
  /\ watcher' = [watcher EXCEPT ![s] = IF watcher[s] = "dropLast" /\ ~ctxDone THEN "schedule" ELSE "ended"]
  /\ UNCHANGED <<timerVars, sessions>>

\* watchSession: scheduleAutoStop, some time after the store became empty.
WatcherSchedules(s) ==
  /\ watcher[s] = "schedule"
  /\ ScheduleAutoStop
  /\ watcher' = [watcher EXCEPT ![s] = "ended"]
  /\ UNCHANGED <<queueVars, sessions>>

Watcher(s) ==
  /\ WatcherRemoves(s) \/ WatcherDropsQueue(s) \/ WatcherSchedules(s)
  /\ UNCHANGED <<gateVars, startupVars, blocked, callbacks, lockVars, monitorVars, streak, sweepVars,
                 recent, serveVars, ctlVars, owner, state, closeVars, sent>>

\* Store.CloseAll empties the store under the store's own lock.
CloseAllDetaches ==
  /\ closeAll = "detach"
  /\ closeAll' = "closing"
  /\ detached' = Stored
  /\ sessions' = [k \in Keys |-> NoSession]
  /\ UNCHANGED <<gateVars, startupVars, blocked, queueVars, timerVars, callbacks, lockVars, watcher,
                 monitorVars, streak, sweepVars, recent, serveVars, ctlVars, owner, state, sent>>

-----------------------------------------------------------------------------
(* The idle sweeper.                                                       *)

\* A tick fixes the cutoff: only activity from now on is certainly after it.
SweeperTicks ==
  /\ sweeper = "idle" /\ pc # "boot" /\ "sweep" \in Events
  /\ sweeper' = "refresh" /\ recent' = {}
  /\ UNCHANGED <<expired, lastExpired, queueVars, timerVars, sessions, state>>

\* refreshPendingSessions: sessions waiting for the backend do not go idle,
\* unless, as in the mutant, nobody refreshes them.
NoPending == {}
PendingSessions == DOMAIN queues \cap Open

SweeperRefreshes ==
  /\ sweeper = "refresh"
  /\ sweeper' = "expire" /\ recent' = recent \cup PendingSessions
  /\ UNCHANGED <<expired, lastExpired, queueVars, timerVars, sessions, state>>

\* The session the ingress is admitting: between its creation and its first
\* datagram the ingress waits for nothing that lasts, so IdleTimeout cannot
\* pass in between.
Admitting == IF req.site = "created" THEN {req.cur} ELSE {}

\* Store.ExpireIdle: TryExpire succeeds on some of the open sessions that
\* were not touched since the cutoff; those leave the store.
SweeperExpires ==
  /\ sweeper = "expire"
  /\ \E idle \in SUBSET ((Stored \cap Open) \ (recent \cup Admitting)) :
       /\ CloseSessions(idle)
       /\ sessions' = [k \in Keys |-> IF sessions[k] \in idle THEN NoSession ELSE sessions[k]]
       /\ expired' = idle
       /\ lastExpired' = (idle # {} /\ Stored = idle)
       /\ sweeper' = IF idle = {} THEN "idle" ELSE "closing"
  /\ recent' = {}
  /\ UNCHANGED <<queueVars, timerVars>>

\* ExpireIdle has waited for Session.Close of each, then removeClosedQueues.
SweeperDropsQueues ==
  /\ sweeper = "closing"
  /\ \A s \in expired : state[s] = "done"
  /\ RemoveQueues({s \in Session : state[s] = "done"})
  /\ sweeper' = IF lastExpired THEN "schedule" ELSE "idle"
  /\ expired' = {} /\ lastExpired' = FALSE
  /\ UNCHANGED <<recent, timerVars, sessions, state>>

\* expireIdleSessions ends with scheduleAutoStop when it emptied the store.
SweeperSchedules ==
  /\ sweeper = "schedule"
  /\ ScheduleAutoStop
  /\ sweeper' = "idle"
  /\ UNCHANGED <<expired, lastExpired, recent, queueVars, sessions, state>>

SweeperExits ==
  /\ sweeper = "idle" /\ ctxDone /\ pc # "boot"
  /\ sweeper' = "ended"
  /\ UNCHANGED <<expired, lastExpired, recent, queueVars, timerVars, sessions, state>>

Sweeper ==
  /\ \/ SweeperTicks \/ SweeperRefreshes \/ SweeperExpires
     \/ SweeperDropsQueues \/ SweeperSchedules \/ SweeperExits
  /\ UNCHANGED <<gateVars, startupVars, blocked, callbacks, lockVars, watcher, monitorVars, streak,
                 serveVars, ctlVars, owner, closeVars, sent>>

-----------------------------------------------------------------------------
(* Startup goroutines: ensureRunning polls, then the gate opens, or the    *)
(* startup fails, or the goroutine finishes.                               *)

\* Startup r moves to program counter "to".
Goto(r, to) == startups' = Replace(startups, r, [r EXCEPT !.pc = to])

\* ensureRunning returned an error: failStartup, unless the proxy's context
\* is done.
FailWith(r, permanent) ==
  startups' = Replace(startups, r, [r EXCEPT !.pc = IF ctxDone THEN "finish" ELSE "fail",
                                             !.sent = FALSE, !.permanent = permanent])

\* Controller.Status answered running.
StartupSeesRunning(r) ==
  /\ r.pc = "status" /\ "running" \in StatusResults
  /\ backendRunning' = TRUE
  /\ startups' = Replace(startups, r, [r EXCEPT !.pc = IF HasReadiness THEN "waitReady" ELSE "settle",
                                                !.sent = FALSE])
  /\ UNCHANGED <<backendReady, readinessGeneration>>

\* Controller.Status answered offline (Start follows once), starting (never
\* Start) or stopping (Start again when it is offline).
StartupSeesNotRunning(r) ==
  /\ r.pc = "status"
  /\ MarkBackendNotRunning
  /\ \E st \in StatusResults \cap NotRunningStates :
       startups' = Replace(startups, r,
                     [r EXCEPT !.pc = IF st = "offline" /\ ~r.sent THEN "start" ELSE "tick",
                               !.sent = (st = "starting" \/ (st = "offline" /\ r.sent))])

\* Controller.Status failed: a permanent error ends the attempt.
StartupStatusFails(r) ==
  /\ r.pc = "status"
  /\ \/ "transient" \in StatusResults /\ Goto(r, "tick")
     \/ "permanent" \in StatusResults /\ FailWith(r, TRUE)
  /\ UNCHANGED gateVars

\* Controller.Start answered; an ambiguous failure counts as sent.
StartupStartAnswered(r) ==
  /\ r.pc = "start"
  /\ \E result \in StartResults :
       IF result = "permanent"
         THEN FailWith(r, TRUE)
         ELSE startups' = Replace(startups, r, [r EXCEPT !.pc = "tick", !.sent = TRUE])
  /\ UNCHANGED gateVars

\* The poll ticker, WaitReady and the settle timer let the startup go on, the
\* last one after another Probe.
StartupAdvances(r) ==
  /\ \/ r.pc = "tick" /\ Goto(r, "status")
     \/ r.pc = "waitReady" /\ Goto(r, "settle")
     \/ r.pc = "settle" /\ Goto(r, "open")
  /\ UNCHANGED gateVars

\* The startup deadline, the proxy's context or a failed Probe ends a wait;
\* with a readiness probe the error may be a permanent one of the panel.
StartupWaitFails(r) ==
  /\ r.pc \in {"tick", "waitReady", "settle"}
  /\ \/ FailWith(r, FALSE)
     \/ HasReadiness /\ r.pc # "tick" /\ "permanent" \in StatusResults /\ FailWith(r, TRUE)
  /\ UNCHANGED gateVars

StartupPolls(r) ==
  /\ \/ StartupSeesRunning(r) \/ StartupSeesNotRunning(r) \/ StartupStatusFails(r)
     \/ StartupStartAnswered(r) \/ StartupAdvances(r) \/ StartupWaitFails(r)
  /\ UNCHANGED <<startupRunning, startupGeneration, blocked, queueVars, timerVars, lockVars, streak,
                 recent, state, closeVars, sent>>

\* openStartupGate and failStartup begin by taking admissionMu.
StartupTakesAdmission(r) ==
  /\ r.pc \in {"open", "fail"} /\ admission = "free"
  /\ admission' = "startup"
  /\ Goto(r, IF r.pc = "open" THEN "openGate" ELSE "failGate")
  /\ UNCHANGED <<gateVars, startupRunning, startupGeneration, blocked, queueVars, timerVars,
                 forwarding, streak, recent, state, closeVars, sent>>

\* The flush of openStartupGate writes the first n[s] datagrams of every
\* queued session: all of them, or those before a write that failed and
\* closed the session; none when the session is closed already.
FlushCounts ==
  {n \in [DOMAIN queues -> 0..StartupBufferPackets] :
     \A s \in DOMAIN queues : /\ n[s] <= Len(queues[s].packets)
                              /\ state[s] # "open" => n[s] = 0
                              /\ state[s] = "open" /\ "error" \notin Events => n[s] = Len(queues[s].packets)}

Flush(n) ==
  /\ sent' = [s \in Session |-> IF s \in DOMAIN queues /\ n[s] > 0
                                  THEN queues[s].packets[n[s]].id ELSE sent[s]]
  /\ CloseSessions({s \in DOMAIN queues : n[s] < Len(queues[s].packets)})
  /\ Touched({s \in DOMAIN queues : queues[s].packets # <<>> /\ state[s] = "open"})
  /\ ClearQueues

\* openStartupGate: flush and open in one critical section of mu, unless the
\* proxy is shutting down.
StartupOpensGate(r) ==
  /\ r.pc = "openGate" /\ forwarding = "free"
  /\ IF shuttingDown
       THEN /\ Goto(r, "finish")
            /\ admission' = "free"
            /\ UNCHANGED <<gateVars, queueVars, state, sent, recent, forwarding, streak>>
       ELSE /\ Goto(r, "opened")
            /\ forwarding' = "startup"
            /\ backendRunning' = TRUE /\ backendReady' = TRUE
            /\ readinessGeneration' = IF backendReady THEN readinessGeneration ELSE readinessGeneration + 1
            /\ \E n \in FlushCounts : Flush(n)
            /\ streak' = 0
            /\ UNCHANGED admission
  /\ UNCHANGED <<startupRunning, startupGeneration, blocked, timerVars, closeVars>>

\* openStartupGate: store.Len, scheduleAutoStop when nobody is there, unlock.
StartupGateOpened(r) ==
  /\ r.pc = "opened"
  /\ IF StoreEmpty THEN ScheduleAutoStop ELSE UNCHANGED timerVars
  /\ Goto(r, "finish")
  /\ admission' = "free" /\ forwarding' = "free"
  /\ UNCHANGED <<gateVars, startupRunning, startupGeneration, blocked, queueVars, streak, recent,
                 state, closeVars, sent>>

\* failStartup: the section of mu with both outer locks held, then CloseAll.
StartupFails(r) ==
  /\ r.pc = "failGate" /\ forwarding = "free"
  /\ forwarding' = "startup"
  /\ ClearQueues
  /\ IF startupGeneration = r.gen
       THEN /\ startupRunning' = FALSE /\ backendRunning' = FALSE
            /\ blocked' = (blocked \/ r.permanent)
       ELSE UNCHANGED <<startupRunning, backendRunning, blocked>>
  /\ BeginCloseAll
  /\ Goto(r, "failClosing")
  /\ UNCHANGED <<backendReady, readinessGeneration, startupGeneration, timerVars, admission, streak,
                 recent, state, sent>>

\* failStartup returns and its goroutine ends.
StartupFailed(r) ==
  /\ r.pc = "failClosing"
  /\ CloseAllReturns
  /\ startups' = startups \ {r}
  /\ UNCHANGED <<gateVars, startupRunning, startupGeneration, blocked, queueVars, timerVars, streak,
                 recent, state, sent>>

\* Mutant: completeStartup never asks for another startup.
NeverRestart == FALSE

\* The result of completeStartup: datagrams queued since the gate closed
\* again need another startup.
NeedsRestart == ~shuttingDown /\ ~backendReady /\ DOMAIN queues # {} /\ ~blocked

\* finishStartup: completeStartup.
StartupCompletes(r) ==
  /\ r.pc = "finish"
  /\ IF startupGeneration = r.gen
       THEN /\ startupRunning' = FALSE
            /\ IF NeedsRestart THEN Goto(r, "restart") ELSE startups' = startups \ {r}
       ELSE startups' = startups \ {r} /\ UNCHANGED startupRunning
  /\ UNCHANGED <<gateVars, startupGeneration, blocked, queueVars, timerVars, lockVars, streak, recent,
                 state, closeVars, sent>>

\* finishStartup: startServer.  A goroutine that finds the context cancelled
\* restarts until shutdown begins; MaxStartups bounds how often.
StartupRestarts(r) ==
  /\ r.pc = "restart"
  /\ shuttingDown \/ startupGeneration < MaxStartups
  /\ StartServer(startups \ {r})
  /\ UNCHANGED <<gateVars, blocked, queueVars, timerVars, lockVars, streak, recent, state, closeVars,
                 sent>>

Startup(r) ==
  /\ \/ StartupPolls(r) \/ StartupTakesAdmission(r) \/ StartupOpensGate(r) \/ StartupGateOpened(r)
     \/ StartupFails(r) \/ StartupFailed(r) \/ StartupCompletes(r) \/ StartupRestarts(r)
  /\ UNCHANGED <<callbacks, watcher, monitorVars, sweepVars, serveVars, ctlVars, sessions, owner>>

\* The cooldown after a permanent startup failure is over.
CooldownElapses ==
  /\ blocked
  /\ blocked' = FALSE
  /\ UNCHANGED <<gateVars, startupVars, queueVars, timerVars, callbacks, lockVars, watcher,
                 monitorVars, streak, sweepVars, recent, serveVars, ctlVars, sessions, owner, state,
                 closeVars, sent>>

-----------------------------------------------------------------------------
(* The backend health monitor (only with a readiness probe).               *)

NoFailures == [generation |-> 0, count |-> 0]

\* backendHealthFailures.record, and one that forgets the generation.
RecordAny(g) == [generation |-> g, count |-> failures.count + 1]
RecordFailure(g) ==
  [generation |-> g, count |-> IF failures.generation = g THEN failures.count + 1 ELSE 1]

\* A tick samples the gate and its generation.
MonitorTicks ==
  /\ monitor.pc = "idle" /\ pc # "boot" /\ "probe" \in Events
  /\ IF backendReady
       THEN monitor' = [pc |-> "probe", gen |-> readinessGeneration] /\ UNCHANGED failures
       ELSE failures' = NoFailures /\ UNCHANGED monitor
  /\ UNCHANGED <<gateVars, queueVars, timerVars, lockVars, streak, closeVars>>

\* The probed generation is still the one that is open.
GenerationCurrent(g) == backendReady /\ readinessGeneration = g

\* The failures in a row that count as a confirmed loss, and one off by one.
BeyondThreshold(n) == n > HealthFailureThreshold
LossConfirmed(n) == n >= HealthFailureThreshold

\* The probe answered: only a confirmed failure of the current generation
\* counts, and the threshold sends the monitor to closeBackendGate.
MonitorProbed ==
  /\ monitor.pc = "probe" /\ ~ctxDone
  /\ \E result \in ProbeResults :
       LET confirmed == result = "unavailable" /\ GenerationCurrent(monitor.gen)
           after == RecordFailure(monitor.gen)
           lost == confirmed /\ LossConfirmed(after.count)
       IN  /\ failures' = IF confirmed /\ ~lost THEN after ELSE NoFailures
           /\ monitor' = IF lost THEN [monitor EXCEPT !.pc = "lose"] ELSE [pc |-> "idle", gen |-> 0]
           /\ streak' = IF result # "unavailable" \/ ~backendReady \/ readinessGeneration # monitor.gen THEN 0
                        ELSE IF streak < HealthFailureThreshold THEN streak + 1 ELSE streak
  /\ UNCHANGED <<gateVars, queueVars, timerVars, lockVars, closeVars>>

\* closeBackendGate: admissionMu.
MonitorTakesAdmission ==
  /\ monitor.pc = "lose" /\ admission = "free"
  /\ admission' = "monitor"
  /\ monitor' = [monitor EXCEPT !.pc = "loseGate"]
  /\ UNCHANGED <<gateVars, queueVars, timerVars, forwarding, failures, streak, closeVars>>

\* closeBackendGate: the section of mu, then CloseAll; a generation that has
\* changed is left alone.
MonitorClosesGate ==
  /\ monitor.pc = "loseGate" /\ forwarding = "free"
  /\ IF GenerationCurrent(monitor.gen)
       THEN /\ CloseGate
            /\ CancelAutoStop
            /\ ClearQueues
            /\ forwarding' = "monitor"
            /\ BeginCloseAll
            /\ monitor' = [pc |-> "loseClosing", gen |-> 0]
            /\ UNCHANGED admission
       ELSE /\ admission' = "free"
            /\ monitor' = [pc |-> "idle", gen |-> 0]
            /\ UNCHANGED <<gateVars, timerVars, queueVars, forwarding, closeVars>>
  /\ UNCHANGED <<failures, streak>>

\* closeBackendGate returns.
MonitorClosed ==
  /\ monitor.pc = "loseClosing"
  /\ CloseAllReturns
  /\ monitor' = [monitor EXCEPT !.pc = "idle"]
  /\ UNCHANGED <<gateVars, queueVars, timerVars, failures, streak>>

\* The monitor's context is done, before a tick or after a probe.
MonitorExits ==
  /\ monitor.pc \in {"idle", "probe"} /\ ctxDone /\ pc # "boot"
  /\ monitor' = [pc |-> "ended", gen |-> 0]
  /\ failures' = NoFailures
  /\ UNCHANGED <<gateVars, queueVars, timerVars, lockVars, streak, closeVars>>

Monitor ==
  /\ \/ MonitorTicks \/ MonitorProbed \/ MonitorTakesAdmission \/ MonitorClosesGate
     \/ MonitorClosed \/ MonitorExits
  /\ UNCHANGED <<startupVars, blocked, callbacks, watcher, sweepVars, recent, serveVars, ctlVars,
                 sessions, owner, state, sent>>

-----------------------------------------------------------------------------
(* Auto-stop: runAutoStopAttempt in the goroutine of a fired timer.        *)

TimerFires(t) ==
  /\ t \in timers
  /\ timers' = timers \ {t}
  /\ callbacks' = callbacks \cup {[timer |-> t, pc |-> "lock"]}
  /\ UNCHANGED <<gateVars, startupVars, blocked, queueVars, stopTimer, stopGeneration, timerWG,
                 gaveUp, quiet, lockVars, watcher, monitorVars, streak, sweepVars, recent, serveVars,
                 ctlVars, sessions, owner, state, closeVars, sent>>

\* Mutant: the session count is not tested again.
StopAllowedUncounted(t) == t.gen = stopGeneration /\ backendReady

\* The tests of runAutoStopAttempt before it sends a stop.
StopAllowed(t) == StoreEmpty /\ t.gen = stopGeneration /\ backendReady

\* Controller.Stop is sent with admissionMu held; the mutant unlocks it first.
UnlockAdmission == UNCHANGED admission
HoldAdmission == admission' = "callback"

\* admissionMu, then the tests.
CallbackDecides(c) ==
  /\ c.pc = "lock" /\ admission = "free"
  /\ IF StopAllowed(c.timer)
       THEN /\ HoldAdmission
            /\ callbacks' = Replace(callbacks, c, [c EXCEPT !.pc = "stopping"])
            /\ UNCHANGED timerWG
       ELSE /\ callbacks' = callbacks \ {c}
            /\ timerWG' = timerWG - 1
            /\ UNCHANGED admission
  /\ UNCHANGED <<gateVars, stopTimer, timers, gaveUp>>

\* "if generation == stopGeneration { stopTimer = nil }"
ForgetTimer(t) == stopTimer' = IF t.gen = stopGeneration THEN NoTimer ELSE stopTimer

\* The callback returns: admissionMu is unlocked, its WaitGroup unit given
\* back, and "armed" units taken for the timer of a retry.
CallbackReturns(c, armed) ==
  /\ callbacks' = callbacks \ {c}
  /\ timerWG' = timerWG - 1 + armed
  /\ admission' = "free"

\* The stop was accepted: markBackendNotRunning, then forget the timer.
CallbackStopAccepted(c) ==
  /\ c.pc = "stopping" /\ "ok" \in StopResults
  /\ MarkBackendNotRunning
  /\ ForgetTimer(c.timer)
  /\ CallbackReturns(c, 0)
  /\ UNCHANGED <<timers, gaveUp>>

\* The stop failed for the last time.
CallbackGivesUp(c) ==
  /\ c.pc = "stopping" /\ "error" \in StopResults /\ c.timer.attempt >= MaxAutoStopAttempts
  /\ ForgetTimer(c.timer)
  /\ CallbackReturns(c, 0)
  /\ gaveUp' = (gaveUp \/ c.timer.gen = stopGeneration)
  /\ UNCHANGED <<gateVars, timers>>

\* The stop failed: another attempt of the same generation, if it is current.
CallbackRetries(c) ==
  /\ c.pc = "stopping" /\ "error" \in StopResults /\ c.timer.attempt < MaxAutoStopAttempts
  /\ LET t == [c.timer EXCEPT !.attempt = @ + 1]
     IN  IF c.timer.gen = stopGeneration /\ backendReady
           THEN timers' = timers \cup {t} /\ stopTimer' = t /\ CallbackReturns(c, 1)
           ELSE UNCHANGED <<timers, stopTimer>> /\ CallbackReturns(c, 0)
  /\ UNCHANGED <<gateVars, gaveUp>>

Callback(c) ==
  /\ \/ CallbackDecides(c) \/ CallbackStopAccepted(c) \/ CallbackGivesUp(c) \/ CallbackRetries(c)
  /\ UNCHANGED <<startupVars, blocked, queueVars, stopGeneration, quiet, forwarding, watcher,
                 monitorVars, streak, sweepVars, recent, serveVars, ctlVars, sessions, owner, state,
                 closeVars, sent>>

-----------------------------------------------------------------------------
(* The end of Serve.                                                       *)

\* The caller cancels the context given to Serve.
Cancel ==
  /\ ~ctxDone /\ "shutdown" \in Events
  /\ ctxDone' = TRUE
  /\ UNCHANGED <<pc, shuttingDown, listenerOpen, gateVars, startupRunning, startupGeneration,
                 timerVars, lockVars, closeVars>>

\* The goroutine that closes the listener when the context is done.
ListenerCloses ==
  /\ ctxDone /\ listenerOpen /\ pc # "boot"
  /\ listenerOpen' = FALSE
  /\ UNCHANGED <<pc, shuttingDown, ctxDone, gateVars, startupRunning, startupGeneration, timerVars,
                 lockVars, closeVars>>

\* ReadMsgUDP failed; the deferred function cancels the context.
ReadFails ==
  /\ pc = "idle" /\ (~listenerOpen \/ "shutdown" \in Events)
  /\ pc' = "shutdown" /\ ctxDone' = TRUE
  /\ UNCHANGED <<shuttingDown, listenerOpen, gateVars, startupRunning, startupGeneration, timerVars,
                 lockVars, closeVars>>

\* Mutant: shutdown does not wait for admissionMu.
ShutdownBargesIn ==
  /\ pc = "shutdown"
  /\ pc' = "shutdownGate" /\ admission' = "shutdown"
  /\ UNCHANGED <<ctlVars, gateVars, startupRunning, startupGeneration, timerVars, forwarding, closeVars>>

\* shutdown: admissionMu.
ShutdownTakesAdmission ==
  /\ pc = "shutdown" /\ admission = "free"
  /\ pc' = "shutdownGate" /\ admission' = "shutdown"
  /\ UNCHANGED <<ctlVars, gateVars, startupRunning, startupGeneration, timerVars, forwarding, closeVars>>

\* shutdown: the section of mu, then CloseAll.
ShutdownClosesGate ==
  /\ pc = "shutdownGate" /\ forwarding = "free"
  /\ pc' = "shutdownClosing" /\ forwarding' = "shutdown"
  /\ shuttingDown' = TRUE
  /\ CloseGate
  /\ startupRunning' = FALSE /\ startupGeneration' = startupGeneration + 1
  /\ CancelAutoStop
  /\ BeginCloseAll
  /\ UNCHANGED <<ctxDone, listenerOpen, admission>>

\* shutdown returns.
ShutdownClosed ==
  /\ pc = "shutdownClosing"
  /\ CloseAllReturns
  /\ pc' = "timerWait"
  /\ UNCHANGED <<ctlVars, gateVars, startupRunning, startupGeneration, timerVars>>

\* What proxy.wg counts has ended; in the mutant watchers are not counted.
WatchersUncounted == startups = {} /\ sweeper = "ended" /\ monitor.pc = "ended" /\ ~listenerOpen
GoroutinesEnded ==
  /\ startups = {} /\ sweeper = "ended" /\ monitor.pc = "ended" /\ ~listenerOpen
  /\ \A s \in Session : watcher[s] \in {"none", "ended"}

\* timerWG.Wait, then wg.Wait.
ServeWaits ==
  /\ \/ pc = "timerWait" /\ timerWG = 0 /\ pc' = "wgWait"
     \/ pc = "wgWait" /\ GoroutinesEnded /\ pc' = "returned"
  /\ UNCHANGED <<ctlVars, gateVars, startupRunning, startupGeneration, timerVars, lockVars, closeVars>>

Shutdown ==
  /\ \/ Cancel \/ ListenerCloses \/ ReadFails \/ ShutdownTakesAdmission \/ ShutdownClosesGate
     \/ ShutdownClosed \/ ServeWaits
  /\ UNCHANGED <<startups, blocked, queueVars, callbacks, watcher, monitorVars, streak, sweepVars,
                 recent, req, received, sessions, owner, state, sent>>

\* A truncated or an empty datagram is read and ignored.
IgnorePacket == pc = "idle" /\ listenerOpen /\ UNCHANGED vars

\* Serve has returned; nothing of the proxy is left to run.
Returned == pc = "returned" /\ UNCHANGED vars

-----------------------------------------------------------------------------
Next ==
  \/ ServeBoots \/ Ingress \/ Sweeper \/ Monitor \/ Shutdown \/ IgnorePacket \/ Returned
  \/ CloseAllDetaches \/ CooldownElapses
  \/ \E s \in Session : SessionStep(s) \/ Watcher(s)
  \/ \E r \in startups : Startup(r)
  \/ \E t \in timers : TimerFires(t)
  \/ \E c \in callbacks : Callback(c)

Spec == Init /\ [][Next]_vars
=============================================================================
