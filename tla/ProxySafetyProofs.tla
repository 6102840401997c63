------------------------- MODULE ProxySafetyProofs -------------------------
(***************************************************************************)
(* The power and admission invariants of the orchestration core, for every *)
(* value of the constants.                                                 *)
(*                                                                         *)
(* PowerInv (in ProxyProperties) is the invariant: admissionMu has one     *)
(* holder, CloseAll runs for a holder, no open session is lost, one startup*)
(* is under way and behind a closed gate, and a stop is in flight only     *)
(* with the gate open and nobody there.                                    *)
(***************************************************************************)
EXTENDS ProxyTypeProofs

USE DEF gateVars, startupVars, queueVars, timerVars, lockVars, closeVars, sweepVars, monitorVars,
        serveVars, ctlVars

SafeInv == TypeInv /\ PowerInv

\* A proxy that has just been made satisfies the invariant.
LEMMA InitSafe == Init => PowerInv
  BY InitType
     DEF Init, TypeInv, PowerInv, AdmissionOwned, CloseAllOwned, SessionsTracked, KeyHeld, StartupAlone,
         StopJustified, SingleFlight, IngressHolds, AdmittedPC, MonitorHolds, ShutdownHolds, Open

-----------------------------------------------------------------------------
(* What the helpers do, seen by the invariant.                             *)

\* startServer adds at most one startup, and only when none is under way.
LEMMA StartServerSafe ==
  ASSUME NEW S, StartServer(S)
  PROVE  \/ startups' = S /\ UNCHANGED startupRunning
         \/ \E n : /\ startups' = S \cup {n} /\ n.pc = "status"
                   /\ ~shuttingDown /\ ~backendReady /\ ~startupRunning /\ startupRunning' = TRUE
<1> DEFINE n == [gen |-> startupGeneration + 1, pc |-> "status", sent |-> FALSE, permanent |-> FALSE]
<1>1. n.pc = "status"
  OBVIOUS
<1> QED
  BY <1>1 DEF StartServer, StartAllowed

\* What a call of startServer by a goroutine that is no startup preserves.
LEMMA StartServerKeeps ==
  ASSUME StartupAlone, StartServer(startups), UNCHANGED <<backendReady, shuttingDown>>, pc' # "boot"
  PROVE  StartupAlone'
<1>1. CASE startups' = startups /\ UNCHANGED startupRunning
  BY <1>1 DEF StartupAlone, SingleFlight, UnderWay
<1>2. CASE \E n : /\ startups' = startups \cup {n} /\ n.pc = "status"
                  /\ ~shuttingDown /\ ~backendReady /\ ~startupRunning /\ startupRunning' = TRUE
  BY <1>2 DEF StartupAlone, SingleFlight, UnderWay
<1> QED
  BY <1>1, <1>2, StartServerSafe

\* startServer's new goroutine holds no lock, and the others stay.
LEMMA StartServerHolders ==
  ASSUME NEW S, StartServer(S)
  PROVE  /\ \A r \in startups' : Holds(r) => r \in S
         /\ \A r \in S : r \in startups'
<1>1. CASE startups' = S
  BY <1>1
<1>2. CASE \E n : startups' = S \cup {n} /\ n.pc = "status"
  BY <1>2 DEF Holds
<1> QED
  BY <1>1, <1>2, StartServerSafe

\* Where handleClientPacket continues, and what becomes of admissionMu.
LEMMA AfterForwardCases ==
  ASSUME ServeType, RequestOK, pc \in {"forward", "kick", "send"}, NEW ok \in BOOLEAN, AfterForward(ok)
  PROVE  \/ pc' = "finish" /\ req.site = "created" /\ UNCHANGED <<req, admission>>
         \/ pc' = "idle" /\ req.site = "fast" /\ UNCHANGED admission
         \/ pc' = "idle" /\ req.site \in {"admitted", "created"} /\ admission' = "free"
         \/ pc' = "admit" /\ req.site = "fast" /\ UNCHANGED <<req, admission>>
         \/ pc' = "remove" /\ req.site = "admitted" /\ UNCHANGED <<req, admission>>
<1>1. req.site \in {"fast", "admitted", "created"}
  BY DEF ServeType, RequestOK, Request, HandlingPC
<1> QED
  BY <1>1 DEF AfterForward

\* A step of the ingress that keeps the lock discipline keeps the holders,
\* the owner of CloseAll and the single startup.
LEMMA IngressMoves ==
  ASSUME AdmissionOwned, CloseAllOwned, StartupAlone,
         UNCHANGED <<backendReady, shuttingDown, callbacks, closeAll, detached, monitor>>,
         pc \in HandlingPC \cup {"idle"}, pc' \in HandlingPC \cup {"idle"},
         UNCHANGED <<startups, startupRunning>> \/ StartServer(startups),
         \/ UNCHANGED admission /\ (IngressHolds' => IngressHolds)
         \/ IngressHolds /\ ~IngressHolds' /\ admission' = "free"
         \/ admission = "free" /\ admission' = "ingress"
  PROVE  AdmissionOwned' /\ CloseAllOwned' /\ StartupAlone'
<1>1. pc \notin {"boot", "shutdownGate", "shutdownClosing"} /\ pc' \notin {"boot", "shutdownGate", "shutdownClosing"}
  BY DEF HandlingPC
<1>2. (\A r \in startups' : Holds(r) => r \in startups) /\ (\A r \in startups : r \in startups')
  BY StartServerHolders
<1>3. StartupAlone'
  <2>1. CASE UNCHANGED <<startups, startupRunning>>
    BY <1>1, <2>1 DEF StartupAlone, SingleFlight
  <2>2. CASE StartServer(startups)
    BY <1>1, <2>2, StartServerKeeps
  <2> QED
    BY <2>1, <2>2
<1>4. CloseAllOwned'
  BY <1>1, <1>2 DEF CloseAllOwned
<1>5. AdmissionOwned'
  BY <1>1, <1>2 DEF AdmissionOwned, ShutdownHolds, MonitorHolds
<1> QED
  BY <1>3, <1>4, <1>5

-----------------------------------------------------------------------------
\* handleClientPacket keeps the invariant: it creates and removes sessions only
\* with admissionMu held.
LEMMA IngressSafe == SafeInv /\ Ingress => PowerInv'
<1> SUFFICES ASSUME SafeInv, Ingress PROVE PowerInv'
  OBVIOUS
<1> USE DEF SafeInv, TypeInv, TypeOK, PowerInv
<1>0. /\ UNCHANGED <<backendReady, shuttingDown, callbacks, closeAll, detached, monitor>>
      /\ RequestOK'
  BY IngressType DEF Ingress
<1>a. ASSUME UNCHANGED <<sessions, state>> PROVE SessionsTracked' /\ StopJustified'
  BY <1>0, <1>a DEF SessionsTracked, StopJustified, Open, Stored, StoreEmpty
<1> USE DEF IngressHolds, AdmittedPC
<1>1. CASE \E k \in Keys : ReceivePacket(k)
  <2>1. PICK k \in Keys : ReceivePacket(k)
    BY <1>1
  <2>2. /\ pc = "idle" /\ pc' \in {"forward", "admit"} /\ req'.site = "fast"
        /\ UNCHANGED <<startups, startupRunning, admission, sessions, state>>
    BY <2>1 DEF ReceivePacket, NoRequest
  <2>3. AdmissionOwned' /\ CloseAllOwned' /\ StartupAlone'
    BY <1>0, <2>2, IngressMoves DEF HandlingPC
  <2>4. KeyHeld'
    BY <2>2 DEF KeyHeld
  <2> QED
    BY <1>0, <1>a, <2>2, <2>3, <2>4
<1>2. CASE QueuePacket \/ KickStartup \/ SeeGateOpen \/ ForwardClient
  <2> USE DEF QueuePacket, KickStartup, SeeGateOpen, ForwardClient
  <2>1. pc \in {"forward", "kick", "send"} /\ UNCHANGED sessions
    BY <1>2
  <2>2. UNCHANGED <<startups, startupRunning>> \/ StartServer(startups)
    BY <1>2
  <2>3. \/ pc' \in {"kick", "send"} /\ UNCHANGED <<req, admission>>
        \/ \E ok \in BOOLEAN : AfterForward(ok)
    BY <1>2
  <2>4. \/ pc' \in {"kick", "send"} /\ UNCHANGED <<req, admission>>
        \/ pc' = "finish" /\ req.site = "created" /\ UNCHANGED <<req, admission>>
        \/ pc' = "idle" /\ req.site = "fast" /\ UNCHANGED admission
        \/ pc' = "idle" /\ req.site \in {"admitted", "created"} /\ admission' = "free"
        \/ pc' = "admit" /\ req.site = "fast" /\ UNCHANGED <<req, admission>>
        \/ pc' = "remove" /\ req.site = "admitted" /\ UNCHANGED <<req, admission>>
    BY <2>1, <2>3, AfterForwardCases
  <2> USE DEF HandlingPC
  <2>5. \/ UNCHANGED admission /\ (IngressHolds' => IngressHolds)
        \/ IngressHolds /\ ~IngressHolds' /\ admission' = "free"
    BY <2>1, <2>4
  <2>6. AdmissionOwned' /\ CloseAllOwned' /\ StartupAlone'
    BY <1>0, <2>1, <2>2, <2>4, <2>5, IngressMoves
  <2>7. KeyHeld'
    BY <2>1, <2>4 DEF KeyHeld
  <2>8. UNCHANGED state \/ CloseSessions({req.cur})
    BY <1>2
  <2>9. SessionsTracked' /\ StopJustified'
    BY <1>0, <2>1, <2>8
       DEF SessionsTracked, StopJustified, CloseSessions, Open, Stored, StoreEmpty, SessionType
  <2> QED
    BY <1>0, <2>6, <2>7, <2>9
<1> USE DEF HandlingPC
<1>3. CASE TakeAdmission
  <2>1. /\ pc = "admit" /\ admission = "free" /\ admission' = "ingress"
        /\ UNCHANGED <<startups, startupRunning, sessions, state>>
        /\ pc' = IF sessions[req.key] # NoSession THEN "forward" ELSE "sample"
    BY <1>3 DEF TakeAdmission
  <2>2. req' = [req EXCEPT !.cur = sessions[req.key], !.site = "admitted"] /\ req \in Request
    BY <1>3 DEF TakeAdmission, ServeType
  <2>3. req'.key = req.key /\ req'.cur = sessions[req.key]
    BY <2>2 DEF Request
  <2>4. AdmissionOwned' /\ CloseAllOwned' /\ StartupAlone'
    BY <1>0, <2>1, IngressMoves
  <2>5. KeyHeld'
    BY <2>1, <2>3 DEF KeyHeld
  <2> QED
    BY <1>0, <1>a, <2>1, <2>4, <2>5
<1>4. CASE RemoveDeadSession
  <2>1. /\ pc = "remove" /\ pc' \in {"removing", "dropQueue"}
        /\ UNCHANGED <<startups, startupRunning, admission, req>>
    BY <1>4 DEF RemoveDeadSession
  <2>2. AdmissionOwned' /\ CloseAllOwned' /\ StartupAlone'
    BY <1>0, <2>1, IngressMoves
  <2>3. req.key \in Keys
    BY <2>1 DEF RequestOK
  <2>4. KeyHeld'
    BY <1>4, <2>1, <2>3 DEF RemoveDeadSession, StoreRemove, KeyHeld, SessionType
  <2>5. SessionsTracked' /\ StopJustified'
    <3>1. CASE sessions[req.key] = req.cur
      BY <1>0, <1>4, <2>3, <3>1
         DEF RemoveDeadSession, StoreRemove, CloseSessions, SessionsTracked, StopJustified, Open, Stored,
             StoreEmpty, SessionType
    <3>2. CASE sessions[req.key] # req.cur
      BY <1>a, <1>4, <3>2 DEF RemoveDeadSession
    <3> QED
      BY <3>1, <3>2
  <2> QED
    BY <1>0, <2>2, <2>4, <2>5
<1>5. CASE DropDeadQueue
  <2>1. /\ pc \in {"removing", "dropQueue"} /\ pc' = "sample"
        /\ UNCHANGED <<startups, startupRunning, admission, req, sessions, state>>
    BY <1>5 DEF DropDeadQueue
  <2>2. AdmissionOwned' /\ CloseAllOwned' /\ StartupAlone'
    BY <1>0, <2>1, IngressMoves
  <2>3. KeyHeld'
    BY <2>1 DEF KeyHeld
  <2> QED
    BY <1>0, <1>a, <2>1, <2>2, <2>3
<1>6. CASE SampleGate \/ CreateFails \/ FinishAdmission
  <2> USE DEF SampleGate, CreateFails, FinishAdmission, DropPacket
  <2>1. /\ pc \in {"sample", "create", "finish"} /\ UNCHANGED <<sessions, state>>
        /\ UNCHANGED <<startups, startupRunning>> \/ StartServer(startups)
    BY <1>6
  <2>2. \/ pc' = "idle" /\ admission' = "free"
        \/ pc = "sample" /\ pc' = "create" /\ UNCHANGED admission /\ req' = [req EXCEPT !.sawReady = backendReady]
    BY <1>6
  <2>3. pc' = "create" => pc = "sample" /\ req'.key = req.key
    BY <2>2 DEF ServeType, Request
  <2>4. AdmissionOwned' /\ CloseAllOwned' /\ StartupAlone'
    BY <1>0, <2>1, <2>2, IngressMoves
  <2>5. KeyHeld'
    BY <2>1, <2>2, <2>3 DEF KeyHeld
  <2> QED
    BY <1>0, <1>a, <2>1, <2>4, <2>5
<1>7. CASE CreateSession
  <2>1. PICK s \in Session :
          /\ sessions' = [sessions EXCEPT ![req.key] = s] /\ state' = [state EXCEPT ![s] = "open"]
          /\ req' = [req EXCEPT !.cur = s, !.site = "created"]
    BY <1>7 DEF CreateSession
  <2>2. pc = "create" /\ pc' = "watch" /\ UNCHANGED <<startups, startupRunning, admission>>
    BY <1>7 DEF CreateSession
  <2>3. AdmissionOwned' /\ CloseAllOwned' /\ StartupAlone'
    BY <1>0, <2>2, IngressMoves
  <2>4. KeyHeld'
    BY <2>1, <2>2 DEF KeyHeld, ServeType, Request
  <2>5. req.key \in Keys /\ sessions[req.key] = NoSession /\ admission = "ingress"
    BY <2>2 DEF RequestOK, KeyHeld, AdmissionOwned
  <2>6. Open' \subseteq Open \cup {s} /\ Stored \subseteq Stored' /\ s \in Stored'
    <3>1. Open' \subseteq Open \cup {s}
      BY <2>1 DEF Open, SessionType
    <3>2. Stored \subseteq Stored'
      BY <2>1, <2>5 DEF Stored, SessionType, Session, NoSession
    <3>3. s \in Stored'
      BY <2>1, <2>5 DEF Stored, SessionType, Session, NoSession
    <3> QED
      BY <3>1, <3>2, <3>3
  <2>7. SessionsTracked'
    BY <1>0, <2>6 DEF SessionsTracked
  <2>8. StopJustified'
    BY <1>0, <2>5 DEF AdmissionOwned, StopJustified
  <2> QED
    BY <1>0, <2>3, <2>4, <2>7, <2>8
<1>8. CASE WatchSession
  <2>1. /\ pc = "watch" /\ pc' = "forward"
        /\ UNCHANGED <<startups, startupRunning, admission, req, sessions, state>>
    BY <1>8 DEF WatchSession
  <2>2. AdmissionOwned' /\ CloseAllOwned' /\ StartupAlone'
    BY <1>0, <2>1, IngressMoves
  <2>3. KeyHeld'
    BY <2>1 DEF KeyHeld
  <2> QED
    BY <1>0, <1>a, <2>1, <2>2, <2>3
<1> QED
  BY <1>1, <1>2, <1>3, <1>4, <1>5, <1>6, <1>7, <1>8 DEF Ingress

\* Sessions end, watchers and the sweeper remove them, CloseAll takes them
\* out, the cooldown ends: none of them takes a lock or touches the gate.
LEMMA StoreStepSafe ==
  SafeInv /\ ((\E s \in Session : SessionStep(s) \/ Watcher(s)) \/ Sweeper \/ CooldownElapses) => PowerInv'
<1> SUFFICES ASSUME SafeInv,
                    (\E s \in Session : SessionStep(s) \/ Watcher(s)) \/ Sweeper \/ CooldownElapses
             PROVE  PowerInv'
  OBVIOUS
<1> USE DEF SafeInv, TypeInv, TypeOK, PowerInv
<1>1. UNCHANGED <<backendReady, shuttingDown, callbacks, closeAll, detached, monitor, startups, startupRunning,
                  admission, pc, req, received>>
  BY DEF SessionStep, Watcher, Sweeper, CooldownElapses
<1>2. RequestOK' /\ AdmissionOwned' /\ CloseAllOwned' /\ StartupAlone'
  BY <1>1 DEF RequestOK, AdmissionOwned, CloseAllOwned, StartupAlone, SingleFlight, IngressHolds,
              ShutdownHolds, MonitorHolds
<1>3. /\ \A k \in Keys : sessions'[k] \in {sessions[k], NoSession}
      /\ Open' \subseteq Open
      /\ \A s \in Stored \ Stored' : s \notin Open'
  <2>1. CASE \E s \in Session : SessionStep(s)
    BY <2>1 DEF SessionStep, BackendTraffic, SessionFails, CloseDetached, SessionDone, CloseSessions, Open,
                Stored, SessionType
  <2>2. CASE \E s \in Session : Watcher(s)
    <3>1. PICK s \in Session : Watcher(s)
      BY <2>2
    <3>2. UNCHANGED state /\ (UNCHANGED sessions \/ (StoreRemove(owner[s]) /\ sessions[owner[s]] = s /\ state[s] = "done"))
      BY <3>1 DEF Watcher, WatcherRemoves, WatcherDropsQueue, WatcherSchedules
    <3>3. CASE UNCHANGED sessions
      BY <3>2, <3>3 DEF Open, Stored
    <3>4. CASE StoreRemove(owner[s]) /\ sessions[owner[s]] = s /\ state[s] = "done"
      BY <3>2, <3>4 DEF StoreRemove, Open, Stored, SessionType
    <3> QED
      BY <3>2, <3>3, <3>4
  <2>3. CASE Sweeper
    <3>1. CASE UNCHANGED <<sessions, state>>
      BY <3>1 DEF Open, Stored
    <3>2. CASE SweeperExpires
      <4>1. PICK idle \in SUBSET ((Stored \cap Open) \ (recent \cup Admitting)) :
              /\ CloseSessions(idle)
              /\ sessions' = [k \in Keys |-> IF sessions[k] \in idle THEN NoSession ELSE sessions[k]]
        BY <3>2 DEF SweeperExpires
      <4>2. Open' = Open \ idle
        BY <4>1 DEF CloseSessions, Open, SessionType
      <4>3. \A s \in Stored \ Stored' : s \in idle
        BY <4>1 DEF Stored
      <4> QED
        BY <4>1, <4>2, <4>3
    <3> QED
      BY <2>3, <3>1, <3>2
         DEF Sweeper, SweeperTicks, SweeperRefreshes, SweeperDropsQueues, SweeperSchedules, SweeperExits
  <2>4. CASE CooldownElapses
    BY <2>4 DEF CooldownElapses, Open, Stored
  <2> QED
    BY <2>1, <2>2, <2>3, <2>4
<1>4. SessionsTracked'
  BY <1>1, <1>3 DEF SessionsTracked
<1>5. StopJustified'
  BY <1>1, <1>3 DEF StopJustified, StoreEmpty
<1>6. KeyHeld'
  BY <1>1, <1>3 DEF KeyHeld, RequestOK, HandlingPC
<1> QED
  BY <1>2, <1>4, <1>5, <1>6

\* Store.CloseAll hands the sessions of the store over to its caller.
LEMMA DetachSafe == SafeInv /\ CloseAllDetaches => PowerInv'
<1> SUFFICES ASSUME SafeInv, CloseAllDetaches PROVE PowerInv'
  OBVIOUS
<1> USE DEF SafeInv, TypeInv, TypeOK, PowerInv
<1>1. /\ UNCHANGED <<backendReady, shuttingDown, callbacks, monitor, startups, startupRunning,
                     admission, pc, req, received, state>>
      /\ closeAll = "detach" /\ closeAll' = "closing" /\ detached' = Stored
      /\ sessions' = [k \in Keys |-> NoSession]
  BY DEF CloseAllDetaches
<1>2. RequestOK' /\ AdmissionOwned' /\ CloseAllOwned' /\ StartupAlone'
  BY <1>1 DEF RequestOK, AdmissionOwned, CloseAllOwned, StartupAlone, SingleFlight, IngressHolds,
              ShutdownHolds, MonitorHolds
<1>3. KeyHeld'
  BY <1>1 DEF KeyHeld, RequestOK, HandlingPC
<1>4. SessionsTracked'
  BY <1>1 DEF SessionsTracked, CloseAllOwned, Open, Stored
<1>5. StopJustified'
  BY <1>1 DEF StopJustified, StoreEmpty, Open
<1> QED
  BY <1>2, <1>3, <1>4, <1>5

\* The first answer of the panel opens the gate in delay mode, or launches
\* the first startup.
LEMMA BootSafe == SafeInv /\ ServeBoots => PowerInv'
<1> SUFFICES ASSUME SafeInv, ServeBoots PROVE PowerInv'
  OBVIOUS
<1> USE DEF SafeInv, TypeInv, TypeOK, PowerInv
<1>1. /\ UNCHANGED <<shuttingDown, callbacks, closeAll, detached, monitor, admission, req, sessions, state>>
      /\ pc = "boot" /\ pc' = "idle"
  BY DEF ServeBoots
<1>2. startups = {} /\ ~backendReady /\ ~shuttingDown
  BY <1>1 DEF StartupAlone
<1>3. \/ UNCHANGED <<startups, startupRunning>>
      \/ StartServer(startups) /\ ~backendReady'
  BY DEF ServeBoots
<1>4. \A r, q \in startups' : r = q /\ r.pc = "status" /\ startupRunning' /\ ~backendReady'
  <2>1. CASE UNCHANGED <<startups, startupRunning>>
    BY <1>2, <2>1
  <2>2. CASE StartServer(startups) /\ ~backendReady'
    <3>1. startups' = startups \/ \E n : startups' = startups \cup {n} /\ n.pc = "status" /\ startupRunning' = TRUE
      BY <2>2, StartServerSafe
    <3>2. CASE startups' = startups
      BY <1>2, <3>2
    <3>3. CASE \E n : startups' = startups \cup {n} /\ n.pc = "status" /\ startupRunning' = TRUE
      BY <1>2, <2>2, <3>3
    <3> QED
      BY <3>1, <3>2, <3>3
  <2> QED
    BY <1>3, <2>1, <2>2
<1>5. StartupAlone'
  BY <1>1, <1>2, <1>4 DEF StartupAlone, SingleFlight
<1>6. \A c \in callbacks : ~Stopping(c)
  BY <1>2 DEF StopJustified
<1>7. StopJustified'
  BY <1>1, <1>6 DEF StopJustified
<1>8. AdmissionOwned' /\ CloseAllOwned' /\ KeyHeld' /\ RequestOK'
  BY <1>1, <1>2, <1>4, <1>6
     DEF AdmissionOwned, CloseAllOwned, KeyHeld, RequestOK, HandlingPC, IngressHolds, AdmittedPC, MonitorHolds,
         ShutdownHolds, Holds
<1>9. SessionsTracked'
  BY <1>1 DEF SessionsTracked, Open, Stored
<1> QED
  BY <1>5, <1>7, <1>8, <1>9

\* The monitor takes and gives back admissionMu, and closes the gate while
\* no stop and no startup can be under way.
LEMMA MonitorSafe == SafeInv /\ Monitor => PowerInv'
<1> SUFFICES ASSUME SafeInv, Monitor PROVE PowerInv'
  OBVIOUS
<1> USE DEF SafeInv, TypeInv, TypeOK, PowerInv
<1>1. UNCHANGED <<startups, startupRunning, shuttingDown, callbacks, pc, req, received, sessions, state>>
  BY DEF Monitor
<1>2. RequestOK' /\ KeyHeld'
  BY <1>1 DEF RequestOK, KeyHeld
<1>3. CASE MonitorTicks \/ MonitorProbed \/ MonitorExits
  <2>1. /\ UNCHANGED <<backendReady, admission, closeAll, detached>>
        /\ monitor.pc \in {"idle", "probe"} /\ monitor'.pc \in {"idle", "probe", "lose", "ended"}
    BY <1>3 DEF MonitorTicks, MonitorProbed, MonitorExits, MonitorType
  <2> QED
    BY <1>1, <1>2, <2>1
       DEF AdmissionOwned, CloseAllOwned, SessionsTracked, StartupAlone, StopJustified, SingleFlight, IngressHolds,
           MonitorHolds, ShutdownHolds, Open, Stored, StoreEmpty
<1>4. CASE MonitorTakesAdmission
  <2>1. /\ UNCHANGED <<backendReady, closeAll, detached>> /\ admission = "free" /\ admission' = "monitor"
        /\ monitor.pc = "lose" /\ monitor'.pc = "loseGate"
    BY <1>4 DEF MonitorTakesAdmission, MonitorType
  <2> QED
    BY <1>1, <1>2, <2>1
       DEF AdmissionOwned, CloseAllOwned, SessionsTracked, StartupAlone, StopJustified, SingleFlight, IngressHolds,
           MonitorHolds, ShutdownHolds, Open, Stored, StoreEmpty
<1>5. CASE MonitorClosesGate
  <2>1. monitor.pc = "loseGate" /\ admission = "monitor"
    BY <1>5 DEF MonitorClosesGate, AdmissionOwned, MonitorHolds
  <2>2. closeAll = "none" /\ detached = {}
    BY <2>1 DEF CloseAllOwned, AdmissionOwned, Holds, ShutdownHolds
  <2>3. \A c \in callbacks : ~Stopping(c)
    BY <2>1 DEF AdmissionOwned
  <2>4. \/ /\ ~backendReady' /\ closeAll' = "detach" /\ monitor'.pc = "loseClosing"
           /\ UNCHANGED <<admission, detached>>
        \/ /\ UNCHANGED <<backendReady, closeAll, detached>> /\ admission' = "free" /\ monitor'.pc = "idle"
    BY <1>5 DEF MonitorClosesGate, CloseGate, BeginCloseAll
  <2>5. AdmissionOwned' /\ CloseAllOwned'
    BY <1>1, <2>1, <2>2, <2>3, <2>4
       DEF AdmissionOwned, CloseAllOwned, IngressHolds, MonitorHolds, ShutdownHolds
  <2>6. SessionsTracked' /\ StopJustified'
    BY <1>1, <2>2, <2>3, <2>4 DEF SessionsTracked, StopJustified, Open, Stored
  <2>7. StartupAlone'
    BY <1>1, <2>4 DEF StartupAlone, SingleFlight
  <2> QED
    BY <1>2, <2>5, <2>6, <2>7
<1>6. CASE MonitorClosed
  <2>1. /\ UNCHANGED backendReady /\ closeAll' = "none" /\ detached' = {} /\ admission' = "free"
        /\ \A s \in detached : state[s] = "done"
        /\ monitor.pc = "loseClosing" /\ monitor'.pc = "idle"
    BY <1>6 DEF MonitorClosed, CloseAllReturns, MonitorType
  <2>2. admission = "monitor"
    BY <2>1 DEF AdmissionOwned, MonitorHolds
  <2>3. AdmissionOwned' /\ CloseAllOwned'
    BY <1>1, <2>1, <2>2 DEF AdmissionOwned, CloseAllOwned, IngressHolds, MonitorHolds, ShutdownHolds
  <2>4. SessionsTracked' /\ StopJustified'
    BY <1>1, <2>1 DEF SessionsTracked, StopJustified, Open, Stored, StoreEmpty
  <2>5. StartupAlone'
    BY <1>1, <2>1 DEF StartupAlone, SingleFlight
  <2> QED
    BY <1>2, <2>3, <2>4, <2>5
<1> QED
  BY <1>3, <1>4, <1>5, <1>6 DEF Monitor

\* A timer that fires sends nothing yet.
LEMMA TimerFiresSafe == \A t \in timers : SafeInv /\ TimerFires(t) => PowerInv'
<1> SUFFICES ASSUME NEW t \in timers, SafeInv, TimerFires(t) PROVE PowerInv'
  OBVIOUS
<1> USE DEF SafeInv, TypeInv, TypeOK, PowerInv
<1>1. /\ UNCHANGED <<backendReady, shuttingDown, startups, startupRunning, monitor, admission, closeAll, detached,
                     pc, req, received, sessions, state>>
      /\ \A c \in callbacks' : Stopping(c) => c \in callbacks
  BY DEF TimerFires, Stopping
<1>2. RequestOK' /\ KeyHeld' /\ CloseAllOwned' /\ SessionsTracked' /\ StartupAlone'
  BY <1>1 DEF RequestOK, KeyHeld, CloseAllOwned, SessionsTracked, StartupAlone, SingleFlight, Open, Stored
<1>3. AdmissionOwned' /\ StopJustified'
  BY <1>1 DEF AdmissionOwned, StopJustified, IngressHolds, MonitorHolds, ShutdownHolds, Open, StoreEmpty
<1> QED
  BY <1>2, <1>3

\* The callback keeps admissionMu from its tests to the panel's answer.
LEMMA CallbackSafe == \A c \in callbacks : SafeInv /\ Callback(c) => PowerInv'
<1> SUFFICES ASSUME NEW c \in callbacks, SafeInv, Callback(c) PROVE PowerInv'
  OBVIOUS
<1> USE DEF SafeInv, TypeInv, TypeOK, PowerInv
<1>1. UNCHANGED <<shuttingDown, startups, startupRunning, monitor, closeAll, detached, pc, req, received,
                  sessions, state>>
  BY DEF Callback
<1>2. RequestOK' /\ KeyHeld' /\ CloseAllOwned' /\ SessionsTracked'
  BY <1>1 DEF RequestOK, KeyHeld, CloseAllOwned, SessionsTracked, Open, Stored
<1>3. CASE CallbackDecides(c)
  <2>1. admission = "free" /\ UNCHANGED backendReady /\ c.pc = "lock"
    BY <1>3 DEF CallbackDecides
  <2>2. StartupAlone'
    BY <1>1, <2>1 DEF StartupAlone, SingleFlight
  <2>3. \A d \in callbacks : ~Stopping(d)
    BY <2>1 DEF AdmissionOwned
  <2>4. CASE StopAllowed(c.timer)
    <3>1. closeAll = "none" /\ detached = {}
      BY <2>1 DEF CloseAllOwned, AdmissionOwned, Holds, ShutdownHolds, MonitorHolds
    <3>2. StoreEmpty /\ backendReady
      BY <2>4 DEF StopAllowed
    <3>3. Open = {}
      BY <3>1, <3>2 DEF SessionsTracked, Stored, StoreEmpty
    <3>4. admission' = "callback" /\ \A d \in callbacks' : Stopping(d) => d = [c EXCEPT !.pc = "stopping"]
      BY <1>3, <2>3, <2>4 DEF CallbackDecides, HoldAdmission, Replace
    <3>5. AdmissionOwned'
      BY <1>1, <2>1, <3>4 DEF AdmissionOwned, IngressHolds, MonitorHolds, ShutdownHolds
    <3>6. StopJustified'
      BY <1>1, <2>1, <3>2, <3>3 DEF StopJustified, Open, StoreEmpty
    <3> QED
      BY <1>2, <2>2, <3>5, <3>6
  <2>5. CASE ~StopAllowed(c.timer)
    <3>1. UNCHANGED admission /\ \A d \in callbacks' : d \in callbacks
      BY <1>3, <2>5 DEF CallbackDecides
    <3>2. AdmissionOwned' /\ StopJustified'
      BY <1>1, <2>3, <3>1 DEF AdmissionOwned, StopJustified, IngressHolds, MonitorHolds, ShutdownHolds
    <3> QED
      BY <1>2, <2>2, <3>2
  <2> QED
    BY <2>4, <2>5
<1>4. CASE CallbackStopAccepted(c) \/ CallbackGivesUp(c) \/ CallbackRetries(c)
  <2>1. /\ c.pc = "stopping" /\ admission' = "free" /\ callbacks' = callbacks \ {c}
        /\ (~backendReady' \/ UNCHANGED backendReady)
    BY <1>4 DEF CallbackStopAccepted, CallbackGivesUp, CallbackRetries, CallbackReturns,
                MarkBackendNotRunning, CloseGate
  <2>2. admission = "callback"
    BY <2>1 DEF AdmissionOwned, Stopping
  <2>3. \A d \in callbacks' : ~Stopping(d)
    BY <2>1 DEF AdmissionOwned, Stopping
  <2>4. AdmissionOwned' /\ StopJustified'
    BY <1>1, <2>1, <2>2, <2>3 DEF AdmissionOwned, StopJustified, IngressHolds, MonitorHolds, ShutdownHolds
  <2>5. StartupAlone'
    BY <1>1, <2>1 DEF StartupAlone, SingleFlight
  <2> QED
    BY <1>2, <2>4, <2>5
<1> QED
  BY <1>3, <1>4 DEF Callback

\* The end of Serve: no startup is launched any more, and the gate closes
\* under admissionMu.
LEMMA ShutdownSafe == SafeInv /\ Shutdown => PowerInv'
<1> SUFFICES ASSUME SafeInv, Shutdown PROVE PowerInv'
  OBVIOUS
<1> USE DEF SafeInv, TypeInv, TypeOK, PowerInv
<1>1. /\ UNCHANGED <<startups, callbacks, monitor, req, received, sessions, state>> /\ RequestOK'
  BY ShutdownType DEF Shutdown
<1>2. CASE Cancel \/ ListenerCloses \/ ReadFails \/ ServeWaits
  <2>1. /\ UNCHANGED <<backendReady, startupRunning, shuttingDown, admission, closeAll, detached>>
        /\ (UNCHANGED pc \/ (/\ pc \notin HandlingPC \cup {"boot", "shutdownGate", "shutdownClosing"}
                             /\ pc' \notin HandlingPC \cup {"boot", "shutdownGate", "shutdownClosing"}))
    BY <1>2 DEF Cancel, ListenerCloses, ReadFails, ServeWaits, HandlingPC
  <2>2. AdmissionOwned' /\ KeyHeld'
    BY <1>1, <2>1
       DEF AdmissionOwned, KeyHeld, IngressHolds, AdmittedPC, MonitorHolds, ShutdownHolds, HandlingPC
  <2>3. CloseAllOwned' /\ SessionsTracked' /\ StartupAlone' /\ StopJustified'
    BY <1>1, <2>1
       DEF CloseAllOwned, SessionsTracked, StartupAlone, StopJustified, SingleFlight, Open, Stored, StoreEmpty
  <2> QED
    BY <1>1, <2>2, <2>3
<1>3. CASE ShutdownTakesAdmission
  <2>1. /\ UNCHANGED <<backendReady, startupRunning, shuttingDown, closeAll, detached>>
        /\ pc = "shutdown" /\ pc' = "shutdownGate" /\ admission = "free" /\ admission' = "shutdown"
    BY <1>3 DEF ShutdownTakesAdmission
  <2>2. AdmissionOwned' /\ KeyHeld'
    BY <1>1, <2>1 DEF AdmissionOwned, KeyHeld, IngressHolds, AdmittedPC, MonitorHolds, ShutdownHolds
  <2>3. CloseAllOwned' /\ SessionsTracked' /\ StartupAlone' /\ StopJustified'
    BY <1>1, <2>1
       DEF CloseAllOwned, SessionsTracked, StartupAlone, StopJustified, SingleFlight, Open, Stored, StoreEmpty
  <2> QED
    BY <1>1, <2>2, <2>3
<1>4. CASE ShutdownClosesGate
  <2>1. /\ pc = "shutdownGate" /\ pc' = "shutdownClosing" /\ shuttingDown' = TRUE /\ backendReady' = FALSE
        /\ closeAll' = "detach" /\ UNCHANGED <<admission, detached>>
    BY <1>4 DEF ShutdownClosesGate, CloseGate, BeginCloseAll
  <2>2. admission = "shutdown"
    BY <2>1 DEF AdmissionOwned, ShutdownHolds
  <2>3. closeAll = "none" /\ detached = {}
    BY <2>1, <2>2 DEF CloseAllOwned, AdmissionOwned, Holds, MonitorHolds
  <2>4. AdmissionOwned' /\ KeyHeld'
    BY <1>1, <2>1, <2>2 DEF AdmissionOwned, KeyHeld, IngressHolds, AdmittedPC, MonitorHolds, ShutdownHolds
  <2>5. CloseAllOwned' /\ SessionsTracked' /\ StartupAlone'
    BY <1>1, <2>1, <2>3 DEF CloseAllOwned, SessionsTracked, StartupAlone, SingleFlight, Open, Stored
  <2>6. StopJustified'
    BY <1>1, <2>2 DEF StopJustified, AdmissionOwned
  <2> QED
    BY <1>1, <2>4, <2>5, <2>6
<1>5. CASE ShutdownClosed
  <2>1. /\ pc = "shutdownClosing" /\ pc' = "timerWait" /\ closeAll' = "none" /\ detached' = {}
        /\ admission' = "free" /\ \A s \in detached : state[s] = "done"
        /\ UNCHANGED <<backendReady, startupRunning, shuttingDown>>
    BY <1>5 DEF ShutdownClosed, CloseAllReturns
  <2>2. admission = "shutdown"
    BY <2>1 DEF AdmissionOwned, ShutdownHolds
  <2>3. AdmissionOwned' /\ KeyHeld'
    BY <1>1, <2>1, <2>2 DEF AdmissionOwned, KeyHeld, IngressHolds, AdmittedPC, MonitorHolds, ShutdownHolds
  <2>4. CloseAllOwned' /\ SessionsTracked' /\ StartupAlone' /\ StopJustified'
    BY <1>1, <2>1
       DEF CloseAllOwned, SessionsTracked, StartupAlone, StopJustified, SingleFlight, Open, Stored, StoreEmpty
  <2> QED
    BY <1>1, <2>3, <2>4
<1> QED
  BY <1>2, <1>3, <1>4, <1>5 DEF Shutdown

\* A startup moves to another program counter.
LEMMA GotoMove ==
  ASSUME StartupType, NEW r \in startups, NEW p, Goto(r, p)
  PROVE  \E n : startups' = Replace(startups, r, n) /\ n.pc = p
<1>1. [r EXCEPT !.pc = p].pc = p
  BY DEF StartupType, StartupRecord
<1> QED
  BY <1>1 DEF Goto

\* A failed startup goes on to failStartup or, once cancelled, ends.
LEMMA FailWithMove ==
  ASSUME StartupType, NEW r \in startups, NEW permanent, FailWith(r, permanent)
  PROVE  \E n : startups' = Replace(startups, r, n) /\ n.pc \in {"finish", "fail"}
<1> DEFINE p == IF ctxDone THEN "finish" ELSE "fail"
           n == [r EXCEPT !.pc = p, !.sent = FALSE, !.permanent = permanent]
<1>1. n.pc = p
  BY DEF StartupType, StartupRecord
<1>2. startups' = Replace(startups, r, n)
  BY DEF FailWith
<1> QED
  BY <1>1, <1>2

\* ensureRunning keeps polling, hands over to openStartupGate or fails, and
\* never opens the gate.
LEMMA PollsMove ==
  ASSUME StartupType, NEW r \in startups, StartupPolls(r)
  PROVE  /\ r.pc \in Polling
         /\ ~backendReady' \/ UNCHANGED backendReady
         /\ \E n : startups' = Replace(startups, r, n) /\ n.pc \in Polling \cup {"open", "fail", "finish"}
<1> USE DEF Polling
<1>1. CASE StartupSeesRunning(r)
  <2> DEFINE p == IF HasReadiness THEN "waitReady" ELSE "settle"
             n == [r EXCEPT !.pc = p, !.sent = FALSE]
  <2>1. n.pc = p
    BY DEF StartupType, StartupRecord
  <2>2. startups' = Replace(startups, r, n)
    BY <1>1 DEF StartupSeesRunning
  <2> QED
    BY <1>1, <2>1, <2>2 DEF StartupSeesRunning
<1>2. CASE StartupSeesNotRunning(r)
  <2>1. PICK st : startups' = Replace(startups, r,
                        [r EXCEPT !.pc = IF st = "offline" /\ ~r.sent THEN "start" ELSE "tick",
                                  !.sent = (st = "starting" \/ (st = "offline" /\ r.sent))])
    BY <1>2 DEF StartupSeesNotRunning
  <2> DEFINE p == IF st = "offline" /\ ~r.sent THEN "start" ELSE "tick"
             n == [r EXCEPT !.pc = p, !.sent = (st = "starting" \/ (st = "offline" /\ r.sent))]
  <2>2. n.pc = p
    BY DEF StartupType, StartupRecord
  <2>3. startups' = Replace(startups, r, n)
    BY <2>1
  <2> QED
    BY <1>2, <2>2, <2>3 DEF StartupSeesNotRunning, MarkBackendNotRunning, CloseGate
<1>3. CASE StartupStatusFails(r)
  <2>1. r.pc = "status" /\ UNCHANGED backendReady /\ (Goto(r, "tick") \/ FailWith(r, TRUE))
    BY <1>3 DEF StartupStatusFails
  <2>2. ASSUME Goto(r, "tick") PROVE \E n : startups' = Replace(startups, r, n) /\ n.pc = "tick"
    BY <2>2, GotoMove
  <2>3. ASSUME FailWith(r, TRUE)
        PROVE  \E n : startups' = Replace(startups, r, n) /\ n.pc \in {"finish", "fail"}
    BY <2>3, FailWithMove
  <2> QED
    BY <2>1, <2>2, <2>3
<1>4. CASE StartupStartAnswered(r)
  <2> DEFINE n == [r EXCEPT !.pc = "tick", !.sent = TRUE]
  <2>1. n.pc = "tick"
    BY DEF StartupType, StartupRecord
  <2>2. FailWith(r, TRUE) \/ startups' = Replace(startups, r, n)
    BY <1>4 DEF StartupStartAnswered
  <2> HIDE DEF n
  <2> QED
    BY <1>4, <2>1, <2>2, FailWithMove DEF StartupStartAnswered
<1>5. CASE StartupAdvances(r)
  <2>1. /\ r.pc \in Polling /\ UNCHANGED backendReady
        /\ Goto(r, "status") \/ Goto(r, "settle") \/ Goto(r, "open")
    BY <1>5 DEF StartupAdvances
  <2> QED
    BY <2>1, GotoMove
<1>6. CASE StartupWaitFails(r)
  <2>1. r.pc \in Polling /\ UNCHANGED backendReady /\ (FailWith(r, FALSE) \/ FailWith(r, TRUE))
    BY <1>6 DEF StartupWaitFails
  <2> QED
    BY <2>1, FailWithMove
<1> QED
  BY <1>1, <1>2, <1>3, <1>4, <1>5, <1>6 DEF StartupPolls

\* The startup goroutines keep the invariant: the one under way opens the gate,
\* fails or completes before another is launched.
LEMMA StartupSafe == \A r \in startups : SafeInv /\ Startup(r) => PowerInv'
<1> SUFFICES ASSUME NEW r \in startups, SafeInv, Startup(r) PROVE PowerInv'
  OBVIOUS
<1> USE DEF SafeInv, TypeInv, TypeOK, PowerInv
<1>0. UNCHANGED <<callbacks, monitor, pc, req, received, shuttingDown, sessions>>
  BY DEF Startup
<1>a. RequestOK' /\ KeyHeld'
  BY <1>0 DEF RequestOK, KeyHeld
<1>b. ASSUME UNCHANGED <<state, detached>> PROVE SessionsTracked'
  BY <1>0, <1>b DEF SessionsTracked, Open, Stored
<1>c. ASSUME \A c \in callbacks : ~Stopping(c) PROVE StopJustified'
  BY <1>0, <1>c DEF StopJustified
<1>1. CASE StartupPolls(r)
  <2>1. PICK n : startups' = Replace(startups, r, n) /\ n.pc \in Polling \cup {"open", "fail", "finish"}
    BY <1>1, PollsMove
  <2>2. r.pc \in Polling /\ (~backendReady' \/ UNCHANGED backendReady)
    BY <1>1, PollsMove
  <2>3. UNCHANGED <<startupRunning, admission, closeAll, detached, state>>
    BY <1>1 DEF StartupPolls
  <2>4. ~backendReady /\ ~backendReady'
    BY <2>2 DEF StartupAlone, UnderWay, Polling
  <2>5. AdmissionOwned' /\ CloseAllOwned'
    BY <1>0, <2>1, <2>2, <2>3
       DEF AdmissionOwned, CloseAllOwned, Replace, Holds, Polling, IngressHolds, MonitorHolds, ShutdownHolds
  <2>6. StartupAlone'
    BY <1>0, <2>1, <2>2, <2>3, <2>4 DEF StartupAlone, SingleFlight, UnderWay, Replace, Polling
  <2>7. StopJustified'
    BY <1>c, <2>4 DEF StopJustified
  <2> QED
    BY <1>a, <1>b, <2>3, <2>5, <2>6, <2>7
<1>2. CASE StartupTakesAdmission(r)
  <2>1. PICK n : startups' = Replace(startups, r, n) /\ n.pc \in {"openGate", "failGate"}
    BY <1>2, GotoMove DEF StartupTakesAdmission
  <2>2. /\ r.pc \in {"open", "fail"} /\ admission = "free" /\ admission' = "startup"
        /\ UNCHANGED <<backendReady, startupRunning, closeAll, detached, state>>
    BY <1>2 DEF StartupTakesAdmission
  <2>3. \A q \in startups : ~Holds(q)
    BY <2>2 DEF AdmissionOwned
  <2>4. AdmissionOwned' /\ CloseAllOwned'
    BY <1>0, <2>1, <2>2, <2>3
       DEF AdmissionOwned, CloseAllOwned, Replace, Holds, IngressHolds, MonitorHolds, ShutdownHolds
  <2>5. StartupAlone'
    BY <1>0, <2>1, <2>2 DEF StartupAlone, SingleFlight, UnderWay, Replace
  <2>6. StopJustified'
    BY <1>c, <2>2 DEF AdmissionOwned
  <2> QED
    BY <1>a, <1>b, <2>2, <2>4, <2>5, <2>6
<1>d. ASSUME Holds(r) PROVE \A c \in callbacks : ~Stopping(c)
  BY <1>d DEF AdmissionOwned
<1>3. CASE StartupOpensGate(r)
  <2>1. /\ r.pc = "openGate" /\ Holds(r) /\ UnderWay(r) /\ r.pc # "failClosing"
        /\ UNCHANGED <<startupRunning, closeAll, detached>>
    BY <1>3 DEF StartupOpensGate, Holds, UnderWay
  <2>2. admission = "startup" /\ \A q \in startups : Holds(q) \/ UnderWay(q) => q = r
    BY <2>1 DEF AdmissionOwned, StartupAlone, SingleFlight
  <2>3. PICK n : /\ startups' = Replace(startups, r, n)
                 /\ \/ n.pc = "finish" /\ shuttingDown /\ admission' = "free" /\ UNCHANGED backendReady
                    \/ n.pc = "opened" /\ ~shuttingDown /\ UNCHANGED admission
    BY <1>3, GotoMove DEF StartupOpensGate
  <2>4. Open' \subseteq Open
    BY <1>3 DEF StartupOpensGate, Flush, CloseSessions, Open
  <2>5. SessionsTracked' /\ StopJustified'
    BY <1>0, <1>c, <1>d, <2>1, <2>4 DEF SessionsTracked, Stored
  <2>6. AdmissionOwned' /\ CloseAllOwned'
    BY <1>0, <2>1, <2>2, <2>3
       DEF AdmissionOwned, CloseAllOwned, Replace, Holds, IngressHolds, MonitorHolds, ShutdownHolds
  <2>7. StartupAlone'
    BY <1>0, <2>1, <2>2, <2>3 DEF StartupAlone, SingleFlight, UnderWay, Replace
  <2> QED
    BY <1>a, <2>5, <2>6, <2>7
<1>4. CASE StartupGateOpened(r)
  <2>1. PICK n : startups' = Replace(startups, r, n) /\ n.pc = "finish"
    BY <1>4, GotoMove DEF StartupGateOpened
  <2>2. /\ r.pc = "opened" /\ Holds(r) /\ UnderWay(r) /\ admission' = "free"
        /\ UNCHANGED <<backendReady, startupRunning, closeAll, detached, state>>
    BY <1>4 DEF StartupGateOpened, Holds, UnderWay
  <2>3. admission = "startup" /\ \A q \in startups : Holds(q) \/ UnderWay(q) => q = r
    BY <2>2 DEF AdmissionOwned, StartupAlone, SingleFlight
  <2>4. AdmissionOwned' /\ CloseAllOwned'
    BY <1>0, <2>1, <2>2, <2>3
       DEF AdmissionOwned, CloseAllOwned, Replace, Holds, IngressHolds, MonitorHolds, ShutdownHolds
  <2>5. StartupAlone'
    BY <1>0, <2>1, <2>2, <2>3 DEF StartupAlone, SingleFlight, UnderWay, Replace
  <2> QED
    BY <1>a, <1>b, <1>c, <1>d, <2>2, <2>4, <2>5
<1>5. CASE StartupFails(r)
  <2>1. PICK n : startups' = Replace(startups, r, n) /\ n.pc = "failClosing"
    BY <1>5, GotoMove DEF StartupFails
  <2>2. /\ r.pc = "failGate" /\ Holds(r) /\ UnderWay(r) /\ closeAll' = "detach"
        /\ UNCHANGED <<backendReady, admission, detached, state>>
    BY <1>5 DEF StartupFails, BeginCloseAll, Holds, UnderWay
  <2>3. admission = "startup" /\ \A q \in startups : Holds(q) \/ UnderWay(q) => q = r
    BY <2>2 DEF AdmissionOwned, StartupAlone, SingleFlight
  <2>4. closeAll = "none" /\ detached = {}
    BY <2>2, <2>3 DEF CloseAllOwned, AdmissionOwned, Holds, MonitorHolds, ShutdownHolds
  <2>5. AdmissionOwned'
    BY <1>0, <2>1, <2>2, <2>3
       DEF AdmissionOwned, Replace, Holds, IngressHolds, MonitorHolds, ShutdownHolds
  <2>6. CloseAllOwned'
    BY <2>1, <2>2, <2>4 DEF CloseAllOwned, Replace
  <2>7. StartupAlone'
    BY <1>0, <2>1, <2>2, <2>3 DEF StartupAlone, SingleFlight, UnderWay, Replace
  <2> QED
    BY <1>a, <1>b, <1>c, <1>d, <2>2, <2>5, <2>6, <2>7
<1>6. CASE StartupFailed(r)
  <2>1. /\ r.pc = "failClosing" /\ Holds(r) /\ startups' = startups \ {r} /\ admission' = "free"
        /\ closeAll' = "none" /\ detached' = {} /\ (\A s \in detached : state[s] = "done")
        /\ UNCHANGED <<backendReady, startupRunning, state>>
    BY <1>6 DEF StartupFailed, CloseAllReturns, Holds
  <2>2. admission = "startup" /\ \A q \in startups : Holds(q) => q = r
    BY <2>1 DEF AdmissionOwned
  <2>3. AdmissionOwned' /\ CloseAllOwned'
    BY <1>0, <2>1, <2>2 DEF AdmissionOwned, CloseAllOwned, IngressHolds, MonitorHolds, ShutdownHolds
  <2>4. SessionsTracked'
    BY <1>0, <2>1 DEF SessionsTracked, Open, Stored
  <2>5. StartupAlone'
    BY <1>0, <2>1 DEF StartupAlone, SingleFlight
  <2> QED
    BY <1>a, <1>c, <1>d, <2>1, <2>3, <2>4, <2>5
<1>7. CASE StartupCompletes(r)
  <2>1. /\ r.pc = "finish" /\ ~Holds(r) /\ UnderWay(r)
        /\ UNCHANGED <<backendReady, admission, closeAll, detached, state>>
    BY <1>7 DEF StartupCompletes, Holds, UnderWay
  <2>2. \/ startups' = startups \ {r}
        \/ \E n : startups' = Replace(startups, r, n) /\ n.pc = "restart"
    BY <1>7, GotoMove DEF StartupCompletes
  <2>3. \A q \in startups : UnderWay(q) => q = r
    BY <2>1 DEF StartupAlone, SingleFlight
  <2>4. AdmissionOwned' /\ CloseAllOwned'
    BY <1>0, <2>1, <2>2
       DEF AdmissionOwned, CloseAllOwned, Replace, Holds, IngressHolds, MonitorHolds, ShutdownHolds
  <2>5. StartupAlone'
    BY <1>0, <2>1, <2>2, <2>3 DEF StartupAlone, SingleFlight, UnderWay, Replace
  <2>6. StopJustified'
    BY <1>0, <2>1 DEF StopJustified, StoreEmpty, Open
  <2> QED
    BY <1>a, <1>b, <2>1, <2>4, <2>5, <2>6
<1>8. CASE StartupRestarts(r)
  <2>1. /\ r.pc = "restart" /\ StartServer(startups \ {r})
        /\ UNCHANGED <<backendReady, admission, closeAll, detached, state>>
    BY <1>8 DEF StartupRestarts
  <2>2. /\ \A q \in startups' : Holds(q) => q \in startups
        /\ \A q \in startups : q # r => q \in startups'
    BY <2>1, StartServerHolders
  <2>3. AdmissionOwned' /\ CloseAllOwned'
    BY <1>0, <2>1, <2>2
       DEF AdmissionOwned, CloseAllOwned, IngressHolds, MonitorHolds, ShutdownHolds
  <2>4. StartupAlone'
    <3>1. CASE startups' = startups \ {r} /\ UNCHANGED startupRunning
      BY <1>0, <2>1, <3>1 DEF StartupAlone, SingleFlight
    <3>2. CASE \E n : /\ startups' = (startups \ {r}) \cup {n} /\ n.pc = "status"
                      /\ ~shuttingDown /\ ~backendReady /\ ~startupRunning /\ startupRunning' = TRUE
      BY <1>0, <2>1, <3>2 DEF StartupAlone, SingleFlight, UnderWay
    <3> QED
      BY <2>1, <3>1, <3>2, StartServerSafe
  <2>5. StopJustified'
    BY <1>0, <2>1 DEF StopJustified, StoreEmpty, Open
  <2> QED
    BY <1>a, <1>b, <2>1, <2>3, <2>4, <2>5
<1> QED
  BY <1>1, <1>2, <1>3, <1>4, <1>5, <1>6, <1>7, <1>8 DEF Startup

\* A step that changes nothing keeps the invariant.
LEMMA StutterSafe == SafeInv /\ UNCHANGED vars => PowerInv'
<1> SUFFICES ASSUME SafeInv, UNCHANGED vars PROVE PowerInv'
  OBVIOUS
<1>1. UNCHANGED <<callbacks, monitor, pc, req, received, shuttingDown, sessions, startups, startupRunning,
                  backendReady, admission, closeAll, detached, state>>
  BY DEF vars
<1> QED
  BY <1>1 DEF SafeInv, PowerInv, RequestOK, AdmissionOwned, CloseAllOwned, SessionsTracked, KeyHeld,
              StartupAlone, StopJustified, SingleFlight, IngressHolds, MonitorHolds, ShutdownHolds,
              Open, Stored, StoreEmpty

-----------------------------------------------------------------------------
(* The theorems.                                                           *)

\* Every step of the proxy keeps the invariant.
LEMMA NextSafe == SafeInv /\ [Next]_vars => SafeInv'
<1> SUFFICES ASSUME SafeInv, [Next]_vars PROVE SafeInv'
  OBVIOUS
<1>0. SUFFICES PowerInv'
  BY NextType DEF SafeInv
<1>1. CASE ServeBoots \/ Ingress \/ Monitor \/ Shutdown \/ CloseAllDetaches
  BY <1>1, BootSafe, IngressSafe, MonitorSafe, ShutdownSafe, DetachSafe
<1>2. CASE IgnorePacket \/ Returned \/ UNCHANGED vars
  BY <1>2, StutterSafe DEF IgnorePacket, Returned
<1>3. CASE Sweeper \/ CooldownElapses \/ \E s \in Session : SessionStep(s) \/ Watcher(s)
  BY <1>3, StoreStepSafe
<1>4. CASE \E r \in startups : Startup(r)
  BY <1>4, StartupSafe
<1>5. CASE \E t \in timers : TimerFires(t)
  BY <1>5, TimerFiresSafe
<1>6. CASE \E c \in callbacks : Callback(c)
  BY <1>6, CallbackSafe
<1> QED
  BY <1>1, <1>2, <1>3, <1>4, <1>5, <1>6 DEF Next

\* The invariant holds in every reachable state.
LEMMA SafeAlways == Spec => []SafeInv
<1>1. Init => SafeInv
  BY InitType, InitSafe DEF SafeInv
<1> QED
  BY <1>1, NextSafe, PTL DEF Spec

\* No stop request is in flight while a session is stored or open: the tests
\* of runAutoStopAttempt still hold when the panel answers, whatever the
\* ingress, the watchers and CloseAll do meanwhile.
THEOREM StopOnlyWhenIdle == Spec => []NoStopWhileActive
<1>1. SafeInv => NoStopWhileActive
  BY DEF SafeInv, PowerInv, StopJustified, NoStopWhileActive, StopInFlight, Stopping
<1> QED
  BY <1>1, SafeAlways, PTL

\* A start and a stop are never in flight together: startServer tests the
\* gate, and only an open gate is stopped.
THEOREM PowerExclusive == Spec => []StartStopExclusive
<1>1. SafeInv => StartStopExclusive
  BY DEF SafeInv, PowerInv, StopJustified, StartupAlone, StartStopExclusive, StopInFlight, Stopping,
         StartInFlight, UnderWay
<1> QED
  BY <1>1, SafeAlways, PTL

\* startServer never has two startups under way, even though a failed one is
\* still closing its sessions when the next begins.
THEOREM StartupSingleFlight == Spec => []SingleFlight
<1>1. SafeInv => SingleFlight
  BY DEF SafeInv, PowerInv, StartupAlone
<1> QED
  BY <1>1, SafeAlways, PTL

\* GetOrCreate never meets a session of the key being admitted.
THEOREM AdmissionCreates == Spec => []NoDuplicateKey
<1>1. SafeInv => NoDuplicateKey
  BY DEF SafeInv, PowerInv, KeyHeld, NoDuplicateKey
<1> QED
  BY <1>1, SafeAlways, PTL

\* shutdown has waited out the stop in flight, and no later callback sends one.
THEOREM ShutdownSendsNoStop == Spec => []NoStopInShutdown
<1>1. SafeInv => NoStopInShutdown
  BY DEF SafeInv, PowerInv, StartupAlone, StopJustified, NoStopInShutdown, StopInFlight, Stopping
<1> QED
  BY <1>1, SafeAlways, PTL

-----------------------------------------------------------------------------
(* Proxy implements SnoozeContract: with the gate, the power request in    *)
(* flight and the open sessions as the contract's state, every step of a   *)
(* goroutine is a step of the contract or a stutter, because the invariant *)
(* says who holds admissionMu and what that excludes.                      *)

ContractStep == [Contract!Next]_(Contract!vars)

\* A proxy that has just been made is in the contract's initial state.
LEMMA InitContract == Init => Contract!Init
  BY DEF Init, Contract!Init, Power, StopInFlight, StartInFlight, Open

-----------------------------------------------------------------------------
(* Steps by their effect on the contract's state.                          *)

\* The requests in flight are those of before.
SamePower == (StartInFlight' <=> StartInFlight) /\ (StopInFlight' <=> StopInFlight)

\* The contract's power request is a function of what is in flight.
LEMMA SamePowerKept == ASSUME SamePower PROVE Power' = Power
  BY DEF SamePower, Power

\* Sessions may end, nothing else happens.
LEMMA LeaveStep ==
  ASSUME UNCHANGED backendReady, SamePower, Open' \subseteq Open
  PROVE  ContractStep
<1>1. Open \ Open' \in SUBSET Session /\ Open' = Open \ (Open \ Open')
  BY DEF Open
<1>2. Contract!Leave(Open \ Open')
  BY <1>1, SamePowerKept DEF Contract!Leave
<1> QED
  BY <1>1, <1>2 DEF ContractStep, Contract!Next

\* The gate closes; no request can be in flight.
LEMMA CloseStep ==
  ASSUME backendReady, ~backendReady', SamePower, ~StopInFlight, ~StartInFlight, UNCHANGED state
  PROVE  ContractStep
<1>1. Power = "none" /\ Power' = Power /\ Open' = Open
  BY SamePowerKept DEF Power, Open
<1> QED
  BY <1>1 DEF ContractStep, Contract!Next, Contract!CloseGate

\* The gate opens; no request can be in flight, and flushing may end sessions.
LEMMA OpenStep ==
  ASSUME ~backendReady, backendReady', SamePower, ~StopInFlight, ~StartInFlight, Open' \subseteq Open
  PROVE  ContractStep
<1>1. Power = "none" /\ Power' = Power
  BY SamePowerKept DEF Power
<1>2. Open \ Open' \in SUBSET Open /\ Open' = Open \ (Open \ Open')
  OBVIOUS
<1>3. Contract!OpenGate
  BY <1>1, <1>2 DEF Contract!OpenGate
<1> QED
  BY <1>3 DEF ContractStep, Contract!Next

\* Behind an open gate no start is in flight, behind a closed one no stop.
LEMMA PowerByGate ==
  ASSUME SafeInv
  PROVE  (backendReady => ~StartInFlight) /\ (~backendReady => ~StopInFlight)
  BY DEF SafeInv, PowerInv, StartupAlone, StopJustified, StartInFlight, StopInFlight, Stopping, UnderWay

\* startServer sends nothing by itself.
LEMMA StartServerPower ==
  ASSUME NEW S, S \subseteq startups, \A r \in startups \ S : r.pc # "start", StartServer(S)
  PROVE  StartInFlight' <=> StartInFlight
<1>1. CASE startups' = S
  BY <1>1 DEF StartInFlight
<1>2. CASE \E n : startups' = S \cup {n} /\ n.pc = "status"
  BY <1>2 DEF StartInFlight
<1> QED
  BY <1>1, <1>2, StartServerSafe

-----------------------------------------------------------------------------
(* The goroutines.                                                         *)

\* Serve's first status query opens the gate in delay mode and is invisible
\* otherwise.
LEMMA BootContract == SafeInv /\ ServeBoots => ContractStep
<1> SUFFICES ASSUME SafeInv, ServeBoots PROVE ContractStep
  OBVIOUS
<1>1. ~backendReady /\ startups = {} /\ UNCHANGED <<callbacks, state>>
  BY DEF ServeBoots, SafeInv, PowerInv, StartupAlone
<1>2. StartInFlight' <=> StartInFlight
  <2>1. UNCHANGED startups \/ StartServer(startups)
    BY DEF ServeBoots
  <2>2. CASE UNCHANGED startups
    BY <2>2 DEF StartInFlight
  <2>3. CASE StartServer(startups)
    BY <2>3, StartServerPower
  <2> QED
    BY <2>1, <2>2, <2>3
<1>3. SamePower /\ Open' = Open
  BY <1>1, <1>2 DEF SamePower, StopInFlight, Open
<1>4. ~StopInFlight /\ ~StartInFlight
  BY <1>1, PowerByGate DEF StartInFlight
<1>5. backendReady' \in BOOLEAN
  BY DEF ServeBoots, SafeInv, TypeInv, TypeOK, BooleanType
<1> QED
  BY <1>1, <1>3, <1>4, <1>5, LeaveStep, OpenStep DEF SafeInv, TypeInv, TypeOK, BooleanType

\* The ingress creates sessions, never while it can meet a stop, and ends them.
LEMMA IngressContract == SafeInv /\ Ingress => ContractStep
<1> SUFFICES ASSUME SafeInv, Ingress PROVE ContractStep
  OBVIOUS
<1> USE DEF SafeInv, TypeInv, TypeOK, PowerInv
<1>0. UNCHANGED <<backendReady, callbacks>>
  BY DEF Ingress
<1>1. StartInFlight' <=> StartInFlight
  <2>1. UNCHANGED startups \/ StartServer(startups)
    BY DEF Ingress, ReceivePacket, QueuePacket, KickStartup, SeeGateOpen, ForwardClient, TakeAdmission,
           RemoveDeadSession, DropDeadQueue, SampleGate, CreateFails, CreateSession, WatchSession,
           FinishAdmission
  <2>2. CASE UNCHANGED startups
    BY <2>2 DEF StartInFlight
  <2>3. CASE StartServer(startups)
    BY <2>3, StartServerPower
  <2> QED
    BY <2>1, <2>2, <2>3
<1>2. SamePower
  BY <1>0, <1>1 DEF SamePower, StopInFlight
<1>3. CASE CreateSession
  <2>1. \A c \in callbacks : ~Stopping(c)
    BY <1>3 DEF CreateSession, AdmissionOwned, IngressHolds, AdmittedPC
  <2>2. Power # "stop" /\ Power' = Power
    BY <1>2, <2>1, SamePowerKept DEF Power, StopInFlight, Stopping
  <2>3. PICK s \in Session : state' = [state EXCEPT ![s] = "open"]
    BY <1>3 DEF CreateSession
  <2>4. Open' = Open \cup {s}
    BY <2>3 DEF Open, SessionType
  <2>5. Contract!Admit(s)
    BY <1>0, <2>2, <2>4 DEF Contract!Admit
  <2> QED
    BY <2>5 DEF ContractStep, Contract!Next
<1>4. CASE ~CreateSession
  <2>1. Open' \subseteq Open
    BY <1>4 DEF Ingress, ReceivePacket, QueuePacket, KickStartup, SeeGateOpen, ForwardClient, TakeAdmission,
           RemoveDeadSession, DropDeadQueue, SampleGate, CreateFails, WatchSession, FinishAdmission,
           CloseSessions, Open
  <2> QED
    BY <1>0, <1>2, <2>1, LeaveStep
<1> QED
  BY <1>3, <1>4

\* Sessions, watchers, the sweeper and CloseAll only end sessions.
LEMMA StoreContract ==
  SafeInv /\ ( (\E s \in Session : SessionStep(s) \/ Watcher(s)) \/ Sweeper \/ CooldownElapses
              \/ CloseAllDetaches) => ContractStep
<1> SUFFICES ASSUME SafeInv,
                    (\E s \in Session : SessionStep(s) \/ Watcher(s)) \/ Sweeper \/ CooldownElapses
                    \/ CloseAllDetaches
             PROVE  ContractStep
  OBVIOUS
<1>1. UNCHANGED <<backendReady, callbacks, startups>>
  BY DEF SessionStep, Watcher, Sweeper, CooldownElapses, CloseAllDetaches
<1>2. Open' \subseteq Open
  <2>1. CASE UNCHANGED state
    BY <2>1 DEF Open
  <2>2. CASE \E S : CloseSessions(S)
    BY <2>2 DEF Open, CloseSessions
  <2>3. CASE \E s \in Session : SessionDone(s)
    BY <2>3 DEF Open, SessionDone, SafeInv, TypeInv, TypeOK, SessionType
  <2> QED
    BY <2>1, <2>2, <2>3
       DEF SessionStep, BackendTraffic, SessionFails, CloseDetached, Watcher, Sweeper, SweeperTicks,
           SweeperRefreshes, SweeperExpires, SweeperDropsQueues, SweeperSchedules, SweeperExits,
           CooldownElapses, CloseAllDetaches
<1> QED
  BY <1>1, <1>2, LeaveStep DEF SamePower, StartInFlight, StopInFlight

\* The monitor closes the gate with admissionMu held, so no stop is in flight.
LEMMA MonitorContract == SafeInv /\ Monitor => ContractStep
<1> SUFFICES ASSUME SafeInv, Monitor PROVE ContractStep
  OBVIOUS
<1>1. UNCHANGED <<callbacks, startups, state>>
  BY DEF Monitor
<1>2. SamePower /\ Open' = Open
  BY <1>1 DEF SamePower, StartInFlight, StopInFlight, Open
<1>3. CASE UNCHANGED backendReady
  BY <1>2, <1>3, LeaveStep
<1>4. CASE monitor.pc = "loseGate" /\ backendReady /\ CloseGate
  <2>1. ~StopInFlight
    BY <1>4 DEF SafeInv, PowerInv, AdmissionOwned, MonitorHolds, StopInFlight, Stopping
  <2>2. backendReady /\ ~backendReady'
    BY <1>4 DEF CloseGate
  <2>3. ~StartInFlight
    BY <2>2, PowerByGate
  <2> QED
    BY <1>1, <1>2, <2>1, <2>2, <2>3, CloseStep
<1> QED
  BY <1>3, <1>4
     DEF Monitor, MonitorTicks, MonitorProbed, MonitorTakesAdmission, MonitorClosesGate, MonitorClosed,
         MonitorExits, GenerationCurrent

\* shutdown closes the gate with admissionMu held.
LEMMA ShutdownContract == SafeInv /\ Shutdown => ContractStep
<1> SUFFICES ASSUME SafeInv, Shutdown PROVE ContractStep
  OBVIOUS
<1>1. UNCHANGED <<callbacks, startups, state>>
  BY DEF Shutdown
<1>2. SamePower /\ Open' = Open
  BY <1>1 DEF SamePower, StartInFlight, StopInFlight, Open
<1>3. CASE UNCHANGED backendReady
  BY <1>2, <1>3, LeaveStep
<1>4. CASE pc = "shutdownGate" /\ CloseGate
  <2>1. ~StopInFlight
    BY <1>4 DEF SafeInv, PowerInv, AdmissionOwned, ShutdownHolds, StopInFlight, Stopping
  <2>2. backendReady \in BOOLEAN /\ backendReady' = FALSE
    BY <1>4 DEF CloseGate, SafeInv, TypeInv, TypeOK, BooleanType
  <2>3. CASE backendReady
    BY <1>1, <1>2, <2>1, <2>2, <2>3, PowerByGate, CloseStep
  <2>4. CASE backendReady = FALSE
    BY <1>2, <2>2, <2>4, LeaveStep
  <2> QED
    BY <2>2, <2>3, <2>4
<1> QED
  BY <1>3, <1>4
     DEF Shutdown, Cancel, ListenerCloses, ReadFails, ShutdownTakesAdmission, ShutdownClosesGate,
         ShutdownClosed, ServeWaits

\* A fired timer has sent nothing yet.
LEMMA TimerFiresContract == \A t \in timers : SafeInv /\ TimerFires(t) => ContractStep
<1> SUFFICES ASSUME NEW t \in timers, SafeInv, TimerFires(t) PROVE ContractStep
  OBVIOUS
<1>1. UNCHANGED <<backendReady, startups, state>>
  BY DEF TimerFires
<1>2. StopInFlight' <=> StopInFlight
  BY DEF TimerFires, StopInFlight
<1> QED
  BY <1>1, <1>2, LeaveStep DEF SamePower, StartInFlight, Open

\* The callback's tests are the guard of SendStop, and the panel's answer is
\* the contract's.
LEMMA CallbackContract == \A c \in callbacks : SafeInv /\ Callback(c) => ContractStep
<1> SUFFICES ASSUME NEW c \in callbacks, SafeInv, Callback(c) PROVE ContractStep
  OBVIOUS
<1>0. UNCHANGED <<startups, state>> /\ Open' = Open /\ (StartInFlight' <=> StartInFlight)
  BY DEF Callback, Open, StartInFlight
<1>1. CASE CallbackDecides(c) /\ StopAllowed(c.timer)
  <2>1. admission = "free" /\ UNCHANGED backendReady /\ backendReady /\ StoreEmpty
    BY <1>1 DEF CallbackDecides, StopAllowed
  <2>2. closeAll = "none" /\ detached = {}
    BY <2>1 DEF SafeInv, PowerInv, CloseAllOwned, AdmissionOwned, Holds, ShutdownHolds, MonitorHolds
  <2>3. Open = {}
    BY <2>1, <2>2 DEF SafeInv, PowerInv, SessionsTracked, Stored, StoreEmpty
  <2>4. ~StopInFlight /\ ~StartInFlight
    BY <2>1, PowerByGate DEF SafeInv, PowerInv, AdmissionOwned, StopInFlight, Stopping
  <2>5. [c EXCEPT !.pc = "stopping"].pc = "stopping"
    BY DEF SafeInv, TypeInv, TypeOK, TimerType, CallbackRecord
  <2>6. StopInFlight'
    BY <1>1, <2>5 DEF CallbackDecides, Replace, StopInFlight
  <2>7. Power = "none" /\ Power' = "stop"
    BY <2>4, <2>6 DEF Power
  <2> QED
    BY <1>0, <2>1, <2>3, <2>7 DEF ContractStep, Contract!Next, Contract!SendStop
<1>2. CASE CallbackDecides(c) /\ ~StopAllowed(c.timer)
  <2>1. c.pc = "lock" /\ callbacks' = callbacks \ {c} /\ UNCHANGED backendReady
    BY <1>2 DEF CallbackDecides
  <2>2. StopInFlight' <=> StopInFlight
    BY <2>1 DEF StopInFlight
  <2> QED
    BY <1>0, <2>1, <2>2, LeaveStep DEF SamePower
<1>3. CASE CallbackStopAccepted(c) \/ CallbackGivesUp(c) \/ CallbackRetries(c)
  <2>1. /\ c.pc = "stopping" /\ callbacks' = callbacks \ {c}
        /\ backendReady' = FALSE \/ UNCHANGED backendReady
    BY <1>3 DEF CallbackStopAccepted, CallbackGivesUp, CallbackRetries, CallbackReturns,
                MarkBackendNotRunning, CloseGate
  <2>2. StopInFlight /\ ~StopInFlight'
    BY <2>1 DEF SafeInv, PowerInv, AdmissionOwned, Stopping, StopInFlight
  <2>3. ~StartInFlight
    BY <2>2, PowerByGate
  <2>4. Power = "stop" /\ Power' = "none"
    BY <1>0, <2>2, <2>3 DEF Power
  <2>5. Contract!Answered
    BY <1>0, <2>1, <2>4 DEF Contract!Answered
  <2> QED
    BY <2>5 DEF ContractStep, Contract!Next
<1> QED
  BY <1>1, <1>2, <1>3 DEF Callback

\* A startup that replaces its record sends a start, receives the answer, or
\* leaves the request in flight alone.
LEMMA StartupMoves ==
  ASSUME SafeInv, NEW r \in startups, NEW n, startups' = Replace(startups, r, n),
         UNCHANGED <<callbacks, backendReady, state>>, UnderWay(r), n.pc = "start" => ~backendReady
  PROVE  ContractStep
<1>1. (StopInFlight' <=> StopInFlight) /\ Open' = Open
  BY DEF StopInFlight, Open
<1>2. StartInFlight <=> r.pc = "start"
  BY DEF SafeInv, PowerInv, StartupAlone, SingleFlight, UnderWay, StartInFlight
<1>3. StartInFlight' <=> n.pc = "start"
  BY DEF SafeInv, PowerInv, StartupAlone, SingleFlight, UnderWay, StartInFlight, Replace
<1>4. CASE StartInFlight' <=> StartInFlight
  BY <1>1, <1>4, LeaveStep DEF SamePower
<1>5. CASE StartInFlight' /\ ~StartInFlight
  <2>1. ~backendReady /\ ~StopInFlight
    BY <1>3, <1>5, PowerByGate
  <2>2. Power = "none" /\ Power' = "start"
    BY <1>1, <1>5, <2>1 DEF Power
  <2> QED
    BY <1>1, <2>1, <2>2 DEF ContractStep, Contract!Next, Contract!SendStart
<1>6. CASE StartInFlight /\ ~StartInFlight'
  <2>1. ~StopInFlight
    BY <1>6, PowerByGate
  <2>2. Power = "start" /\ Power' = "none"
    BY <1>1, <1>6, <2>1 DEF Power
  <2>3. Contract!Answered
    BY <1>1, <2>2 DEF Contract!Answered
  <2> QED
    BY <2>3 DEF ContractStep, Contract!Next
<1> QED
  BY <1>4, <1>5, <1>6

\* A startup sends Start behind the closed gate, and opens the gate itself.
LEMMA StartupContract == \A r \in startups : SafeInv /\ Startup(r) => ContractStep
<1> SUFFICES ASSUME NEW r \in startups, SafeInv, Startup(r) PROVE ContractStep
  OBVIOUS
<1>0. UNCHANGED callbacks /\ StartupType
  BY DEF Startup, SafeInv, TypeInv, TypeOK
<1>a. ASSUME UNCHANGED <<backendReady, state>>, r.pc # "start", startups' = startups \ {r}
      PROVE  ContractStep
  BY <1>0, <1>a, LeaveStep DEF SamePower, StartInFlight, StopInFlight, Open
<1>1. CASE StartupPolls(r)
  <2>1. PICK n : startups' = Replace(startups, r, n)
    BY <1>0, <1>1, PollsMove
  <2>2. r.pc \in Polling /\ (~backendReady' \/ UNCHANGED backendReady) /\ UNCHANGED state
    BY <1>0, <1>1, PollsMove DEF StartupPolls
  <2>3. UnderWay(r) /\ ~backendReady
    BY <2>2 DEF Polling, UnderWay, SafeInv, PowerInv, StartupAlone
  <2>4. backendReady \in BOOLEAN /\ backendReady' \in BOOLEAN
    BY NextType DEF SafeInv, TypeInv, TypeOK, BooleanType, Next
  <2>5. UNCHANGED backendReady
    BY <2>2, <2>3, <2>4
  <2> QED
    BY <1>0, <2>1, <2>2, <2>3, <2>5, StartupMoves
<1>2. CASE StartupTakesAdmission(r)
  <2>1. PICK n : startups' = Replace(startups, r, n) /\ n.pc \in {"openGate", "failGate"}
    BY <1>0, <1>2, GotoMove DEF StartupTakesAdmission
  <2>2. UnderWay(r) /\ UNCHANGED <<backendReady, state>>
    BY <1>2 DEF StartupTakesAdmission, UnderWay
  <2> QED
    BY <1>0, <2>1, <2>2, StartupMoves
<1>3. CASE StartupOpensGate(r)
  <2>1. r.pc = "openGate" /\ UnderWay(r)
    BY <1>3 DEF StartupOpensGate, UnderWay
  <2>2. CASE shuttingDown
    <3>1. PICK n : startups' = Replace(startups, r, n) /\ n.pc = "finish"
      BY <1>0, <1>3, <2>2, GotoMove DEF StartupOpensGate
    <3>2. UNCHANGED <<backendReady, state>>
      BY <1>3, <2>2 DEF StartupOpensGate
    <3> QED
      BY <1>0, <2>1, <3>1, <3>2, StartupMoves
  <2>3. CASE ~shuttingDown
    <3>1. PICK n : startups' = Replace(startups, r, n) /\ n.pc = "opened"
      BY <1>0, <1>3, <2>3, GotoMove DEF StartupOpensGate
    <3>2. backendReady' /\ Open' \subseteq Open
      BY <1>3, <2>3 DEF StartupOpensGate, Flush, CloseSessions, Open
    <3>3. ~backendReady /\ ~StartInFlight
      BY <2>1 DEF SafeInv, PowerInv, StartupAlone, SingleFlight, UnderWay, StartInFlight
    <3>4. ~StopInFlight
      BY <3>3, PowerByGate
    <3>5. SamePower
      BY <1>0, <3>1, <3>3 DEF SamePower, StartInFlight, StopInFlight, Replace
    <3> QED
      BY <3>2, <3>3, <3>4, <3>5, OpenStep
  <2> QED
    BY <2>2, <2>3
<1>4. CASE StartupGateOpened(r)
  <2>1. PICK n : startups' = Replace(startups, r, n) /\ n.pc = "finish"
    BY <1>0, <1>4, GotoMove DEF StartupGateOpened
  <2>2. UnderWay(r) /\ UNCHANGED <<backendReady, state>>
    BY <1>4 DEF StartupGateOpened, UnderWay
  <2> QED
    BY <1>0, <2>1, <2>2, StartupMoves
<1>5. CASE StartupFails(r)
  <2>1. PICK n : startups' = Replace(startups, r, n) /\ n.pc = "failClosing"
    BY <1>0, <1>5, GotoMove DEF StartupFails
  <2>2. UnderWay(r) /\ UNCHANGED <<backendReady, state>>
    BY <1>5 DEF StartupFails, UnderWay
  <2> QED
    BY <1>0, <2>1, <2>2, StartupMoves
<1>6. CASE StartupFailed(r)
  BY <1>6, <1>a DEF StartupFailed
<1>7. CASE StartupCompletes(r)
  <2>1. r.pc = "finish" /\ UnderWay(r) /\ UNCHANGED <<backendReady, state>>
    BY <1>7 DEF StartupCompletes, UnderWay
  <2>2. \/ startups' = startups \ {r}
        \/ \E n : startups' = Replace(startups, r, n) /\ n.pc = "restart"
    BY <1>0, <1>7, GotoMove DEF StartupCompletes
  <2>3. CASE startups' = startups \ {r}
    BY <1>a, <2>1, <2>3
  <2>4. CASE \E n : startups' = Replace(startups, r, n) /\ n.pc = "restart"
    <3>1. PICK n : startups' = Replace(startups, r, n) /\ n.pc = "restart"
      BY <2>4
    <3> QED
      BY <1>0, <2>1, <3>1, StartupMoves
  <2> QED
    BY <2>2, <2>3, <2>4
<1>8. CASE StartupRestarts(r)
  <2>1. r.pc = "restart" /\ StartServer(startups \ {r}) /\ UNCHANGED <<backendReady, state>>
    BY <1>8 DEF StartupRestarts
  <2>2. StartInFlight' <=> StartInFlight
    BY <2>1, StartServerPower
  <2> QED
    BY <1>0, <2>1, <2>2, LeaveStep DEF SamePower, StopInFlight, Open
<1> QED
  BY <1>1, <1>2, <1>3, <1>4, <1>5, <1>6, <1>7, <1>8 DEF Startup

-----------------------------------------------------------------------------
\* Every step of the proxy is one of the contract, or invisible to it.
LEMMA NextContract == SafeInv /\ [Next]_vars => ContractStep
<1> SUFFICES ASSUME SafeInv, [Next]_vars PROVE ContractStep
  OBVIOUS
<1>1. CASE ServeBoots \/ Ingress \/ Monitor \/ Shutdown
  BY <1>1, BootContract, IngressContract, MonitorContract, ShutdownContract
<1>2. CASE IgnorePacket \/ Returned \/ UNCHANGED vars
  <2>1. UNCHANGED vars
    BY <1>2 DEF IgnorePacket, Returned
  <2>2. UNCHANGED <<backendReady, startups, callbacks, state>>
    BY <2>1 DEF vars
  <2> QED
    BY <2>2, LeaveStep DEF SamePower, StartInFlight, StopInFlight, Open
<1>3. CASE \/ Sweeper \/ CooldownElapses \/ CloseAllDetaches
           \/ \E s \in Session : SessionStep(s) \/ Watcher(s)
  BY <1>3, StoreContract
<1>4. CASE \E r \in startups : Startup(r)
  BY <1>4, StartupContract
<1>5. CASE \E t \in timers : TimerFires(t)
  BY <1>5, TimerFiresContract
<1>6. CASE \E c \in callbacks : Callback(c)
  BY <1>6, CallbackContract
<1> QED
  BY <1>1, <1>2, <1>3, <1>4, <1>5, <1>6 DEF Next

\* The proxy keeps its contract with the panel and the players: at most one
\* power request at a time, a start only behind a closed gate, a stop only of
\* a server nobody uses, and no session admitted while a stop is in flight.
THEOREM ProxyImplementsContract == Spec => ImplementsContract
<1>1. SafeInv /\ [Next]_vars => [Contract!Next]_(Contract!vars)
  BY NextContract DEF ContractStep
<1> QED
  BY InitContract, <1>1, SafeAlways, PTL DEF Spec, ImplementsContract, Contract!Spec

\* What the contract itself guarantees, and so what the proxy does: a start is
\* in flight only behind a closed gate, a stop only with the gate open and no
\* active session (the tests of startServer and of runAutoStopAttempt, kept
\* until the panel answers).
THEOREM ContractPowerSafe == Contract!Spec => []Contract!PowerSafe
<1>1. Contract!Init => Contract!PowerSafe
  BY DEF Contract!Init, Contract!PowerSafe
<1>2. Contract!PowerSafe /\ ContractStep => Contract!PowerSafe'
  BY DEF Contract!PowerSafe, ContractStep, Contract!Next, Contract!vars, Contract!Admit, Contract!Leave,
         Contract!SendStart, Contract!SendStop, Contract!Answered, Contract!OpenGate, Contract!CloseGate
<1> QED
  BY <1>1, <1>2, PTL DEF Contract!Spec, ContractStep
=============================================================================
