-------------------------- MODULE ProxyTimerProofs --------------------------
(***************************************************************************)
(* The locks, the auto-stop timers and the health monitor, for every value *)
(* of the constants: on top of PowerInv of ProxySafetyProofs, who holds    *)
(* forwardingMu, which timer or callback a generation of the auto-stop     *)
(* belongs to, and which failures the monitor has counted.                 *)
(***************************************************************************)
EXTENDS ProxySafetyProofs, FiniteSetTheorems

USE DEF gateVars, startupVars, queueVars, timerVars, lockVars, closeVars, sweepVars, monitorVars,
        serveVars, ctlVars

\* A new proxy holds no lock.
LEMMA InitLock == Init => LockInv
  BY DEF Init, LockInv, ForwardingOwned, AdmissionReturned, SendOnlyWhenReady, IngressHolds, AdmittedPC,
         MonitorHolds, ShutdownHolds

\* What a step of the ingress does to the two locks: it takes forwardingMu to
\* queue or to send, and gives both back where it should.
LEMMA IngressLocks ==
  ASSUME SafeInv, Ingress
  PROVE  /\ pc \in HandlingPC \cup {"idle"} /\ pc' \in HandlingPC \cup {"idle"}
         /\ UNCHANGED <<startups, startupRunning>> \/ StartServer(startups)
         /\ \/ UNCHANGED forwarding /\ pc \notin {"kick", "send"} /\ pc' \notin {"kick", "send"}
            \/ /\ forwarding = "free" /\ forwarding' = "ingress" /\ pc \notin {"kick", "send"}
               /\ pc' = "kick" \/ (pc' = "send" /\ backendReady)
            \/ pc \in {"kick", "send"} /\ forwarding' = "free" /\ pc' \notin {"kick", "send"}
         /\ \/ UNCHANGED admission /\ (IngressHolds => IngressHolds')
            \/ admission' = "free"
            \/ admission' = "ingress" /\ IngressHolds'
<1> USE DEF SafeInv, TypeInv, TypeOK, HandlingPC, IngressHolds, AdmittedPC
<1>1. CASE \E k \in Keys : ReceivePacket(k)
  BY <1>1 DEF ReceivePacket
<1>2. CASE QueuePacket \/ KickStartup \/ SeeGateOpen \/ ForwardClient
  <2> USE DEF QueuePacket, KickStartup, SeeGateOpen, ForwardClient
  <2>1. pc \in {"forward", "kick", "send"} /\ (UNCHANGED <<startups, startupRunning>> \/ StartServer(startups))
    BY <1>2
  <2>2. \/ /\ pc = "forward" /\ forwarding = "free" /\ forwarding' = "ingress" /\ UNCHANGED <<req, admission>>
           /\ pc' = "kick" \/ (pc' = "send" /\ backendReady)
        \/ /\ \E ok \in BOOLEAN : AfterForward(ok)
           /\ \/ UNCHANGED forwarding /\ pc = "forward"
              \/ pc \in {"kick", "send"} /\ forwarding' = "free"
    BY <1>2
  <2>3. ASSUME NEW ok \in BOOLEAN, AfterForward(ok)
        PROVE  /\ pc' \in {"finish", "idle", "admit", "remove"}
               /\ \/ UNCHANGED admission /\ (IngressHolds => IngressHolds')
                  \/ admission' = "free"
    BY <2>1, <2>3, AfterForwardCases
  <2> QED
    BY <2>1, <2>2, <2>3
<1>3. CASE TakeAdmission
  <2>1. req \in Request /\ req' = [req EXCEPT !.cur = sessions[req.key], !.site = "admitted"]
    BY <1>3 DEF TakeAdmission, ServeType
  <2>2. req'.site = "admitted"
    BY <2>1 DEF Request
  <2> QED
    BY <1>3, <2>2 DEF TakeAdmission
<1>4. CASE RemoveDeadSession \/ DropDeadQueue \/ WatchSession
  <2>1. pc = "watch" => req.site = "created"
    BY DEF PowerInv, KeyHeld
  <2> QED
    BY <1>4, <2>1 DEF RemoveDeadSession, DropDeadQueue, WatchSession
<1>5. CASE SampleGate \/ CreateFails \/ CreateSession \/ FinishAdmission
  BY <1>5 DEF SampleGate, CreateFails, CreateSession, FinishAdmission, DropPacket
<1> QED
  BY <1>1, <1>2, <1>3, <1>4, <1>5 DEF Ingress

\* startServer's goroutine holds no lock.
LEMMA StartServerLocks ==
  ASSUME NEW S, StartServer(S)
  PROVE  /\ \A r \in startups' : r.pc # "status" => r \in S
         /\ \A r \in S : r \in startups'
<1>1. CASE startups' = S
  BY <1>1
<1>2. CASE \E n : startups' = S \cup {n} /\ n.pc = "status"
  BY <1>2
<1> QED
  BY <1>1, <1>2, StartServerSafe

\* handleClientPacket takes and gives back both locks in order.
LEMMA IngressLock == SafeInv /\ LockInv /\ Ingress => LockInv'
<1> SUFFICES ASSUME SafeInv, LockInv, Ingress PROVE LockInv'
  OBVIOUS
<1>0. UNCHANGED <<backendReady, callbacks, monitor>>
  BY DEF Ingress
<1>1. /\ \A r \in startups' : r.pc # "status" => r \in startups
      /\ \A r \in startups : r \in startups'
  BY IngressLocks, StartServerLocks
<1>2. (\E r \in startups : r.pc \in {"opened", "failClosing"}) <=> \E r \in startups' : r.pc \in {"opened", "failClosing"}
  BY <1>1
<1>3. (\E r \in startups : Holds(r)) => \E r \in startups' : Holds(r)
  BY <1>1
<1>4. pc \notin {"shutdownGate", "shutdownClosing"} /\ pc' \notin {"shutdownGate", "shutdownClosing"}
  BY IngressLocks DEF HandlingPC
<1>5. ForwardingOwned'
  BY <1>0, <1>2, <1>4, IngressLocks DEF LockInv, ForwardingOwned
<1>6. AdmissionReturned'
  BY <1>0, <1>3, <1>4, IngressLocks DEF LockInv, AdmissionReturned, ShutdownHolds, MonitorHolds
<1>7. SendOnlyWhenReady'
  BY <1>0, IngressLocks DEF SendOnlyWhenReady
<1> QED
  BY <1>5, <1>6, <1>7 DEF LockInv

\* Steps that leave the locks and their holders alone.
LEMMA QuietLock ==
  ASSUME LockInv, UNCHANGED <<forwarding, admission, pc, req, monitor, startups, callbacks, backendReady>>
  PROVE  LockInv'
  BY DEF LockInv, ForwardingOwned, AdmissionReturned, SendOnlyWhenReady, IngressHolds, ShutdownHolds, MonitorHolds

\* Sessions, watchers, the sweeper, CloseAll's detaching and the clock take
\* neither of the outer locks.
LEMMA StoreLock ==
  LockInv /\ ((\E s \in Session : SessionStep(s) \/ Watcher(s)) \/ Sweeper \/ CooldownElapses \/ CloseAllDetaches)
    => LockInv'
<1> SUFFICES ASSUME LockInv, (\E s \in Session : SessionStep(s) \/ Watcher(s)) \/ Sweeper \/ CooldownElapses
                             \/ CloseAllDetaches
             PROVE  LockInv'
  OBVIOUS
<1>1. UNCHANGED <<forwarding, admission, pc, req, monitor, startups, callbacks, backendReady>>
  BY DEF SessionStep, Watcher, Sweeper, CooldownElapses, CloseAllDetaches
<1> QED
  BY <1>1, QuietLock

\* The first startup begins without a lock.
LEMMA BootLock == SafeInv /\ LockInv /\ ServeBoots => LockInv'
<1> SUFFICES ASSUME SafeInv, LockInv, ServeBoots PROVE LockInv'
  OBVIOUS
<1>1. UNCHANGED <<forwarding, admission, req, monitor, callbacks>> /\ pc = "boot" /\ pc' = "idle"
  BY DEF ServeBoots
<1>2. startups = {}
  BY <1>1 DEF SafeInv, PowerInv, StartupAlone
<1>3. UNCHANGED startups \/ StartServer(startups)
  BY DEF ServeBoots
<1>4. \A r \in startups' : r.pc = "status"
  BY <1>2, <1>3, StartServerLocks
<1> QED
  BY <1>1, <1>2, <1>4
     DEF LockInv, ForwardingOwned, AdmissionReturned, SendOnlyWhenReady, IngressHolds, AdmittedPC, ShutdownHolds,
         MonitorHolds, Holds

\* closeBackendGate waits for both locks and gives them back together.
LEMMA MonitorLock == SafeInv /\ LockInv /\ Monitor => LockInv'
<1> SUFFICES ASSUME SafeInv, LockInv, Monitor PROVE LockInv'
  OBVIOUS
<1>0. UNCHANGED <<startups, callbacks, pc, req>>
  BY DEF Monitor
<1> USE DEF SafeInv, TypeInv, TypeOK
<1>1. CASE MonitorTicks \/ MonitorProbed \/ MonitorExits
  <2>1. /\ UNCHANGED <<backendReady, admission, forwarding>>
        /\ monitor.pc \in {"idle", "probe"} /\ monitor'.pc \in {"idle", "probe", "lose", "ended"}
    BY <1>1 DEF MonitorTicks, MonitorProbed, MonitorExits, MonitorType
  <2> QED
    BY <1>0, <2>1 DEF LockInv, ForwardingOwned, AdmissionReturned, SendOnlyWhenReady, IngressHolds, ShutdownHolds,
                      MonitorHolds
<1>2. CASE MonitorTakesAdmission
  <2>1. /\ UNCHANGED <<backendReady, forwarding>> /\ admission' = "monitor"
        /\ monitor.pc = "lose" /\ monitor'.pc = "loseGate"
    BY <1>2 DEF MonitorTakesAdmission, MonitorType
  <2> QED
    BY <1>0, <2>1 DEF LockInv, ForwardingOwned, AdmissionReturned, SendOnlyWhenReady, MonitorHolds
<1>3. CASE MonitorClosesGate
  <2>1. /\ monitor.pc = "loseGate" /\ forwarding = "free"
        /\ \/ forwarding' = "monitor" /\ monitor'.pc = "loseClosing" /\ UNCHANGED admission
           \/ admission' = "free" /\ monitor'.pc = "idle" /\ UNCHANGED <<forwarding, backendReady>>
    BY <1>3 DEF MonitorClosesGate
  <2> QED
    BY <1>0, <2>1 DEF LockInv, ForwardingOwned, AdmissionReturned, SendOnlyWhenReady, MonitorHolds, IngressHolds,
                      ShutdownHolds
<1>4. CASE MonitorClosed
  <2>1. /\ UNCHANGED backendReady /\ admission' = "free" /\ forwarding' = "free"
        /\ monitor.pc = "loseClosing" /\ monitor'.pc = "idle"
    BY <1>4 DEF MonitorClosed, CloseAllReturns, MonitorType
  <2> QED
    BY <1>0, <2>1 DEF LockInv, ForwardingOwned, AdmissionReturned, SendOnlyWhenReady
<1> QED
  BY <1>1, <1>2, <1>3, <1>4 DEF Monitor

\* The callback of a timer keeps admissionMu while its stop is in flight, and
\* closes the gate only when no datagram is being written.
LEMMA CallbackLock ==
  SafeInv /\ LockInv /\ ((\E t \in timers : TimerFires(t)) \/ (\E c \in callbacks : Callback(c))) => LockInv'
<1>1. ASSUME LockInv, NEW t \in timers, TimerFires(t) PROVE LockInv'
  <2>1. /\ UNCHANGED <<forwarding, admission, pc, req, monitor, startups, backendReady>>
        /\ \A c \in callbacks : c \in callbacks'
    BY <1>1 DEF TimerFires
  <2> QED
    BY <1>1, <2>1
       DEF LockInv, ForwardingOwned, AdmissionReturned, SendOnlyWhenReady, IngressHolds, ShutdownHolds, MonitorHolds
<1>2. ASSUME SafeInv, LockInv, NEW c \in callbacks, Callback(c) PROVE LockInv'
  <2> USE <1>2 DEF SafeInv, TypeInv, TypeOK
  <2>0. UNCHANGED <<forwarding, pc, req, monitor, startups>>
    BY DEF Callback
  <2>1. ForwardingOwned'
    BY <2>0 DEF LockInv, ForwardingOwned
  <2>2. UNCHANGED backendReady \/ forwarding = "free"
    BY DEF Callback, CallbackDecides, CallbackStopAccepted, CallbackGivesUp, CallbackRetries, MarkBackendNotRunning
  <2>3. SendOnlyWhenReady'
    BY <2>0, <2>2 DEF LockInv, ForwardingOwned, SendOnlyWhenReady
  <2>4. \/ admission' = "free"
        \/ admission' = "callback" /\ \E d \in callbacks' : Stopping(d)
        \/ UNCHANGED admission /\ admission = "free"
    <3> DEFINE d == [c EXCEPT !.pc = "stopping"]
    <3>1. d.pc = "stopping"
      BY DEF TimerType, CallbackRecord
    <3>2. CASE CallbackDecides(c)
      BY <3>1, <3>2 DEF CallbackDecides, HoldAdmission, Replace, Stopping
    <3>3. CASE ~CallbackDecides(c)
      BY <3>3 DEF Callback, CallbackStopAccepted, CallbackGivesUp, CallbackRetries, CallbackReturns
    <3> QED
      BY <3>2, <3>3
  <2>5. AdmissionReturned'
    BY <2>4 DEF AdmissionReturned
  <2> QED
    BY <2>1, <2>3, <2>5 DEF LockInv
<1> QED
  BY <1>1, <1>2

\* shutdown takes both locks before it closes the gate.
LEMMA ShutdownLock == SafeInv /\ LockInv /\ Shutdown => LockInv'
<1> SUFFICES ASSUME SafeInv, LockInv, Shutdown PROVE LockInv'
  OBVIOUS
<1>0. UNCHANGED <<startups, callbacks, monitor, req>>
  BY DEF Shutdown
<1>1. CASE Cancel \/ ListenerCloses \/ ReadFails \/ ServeWaits
  <2>1. /\ UNCHANGED <<backendReady, admission, forwarding>>
        /\ (UNCHANGED pc \/ (/\ pc \notin HandlingPC \cup {"boot", "shutdownGate", "shutdownClosing"}
                             /\ pc' \notin HandlingPC \cup {"boot", "shutdownGate", "shutdownClosing"}))
    BY <1>1 DEF Cancel, ListenerCloses, ReadFails, ServeWaits, HandlingPC
  <2> QED
    BY <1>0, <2>1 DEF LockInv, ForwardingOwned, AdmissionReturned, SendOnlyWhenReady, IngressHolds, AdmittedPC,
                      ShutdownHolds, MonitorHolds, HandlingPC
<1>2. CASE ShutdownTakesAdmission
  <2>1. UNCHANGED <<backendReady, forwarding>> /\ pc = "shutdown" /\ pc' = "shutdownGate" /\ admission' = "shutdown"
    BY <1>2 DEF ShutdownTakesAdmission
  <2> QED
    BY <1>0, <2>1 DEF LockInv, ForwardingOwned, AdmissionReturned, SendOnlyWhenReady, ShutdownHolds
<1>3. CASE ShutdownClosesGate
  <2>1. /\ pc = "shutdownGate" /\ pc' = "shutdownClosing" /\ UNCHANGED admission
        /\ forwarding = "free" /\ forwarding' = "shutdown"
    BY <1>3 DEF ShutdownClosesGate
  <2>2. admission = "shutdown"
    BY <2>1 DEF SafeInv, PowerInv, AdmissionOwned, ShutdownHolds
  <2> QED
    BY <1>0, <2>1, <2>2 DEF LockInv, ForwardingOwned, AdmissionReturned, SendOnlyWhenReady, ShutdownHolds
<1>4. CASE ShutdownClosed
  <2>1. /\ UNCHANGED backendReady /\ pc = "shutdownClosing" /\ pc' = "timerWait"
        /\ admission' = "free" /\ forwarding' = "free"
    BY <1>4 DEF ShutdownClosed, CloseAllReturns
  <2> QED
    BY <1>0, <2>1 DEF LockInv, ForwardingOwned, AdmissionReturned, SendOnlyWhenReady
<1> QED
  BY <1>1, <1>2, <1>3, <1>4 DEF Shutdown

\* openStartupGate and failStartup keep forwardingMu until the auto-stop is
\* scheduled, or the sessions are closed.
LEMMA StartupLock == \A r \in startups : SafeInv /\ LockInv /\ Startup(r) => LockInv'
<1> SUFFICES ASSUME NEW r \in startups, SafeInv, LockInv, Startup(r) PROVE LockInv'
  OBVIOUS
<1> USE DEF SafeInv, TypeInv, TypeOK
<1> DEFINE Grips(q) == q.pc \in {"opened", "failClosing"}
<1>0. UNCHANGED <<callbacks, monitor, pc, req>>
  BY DEF Startup
<1>a. /\ \A q \in startups : UnderWay(q) /\ UnderWay(r) => q = r
      /\ \A q \in startups : Holds(q) /\ Holds(r) => q = r
      /\ Holds(r) => admission = "startup"
  BY DEF PowerInv, StartupAlone, SingleFlight, AdmissionOwned
<1>b. ASSUME UNCHANGED <<forwarding, admission>>, UNCHANGED backendReady \/ ~backendReady,
             (\E q \in startups : Grips(q)) <=> \E q \in startups' : Grips(q),
             (\E q \in startups : Holds(q)) => \E q \in startups' : Holds(q)
      PROVE  LockInv'
  BY <1>0, <1>b DEF LockInv, ForwardingOwned, AdmissionReturned, SendOnlyWhenReady, IngressHolds, ShutdownHolds,
                    MonitorHolds
<1>1. CASE StartupPolls(r)
  <2>1. PICK n : startups' = Replace(startups, r, n) /\ n.pc \in Polling \cup {"open", "fail", "finish"}
    BY <1>1, PollsMove
  <2>2. r.pc \in Polling /\ UNCHANGED <<forwarding, admission>>
    BY <1>1, PollsMove DEF StartupPolls
  <2>3. ~backendReady
    BY <2>2 DEF PowerInv, StartupAlone, UnderWay, Polling
  <2> QED
    BY <1>b, <2>1, <2>2, <2>3 DEF Replace, Polling, Holds
<1>2. CASE StartupTakesAdmission(r)
  <2>1. PICK n : startups' = Replace(startups, r, n) /\ n.pc \in {"openGate", "failGate"}
    BY <1>2, GotoMove DEF StartupTakesAdmission
  <2>2. r.pc \in {"open", "fail"} /\ admission' = "startup" /\ UNCHANGED <<backendReady, forwarding>>
    BY <1>2 DEF StartupTakesAdmission
  <2>3. (\E q \in startups : Grips(q)) <=> \E q \in startups' : Grips(q)
    BY <2>1, <2>2 DEF Replace
  <2>4. \E q \in startups' : Holds(q)
    BY <2>1 DEF Replace, Holds
  <2> QED
    BY <1>0, <2>2, <2>3, <2>4 DEF LockInv, ForwardingOwned, AdmissionReturned, SendOnlyWhenReady
<1>3. CASE StartupOpensGate(r)
  <2>1. /\ r.pc = "openGate" /\ Holds(r) /\ UnderWay(r) /\ forwarding = "free"
    BY <1>3 DEF StartupOpensGate, Holds, UnderWay
  <2>2. PICK n : /\ startups' = Replace(startups, r, n)
                 /\ \/ n.pc = "finish" /\ admission' = "free" /\ UNCHANGED <<backendReady, forwarding>>
                    \/ n.pc = "opened" /\ UNCHANGED admission /\ forwarding' = "startup" /\ backendReady' = TRUE
    BY <1>3, GotoMove DEF StartupOpensGate
  <2>3. \A q \in startups : ~Grips(q)
    BY <2>1 DEF LockInv, ForwardingOwned
  <2>4. n.pc = "opened" => \E q \in startups' : Grips(q) /\ Holds(q)
    BY <2>2 DEF Replace, Holds
  <2>5. n.pc = "finish" => \A q \in startups' : ~Grips(q)
    BY <2>2, <2>3 DEF Replace
  <2>6. ForwardingOwned'
    BY <1>0, <2>1, <2>2, <2>4, <2>5 DEF LockInv, ForwardingOwned
  <2>7. AdmissionReturned'
    BY <1>a, <2>1, <2>2, <2>4 DEF AdmissionReturned
  <2> QED
    BY <1>0, <2>2, <2>6, <2>7 DEF LockInv, SendOnlyWhenReady
<1>4. CASE StartupGateOpened(r) \/ StartupFailed(r)
  <2>1. /\ r.pc \in {"opened", "failClosing"} /\ Holds(r) /\ admission' = "free" /\ forwarding' = "free"
        /\ UNCHANGED backendReady
    BY <1>4 DEF StartupGateOpened, StartupFailed, CloseAllReturns, Holds
  <2>2. startups' = startups \ {r} \/ \E n : startups' = Replace(startups, r, n) /\ n.pc = "finish"
    BY <1>4, GotoMove DEF StartupGateOpened, StartupFailed
  <2>3. \A q \in startups' : ~Grips(q)
    BY <1>a, <2>1, <2>2 DEF Holds, Replace
  <2>4. forwarding = "startup"
    BY <2>1 DEF LockInv, ForwardingOwned
  <2> QED
    BY <1>0, <2>1, <2>3, <2>4 DEF LockInv, ForwardingOwned, AdmissionReturned, SendOnlyWhenReady
<1>5. CASE StartupFails(r)
  <2>1. PICK n : startups' = Replace(startups, r, n) /\ n.pc = "failClosing"
    BY <1>5, GotoMove DEF StartupFails
  <2>2. /\ r.pc = "failGate" /\ Holds(r) /\ forwarding = "free" /\ forwarding' = "startup"
        /\ UNCHANGED <<backendReady, admission>>
    BY <1>5 DEF StartupFails, Holds
  <2>3. \E q \in startups' : Grips(q) /\ Holds(q)
    BY <2>1 DEF Replace, Holds
  <2> QED
    BY <1>0, <1>a, <2>2, <2>3 DEF LockInv, ForwardingOwned, AdmissionReturned, SendOnlyWhenReady
<1>6. CASE StartupCompletes(r)
  <2>1. r.pc = "finish" /\ UNCHANGED <<backendReady, admission, forwarding>>
    BY <1>6 DEF StartupCompletes
  <2>2. startups' = startups \ {r} \/ \E n : startups' = Replace(startups, r, n) /\ n.pc = "restart"
    BY <1>6, GotoMove DEF StartupCompletes
  <2> QED
    BY <1>b, <2>1, <2>2 DEF Holds, Replace
<1>7. CASE StartupRestarts(r)
  <2>1. r.pc = "restart" /\ StartServer(startups \ {r}) /\ UNCHANGED <<backendReady, admission, forwarding>>
    BY <1>7 DEF StartupRestarts
  <2>2. /\ \A q \in startups' : q.pc # "status" => q \in startups
        /\ \A q \in startups : q # r => q \in startups'
    BY <2>1, StartServerLocks
  <2> QED
    BY <1>b, <2>1, <2>2 DEF Holds
<1> QED
  BY <1>1, <1>2, <1>3, <1>4, <1>5, <1>6, <1>7 DEF Startup

\* Every step keeps the lock discipline.
LEMMA NextLock == SafeInv /\ LockInv /\ [Next]_vars => LockInv'
<1> SUFFICES ASSUME SafeInv, LockInv, [Next]_vars PROVE LockInv'
  OBVIOUS
<1>1. CASE IgnorePacket \/ Returned \/ UNCHANGED vars
  BY <1>1, QuietLock DEF IgnorePacket, Returned, vars
<1>2. CASE Sweeper \/ CooldownElapses \/ CloseAllDetaches \/ \E s \in Session : SessionStep(s) \/ Watcher(s)
  BY <1>2, StoreLock
<1>3. CASE (\E t \in timers : TimerFires(t)) \/ (\E c \in callbacks : Callback(c))
  BY <1>3, CallbackLock
<1> QED
  BY <1>1, <1>2, <1>3, BootLock, IngressLock, MonitorLock, ShutdownLock, StartupLock DEF Next

-----------------------------------------------------------------------------
(* The health monitor.                                                     *)

\* A new proxy has counted no failure.
LEMMA InitHealth == Init => HealthInv
  BY OptionsAssumption DEF Init, HealthInv, GenerationCurrent

\* Closing the gate makes every count one of the past.
LEMMA CloseGateHealth ==
  ASSUME MonitorType, HealthInv, CloseGate, UNCHANGED <<failures, streak>>,
         UNCHANGED monitor \/ monitor'.gen = 0
  PROVE  HealthInv'
<1>1. readinessGeneration \in Nat /\ readinessGeneration' \in {readinessGeneration, readinessGeneration + 1} /\ ~backendReady'
  BY DEF CloseGate, MonitorType
<1>2. failures.generation \in Nat /\ monitor.gen \in Nat
  BY DEF MonitorType
<1> QED
  BY <1>1, <1>2 DEF HealthInv, GenerationCurrent

\* Opening the gate begins a generation without failures.
LEMMA OpenGateHealth ==
  ASSUME MonitorType, HealthInv, readinessGeneration' = readinessGeneration + 1, UNCHANGED <<failures, monitor>>
  PROVE  HealthInv'
<1>1. readinessGeneration \in Nat /\ failures.generation \in Nat /\ monitor.gen \in Nat
  BY DEF MonitorType
<1> QED
  BY <1>1 DEF HealthInv, GenerationCurrent

\* Nobody but the monitor and those who move the gate matters to the count.
LEMMA QuietHealth ==
  ASSUME HealthInv, UNCHANGED <<backendReady, readinessGeneration, failures, monitor, streak>>
  PROVE  HealthInv'
  BY DEF HealthInv, GenerationCurrent

\* backendHealthFailures counts no more than the failures in a row.
LEMMA MonitorHealth == SafeInv /\ HealthInv /\ Monitor => HealthInv'
<1> SUFFICES ASSUME SafeInv, HealthInv, Monitor PROVE HealthInv'
  OBVIOUS
<1>0. MonitorType
  BY DEF SafeInv, TypeInv, TypeOK
<1>t. /\ readinessGeneration \in Nat /\ monitor.gen \in Nat /\ failures.generation \in Nat /\ failures.count \in Nat
      /\ streak \in 0..HealthFailureThreshold /\ HealthFailureThreshold \in Nat \ {0}
  BY <1>0, OptionsAssumption DEF MonitorType
<1>1. CASE MonitorTicks
  <2>1. /\ UNCHANGED <<backendReady, readinessGeneration, streak>>
        /\ \/ monitor'.gen = readinessGeneration /\ monitor'.pc = "probe" /\ UNCHANGED failures
           \/ failures'.generation = 0 /\ failures'.count = 0 /\ UNCHANGED monitor
    BY <1>1 DEF MonitorTicks, NoFailures
  <2> QED
    BY <1>t, <2>1 DEF HealthInv, GenerationCurrent
<1>2. CASE MonitorProbed
  <2>0. UNCHANGED <<backendReady, readinessGeneration>>
    BY <1>2 DEF MonitorProbed
  <2>1. PICK result \in ProbeResults :
          LET confirmed == result = "unavailable" /\ GenerationCurrent(monitor.gen)
              after == RecordFailure(monitor.gen)
              lost == confirmed /\ LossConfirmed(after.count)
          IN  /\ failures' = IF confirmed /\ ~lost THEN after ELSE NoFailures
              /\ monitor' = IF lost THEN [monitor EXCEPT !.pc = "lose"] ELSE [pc |-> "idle", gen |-> 0]
              /\ streak' = IF result # "unavailable" \/ ~backendReady \/ readinessGeneration # monitor.gen THEN 0
                           ELSE IF streak < HealthFailureThreshold THEN streak + 1 ELSE streak
    BY <1>2 DEF MonitorProbed
  <2> DEFINE confirmed == result = "unavailable" /\ GenerationCurrent(monitor.gen)
             after == RecordFailure(monitor.gen)
  <2>2. /\ after.generation = monitor.gen
        /\ after.count = IF failures.generation = monitor.gen THEN failures.count + 1 ELSE 1
    BY DEF RecordFailure
  <2>3. [monitor EXCEPT !.pc = "lose"].gen = monitor.gen
    BY <1>0 DEF MonitorType
  <2>4. CASE ~confirmed
    <3>1. failures'.generation = 0 /\ failures'.count = 0 /\ monitor'.pc = "idle" /\ monitor'.gen = 0 /\ streak' \in Nat
      BY <1>t, <2>1, <2>4 DEF NoFailures
    <3> QED
      BY <1>t, <2>0, <3>1 DEF HealthInv
  <2>5. CASE confirmed
    <3>1. monitor.gen = readinessGeneration /\ backendReady
      BY <2>5 DEF GenerationCurrent
    <3>2. streak' = IF streak < HealthFailureThreshold THEN streak + 1 ELSE streak
      BY <2>1, <2>5, <3>1
    <3>3. after.count \in Nat /\ (after.count <= HealthFailureThreshold => streak' >= after.count)
          /\ (after.count >= HealthFailureThreshold => streak' >= HealthFailureThreshold)
      <4>1. CASE failures.generation = monitor.gen
        <5>1. failures.count <= streak /\ after.count = failures.count + 1
          BY <2>2, <3>1, <4>1 DEF HealthInv, GenerationCurrent
        <5> QED
          BY <1>t, <3>2, <5>1
      <4>2. CASE failures.generation # monitor.gen
        BY <1>t, <2>2, <3>2, <4>2
      <4> QED
        BY <4>1, <4>2
    <3>4. CASE LossConfirmed(after.count)
      <4>1. /\ failures'.generation = 0 /\ failures'.count = 0 /\ monitor'.gen = monitor.gen
            /\ streak' >= HealthFailureThreshold /\ streak' \in Nat
        BY <1>t, <2>1, <2>3, <2>5, <3>2, <3>3, <3>4 DEF NoFailures, LossConfirmed
      <4> QED
        BY <1>t, <2>0, <4>1 DEF HealthInv
    <3>5. CASE ~LossConfirmed(after.count)
      <4>1. after.count < HealthFailureThreshold
        BY <1>t, <3>3, <3>5 DEF LossConfirmed
      <4>2. failures' = after /\ monitor'.pc = "idle" /\ monitor'.gen = 0
        BY <2>1, <2>5, <3>5
      <4>3. failures'.generation = monitor.gen /\ failures'.count <= streak'
        BY <1>t, <2>2, <3>3, <4>1, <4>2
      <4> QED
        BY <1>t, <2>0, <4>2, <4>3 DEF HealthInv
    <3> QED
      BY <3>4, <3>5
  <2> QED
    BY <2>4, <2>5
<1>3. CASE MonitorTakesAdmission
  <2>1. /\ monitor.pc = "lose" /\ monitor'.gen = monitor.gen
        /\ UNCHANGED <<backendReady, readinessGeneration, failures, streak>>
    BY <1>0, <1>3 DEF MonitorTakesAdmission, MonitorType
  <2> QED
    BY <2>1 DEF HealthInv, GenerationCurrent
<1>4. CASE MonitorClosesGate
  <2>1. UNCHANGED <<failures, streak>> /\ monitor'.gen = 0 /\ monitor'.pc \in {"loseClosing", "idle"}
    BY <1>4 DEF MonitorClosesGate
  <2>2. CloseGate \/ UNCHANGED <<backendReady, readinessGeneration>>
    BY <1>4 DEF MonitorClosesGate
  <2> QED
    BY <1>0, <1>t, <2>1, <2>2, CloseGateHealth DEF HealthInv, GenerationCurrent
<1>5. CASE MonitorClosed
  <2>1. /\ monitor'.pc = "idle" /\ monitor'.gen = monitor.gen
        /\ UNCHANGED <<backendReady, readinessGeneration, failures, streak>>
    BY <1>0, <1>5 DEF MonitorClosed, MonitorType
  <2> QED
    BY <2>1 DEF HealthInv, GenerationCurrent
<1>6. CASE MonitorExits
  <2>1. /\ monitor'.pc = "ended" /\ monitor'.gen = 0 /\ failures'.generation = 0 /\ failures'.count = 0
        /\ UNCHANGED <<backendReady, readinessGeneration, streak>>
    BY <1>6 DEF MonitorExits, NoFailures
  <2> QED
    BY <1>t, <2>1 DEF HealthInv
<1> QED
  BY <1>1, <1>2, <1>3, <1>4, <1>5, <1>6 DEF Monitor

\* Every step keeps the count.
LEMMA NextHealth == SafeInv /\ HealthInv /\ [Next]_vars => HealthInv'
<1> SUFFICES ASSUME SafeInv, HealthInv, [Next]_vars PROVE HealthInv'
  OBVIOUS
<1>0. MonitorType /\ StartupType
  BY DEF SafeInv, TypeInv, TypeOK
<1>1. CASE ServeBoots
  <2>1. UNCHANGED <<failures, monitor, streak>>
    BY <1>1 DEF ServeBoots
  <2>2. ~backendReady
    BY <1>1 DEF ServeBoots, SafeInv, PowerInv, StartupAlone
  <2>3. \/ readinessGeneration' = readinessGeneration + 1
        \/ UNCHANGED readinessGeneration /\ ~backendReady'
    BY <1>1, <2>2 DEF ServeBoots
  <2> QED
    BY <1>0, <2>1, <2>3, OpenGateHealth DEF HealthInv, GenerationCurrent
<1>2. CASE Ingress \/ Sweeper \/ CooldownElapses \/ CloseAllDetaches \/ IgnorePacket \/ Returned \/ UNCHANGED vars
           \/ (\E s \in Session : SessionStep(s) \/ Watcher(s)) \/ (\E t \in timers : TimerFires(t))
  <2>1. UNCHANGED <<backendReady, readinessGeneration, failures, monitor, streak>>
    BY <1>2 DEF Ingress, Sweeper, CooldownElapses, CloseAllDetaches, IgnorePacket, Returned, vars, SessionStep,
                Watcher, TimerFires
  <2> QED
    BY <2>1, QuietHealth
<1>3. CASE Shutdown \/ \E c \in callbacks : Callback(c)
  <2>1. UNCHANGED <<failures, monitor, streak>>
    BY <1>3 DEF Shutdown, Callback
  <2>2. CloseGate \/ UNCHANGED <<backendReady, readinessGeneration>>
    BY <1>3 DEF Shutdown, Cancel, ListenerCloses, ReadFails, ShutdownTakesAdmission, ShutdownClosesGate,
                ShutdownClosed, ServeWaits, Callback, CallbackDecides, CallbackStopAccepted, CallbackGivesUp,
                CallbackRetries, MarkBackendNotRunning
  <2> QED
    BY <1>0, <2>1, <2>2, QuietHealth, CloseGateHealth
<1>4. CASE \E r \in startups : Startup(r)
  <2>1. PICK r \in startups : Startup(r)
    BY <1>4
  <2>2. UNCHANGED <<failures, monitor>>
    BY <2>1 DEF Startup
  <2>3. CASE StartupOpensGate(r)
    <3>1. ~backendReady
      BY <2>3 DEF StartupOpensGate, SafeInv, PowerInv, StartupAlone, UnderWay
    <3>2. \/ readinessGeneration' = readinessGeneration + 1
          \/ UNCHANGED <<backendReady, readinessGeneration, streak>>
      BY <2>3, <3>1 DEF StartupOpensGate
    <3> QED
      BY <1>0, <2>2, <3>2, OpenGateHealth, QuietHealth
  <2>4. CASE ~StartupOpensGate(r)
    <3>1. UNCHANGED streak /\ (CloseGate \/ UNCHANGED <<backendReady, readinessGeneration>>)
      BY <2>1, <2>4
         DEF Startup, StartupPolls, StartupSeesRunning, StartupSeesNotRunning, StartupStatusFails,
             StartupStartAnswered, StartupAdvances, StartupWaitFails, StartupTakesAdmission, StartupGateOpened,
             StartupFails, StartupFailed, StartupCompletes, StartupRestarts, MarkBackendNotRunning
    <3> QED
      BY <1>0, <2>2, <3>1, CloseGateHealth, QuietHealth
  <2> QED
    BY <2>3, <2>4
<1> QED
  BY <1>1, <1>2, <1>3, <1>4, MonitorHealth DEF Next

\* While the monitor holds admissionMu nobody else closes an open gate.
LEMMA LossByMonitor ==
  ASSUME SafeInv, HealthInv, Next, monitor.pc = "loseGate", backendReady, ~backendReady'
  PROVE  streak >= HealthFailureThreshold
<1>1. admission = "monitor"
  BY DEF SafeInv, PowerInv, AdmissionOwned, MonitorHolds
<1>2. pc # "boot" /\ pc # "shutdownGate" /\ \A c \in callbacks : c.pc # "stopping"
  BY <1>1 DEF SafeInv, PowerInv, AdmissionOwned, StartupAlone, ShutdownHolds, Stopping
<1>3. ~(Ingress \/ Sweeper \/ CooldownElapses \/ CloseAllDetaches \/ IgnorePacket \/ Returned
           \/ (\E s \in Session : SessionStep(s) \/ Watcher(s)) \/ (\E t \in timers : TimerFires(t)))
  BY DEF Ingress, Sweeper, CooldownElapses, CloseAllDetaches, IgnorePacket, Returned, vars, SessionStep, Watcher,
         TimerFires
<1>4. ~(ServeBoots \/ Shutdown \/ \E c \in callbacks : Callback(c))
  BY <1>2 DEF ServeBoots, Shutdown, Cancel, ListenerCloses, ReadFails, ShutdownTakesAdmission, ShutdownClosesGate,
              ShutdownClosed, ServeWaits, Callback, CallbackDecides, CallbackStopAccepted, CallbackGivesUp,
              CallbackRetries
<1>5. ~(\E r \in startups : Startup(r))
  <2> SUFFICES ASSUME NEW r \in startups, Startup(r) PROVE FALSE
    OBVIOUS
  <2>1. StartupType
    BY DEF SafeInv, TypeInv, TypeOK
  <2>2. r.pc \in {"opened", "finish", "failClosing", "restart"}
    BY DEF SafeInv, PowerInv, StartupAlone, UnderWay
  <2> QED
    BY <2>2 DEF Startup, StartupPolls, StartupSeesRunning, StartupSeesNotRunning, StartupStatusFails,
             StartupStartAnswered, StartupAdvances, StartupWaitFails, StartupTakesAdmission, StartupOpensGate,
             StartupGateOpened, StartupFails, StartupFailed, StartupCompletes, StartupRestarts
<1>6. MonitorClosesGate
  BY <1>3, <1>4, <1>5 DEF Next, Monitor, MonitorTicks, MonitorProbed, MonitorTakesAdmission, MonitorClosed, MonitorExits
<1>7. GenerationCurrent(monitor.gen)
  BY <1>6 DEF MonitorClosesGate
<1> QED
  BY <1>7 DEF HealthInv

-----------------------------------------------------------------------------
(* The auto-stop timers.                                                   *)

\* A new proxy has armed no timer.
LEMMA InitTimer == Init => TimerInv
  BY FS_EmptySet DEF Init, TimerInv, TimersCurrent, TimersCounted, InterruptionEnds, StopNotInterrupted, StopInFlight

\* stopTimer is the only timer that can be armed, so stopping it gives back
\* the units of all armed timers.
LEMMA ArmedTimers ==
  ASSUME TimersCurrent
  PROVE  /\ timers \ {stopTimer} = {}
         /\ Cardinality(timers) = StoppedUnits /\ StoppedUnits \in Nat
<1>1. CASE stopTimer \in timers
  <2>1. timers = {stopTimer}
    BY <1>1 DEF TimersCurrent
  <2> QED
    BY <1>1, <2>1, FS_Singleton DEF StoppedUnits
<1>2. CASE stopTimer \notin timers
  <2>1. timers = {}
    BY <1>2 DEF TimersCurrent
  <2> QED
    BY <1>2, <2>1, FS_EmptySet DEF StoppedUnits
<1> QED
  BY <1>1, <1>2

\* Callbacks and timers carry numbers.
LEMMA GenerationsType ==
  ASSUME SafeInv
  PROVE  /\ stopGeneration \in Nat /\ timerWG \in Int
         /\ \A c \in callbacks : c.timer.gen \in Nat /\ c.timer \in Timer
         /\ \A t \in timers : t.gen \in Nat
  BY DEF SafeInv, TypeInv, TypeOK, TimerType, CallbackRecord, Timer

\* A step that touches no timer and no callback, and does not end the hand-over
\* of a new session.
LEMMA QuietTimer ==
  ASSUME TimerInv, UNCHANGED <<timers, stopTimer, stopGeneration, timerWG, callbacks, quiet>>,
         pc = "watch" => pc' = "watch"
  PROVE  TimerInv'
  BY DEF TimerInv, TimersCurrent, TimersCounted, InterruptionEnds, StopNotInterrupted, StopInFlight

\* cancelAutoStop leaves no timer, and no callback of the new generation.
LEMMA CancelTimer ==
  ASSUME SafeInv, TimerInv, CancelAutoStop, UNCHANGED callbacks
  PROVE  TimerInv'
<1> USE DEF TimerInv
<1>1. /\ stopGeneration' = stopGeneration + 1 /\ timers' = {} /\ UNCHANGED quiet
      /\ timerWG' = timerWG - StoppedUnits
  BY ArmedTimers DEF CancelAutoStop
<1>2. \A c \in callbacks : c.timer.gen <= stopGeneration' /\ c.timer.gen # stopGeneration'
  BY <1>1, GenerationsType DEF TimersCurrent
<1>3. TimersCurrent'
  BY <1>1, <1>2 DEF TimersCurrent
<1>4. IsFiniteSet(callbacks) /\ Cardinality(callbacks) \in Nat /\ timerWG' = Cardinality(callbacks)
  BY <1>1, ArmedTimers, GenerationsType, FS_CardinalityType DEF TimersCounted
<1>5. TimersCounted'
  BY <1>1, <1>4, FS_EmptySet DEF TimersCounted
<1>6. InterruptionEnds'
  BY <1>1, <1>2 DEF InterruptionEnds, StopNotInterrupted, StopInFlight
<1> QED
  BY <1>3, <1>5, <1>6

\* scheduleAutoStop replaces the armed timer by the one of a new generation.
LEMMA ScheduleTimer ==
  ASSUME SafeInv, TimerInv, ScheduleAutoStop, UNCHANGED callbacks, pc = "watch" => pc' = "watch"
  PROVE  TimerInv'
<1> USE DEF TimerInv
<1>1. CASE shuttingDown \/ ~backendReady
  BY <1>1, QuietTimer DEF ScheduleAutoStop
<1>2. CASE ~(shuttingDown \/ ~backendReady)
  <2> DEFINE t == [gen |-> stopGeneration + 1, attempt |-> 1]
  <2>1. /\ stopGeneration' = stopGeneration + 1 /\ timers' = {t} /\ stopTimer' = t /\ quiet' # "interrupted"
        /\ timerWG' = timerWG - StoppedUnits + 1
    BY <1>2, ArmedTimers DEF ScheduleAutoStop
  <2>2. t.gen = stopGeneration + 1
    OBVIOUS
  <2> HIDE DEF t
  <2>3. \A c \in callbacks : c.timer.gen <= stopGeneration' /\ c.timer.gen # stopGeneration'
    BY <2>1, GenerationsType DEF TimersCurrent
  <2>4. TimersCurrent'
    BY <2>1, <2>2, <2>3 DEF TimersCurrent
  <2>5. IsFiniteSet(callbacks) /\ Cardinality(callbacks) \in Nat /\ timerWG' = 1 + Cardinality(callbacks)
    BY <2>1, ArmedTimers, GenerationsType, FS_CardinalityType DEF TimersCounted
  <2>6. TimersCounted'
    BY <2>1, <2>5, FS_Singleton DEF TimersCounted
  <2>7. InterruptionEnds'
    BY <2>1 DEF InterruptionEnds, StopNotInterrupted
  <2> QED
    BY <2>4, <2>6, <2>7
<1> QED
  BY <1>1, <1>2

\* A timer that fires becomes the callback of its generation.
LEMMA FiresTimer == \A t \in timers : SafeInv /\ TimerInv /\ TimerFires(t) => TimerInv'
<1> SUFFICES ASSUME NEW t \in timers, SafeInv, TimerInv, TimerFires(t) PROVE TimerInv'
  OBVIOUS
<1> USE DEF TimerInv
<1> DEFINE c == [timer |-> t, pc |-> "lock"]
<1>1. c.timer = t /\ c.pc = "lock"
  OBVIOUS
<1>2. callbacks' = callbacks \cup {c} /\ timers' = timers \ {t}
      /\ UNCHANGED <<stopTimer, stopGeneration, timerWG, quiet, pc>>
  BY DEF TimerFires
<1> HIDE DEF c
<1>3. t = stopTimer /\ t.gen = stopGeneration /\ c \notin callbacks
  BY <1>1 DEF TimersCurrent
<1>4. timers' = {} /\ Cardinality(timers) = 1
  BY <1>2, <1>3, ArmedTimers DEF StoppedUnits
<1>5. TimersCurrent'
  BY <1>1, <1>2, <1>3, <1>4, GenerationsType DEF TimersCurrent
<1>6. IsFiniteSet(callbacks') /\ Cardinality(callbacks') = Cardinality(callbacks) + 1 /\ Cardinality(callbacks) \in Nat
  BY <1>2, <1>3, FS_AddElement, FS_CardinalityType DEF TimersCounted
<1>7. TimersCounted'
  <2>1. Cardinality(timers') = 0
    BY <1>4, FS_EmptySet
  <2>2. timerWG' = 1 + Cardinality(callbacks)
    BY <1>2, <1>4 DEF TimersCounted
  <2>3. timerWG' = Cardinality(timers') + Cardinality(callbacks')
    BY <1>6, <2>1, <2>2
  <2> QED
    BY <1>6, <2>3 DEF TimersCounted
<1>8. InterruptionEnds'
  BY <1>1, <1>2 DEF InterruptionEnds, StopNotInterrupted, StopInFlight
<1> QED
  BY <1>5, <1>7, <1>8

\* The callback that ends was counted once, and was the only one of its
\* generation.
LEMMA CallbackLeaves ==
  ASSUME TimerInv, NEW c \in callbacks
  PROVE  /\ IsFiniteSet(callbacks \ {c}) /\ Cardinality(callbacks \ {c}) = Cardinality(callbacks) - 1
         /\ Cardinality(callbacks) \in Nat
         /\ \A d \in callbacks \ {c} : d.timer.gen # c.timer.gen
         /\ c.timer.gen = stopGeneration => timers = {}
  BY FS_RemoveElement, FS_CardinalityType DEF TimerInv, TimersCounted, TimersCurrent

\* runAutoStopAttempt keeps the count and the generations.
LEMMA CallbackTimer == \A c \in callbacks : SafeInv /\ TimerInv /\ Callback(c) => TimerInv'
<1> SUFFICES ASSUME NEW c \in callbacks, SafeInv, TimerInv, Callback(c) PROVE TimerInv'
  OBVIOUS
<1> USE DEF TimerInv
<1>0. UNCHANGED <<stopGeneration, quiet, pc>>
  BY DEF Callback
<1> DEFINE rest == callbacks \ {c}
<1>a. /\ IsFiniteSet(rest) /\ Cardinality(rest) = Cardinality(callbacks) - 1 /\ Cardinality(callbacks) \in Nat
      /\ \A d \in rest : d \in callbacks /\ d.timer.gen # c.timer.gen
      /\ c.timer.gen = stopGeneration => timers = {}
  BY CallbackLeaves
<1> HIDE DEF rest
<1>n. Cardinality(timers) \in Nat /\ timerWG = Cardinality(timers) + Cardinality(callbacks)
  BY ArmedTimers DEF TimersCounted
<1>1. CASE CallbackDecides(c) /\ StopAllowed(c.timer)
  <2> DEFINE d == [c EXCEPT !.pc = "stopping"]
  <2>1. d.timer = c.timer
    BY DEF SafeInv, TypeInv, TypeOK, TimerType, CallbackRecord
  <2>2. callbacks' = rest \cup {d} /\ UNCHANGED <<timers, stopTimer, timerWG>>
    BY <1>1 DEF CallbackDecides, Replace, rest
  <2>3. admission = "free" /\ c.timer.gen = stopGeneration
    BY <1>1 DEF CallbackDecides, StopAllowed
  <2> HIDE DEF d
  <2>4. d \notin rest
    BY <1>a, <2>1
  <2>5. IsFiniteSet(callbacks') /\ Cardinality(callbacks') = Cardinality(callbacks)
    BY <1>a, <2>2, <2>4, FS_AddElement
  <2>6. TimersCounted'
    BY <1>n, <2>2, <2>5 DEF TimersCounted
  <2>7. TimersCurrent'
    BY <1>0, <1>a, <2>1, <2>2 DEF TimersCurrent
  <2>8. pc # "watch"
    BY <2>3 DEF SafeInv, PowerInv, AdmissionOwned, IngressHolds, AdmittedPC
  <2>9. quiet # "interrupted"
    BY <2>3, <2>8 DEF InterruptionEnds
  <2> QED
    BY <1>0, <2>6, <2>7, <2>9 DEF InterruptionEnds, StopNotInterrupted
<1>2. CASE \/ CallbackDecides(c) /\ ~StopAllowed(c.timer)
           \/ CallbackStopAccepted(c) \/ CallbackGivesUp(c)
           \/ CallbackRetries(c) /\ ~(c.timer.gen = stopGeneration /\ backendReady)
  <2>1. /\ callbacks' = rest /\ UNCHANGED timers
        /\ UNCHANGED stopTimer \/ c.timer.gen = stopGeneration
    BY <1>2 DEF CallbackDecides, CallbackStopAccepted, CallbackGivesUp, CallbackRetries, CallbackReturns, ForgetTimer,
                rest
  <2>2. timerWG' = timerWG - 1 \/ timerWG' = timerWG - 1 + 0
    BY <1>2 DEF CallbackDecides, CallbackStopAccepted, CallbackGivesUp, CallbackRetries, CallbackReturns
  <2>3. timerWG' = Cardinality(timers) + Cardinality(rest)
    BY <1>a, <1>n, <2>2
  <2>4. TimersCounted'
    BY <1>a, <2>1, <2>3 DEF TimersCounted
  <2>5. TimersCurrent'
    BY <1>0, <1>a, <2>1 DEF TimersCurrent
  <2>6. InterruptionEnds'
    BY <1>0, <1>a, <2>1 DEF InterruptionEnds, StopNotInterrupted, StopInFlight
  <2> QED
    BY <2>4, <2>5, <2>6
<1>3. CASE CallbackRetries(c) /\ c.timer.gen = stopGeneration /\ backendReady
  <2> DEFINE t == [c.timer EXCEPT !.attempt = @ + 1]
  <2>1. t.gen = c.timer.gen
    BY DEF SafeInv, TypeInv, TypeOK, TimerType, CallbackRecord, Timer
  <2>2. c.pc = "stopping" /\ callbacks' = rest /\ timers' = timers \cup {t} /\ stopTimer' = t /\ timerWG' = timerWG - 1 + 1
    BY <1>3 DEF CallbackRetries, CallbackReturns, rest
  <2> HIDE DEF t
  <2>3. timers = {} /\ timers' = {t}
    BY <1>3, <1>a, <2>2
  <2>4. Cardinality(timers) = 0 /\ Cardinality(timers') = 1
    BY <2>3, FS_EmptySet, FS_Singleton
  <2>5. timerWG' = Cardinality(timers') + Cardinality(rest)
    BY <1>a, <1>n, <2>2, <2>4
  <2>6. TimersCounted'
    BY <1>a, <2>2, <2>5 DEF TimersCounted
  <2>7. TimersCurrent'
    BY <1>0, <1>3, <1>a, <2>1, <2>2, <2>3 DEF TimersCurrent
  <2>8. quiet # "interrupted"
    BY <2>2 DEF InterruptionEnds, StopNotInterrupted, StopInFlight
  <2> QED
    BY <1>0, <2>6, <2>7, <2>8 DEF InterruptionEnds, StopNotInterrupted
<1> QED
  BY <1>1, <1>2, <1>3 DEF Callback

\* A session is created under admissionMu, and the ingress cancels the
\* auto-stop before it unlocks.
LEMMA IngressTimer == SafeInv /\ TimerInv /\ Ingress => TimerInv'
<1> SUFFICES ASSUME SafeInv, TimerInv, Ingress PROVE TimerInv'
  OBVIOUS
<1>0. UNCHANGED callbacks
  BY DEF Ingress
<1>1. CASE CreateSession
  <2>1. pc = "create" /\ pc' = "watch" /\ UNCHANGED <<stopTimer, stopGeneration, timers, timerWG>>
    BY <1>1 DEF CreateSession
  <2>2. admission = "ingress"
    BY <2>1 DEF SafeInv, PowerInv, AdmissionOwned, IngressHolds, AdmittedPC
  <2>3. ~StopInFlight'
    BY <1>0, <2>2 DEF SafeInv, PowerInv, AdmissionOwned, Stopping, StopInFlight
  <2> QED
    BY <1>0, <2>1, <2>3 DEF TimerInv, TimersCurrent, TimersCounted, InterruptionEnds, StopNotInterrupted
<1>2. CASE WatchSession
  BY <1>0, <1>2, CancelTimer DEF WatchSession
<1>3. CASE ~(CreateSession \/ WatchSession)
  <2>1. UNCHANGED timerVars /\ pc # "watch"
    BY <1>3 DEF Ingress, ReceivePacket, QueuePacket, KickStartup, SeeGateOpen, ForwardClient, TakeAdmission,
                RemoveDeadSession, DropDeadQueue, SampleGate, CreateFails, FinishAdmission
  <2> QED
    BY <1>0, <2>1, QuietTimer
<1> QED
  BY <1>1, <1>2, <1>3

\* Every step keeps the timers in order.
LEMMA NextTimer == SafeInv /\ TimerInv /\ [Next]_vars => TimerInv'
<1> SUFFICES ASSUME SafeInv, TimerInv, [Next]_vars PROVE TimerInv'
  OBVIOUS
<1>1. CASE ServeBoots \/ CooldownElapses \/ CloseAllDetaches \/ IgnorePacket \/ Returned \/ UNCHANGED vars
           \/ \E s \in Session : SessionStep(s)
  <2>1. UNCHANGED <<timerVars, callbacks>> /\ (pc = "watch" => pc' = "watch")
    BY <1>1 DEF ServeBoots, CooldownElapses, CloseAllDetaches, IgnorePacket, Returned, vars, SessionStep
  <2> QED
    BY <2>1, QuietTimer
<1>2. CASE Sweeper \/ (\E s \in Session : Watcher(s)) \/ (\E r \in startups : Startup(r))
  <2>1. /\ UNCHANGED <<callbacks, pc>>
        /\ UNCHANGED timerVars \/ ScheduleAutoStop
    BY <1>2 DEF Sweeper, SweeperTicks, SweeperRefreshes, SweeperExpires, SweeperDropsQueues, SweeperSchedules,
                SweeperExits, Watcher, WatcherRemoves, WatcherDropsQueue, WatcherSchedules,
                Startup, StartupPolls, StartupTakesAdmission, StartupOpensGate, StartupGateOpened, StartupFails,
                StartupFailed, StartupCompletes, StartupRestarts
  <2> QED
    BY <2>1, QuietTimer, ScheduleTimer
<1>3. CASE Monitor \/ Shutdown
  <2>1. UNCHANGED callbacks /\ (pc = "watch" => pc' = "watch")
    BY <1>3 DEF Monitor, Shutdown, Cancel, ListenerCloses, ReadFails, ShutdownTakesAdmission, ShutdownClosesGate,
                ShutdownClosed, ServeWaits
  <2>2. UNCHANGED timerVars \/ CancelAutoStop
    BY <1>3 DEF Monitor, MonitorTicks, MonitorProbed, MonitorTakesAdmission, MonitorClosesGate, MonitorClosed,
                MonitorExits, Shutdown, Cancel, ListenerCloses, ReadFails, ShutdownTakesAdmission,
                ShutdownClosesGate, ShutdownClosed, ServeWaits
  <2> QED
    BY <2>1, <2>2, QuietTimer, CancelTimer
<1> QED
  BY <1>1, <1>2, <1>3, IngressTimer, FiresTimer, CallbackTimer DEF Next

-----------------------------------------------------------------------------
(* The theorems.                                                           *)

OrderInv == SafeInv /\ LockInv /\ TimerInv /\ HealthInv

\* The invariants of this module hold in every reachable state.
LEMMA OrderAlways == Spec => []OrderInv
<1>1. Init => OrderInv
  BY InitType, InitSafe, InitLock, InitTimer, InitHealth DEF OrderInv, SafeInv
<1>2. OrderInv /\ [Next]_vars => OrderInv'
  BY NextSafe, NextLock, NextTimer, NextHealth DEF OrderInv
<1> QED
  BY <1>1, <1>2, PTL DEF Spec

\* A datagram is written to the backend only while the gate is open, although
\* mu is not held during the write: whoever closes the gate waits for
\* forwardingMu.
THEOREM SendsOnlyWhenReady == Spec => []SendOnlyWhenReady
<1>1. OrderInv => SendOnlyWhenReady
  BY DEF OrderInv, LockInv
<1> QED
  BY <1>1, OrderAlways, PTL

\* No stop is sent for a timer that was armed before the newest session: the
\* admission that created it ended that generation.
THEOREM StopUninterrupted == Spec => []StopNotInterrupted
<1>1. OrderInv => StopNotInterrupted
  BY DEF OrderInv, TimerInv, InterruptionEnds
<1> QED
  BY <1>1, OrderAlways, PTL

\* The timer WaitGroup counts exactly the armed timers and the running
\* callbacks, however arming, stopping, firing and retrying interleave.
THEOREM TimersAccounted == Spec => []TimerAccounting
<1>1. OrderInv => TimerAccounting
  BY DEF OrderInv, TimerInv, TimersCounted, TimersCurrent, TimerAccounting
<1> QED
  BY <1>1, OrderAlways, PTL

\* The monitor closes the gate only for as many failed probes in a row of the
\* gate's own generation as the threshold says.
THEOREM LossIsConfirmed == Spec => GateLossConfirmed
<1>1. OrderInv /\ [Next]_vars =>
        [monitor.pc = "loseGate" /\ backendReady /\ ~backendReady' => streak >= HealthFailureThreshold]_vars
  BY LossByMonitor DEF OrderInv
<1> QED
  BY <1>1, OrderAlways, PTL DEF Spec, GateLossConfirmed
=============================================================================
