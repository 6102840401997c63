-------------------------- MODULE ProxyTypeProofs --------------------------
(***************************************************************************)
(* Type correctness of the orchestration core, for every value of the      *)
(* constants.  TypeOK alone is not inductive: a datagram enters a queue or *)
(* names a session with the values the ingress has in hand, so RequestOK   *)
(* goes with it.                                                           *)
(***************************************************************************)
EXTENDS ProxyProperties, TLAPS

TypeInv == TypeOK /\ RequestOK

\* A proxy that has just been made has the right types.
LEMMA InitType == Init => TypeInv
<1> SUFFICES ASSUME Init PROVE TypeInv
  OBVIOUS
<1>1. BooleanType
  BY DEF Init, BooleanType
<1>2. StartupType
  BY DEF Init, StartupType
<1>3. TimerType
  BY DEF Init, TimerType
<1>4. LockType
  BY DEF Init, LockType
<1>5. MonitorType
  BY OptionsAssumption DEF Init, MonitorType
<1>6. ServeType
  <2>1. NoRequest \in Request
    BY DEF NoRequest, Request, SessionOrNone, NoSession
  <2> QED
    BY <2>1, OptionsAssumption DEF Init, ServeType, ServePC
<1>7. SessionType
  BY DEF Init, SessionType, SessionOrNone, NoSession
<1>8. QueueType
  BY DEF Init, QueueType, NoQueues
<1>9. RequestOK
  BY DEF Init, RequestOK, HandlingPC
<1> QED
  BY <1>1, <1>2, <1>3, <1>4, <1>5, <1>6, <1>7, <1>8, <1>9 DEF TypeOK, TypeInv

-----------------------------------------------------------------------------
(* The values the helpers produce.                                         *)

\* A startup record stays one when its fields change.
LEMMA StartupUpdated ==
  ASSUME NEW r \in StartupRecord, NEW p \in StartupPC, NEW s \in BOOLEAN, NEW q \in BOOLEAN
  PROVE  /\ [r EXCEPT !.pc = p] \in StartupRecord
         /\ [r EXCEPT !.pc = p, !.sent = s] \in StartupRecord
         /\ [r EXCEPT !.pc = p, !.sent = s, !.permanent = q] \in StartupRecord
  BY DEF StartupRecord

\* Replacing a startup by a startup leaves startups.
LEMMA StartupReplaced ==
  ASSUME StartupType, NEW r, NEW n \in StartupRecord
  PROVE  Replace(startups, r, n) \subseteq StartupRecord
  BY DEF Replace, StartupType

\* startServer keeps the types of what it changes.
LEMMA StartServerType ==
  ASSUME StartupType, BooleanType, NEW S, S \subseteq StartupRecord, StartServer(S)
  PROVE  StartupType' /\ startupRunning' \in BOOLEAN
<1> DEFINE n == [gen |-> startupGeneration + 1, pc |-> "status", sent |-> FALSE, permanent |-> FALSE]
<1>1. n \in StartupRecord
  BY DEF StartupRecord, StartupType, StartupPC, Polling
<1>2. CASE StartAllowed
  <2>1. StartupType'
    <3>1. startups' = S \cup {n} /\ startupGeneration' = startupGeneration + 1
      BY <1>2 DEF StartServer
    <3> HIDE DEF n
    <3> QED
      BY <1>1, <3>1 DEF StartupType
  <2>2. startupRunning' \in BOOLEAN
    BY <1>2 DEF StartServer
  <2> QED
    BY <2>1, <2>2
<1>3. CASE ~StartAllowed
  BY <1>3 DEF StartServer, StartupType, BooleanType
<1> QED
  BY <1>2, <1>3

\* Where handleClientPacket continues has the right type.
LEMMA AfterForwardType ==
  ASSUME ServeType, RequestOK, LockType, pc \in HandlingPC, UNCHANGED received,
         pc \notin {"admit", "sample", "create"}, NEW ok \in BOOLEAN, AfterForward(ok)
  PROVE  ServeType' /\ RequestOK' /\ admission' \in {admission, "free"}
<1>1. req.site \in {"fast", "admitted", "created"}
  BY DEF ServeType, RequestOK, Request
<1>2. NoRequest \in Request
  BY DEF NoRequest, Request, SessionOrNone, NoSession
<1>3. pc' \in {"finish", "idle", "admit", "remove"} /\ ((pc' = "idle" /\ req' = NoRequest) \/ req' = req)
      /\ admission' \in {admission, "free"}
  BY <1>1 DEF AfterForward
<1> QED
  BY <1>2, <1>3 DEF ServeType, RequestOK, ServePC, HandlingPC

\* enqueueLocked keeps the queues typed.
LEMMA EnqueueType ==
  ASSUME QueueType, NEW s \in Session, NEW p \in Packet, Enqueue(s, p)
  PROVE  QueueType'
<1> DEFINE q == IF s \in DOMAIN queues THEN queues[s] ELSE [packets |-> <<>>, bytes |-> 0]
           after == IF ~QueueFull(q, p.size)
                      THEN [packets |-> Append(q.packets, p), bytes |-> q.bytes + p.size] ELSE q
<1>1. p.size \in Nat
  BY OptionsAssumption DEF Packet
<1>2. q \in Queue
  BY DEF QueueType, Queue
<1>3. after \in Queue
  <2>1. Append(q.packets, p) \in Seq(Packet) /\ q.bytes + p.size \in Nat
    BY <1>1, <1>2 DEF Queue
  <2> QED
    BY <1>2, <2>1 DEF Queue
<1>4. queues' = [x \in DOMAIN queues \cup {s} |-> IF x = s THEN after ELSE queues[x]]
  BY DEF Enqueue
<1>5. \A x \in DOMAIN queues : queues[x] \in Queue
  BY DEF QueueType
<1> HIDE DEF after, q
<1> QED
  BY <1>3, <1>4, <1>5 DEF QueueType

\* removeQueue and the reset of the map keep the queues typed.
LEMMA RemoveQueuesType == ASSUME QueueType, NEW S, RemoveQueues(S) PROVE QueueType'
  BY DEF QueueType, RemoveQueues, Without, Restrict

\* An empty queue map is a queue map.
LEMMA ClearQueuesType == ASSUME ClearQueues PROVE QueueType'
  BY DEF QueueType, ClearQueues, NoQueues

\* Closing sessions keeps the states typed.
LEMMA CloseSessionsType ==
  ASSUME SessionType, NEW S, CloseSessions(S)
  PROVE  state' \in [Session -> {"none", "open", "closing", "done"}]
  BY DEF SessionType, CloseSessions

\* The three ways to change the stop timer keep it typed.
LEMMA TimerChangeType ==
  ASSUME TimerType, BooleanType, UNCHANGED callbacks,
         CancelAutoStop \/ ScheduleAutoStop \/ UNCHANGED timerVars
  PROVE  TimerType' /\ gaveUp' \in BOOLEAN
<1>1. StoppedUnits \in Int
  BY DEF StoppedUnits
<1>2. CASE CancelAutoStop
  <2>1. TimerType'
    BY <1>1, <1>2 DEF CancelAutoStop, TimerType
  <2>2. gaveUp' \in BOOLEAN
    BY <1>2 DEF CancelAutoStop
  <2> QED
    BY <2>1, <2>2
<1>3. CASE ScheduleAutoStop
  <2>1. CASE shuttingDown \/ ~backendReady
    BY <1>3, <2>1 DEF ScheduleAutoStop, TimerType, BooleanType, timerVars
  <2>2. CASE ~(shuttingDown \/ ~backendReady)
    <3> DEFINE t == [gen |-> stopGeneration + 1, attempt |-> 1]
    <3>1. t \in Timer
      BY OptionsAssumption DEF TimerType, Timer
    <3>2. /\ stopGeneration' = stopGeneration + 1 /\ timers' = (timers \ {stopTimer}) \cup {t}
          /\ timerWG' = timerWG - StoppedUnits + 1 /\ stopTimer' = t /\ gaveUp' = FALSE
          /\ quiet' = IF StoreEmpty THEN "empty" ELSE "occupied"
      BY <1>3, <2>2 DEF ScheduleAutoStop
    <3> HIDE DEF t
    <3>3. TimerType'
      BY <1>1, <3>1, <3>2 DEF TimerType
    <3> QED
      BY <3>2, <3>3
  <2> QED
    BY <2>1, <2>2
<1>4. CASE UNCHANGED timerVars
  BY <1>4 DEF TimerType, BooleanType, timerVars
<1> QED
  BY <1>2, <1>3, <1>4

-----------------------------------------------------------------------------
(* One lemma per process, one step per action.                             *)

USE DEF gateVars, startupVars, queueVars, timerVars, lockVars, closeVars, sweepVars, monitorVars,
        serveVars, ctlVars

\* handleClientPacket keeps the types, and its datagram stays a real one.
LEMMA IngressType == TypeInv /\ Ingress => TypeInv'
<1> SUFFICES ASSUME TypeInv, Ingress PROVE TypeInv'
  OBVIOUS
<1> USE DEF TypeInv, TypeOK
<1>0. /\ UNCHANGED <<backendReady, backendRunning, blocked, lastExpired, shuttingDown, ctxDone, listenerOpen>>
      /\ UNCHANGED callbacks /\ UNCHANGED <<monitorVars, readinessGeneration, streak>>
      /\ UNCHANGED <<closeAll, detached>> /\ UNCHANGED <<sweeper, expired>>
  BY DEF Ingress
<1>a. MonitorType'
  BY <1>0 DEF MonitorType
<1>1. CASE \E k \in Keys : ReceivePacket(k)
  <2>1. PICK k \in Keys : ReceivePacket(k)
    BY <1>1
  <2>2. PICK size \in Sizes, wake \in BOOLEAN :
          req' = [NoRequest EXCEPT !.key = k, !.cur = sessions[k], !.size = size, !.wake = wake, !.site = "fast"]
    BY <2>1 DEF ReceivePacket
  <2>3. req' = [key |-> k, cur |-> sessions[k], size |-> size, wake |-> wake, site |-> "fast", sawReady |-> FALSE]
    BY <2>2 DEF NoRequest
  <2>4. req' \in Request /\ req'.key \in Keys /\ req'.size \in Sizes /\ req'.site # "none"
    BY <2>3 DEF Request, SessionType
  <2>5. received' \in Session /\ pc' \in {"forward", "admit"}
    BY <2>1, OptionsAssumption DEF ReceivePacket, ServeType, Session
  <2>6. pc' = "forward" => req'.cur \in Session
    BY <2>1, <2>3 DEF ReceivePacket, SessionType, SessionOrNone
  <2>7. ServeType' /\ RequestOK'
    BY <2>4, <2>5, <2>6 DEF ServeType, RequestOK, ServePC, Session
  <2>8. BooleanType' /\ StartupType' /\ TimerType' /\ LockType' /\ SessionType' /\ QueueType'
    BY <1>0, <2>1 DEF ReceivePacket, BooleanType, StartupType, TimerType, LockType, SessionType, QueueType
  <2> QED
    BY <1>a, <2>7, <2>8
<1>2. CASE QueuePacket
  <2>1. BooleanType' /\ StartupType' /\ TimerType'
    BY <1>0, <1>2 DEF QueuePacket, BooleanType, StartupType, TimerType
  <2>2. pc = "forward" /\ UNCHANGED received /\ pc \in HandlingPC
    BY <1>2 DEF QueuePacket, HandlingPC
  <2>3. CASE RecordActivity(req.cur)
    <3>1. req.cur \in Session /\ [id |-> received, size |-> req.size] \in Packet
      BY <2>2 DEF Packet, RequestOK
    <3>2. /\ forwarding' = "ingress" /\ pc' = "kick" /\ UNCHANGED <<req, admission>>
          /\ Enqueue(req.cur, [id |-> received, size |-> req.size]) /\ Touched({req.cur})
      BY <1>2, <2>3 DEF QueuePacket
    <3>3. QueueType'
      BY <3>1, <3>2, EnqueueType
    <3>4. ServeType' /\ RequestOK' /\ LockType'
      BY <1>0, <2>2, <3>2 DEF ServeType, RequestOK, LockType, ServePC, HandlingPC
    <3>5. SessionType'
      BY <1>0, <1>2, <3>1, <3>2 DEF QueuePacket, SessionType, Touched
    <3> QED
      BY <1>a, <2>1, <3>3, <3>4, <3>5
  <2>4. CASE ~RecordActivity(req.cur)
    <3>1. AfterForward(FALSE) /\ UNCHANGED <<queueVars, recent, forwarding>>
      BY <1>2, <2>4 DEF QueuePacket
    <3>2. ServeType' /\ RequestOK' /\ admission' \in {admission, "free"}
      BY <2>2, <3>1, AfterForwardType
    <3>3. LockType' /\ QueueType' /\ SessionType'
      BY <1>0, <1>2, <3>1, <3>2 DEF QueuePacket, LockType, QueueType, SessionType
    <3> QED
      BY <1>a, <2>1, <3>2, <3>3
  <2> QED
    BY <2>3, <2>4
<1>3. CASE KickStartup
  <2>1. StartupType' /\ startupRunning' \in BOOLEAN
    BY <1>3, StartServerType DEF KickStartup, StartupType
  <2>2. ServeType' /\ RequestOK' /\ admission' \in {admission, "free"}
    BY <1>3, AfterForwardType DEF KickStartup, HandlingPC
  <2>3. BooleanType' /\ TimerType' /\ SessionType' /\ QueueType'
    BY <1>0, <1>3, <2>1 DEF KickStartup, BooleanType, TimerType, SessionType, QueueType
  <2>4. LockType'
    BY <1>0, <1>3, <2>2 DEF KickStartup, LockType
  <2> QED
    BY <1>a, <2>1, <2>2, <2>3, <2>4
<1>4. CASE SeeGateOpen
  <2>1. ServeType' /\ RequestOK' /\ LockType'
    BY <1>0, <1>4 DEF SeeGateOpen, ServeType, RequestOK, LockType, ServePC, HandlingPC
  <2>2. BooleanType' /\ StartupType' /\ TimerType' /\ SessionType' /\ QueueType'
    BY <1>0, <1>4 DEF SeeGateOpen, BooleanType, StartupType, TimerType, SessionType, QueueType
  <2> QED
    BY <1>a, <2>1, <2>2
<1>5. CASE ForwardClient
  <2>1. BooleanType' /\ StartupType' /\ TimerType' /\ QueueType'
    BY <1>0, <1>5 DEF ForwardClient, BooleanType, StartupType, TimerType, QueueType
  <2>2. PICK ok \in BOOLEAN : AfterForward(ok)
    BY <1>5 DEF ForwardClient
  <2>3. ServeType' /\ RequestOK' /\ admission' \in {admission, "free"}
    BY <1>5, <2>2, AfterForwardType DEF ForwardClient, HandlingPC
  <2>4. LockType'
    BY <1>0, <1>5, <2>3 DEF ForwardClient, LockType
  <2>5. state' \in [Session -> {"none", "open", "closing", "done"}]
    BY <1>5, CloseSessionsType DEF ForwardClient, SessionType
  <2>6. sent' \in [Session -> SessionOrNone]
    BY <1>5 DEF ForwardClient, SessionType, ServeType, RequestOK, HandlingPC, SessionOrNone
  <2>7. recent' \subseteq Session
    BY <1>5 DEF ForwardClient, SessionType, Touched, RequestOK, HandlingPC
  <2>8. SessionType'
    BY <1>0, <1>5, <2>5, <2>6, <2>7 DEF ForwardClient, SessionType
  <2> QED
    BY <1>a, <2>1, <2>3, <2>4, <2>8
<1>6. CASE TakeAdmission
  <2>1. req' = [req EXCEPT !.cur = sessions[req.key], !.site = "admitted"] /\ req.key \in Keys
    BY <1>6 DEF TakeAdmission, RequestOK, HandlingPC
  <2>2. req' \in Request /\ req'.key = req.key /\ req'.size = req.size /\ req'.cur = sessions[req.key]
        /\ req'.site = "admitted"
    BY <2>1 DEF Request, SessionType, ServeType
  <2>3. ServeType' /\ RequestOK' /\ LockType'
    BY <1>0, <1>6, <2>1, <2>2
       DEF TakeAdmission, ServeType, RequestOK, LockType, ServePC, HandlingPC, SessionType, SessionOrNone
  <2>4. BooleanType' /\ StartupType' /\ TimerType' /\ SessionType' /\ QueueType'
    BY <1>0, <1>6 DEF TakeAdmission, BooleanType, StartupType, TimerType, SessionType, QueueType
  <2> QED
    BY <1>a, <2>3, <2>4
<1>7. CASE RemoveDeadSession
  <2>1. ServeType' /\ RequestOK'
    BY <1>7 DEF RemoveDeadSession, ServeType, RequestOK, ServePC, HandlingPC
  <2>2. state' \in [Session -> {"none", "open", "closing", "done"}]
    BY <1>7, CloseSessionsType DEF RemoveDeadSession, SessionType
  <2>3. sessions' \in [Keys -> SessionOrNone]
    BY <1>7 DEF RemoveDeadSession, StoreRemove, SessionType, SessionOrNone
  <2>4. SessionType'
    BY <1>0, <1>7, <2>2, <2>3 DEF RemoveDeadSession, SessionType
  <2>5. BooleanType' /\ StartupType' /\ TimerType' /\ LockType' /\ QueueType'
    BY <1>0, <1>7 DEF RemoveDeadSession, BooleanType, StartupType, TimerType, LockType, QueueType
  <2> QED
    BY <1>a, <2>1, <2>4, <2>5
<1>8. CASE DropDeadQueue
  <2>1. ServeType' /\ RequestOK'
    BY <1>8 DEF DropDeadQueue, ServeType, RequestOK, ServePC, HandlingPC
  <2>2. QueueType'
    BY <1>8, RemoveQueuesType DEF DropDeadQueue
  <2>3. BooleanType' /\ StartupType' /\ TimerType' /\ LockType' /\ SessionType'
    BY <1>0, <1>8 DEF DropDeadQueue, BooleanType, StartupType, TimerType, LockType, SessionType
  <2> QED
    BY <1>a, <2>1, <2>2, <2>3
<1>9. NoRequest \in Request
  BY DEF NoRequest, Request, SessionOrNone, NoSession
<1>10. CASE SampleGate
  <2>1. BooleanType' /\ StartupType' /\ TimerType' /\ SessionType' /\ QueueType'
    BY <1>0, <1>10 DEF SampleGate, BooleanType, StartupType, TimerType, SessionType, QueueType
  <2>2. CASE PacketRefused
    BY <1>0, <1>a, <1>9, <1>10, <2>1, <2>2
       DEF SampleGate, DropPacket, ServeType, RequestOK, LockType, ServePC, HandlingPC
  <2>3. CASE ~PacketRefused
    <3>1. req' = [req EXCEPT !.sawReady = backendReady] /\ pc = "sample" /\ pc' = "create" /\ UNCHANGED received
      BY <1>10, <2>3 DEF SampleGate
    <3>2. req' \in Request
      BY <3>1 DEF Request, ServeType, BooleanType
    <3>3. req'.key = req.key /\ req'.size = req.size /\ req'.site = req.site
      BY <3>1 DEF Request, ServeType
    <3>4. ServeType' /\ RequestOK'
      BY <3>1, <3>2, <3>3 DEF ServeType, RequestOK, ServePC, HandlingPC
    <3>5. LockType'
      BY <1>0, <1>10, <2>3 DEF SampleGate, LockType
    <3> QED
      BY <1>a, <2>1, <3>4, <3>5
  <2> QED
    BY <2>2, <2>3
<1>11. CASE CreateFails
  <2>1. BooleanType' /\ StartupType' /\ TimerType' /\ SessionType' /\ QueueType'
    BY <1>0, <1>11 DEF CreateFails, BooleanType, StartupType, TimerType, SessionType, QueueType
  <2> QED
    BY <1>0, <1>a, <1>9, <1>11, <2>1
       DEF CreateFails, DropPacket, ServeType, RequestOK, LockType, ServePC, HandlingPC
<1>12. CASE CreateSession
  <2>1. PICK s \in Session :
          /\ sessions' = [sessions EXCEPT ![req.key] = s] /\ state' = [state EXCEPT ![s] = "open"]
          /\ owner' = [owner EXCEPT ![s] = req.key] /\ req' = [req EXCEPT !.cur = s, !.site = "created"]
          /\ Touched({s})
    BY <1>12 DEF CreateSession
  <2>2. req' \in Request /\ req'.key = req.key /\ req'.size = req.size /\ req'.cur = s /\ req'.site = "created"
    BY <2>1 DEF Request, ServeType, SessionOrNone
  <2>3. ServeType' /\ RequestOK'
    BY <1>12, <2>2 DEF CreateSession, ServeType, RequestOK, ServePC, HandlingPC
  <2>4. req.key \in Keys
    BY <1>12 DEF CreateSession, RequestOK, HandlingPC
  <2>5. SessionType'
    BY <1>0, <1>12, <2>1, <2>4 DEF CreateSession, SessionType, SessionOrNone, Touched
  <2>6. BooleanType' /\ StartupType' /\ TimerType' /\ LockType' /\ QueueType'
    BY <1>0, <1>12 DEF CreateSession, BooleanType, StartupType, TimerType, LockType, QueueType
  <2> QED
    BY <1>a, <2>3, <2>5, <2>6
<1>13. CASE WatchSession
  <2>1. TimerType' /\ gaveUp' \in BOOLEAN
    BY <1>0, <1>13, TimerChangeType DEF WatchSession
  <2>2. ServeType' /\ RequestOK'
    BY <1>13 DEF WatchSession, ServeType, RequestOK, ServePC, HandlingPC
  <2>3. BooleanType' /\ StartupType' /\ LockType' /\ QueueType'
    BY <1>0, <1>13, <2>1 DEF WatchSession, BooleanType, StartupType, LockType, QueueType
  <2>4. SessionType'
    BY <1>0, <1>13 DEF WatchSession, SessionType
  <2> QED
    BY <1>a, <2>1, <2>2, <2>3, <2>4
<1>14. CASE FinishAdmission
  <2>1. StartupType' /\ startupRunning' \in BOOLEAN
    BY <1>14, StartServerType DEF FinishAdmission, StartupType, BooleanType
  <2>2. ServeType' /\ RequestOK' /\ LockType'
    BY <1>0, <1>9, <1>14
       DEF FinishAdmission, DropPacket, ServeType, RequestOK, LockType, ServePC, HandlingPC
  <2>3. BooleanType' /\ TimerType' /\ SessionType' /\ QueueType'
    BY <1>0, <1>14, <2>1 DEF FinishAdmission, BooleanType, TimerType, SessionType, QueueType
  <2> QED
    BY <1>a, <2>1, <2>2, <2>3
<1> QED
  BY <1>1, <1>2, <1>3, <1>4, <1>5, <1>6, <1>7, <1>8, <1>10, <1>11, <1>12, <1>13, <1>14 DEF Ingress

\* The steps of a session keep the types.
LEMMA SessionStepType == \A s \in Session : TypeInv /\ SessionStep(s) => TypeInv'
<1> SUFFICES ASSUME NEW s \in Session, TypeInv, SessionStep(s) PROVE TypeInv'
  OBVIOUS
<1> USE DEF TypeInv, TypeOK
<1>1. state' \in [Session -> {"none", "open", "closing", "done"}]
  BY CloseSessionsType
     DEF SessionStep, BackendTraffic, SessionFails, CloseDetached, SessionDone, SessionType
<1>2. recent' \subseteq Session
  BY DEF SessionStep, BackendTraffic, SessionFails, CloseDetached, SessionDone, SessionType, Touched
<1>3. SessionType'
  BY <1>1, <1>2 DEF SessionStep, SessionType
<1>4. BooleanType' /\ StartupType' /\ TimerType' /\ LockType' /\ MonitorType'
  BY DEF SessionStep, BooleanType, StartupType, TimerType, LockType, MonitorType
<1>5. ServeType' /\ RequestOK' /\ QueueType'
  BY DEF SessionStep, ServeType, RequestOK, QueueType
<1> QED
  BY <1>3, <1>4, <1>5

\* The steps of watchSession keep the types.
LEMMA WatcherType == \A s \in Session : TypeInv /\ Watcher(s) => TypeInv'
<1> SUFFICES ASSUME NEW s \in Session, TypeInv, Watcher(s) PROVE TypeInv'
  OBVIOUS
<1> USE DEF TypeInv, TypeOK
<1>1. sessions' \in [Keys -> SessionOrNone]
  BY DEF Watcher, WatcherRemoves, WatcherDropsQueue, WatcherSchedules, StoreRemove, SessionType,
         SessionOrNone
<1>2. watcher' \in [Session -> {"none", "wait", "drop", "dropLast", "schedule", "ended"}]
  BY DEF Watcher, WatcherRemoves, WatcherDropsQueue, WatcherSchedules, SessionType
<1>3. SessionType'
  BY <1>1, <1>2 DEF Watcher, SessionType
<1>4. QueueType'
  BY RemoveQueuesType DEF Watcher, WatcherRemoves, WatcherDropsQueue, WatcherSchedules, QueueType
<1>5. UNCHANGED callbacks /\ (ScheduleAutoStop \/ UNCHANGED timerVars)
  BY DEF Watcher, WatcherRemoves, WatcherDropsQueue, WatcherSchedules
<1>6. TimerType' /\ gaveUp' \in BOOLEAN
  BY <1>5, TimerChangeType
<1>7. BooleanType' /\ StartupType' /\ LockType' /\ MonitorType'
  BY <1>6 DEF Watcher, BooleanType, StartupType, LockType, MonitorType
<1>8. ServeType' /\ RequestOK'
  BY DEF Watcher, ServeType, RequestOK
<1> QED
  BY <1>3, <1>4, <1>6, <1>7, <1>8

\* The steps of the idle sweeper keep the types.
LEMMA SweeperType == TypeInv /\ Sweeper => TypeInv'
<1> SUFFICES ASSUME TypeInv, Sweeper PROVE TypeInv'
  OBVIOUS
<1> USE DEF TypeInv, TypeOK
<1> USE DEF SweeperTicks, SweeperRefreshes, SweeperExpires, SweeperDropsQueues, SweeperSchedules, SweeperExits
<1>1. sessions' \in [Keys -> SessionOrNone]
  BY DEF Sweeper, SessionType, SessionOrNone
<1>2. state' \in [Session -> {"none", "open", "closing", "done"}]
  BY CloseSessionsType DEF Sweeper, SessionType
<1>3. sweeper' \in {"idle", "refresh", "expire", "closing", "schedule", "ended"}
  BY DEF Sweeper, SessionType
<1>4. expired' \subseteq Session /\ recent' \subseteq Session
  BY DEF Sweeper, SessionType, PendingSessions, Open
<1>5. SessionType'
  BY <1>1, <1>2, <1>3, <1>4 DEF Sweeper, SessionType
<1>6. lastExpired' \in BOOLEAN
  BY DEF Sweeper, BooleanType
<1>7. QueueType'
  BY RemoveQueuesType DEF Sweeper, QueueType
<1>8. UNCHANGED callbacks /\ (ScheduleAutoStop \/ UNCHANGED timerVars)
  BY DEF Sweeper
<1>9. TimerType' /\ gaveUp' \in BOOLEAN
  BY <1>8, TimerChangeType
<1>10. BooleanType' /\ StartupType' /\ LockType' /\ MonitorType'
  BY <1>6, <1>9 DEF Sweeper, BooleanType, StartupType, LockType, MonitorType
<1>11. ServeType' /\ RequestOK'
  BY DEF Sweeper, ServeType, RequestOK
<1> QED
  BY <1>5, <1>7, <1>9, <1>10, <1>11

\* The gate's variables after a step that closes it.
LEMMA CloseGateType ==
  ASSUME readinessGeneration \in Nat, CloseGate
  PROVE  backendReady' \in BOOLEAN /\ backendRunning' \in BOOLEAN /\ readinessGeneration' \in Nat
<1>1. backendReady' \in BOOLEAN /\ backendRunning' \in BOOLEAN
  BY DEF CloseGate
<1>2. readinessGeneration' \in Nat
  BY DEF CloseGate
<1> QED
  BY <1>1, <1>2

\* A startup that moves to a startup's program counter is a startup.
LEMMA GotoType ==
  ASSUME StartupType, NEW r \in startups, NEW p \in StartupPC, Goto(r, p)
  PROVE  startups' \subseteq StartupRecord
<1>1. [r EXCEPT !.pc = p] \in StartupRecord
  BY StartupUpdated DEF StartupType
<1> QED
  BY <1>1, StartupReplaced DEF Goto

\* A startup that fails is a startup.
LEMMA FailWithType ==
  ASSUME StartupType, NEW r \in startups, NEW permanent \in BOOLEAN, FailWith(r, permanent)
  PROVE  startups' \subseteq StartupRecord
<1> DEFINE p == IF ctxDone THEN "finish" ELSE "fail"
<1>1. p \in StartupPC /\ r \in StartupRecord /\ FALSE \in BOOLEAN
  BY DEF StartupPC, Failing, StartupType
<1>2. startups' = Replace(startups, r, [r EXCEPT !.pc = p, !.sent = FALSE, !.permanent = permanent])
  BY DEF FailWith
<1> HIDE DEF p
<1>3. [r EXCEPT !.pc = p, !.sent = FALSE, !.permanent = permanent] \in StartupRecord
  BY <1>1, StartupUpdated
<1> QED
  BY <1>2, <1>3, StartupReplaced

\* What the polling of ensureRunning changes.
LEMMA PollsType ==
  ASSUME TypeInv, NEW r \in startups, StartupPolls(r)
  PROVE  /\ startups' \subseteq StartupRecord
         /\ backendReady' \in BOOLEAN /\ backendRunning' \in BOOLEAN /\ readinessGeneration' \in Nat
<1> USE DEF TypeInv, TypeOK
<1>0. /\ backendReady \in BOOLEAN /\ backendRunning \in BOOLEAN /\ readinessGeneration \in Nat
      /\ r \in StartupRecord
  BY DEF BooleanType, MonitorType, StartupType
<1>1. CASE StartupSeesRunning(r)
  <2> DEFINE p == IF HasReadiness THEN "waitReady" ELSE "settle"
  <2>1. p \in StartupPC
    BY DEF StartupPC, Polling
  <2>2. startups' = Replace(startups, r, [r EXCEPT !.pc = p, !.sent = FALSE])
        /\ backendRunning' = TRUE /\ UNCHANGED <<backendReady, readinessGeneration>>
    BY <1>1 DEF StartupSeesRunning
  <2> HIDE DEF p
  <2>3. [r EXCEPT !.pc = p, !.sent = FALSE] \in StartupRecord
    BY <1>0, <2>1, StartupUpdated
  <2>4. startups' \subseteq StartupRecord
    BY <2>2, <2>3, StartupReplaced
  <2> QED
    BY <1>0, <2>2, <2>4
<1>2. CASE StartupSeesNotRunning(r)
  <2>1. PICK st \in StatusResults \cap NotRunningStates :
          startups' = Replace(startups, r,
                        [r EXCEPT !.pc = IF st = "offline" /\ ~r.sent THEN "start" ELSE "tick",
                                  !.sent = (st = "starting" \/ (st = "offline" /\ r.sent))])
    BY <1>2 DEF StartupSeesNotRunning
  <2> DEFINE p == IF st = "offline" /\ ~r.sent THEN "start" ELSE "tick"
             b == st = "starting" \/ (st = "offline" /\ r.sent)
  <2>2. p \in StartupPC /\ b \in BOOLEAN
    BY DEF StartupPC, Polling
  <2>3. startups' = Replace(startups, r, [r EXCEPT !.pc = p, !.sent = b])
    BY <2>1
  <2> HIDE DEF p, b
  <2>4. [r EXCEPT !.pc = p, !.sent = b] \in StartupRecord
    BY <1>0, <2>2, StartupUpdated
  <2>5. startups' \subseteq StartupRecord
    BY <2>3, <2>4, StartupReplaced
  <2> QED
    BY <1>0, <1>2, <2>5, CloseGateType DEF StartupSeesNotRunning, MarkBackendNotRunning
<1>3. CASE StartupStatusFails(r)
  <2>1. Goto(r, "tick") \/ FailWith(r, TRUE)
    BY <1>3 DEF StartupStatusFails
  <2>2. startups' \subseteq StartupRecord
    BY <2>1, GotoType, FailWithType DEF StartupPC, Polling
  <2> QED
    BY <1>0, <1>3, <2>2 DEF StartupStatusFails
<1>4. CASE StartupStartAnswered(r)
  <2>1. FailWith(r, TRUE) \/ startups' = Replace(startups, r, [r EXCEPT !.pc = "tick", !.sent = TRUE])
    BY <1>4 DEF StartupStartAnswered
  <2>2. [r EXCEPT !.pc = "tick", !.sent = TRUE] \in StartupRecord
    BY <1>0, StartupUpdated DEF StartupPC, Polling
  <2>3. startups' \subseteq StartupRecord
    BY <2>1, <2>2, StartupReplaced, FailWithType
  <2> QED
    BY <1>0, <1>4, <2>3 DEF StartupStartAnswered
<1>5. CASE StartupAdvances(r)
  <2>1. \E p \in StartupPC : Goto(r, p)
    BY <1>5 DEF StartupAdvances, StartupPC, Polling, Opening
  <2>2. startups' \subseteq StartupRecord
    BY <2>1, GotoType
  <2> QED
    BY <1>0, <1>5, <2>2 DEF StartupAdvances
<1>6. CASE StartupWaitFails(r)
  <2>1. \E b \in BOOLEAN : FailWith(r, b)
    BY <1>6 DEF StartupWaitFails
  <2>2. startups' \subseteq StartupRecord
    BY <2>1, FailWithType
  <2> QED
    BY <1>0, <1>6, <2>2 DEF StartupWaitFails
<1> QED
  BY <1>1, <1>2, <1>3, <1>4, <1>5, <1>6 DEF StartupPolls

\* The flush of the startup queues keeps sessions and queues typed.
LEMMA FlushType ==
  ASSUME SessionType, QueueType, NEW n \in FlushCounts, Flush(n)
  PROVE  /\ sent' \in [Session -> SessionOrNone] /\ recent' \subseteq Session /\ QueueType'
         /\ state' \in [Session -> {"none", "open", "closing", "done"}]
<1>1. \A s \in DOMAIN queues : n[s] \in Nat /\ n[s] <= Len(queues[s].packets)
  BY OptionsAssumption DEF FlushCounts
<1>2. \A s \in DOMAIN queues : n[s] > 0 => queues[s].packets[n[s]].id \in Session
  <2> SUFFICES ASSUME NEW s \in DOMAIN queues, n[s] > 0 PROVE queues[s].packets[n[s]].id \in Session
    OBVIOUS
  <2>1. queues[s].packets \in Seq(Packet)
    BY DEF QueueType, Queue
  <2>2. n[s] \in 1..Len(queues[s].packets)
    BY <1>1, <2>1
  <2>3. queues[s].packets[n[s]] \in Packet
    BY <2>1, <2>2
  <2> QED
    BY <2>3 DEF Packet
<1>3. sent' \in [Session -> SessionOrNone]
  BY <1>2 DEF Flush, SessionType, SessionOrNone
<1>4. recent' \subseteq Session
  BY DEF Flush, Touched, SessionType, QueueType
<1>5. QueueType'
  BY ClearQueuesType DEF Flush
<1> QED
  BY <1>3, <1>4, <1>5, CloseSessionsType DEF Flush

\* The steps of the startup goroutines keep the types.
LEMMA StartupStepType == \A r \in startups : TypeInv /\ Startup(r) => TypeInv'
<1> SUFFICES ASSUME NEW r \in startups, TypeInv, Startup(r) PROVE TypeInv'
  OBVIOUS
<1> USE DEF TypeInv, TypeOK
<1>0. /\ UNCHANGED <<lastExpired, shuttingDown, ctxDone, listenerOpen>> /\ UNCHANGED callbacks
      /\ UNCHANGED monitorVars /\ UNCHANGED <<sessions, owner, watcher, sweeper, expired>>
      /\ UNCHANGED <<pc, req, received>>
  BY DEF Startup
<1>a. ServeType' /\ RequestOK'
  BY <1>0 DEF ServeType, RequestOK
<1>b. (startups \ {r}) \subseteq StartupRecord
  BY DEF StartupType
<1>1. CASE StartupPolls(r)
  <2>1. /\ startups' \subseteq StartupRecord
        /\ backendReady' \in BOOLEAN /\ backendRunning' \in BOOLEAN /\ readinessGeneration' \in Nat
    BY <1>1, PollsType
  <2>2. BooleanType' /\ StartupType' /\ MonitorType'
    BY <1>0, <1>1, <2>1 DEF StartupPolls, BooleanType, StartupType, MonitorType
  <2>3. TimerType' /\ LockType' /\ SessionType' /\ QueueType'
    BY <1>0, <1>1 DEF StartupPolls, TimerType, LockType, SessionType, QueueType
  <2> QED
    BY <1>a, <2>2, <2>3
<1>2. CASE StartupTakesAdmission(r)
  <2>1. \E p \in StartupPC : Goto(r, p)
    BY <1>2 DEF StartupTakesAdmission, StartupPC, Opening, Failing
  <2>2. startups' \subseteq StartupRecord
    BY <2>1, GotoType
  <2>3. BooleanType' /\ StartupType' /\ MonitorType' /\ LockType'
    BY <1>0, <1>2, <2>2 DEF StartupTakesAdmission, BooleanType, StartupType, MonitorType, LockType
  <2>4. TimerType' /\ SessionType' /\ QueueType'
    BY <1>0, <1>2 DEF StartupTakesAdmission, TimerType, SessionType, QueueType
  <2> QED
    BY <1>a, <2>3, <2>4
<1>3. CASE StartupOpensGate(r)
  <2>1. \E p \in StartupPC : Goto(r, p)
    BY <1>3 DEF StartupOpensGate, StartupPC, Opening
  <2>2. StartupType' /\ TimerType'
    BY <1>0, <1>3, <2>1, GotoType DEF StartupOpensGate, StartupType, TimerType
  <2>3. LockType'
    BY <1>3 DEF StartupOpensGate, LockType
  <2>4. BooleanType'
    <3>1. backendReady' \in BOOLEAN /\ backendRunning' \in BOOLEAN
      BY <1>3 DEF StartupOpensGate, BooleanType
    <3> QED
      BY <1>0, <1>3, <3>1 DEF StartupOpensGate, BooleanType
  <2>5. MonitorType'
    BY <1>0, <1>3, OptionsAssumption DEF StartupOpensGate, MonitorType
  <2>6. SessionType' /\ QueueType'
    <3>1. CASE shuttingDown
      BY <1>0, <1>3, <3>1 DEF StartupOpensGate, SessionType, QueueType
    <3>2. CASE ~shuttingDown
      BY <1>0, <1>3, <3>2, FlushType DEF StartupOpensGate, SessionType
    <3> QED
      BY <3>1, <3>2
  <2> QED
    BY <1>a, <2>2, <2>3, <2>4, <2>5, <2>6
<1>4. CASE StartupGateOpened(r)
  <2>1. startups' \subseteq StartupRecord
    BY <1>4, GotoType DEF StartupGateOpened, StartupPC
  <2>2. TimerType' /\ gaveUp' \in BOOLEAN
    BY <1>0, <1>4, TimerChangeType DEF StartupGateOpened
  <2>3. BooleanType' /\ StartupType' /\ MonitorType' /\ LockType'
    BY <1>0, <1>4, <2>1, <2>2 DEF StartupGateOpened, BooleanType, StartupType, MonitorType, LockType
  <2>4. SessionType' /\ QueueType'
    BY <1>0, <1>4 DEF StartupGateOpened, SessionType, QueueType
  <2> QED
    BY <1>a, <2>2, <2>3, <2>4
<1>5. CASE StartupFails(r)
  <2>1. startups' \subseteq StartupRecord
    BY <1>5, GotoType DEF StartupFails, StartupPC, Failing
  <2>2. startupRunning' \in BOOLEAN /\ backendRunning' \in BOOLEAN /\ blocked' \in BOOLEAN
    BY <1>5 DEF StartupFails, BooleanType
  <2>3. BooleanType'
    BY <1>0, <1>5, <2>2 DEF StartupFails, BooleanType
  <2>4. StartupType' /\ MonitorType' /\ LockType'
    BY <1>0, <1>5, <2>1 DEF StartupFails, BeginCloseAll, StartupType, MonitorType, LockType
  <2>5. TimerType' /\ SessionType'
    BY <1>0, <1>5 DEF StartupFails, TimerType, SessionType
  <2>6. QueueType'
    BY <1>5, ClearQueuesType DEF StartupFails
  <2> QED
    BY <1>a, <2>3, <2>4, <2>5, <2>6
<1>6. CASE StartupFailed(r)
  <2>1. BooleanType' /\ StartupType' /\ MonitorType' /\ LockType'
    BY <1>0, <1>b, <1>6
       DEF StartupFailed, CloseAllReturns, BooleanType, StartupType, MonitorType, LockType
  <2>2. TimerType' /\ SessionType' /\ QueueType'
    BY <1>0, <1>6 DEF StartupFailed, TimerType, SessionType, QueueType
  <2> QED
    BY <1>a, <2>1, <2>2
<1>7. CASE StartupCompletes(r)
  <2>1. startups' \subseteq StartupRecord
    BY <1>7, <1>b, GotoType DEF StartupCompletes, StartupPC
  <2>2. startupRunning' \in BOOLEAN
    BY <1>7 DEF StartupCompletes, BooleanType
  <2>3. BooleanType' /\ StartupType' /\ MonitorType' /\ LockType'
    BY <1>0, <1>7, <2>1, <2>2 DEF StartupCompletes, BooleanType, StartupType, MonitorType, LockType
  <2>4. TimerType' /\ SessionType' /\ QueueType'
    BY <1>0, <1>7 DEF StartupCompletes, TimerType, SessionType, QueueType
  <2> QED
    BY <1>a, <2>3, <2>4
<1>8. CASE StartupRestarts(r)
  <2>1. StartupType' /\ startupRunning' \in BOOLEAN
    BY <1>8, <1>b, StartServerType DEF StartupRestarts
  <2>2. BooleanType' /\ MonitorType' /\ LockType'
    BY <1>0, <1>8, <2>1 DEF StartupRestarts, BooleanType, MonitorType, LockType
  <2>3. TimerType' /\ SessionType' /\ QueueType'
    BY <1>0, <1>8 DEF StartupRestarts, TimerType, SessionType, QueueType
  <2> QED
    BY <1>a, <2>1, <2>2, <2>3
<1> QED
  BY <1>1, <1>2, <1>3, <1>4, <1>5, <1>6, <1>7, <1>8 DEF Startup

\* The health monitor keeps the types; its failure count stays below the
\* threshold because reaching it resets the count.
LEMMA MonitorStepType == TypeInv /\ Monitor => TypeInv'
<1> SUFFICES ASSUME TypeInv, Monitor PROVE TypeInv'
  OBVIOUS
<1> USE DEF TypeInv, TypeOK
<1>0. /\ UNCHANGED <<startupRunning, blocked, lastExpired, shuttingDown, ctxDone, listenerOpen>>
      /\ UNCHANGED callbacks
  BY DEF Monitor
<1>a. StartupType' /\ ServeType' /\ RequestOK' /\ SessionType'
  BY DEF Monitor, StartupType, ServeType, RequestOK, SessionType
<1>b. NoFailures \in [generation : Nat, count : 0..(HealthFailureThreshold - 1)]
  BY OptionsAssumption DEF NoFailures
<1>1. CASE MonitorTicks
  <2>1. MonitorType'
    BY <1>1, <1>b DEF MonitorTicks, MonitorType
  <2>2. BooleanType' /\ TimerType' /\ LockType' /\ QueueType'
    BY <1>0, <1>1 DEF MonitorTicks, BooleanType, TimerType, LockType, QueueType
  <2> QED
    BY <1>a, <2>1, <2>2
<1>2. CASE MonitorProbed
  <2>1. PICK result \in ProbeResults :
          LET confirmed == result = "unavailable" /\ GenerationCurrent(monitor.gen)
              after == RecordFailure(monitor.gen)
              lost == confirmed /\ LossConfirmed(after.count)
          IN  /\ failures' = IF confirmed /\ ~lost THEN after ELSE NoFailures
              /\ monitor' = IF lost THEN [monitor EXCEPT !.pc = "lose"] ELSE [pc |-> "idle", gen |-> 0]
              /\ streak' = IF result # "unavailable" \/ ~backendReady \/ readinessGeneration # monitor.gen THEN 0
                           ELSE IF streak < HealthFailureThreshold THEN streak + 1 ELSE streak
    BY <1>2 DEF MonitorProbed
  <2>2. streak' \in 0..HealthFailureThreshold
    BY <2>1, OptionsAssumption DEF MonitorType
  <2>3. failures' \in [generation : Nat, count : 0..(HealthFailureThreshold - 1)]
    <3>1. RecordFailure(monitor.gen) \in [generation : Nat, count : Nat]
      BY DEF RecordFailure, MonitorType
    <3>2. ~LossConfirmed(RecordFailure(monitor.gen).count) =>
            RecordFailure(monitor.gen) \in [generation : Nat, count : 0..(HealthFailureThreshold - 1)]
      BY <3>1, OptionsAssumption DEF LossConfirmed
    <3>3. failures' = NoFailures \/
            (failures' = RecordFailure(monitor.gen) /\ ~LossConfirmed(RecordFailure(monitor.gen).count))
      BY <2>1
    <3> QED
      BY <1>b, <3>2, <3>3
  <2>4. monitor' \in [pc : {"idle", "probe", "lose", "loseGate", "loseClosing", "ended"}, gen : Nat]
    BY <2>1 DEF MonitorType
  <2>5. MonitorType'
    BY <1>2, <2>2, <2>3, <2>4 DEF MonitorProbed, MonitorType
  <2>6. BooleanType' /\ TimerType' /\ LockType' /\ QueueType'
    BY <1>0, <1>2 DEF MonitorProbed, BooleanType, TimerType, LockType, QueueType
  <2> QED
    BY <1>a, <2>5, <2>6
<1>3. CASE MonitorTakesAdmission
  <2>1. MonitorType' /\ LockType'
    BY <1>3 DEF MonitorTakesAdmission, MonitorType, LockType
  <2>2. BooleanType' /\ TimerType' /\ QueueType'
    BY <1>0, <1>3 DEF MonitorTakesAdmission, BooleanType, TimerType, QueueType
  <2> QED
    BY <1>a, <2>1, <2>2
<1>4. CASE MonitorClosesGate
  <2>1. CASE GenerationCurrent(monitor.gen)
    <3>1. CloseGate /\ CancelAutoStop /\ ClearQueues /\ BeginCloseAll /\ forwarding' = "monitor"
          /\ monitor' = [pc |-> "loseClosing", gen |-> 0] /\ UNCHANGED <<admission, failures, streak>>
      BY <1>4, <2>1 DEF MonitorClosesGate
    <3>2. backendReady' \in BOOLEAN /\ backendRunning' \in BOOLEAN /\ readinessGeneration' \in Nat
      BY <3>1, CloseGateType DEF MonitorType
    <3>3. TimerType' /\ gaveUp' \in BOOLEAN
      BY <1>0, <3>1, TimerChangeType
    <3>4. BooleanType'
      BY <1>0, <3>2, <3>3 DEF BooleanType
    <3>5. MonitorType' /\ LockType' /\ QueueType'
      BY <3>1, <3>2, ClearQueuesType DEF MonitorType, LockType, BeginCloseAll
    <3> QED
      BY <1>a, <3>3, <3>4, <3>5
  <2>2. CASE ~GenerationCurrent(monitor.gen)
    <3>1. MonitorType' /\ LockType'
      BY <1>4, <2>2 DEF MonitorClosesGate, MonitorType, LockType
    <3>2. BooleanType' /\ TimerType' /\ QueueType'
      BY <1>0, <1>4, <2>2 DEF MonitorClosesGate, BooleanType, TimerType, QueueType
    <3> QED
      BY <1>a, <3>1, <3>2
  <2> QED
    BY <2>1, <2>2
<1>5. CASE MonitorClosed
  <2>1. MonitorType' /\ LockType'
    BY <1>5 DEF MonitorClosed, CloseAllReturns, MonitorType, LockType
  <2>2. BooleanType' /\ TimerType' /\ QueueType'
    BY <1>0, <1>5 DEF MonitorClosed, BooleanType, TimerType, QueueType
  <2> QED
    BY <1>a, <2>1, <2>2
<1>6. CASE MonitorExits
  <2>1. MonitorType' /\ LockType'
    BY <1>6, <1>b DEF MonitorExits, MonitorType, LockType
  <2>2. BooleanType' /\ TimerType' /\ QueueType'
    BY <1>0, <1>6 DEF MonitorExits, BooleanType, TimerType, QueueType
  <2> QED
    BY <1>a, <2>1, <2>2
<1> QED
  BY <1>1, <1>2, <1>3, <1>4, <1>5, <1>6 DEF Monitor

\* A fired timer becomes a callback.
LEMMA TimerFiresType == \A t \in timers : TypeInv /\ TimerFires(t) => TypeInv'
<1> SUFFICES ASSUME NEW t \in timers, TypeInv, TimerFires(t) PROVE TypeInv'
  OBVIOUS
<1> USE DEF TypeInv, TypeOK
<1>1. TimerType'
  BY DEF TimerFires, TimerType, CallbackRecord
<1>2. BooleanType' /\ StartupType' /\ LockType' /\ MonitorType' /\ QueueType'
  BY DEF TimerFires, BooleanType, StartupType, LockType, MonitorType, QueueType
<1>3. ServeType' /\ RequestOK' /\ SessionType'
  BY DEF TimerFires, ServeType, RequestOK, SessionType
<1> QED
  BY <1>1, <1>2, <1>3

\* runAutoStopAttempt keeps the types; a retry stays within the attempts.
LEMMA CallbackType == \A c \in callbacks : TypeInv /\ Callback(c) => TypeInv'
<1> SUFFICES ASSUME NEW c \in callbacks, TypeInv, Callback(c) PROVE TypeInv'
  OBVIOUS
<1> USE DEF TypeInv, TypeOK
<1>0. /\ UNCHANGED <<startupRunning, blocked, lastExpired, shuttingDown, ctxDone, listenerOpen>>
      /\ UNCHANGED <<stopGeneration, quiet>> /\ UNCHANGED <<monitorVars, streak>>
      /\ UNCHANGED <<forwarding, closeAll, detached>>
  BY DEF Callback
<1>a. StartupType' /\ ServeType' /\ RequestOK'
  BY DEF Callback, StartupType, ServeType, RequestOK
<1>b. SessionType' /\ QueueType'
  BY DEF Callback, SessionType, QueueType
<1>c. c \in CallbackRecord /\ c.timer \in Timer
  BY DEF TimerType, CallbackRecord
<1>1. CASE CallbackDecides(c)
  <2>1. [c EXCEPT !.pc = "stopping"] \in CallbackRecord
    BY <1>c DEF CallbackRecord
  <2>2. TimerType' /\ LockType'
    BY <1>0, <1>1, <2>1 DEF CallbackDecides, HoldAdmission, TimerType, LockType, Replace
  <2>3. BooleanType' /\ MonitorType'
    BY <1>0, <1>1 DEF CallbackDecides, BooleanType, MonitorType
  <2> QED
    BY <1>a, <1>b, <2>2, <2>3
<1>2. CASE CallbackStopAccepted(c)
  <2>1. backendReady' \in BOOLEAN /\ backendRunning' \in BOOLEAN /\ readinessGeneration' \in Nat
    BY <1>2, CloseGateType DEF CallbackStopAccepted, MarkBackendNotRunning, MonitorType
  <2>2. TimerType' /\ LockType'
    BY <1>0, <1>2 DEF CallbackStopAccepted, ForgetTimer, CallbackReturns, TimerType, LockType
  <2>3. BooleanType' /\ MonitorType'
    BY <1>0, <1>2, <2>1 DEF CallbackStopAccepted, BooleanType, MonitorType
  <2> QED
    BY <1>a, <1>b, <2>2, <2>3
<1>3. CASE CallbackGivesUp(c)
  <2>1. gaveUp' \in BOOLEAN
    BY <1>3 DEF CallbackGivesUp
  <2>2. TimerType' /\ LockType'
    BY <1>0, <1>3 DEF CallbackGivesUp, ForgetTimer, CallbackReturns, TimerType, LockType
  <2>3. BooleanType' /\ MonitorType'
    BY <1>0, <1>3, <2>1 DEF CallbackGivesUp, BooleanType, MonitorType
  <2> QED
    BY <1>a, <1>b, <2>2, <2>3
<1>4. CASE CallbackRetries(c)
  <2> DEFINE t == [c.timer EXCEPT !.attempt = @ + 1]
  <2>1. t \in Timer
    BY <1>4, <1>c, OptionsAssumption DEF CallbackRetries, Timer
  <2>2. \/ timers' = timers \cup {t} /\ stopTimer' = t /\ CallbackReturns(c, 1)
        \/ UNCHANGED <<timers, stopTimer>> /\ CallbackReturns(c, 0)
    BY <1>4 DEF CallbackRetries
  <2> HIDE DEF t
  <2>3. TimerType' /\ LockType'
    BY <1>0, <2>1, <2>2 DEF CallbackReturns, TimerType, LockType
  <2>4. BooleanType' /\ MonitorType'
    BY <1>0, <1>4 DEF CallbackRetries, BooleanType, MonitorType
  <2> QED
    BY <1>a, <1>b, <2>3, <2>4
<1> QED
  BY <1>1, <1>2, <1>3, <1>4 DEF Callback

\* The end of Serve keeps the types.
LEMMA ShutdownType == TypeInv /\ Shutdown => TypeInv'
<1> SUFFICES ASSUME TypeInv, Shutdown PROVE TypeInv'
  OBVIOUS
<1> USE DEF TypeInv, TypeOK
<1>0. /\ UNCHANGED <<blocked, lastExpired>> /\ UNCHANGED <<monitorVars, streak>>
      /\ UNCHANGED <<startups, callbacks, req, received>>
  BY DEF Shutdown
<1>a. SessionType' /\ QueueType'
  BY DEF Shutdown, SessionType, QueueType
<1>1. CASE Cancel \/ ListenerCloses
  <2>1. BooleanType'
    BY <1>0, <1>1 DEF Cancel, ListenerCloses, BooleanType
  <2>2. StartupType' /\ TimerType' /\ LockType' /\ MonitorType' /\ ServeType' /\ RequestOK'
    BY <1>0, <1>1
       DEF Cancel, ListenerCloses, StartupType, TimerType, LockType, MonitorType, ServeType, RequestOK
  <2> QED
    BY <1>a, <2>1, <2>2
<1>2. CASE ReadFails
  <2>1. BooleanType'
    BY <1>0, <1>2 DEF ReadFails, BooleanType
  <2>2. ServeType' /\ RequestOK'
    BY <1>0, <1>2 DEF ReadFails, ServeType, RequestOK, ServePC, HandlingPC
  <2>3. StartupType' /\ TimerType' /\ LockType' /\ MonitorType'
    BY <1>0, <1>2 DEF ReadFails, StartupType, TimerType, LockType, MonitorType
  <2> QED
    BY <1>a, <2>1, <2>2, <2>3
<1>3. CASE ShutdownTakesAdmission
  <2>1. ServeType' /\ RequestOK' /\ LockType'
    BY <1>0, <1>3 DEF ShutdownTakesAdmission, ServeType, RequestOK, LockType, ServePC, HandlingPC
  <2>2. BooleanType' /\ StartupType' /\ TimerType' /\ MonitorType'
    BY <1>0, <1>3 DEF ShutdownTakesAdmission, BooleanType, StartupType, TimerType, MonitorType
  <2> QED
    BY <1>a, <2>1, <2>2
<1>4. CASE ShutdownClosesGate
  <2>1. backendReady' \in BOOLEAN /\ backendRunning' \in BOOLEAN /\ readinessGeneration' \in Nat
    BY <1>4, CloseGateType DEF ShutdownClosesGate, MonitorType
  <2>2. TimerType' /\ gaveUp' \in BOOLEAN
    BY <1>0, <1>4, TimerChangeType DEF ShutdownClosesGate
  <2>3. BooleanType'
    <3>1. shuttingDown' \in BOOLEAN /\ startupRunning' \in BOOLEAN
      BY <1>4 DEF ShutdownClosesGate
    <3> QED
      BY <1>0, <1>4, <2>1, <2>2, <3>1 DEF ShutdownClosesGate, BooleanType
  <2>4. StartupType' /\ LockType' /\ MonitorType'
    BY <1>0, <1>4, <2>1 DEF ShutdownClosesGate, BeginCloseAll, StartupType, LockType, MonitorType
  <2>5. ServeType' /\ RequestOK'
    BY <1>0, <1>4 DEF ShutdownClosesGate, ServeType, RequestOK, ServePC, HandlingPC
  <2> QED
    BY <1>a, <2>2, <2>3, <2>4, <2>5
<1>5. CASE ShutdownClosed
  <2>1. ServeType' /\ RequestOK' /\ LockType'
    BY <1>0, <1>5
       DEF ShutdownClosed, CloseAllReturns, ServeType, RequestOK, LockType, ServePC, HandlingPC
  <2>2. BooleanType' /\ StartupType' /\ TimerType' /\ MonitorType'
    BY <1>0, <1>5 DEF ShutdownClosed, BooleanType, StartupType, TimerType, MonitorType
  <2> QED
    BY <1>a, <2>1, <2>2
<1>6. CASE ServeWaits
  <2>1. ServeType' /\ RequestOK' /\ LockType'
    BY <1>0, <1>6 DEF ServeWaits, ServeType, RequestOK, LockType, ServePC, HandlingPC
  <2>2. BooleanType' /\ StartupType' /\ TimerType' /\ MonitorType'
    BY <1>0, <1>6 DEF ServeWaits, BooleanType, StartupType, TimerType, MonitorType
  <2> QED
    BY <1>a, <2>1, <2>2
<1> QED
  BY <1>1, <1>2, <1>3, <1>4, <1>5, <1>6 DEF Shutdown

\* The first status query keeps the types.
LEMMA ServeBootsType == TypeInv /\ ServeBoots => TypeInv'
<1> SUFFICES ASSUME TypeInv, ServeBoots PROVE TypeInv'
  OBVIOUS
<1> USE DEF TypeInv, TypeOK
<1>1. backendReady' \in BOOLEAN /\ backendRunning' \in BOOLEAN
  BY DEF ServeBoots, BooleanType
<1>2. readinessGeneration' \in Nat
  BY DEF ServeBoots, MonitorType
<1>3. StartServer(startups) \/ UNCHANGED startupVars
  BY DEF ServeBoots
<1>4. StartupType' /\ startupRunning' \in BOOLEAN
  BY <1>3, StartServerType DEF StartupType, BooleanType
<1>5. BooleanType' /\ MonitorType'
  BY <1>1, <1>2, <1>4 DEF ServeBoots, BooleanType, MonitorType
<1>6. ServeType' /\ RequestOK' /\ LockType'
  BY DEF ServeBoots, ServeType, RequestOK, LockType, ServePC, HandlingPC
<1>7. TimerType' /\ SessionType' /\ QueueType'
  BY DEF ServeBoots, TimerType, SessionType, QueueType
<1> QED
  BY <1>4, <1>5, <1>6, <1>7

\* CloseAll's hand-over and the end of the cooldown keep the types.
LEMMA EnvironmentType == TypeInv /\ (CloseAllDetaches \/ CooldownElapses) => TypeInv'
<1> SUFFICES ASSUME TypeInv, CloseAllDetaches \/ CooldownElapses PROVE TypeInv'
  OBVIOUS
<1> USE DEF TypeInv, TypeOK, CloseAllDetaches, CooldownElapses
<1>1. BooleanType'
  BY DEF BooleanType
<1>2. LockType' /\ SessionType'
  BY DEF LockType, SessionType, Stored, SessionOrNone, NoSession
<1>3. StartupType' /\ TimerType' /\ MonitorType' /\ ServeType' /\ RequestOK' /\ QueueType'
  BY DEF StartupType, TimerType, MonitorType, ServeType, RequestOK, QueueType
<1> QED
  BY <1>1, <1>2, <1>3

\* A step that changes nothing keeps the types.
LEMMA StutterType == TypeInv /\ UNCHANGED vars => TypeInv'
  BY DEF TypeInv, TypeOK, vars, BooleanType, StartupType, TimerType, LockType, MonitorType, ServeType,
         SessionType, QueueType, RequestOK

-----------------------------------------------------------------------------
\* Every step keeps the types.
LEMMA NextType == TypeInv /\ [Next]_vars => TypeInv'
<1> SUFFICES ASSUME TypeInv, [Next]_vars PROVE TypeInv'
  OBVIOUS
<1>1. CASE ServeBoots \/ Ingress \/ Sweeper \/ Monitor \/ Shutdown
  BY <1>1, ServeBootsType, IngressType, SweeperType, MonitorStepType, ShutdownType
<1>2. CASE IgnorePacket \/ Returned \/ UNCHANGED vars
  BY <1>2, StutterType DEF IgnorePacket, Returned
<1>3. CASE CloseAllDetaches \/ CooldownElapses
  BY <1>3, EnvironmentType
<1>4. CASE \E s \in Session : SessionStep(s) \/ Watcher(s)
  BY <1>4, SessionStepType, WatcherType
<1>5. CASE \E r \in startups : Startup(r)
  BY <1>5, StartupStepType
<1>6. CASE \E t \in timers : TimerFires(t)
  BY <1>6, TimerFiresType
<1>7. CASE \E c \in callbacks : Callback(c)
  BY <1>7, CallbackType
<1> QED
  BY <1>1, <1>2, <1>3, <1>4, <1>5, <1>6, <1>7 DEF Next

\* Every variable of the proxy keeps its type in every behaviour, the number
\* of an auto-stop attempt stays within maxAutoStopAttempts, and the health
\* monitor never holds as many failures as close the gate.
THEOREM TypeCorrect == Spec => []TypeOK
<1>1. TypeInv /\ [Next]_vars => TypeInv'
  BY NextType
<1>2. TypeInv => TypeOK
  BY DEF TypeInv
<1> QED
  BY InitType, <1>1, <1>2, PTL DEF Spec
=============================================================================
