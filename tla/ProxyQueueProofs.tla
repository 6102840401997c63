-------------------------- MODULE ProxyQueueProofs --------------------------
(***************************************************************************)
(* Sessions, queues and the end of Serve, for every value of the           *)
(* constants: the store stays within its limit, every live session has its *)
(* watcher and every queue is resolved, datagrams keep their order, the    *)
(* cooldown is quiet and Serve returns with nothing left.                  *)
(***************************************************************************)
EXTENDS ProxyTimerProofs

USE DEF gateVars, startupVars, queueVars, timerVars, lockVars, closeVars, sweepVars, monitorVars,
        serveVars, ctlVars

-----------------------------------------------------------------------------
(* What the steps do to sessions and queues.                               *)

\* Sessions only ever age: open, closing, done.
SessionsAge ==
  \A s \in Session :
    \/ state'[s] = state[s]
    \/ state[s] = "open" /\ state'[s] = "closing"
    \/ state[s] = "closing" /\ state'[s] = "done"

\* A watcher waits until its session is done and drops the queue before it ends.
WatchersAge ==
  \A s \in Session :
    \/ watcher'[s] = watcher[s]
    \/ watcher[s] = "wait" /\ state[s] = "done" /\ watcher'[s] \in {"drop", "dropLast"}
    \/ watcher[s] \in {"drop", "dropLast"} /\ watcher'[s] \in {"schedule", "ended"} /\ s \notin DOMAIN queues'
    \/ watcher[s] = "schedule" /\ watcher'[s] = "ended"

\* Nothing is queued.
QueuesShrink == DOMAIN queues' \subseteq DOMAIN queues /\ \A s \in DOMAIN queues' : queues'[s] = queues[s]

\* The keys of the store are only vacated.
StoreShrinks == \A k \in Keys : sessions'[k] \in {sessions[k], NoSession}

\* Session.Close makes an open session a closing one.
LEMMA CloseSessionsAge == ASSUME SessionType, NEW S, CloseSessions(S) PROVE SessionsAge
  BY DEF CloseSessions, SessionsAge, SessionType

\* removeQueue and a new map only take queues away.
LEMMA RemoveQueuesShrink ==
  ASSUME NEW S, RemoveQueues(S) PROVE QueuesShrink /\ DOMAIN queues' = DOMAIN queues \ S
  BY DEF RemoveQueues, Without, Restrict, QueuesShrink

\* A new map has no queue.
LEMMA ClearQueuesShrink == ASSUME ClearQueues PROVE QueuesShrink /\ DOMAIN queues' = {}
<1>1. DOMAIN queues' = {}
  BY DEF ClearQueues, NoQueues
<1> QED
  BY <1>1 DEF QueuesShrink

\* Every goroutine but the ingress lets sessions age, the store and the queues
\* shrink, and leaves the datagram in hand alone.
LEMMA OtherSteps ==
  ASSUME SafeInv, [Next]_vars, ~Ingress
  PROVE  /\ SessionsAge /\ WatchersAge /\ QueuesShrink /\ StoreShrinks /\ UNCHANGED <<received, owner, req>>
         /\ UNCHANGED pc \/ (pc \notin HandlingPC /\ pc' \notin HandlingPC)
<1> USE DEF SafeInv, TypeInv, TypeOK
<1>a. UNCHANGED state => SessionsAge
  BY DEF SessionsAge
<1>b. UNCHANGED watcher => WatchersAge
  BY DEF WatchersAge
<1>c. UNCHANGED queues => QueuesShrink
  BY DEF QueuesShrink
<1>d. UNCHANGED sessions => StoreShrinks
  BY DEF StoreShrinks
<1>1. CASE IgnorePacket \/ Returned \/ CooldownElapses \/ UNCHANGED vars
           \/ (\E t \in timers : TimerFires(t)) \/ (\E c \in callbacks : Callback(c))
  <2>1. UNCHANGED <<state, watcher, queues, sessions, received, owner, req, pc>>
    BY <1>1 DEF IgnorePacket, Returned, CooldownElapses, vars, TimerFires, Callback
  <2> QED
    BY <1>a, <1>b, <1>c, <1>d, <2>1
<1>2. CASE ServeBoots \/ Shutdown
  <2>1. UNCHANGED <<state, watcher, queues, sessions, received, owner, req>>
    BY <1>2 DEF ServeBoots, Shutdown
  <2>2. UNCHANGED pc \/ (pc \notin HandlingPC /\ pc' \notin HandlingPC)
    BY <1>2 DEF ServeBoots, Shutdown, Cancel, ListenerCloses, ReadFails, ShutdownTakesAdmission,
                ShutdownClosesGate, ShutdownClosed, ServeWaits, HandlingPC
  <2> QED
    BY <1>a, <1>b, <1>c, <1>d, <2>1, <2>2
<1>3. CASE CloseAllDetaches
  <2>1. UNCHANGED <<state, watcher, queues, received, owner, req, pc>> /\ sessions' = [k \in Keys |-> NoSession]
    BY <1>3 DEF CloseAllDetaches
  <2> QED
    BY <1>a, <1>b, <1>c, <2>1 DEF StoreShrinks
<1>4. CASE Monitor
  <2>1. UNCHANGED <<state, watcher, sessions, received, owner, req, pc>>
    BY <1>4 DEF Monitor
  <2>2. UNCHANGED queues \/ ClearQueues
    BY <1>4 DEF Monitor, MonitorTicks, MonitorProbed, MonitorTakesAdmission, MonitorClosesGate, MonitorClosed,
                MonitorExits
  <2> QED
    BY <1>a, <1>b, <1>c, <1>d, <2>1, <2>2, ClearQueuesShrink
<1>5. CASE \E s \in Session : SessionStep(s)
  <2>1. UNCHANGED <<watcher, queues, sessions, received, owner, req, pc>>
    BY <1>5 DEF SessionStep
  <2>2. SessionsAge
    BY <1>5 DEF SessionStep, BackendTraffic, SessionFails, CloseDetached, SessionDone, CloseSessions, SessionsAge,
                SessionType
  <2> QED
    BY <1>b, <1>c, <1>d, <2>1, <2>2
<1>6. CASE \E s \in Session : Watcher(s)
  <2>1. PICK s \in Session : Watcher(s)
    BY <1>6
  <2>2. UNCHANGED <<state, received, owner, req, pc>>
    BY <2>1 DEF Watcher
  <2>3. UNCHANGED queues \/ RemoveQueues({s})
    BY <2>1 DEF Watcher, WatcherRemoves, WatcherDropsQueue, WatcherSchedules
  <2>4. StoreShrinks
    BY <2>1 DEF Watcher, WatcherRemoves, WatcherDropsQueue, WatcherSchedules, StoreRemove, StoreShrinks, SessionType
  <2>5. WatchersAge
    <3>1. \A q \in Session : q # s => watcher'[q] = watcher[q]
      BY <2>1 DEF Watcher, WatcherRemoves, WatcherDropsQueue, WatcherSchedules, SessionType
    <3>2. \/ watcher[s] = "wait" /\ state[s] = "done" /\ watcher'[s] \in {"drop", "dropLast"}
          \/ watcher[s] \in {"drop", "dropLast"} /\ watcher'[s] \in {"schedule", "ended"} /\ RemoveQueues({s})
          \/ watcher[s] = "schedule" /\ watcher'[s] = "ended"
      BY <2>1 DEF Watcher, WatcherRemoves, WatcherDropsQueue, WatcherSchedules, SessionType
    <3> QED
      BY <3>1, <3>2, RemoveQueuesShrink DEF WatchersAge
  <2> QED
    BY <1>a, <1>c, <2>2, <2>3, <2>4, <2>5, RemoveQueuesShrink
<1>7. CASE Sweeper
  <2>1. UNCHANGED <<watcher, received, owner, req, pc>>
    BY <1>7 DEF Sweeper
  <2>2. UNCHANGED queues \/ \E S : RemoveQueues(S)
    BY <1>7 DEF Sweeper, SweeperTicks, SweeperRefreshes, SweeperExpires, SweeperDropsQueues, SweeperSchedules,
                SweeperExits
  <2>3. SessionsAge /\ StoreShrinks
    <3>1. CASE SweeperExpires
      <4>1. PICK idle : /\ CloseSessions(idle)
                        /\ sessions' = [k \in Keys |-> IF sessions[k] \in idle THEN NoSession ELSE sessions[k]]
        BY <3>1 DEF SweeperExpires
      <4> QED
        BY <4>1, CloseSessionsAge DEF StoreShrinks
    <3>2. CASE ~SweeperExpires
      BY <1>7, <1>a, <1>d, <3>2 DEF Sweeper, SweeperTicks, SweeperRefreshes, SweeperDropsQueues, SweeperSchedules,
                                    SweeperExits
    <3> QED
      BY <3>1, <3>2
  <2> QED
    BY <1>b, <1>c, <2>1, <2>2, <2>3, RemoveQueuesShrink
<1>8. CASE \E r \in startups : Startup(r)
  <2>1. PICK r \in startups : Startup(r)
    BY <1>8
  <2>2. UNCHANGED <<watcher, sessions, received, owner, req, pc>>
    BY <2>1 DEF Startup
  <2>3. /\ UNCHANGED queues \/ ClearQueues
        /\ UNCHANGED state \/ \E S : CloseSessions(S)
    BY <2>1 DEF Startup, StartupPolls, StartupTakesAdmission, StartupOpensGate, StartupGateOpened, StartupFails,
                StartupFailed, StartupCompletes, StartupRestarts, Flush
  <2> QED
    BY <1>a, <1>b, <1>c, <1>d, <2>2, <2>3, ClearQueuesShrink, CloseSessionsAge
<1> QED
  BY <1>1, <1>2, <1>3, <1>4, <1>5, <1>6, <1>7, <1>8 DEF Next

\* The steps of the ingress other than reading a datagram, creating a session
\* and watching it: they keep the datagram and, if one was created for it, its
\* session in hand.
LEMMA IngressSteps ==
  ASSUME SafeInv, SessionsNew, Ingress, ~(\E k \in Keys : ReceivePacket(k)), ~CreateSession, ~WatchSession
  PROVE  /\ SessionsAge /\ StoreShrinks /\ UNCHANGED <<received, owner, watcher>>
         /\ pc \in HandlingPC \ {"watch"} /\ pc' \in (HandlingPC \cup {"idle"}) \ {"watch"}
         /\ pc' \in HandlingPC => /\ req'.site = "created" <=> req.site = "created"
                                  /\ req.site = "created" => req'.cur = req.cur
         /\ pc' \in {"admit", "remove", "removing", "dropQueue", "sample", "create"} => req'.site # "created"
<1> USE DEF SafeInv, TypeInv, TypeOK, HandlingPC
<1>a. UNCHANGED state => SessionsAge
  BY DEF SessionsAge
<1>d. UNCHANGED sessions => StoreShrinks
  BY DEF StoreShrinks
<1>1. CASE QueuePacket \/ KickStartup \/ SeeGateOpen \/ ForwardClient
  <2> USE DEF QueuePacket, KickStartup, SeeGateOpen, ForwardClient
  <2>1. pc \in {"forward", "kick", "send"} /\ UNCHANGED <<sessions, received, owner, watcher>>
    BY <1>1
  <2>2. UNCHANGED state \/ CloseSessions({req.cur})
    BY <1>1
  <2>3. \/ pc' \in {"kick", "send"} /\ UNCHANGED req
        \/ \E ok \in BOOLEAN : AfterForward(ok)
    BY <1>1
  <2>4. ASSUME NEW ok \in BOOLEAN, AfterForward(ok)
        PROVE  /\ pc' \in {"finish", "idle", "admit", "remove"} /\ (pc' # "idle" => UNCHANGED req)
               /\ pc' \in {"admit", "remove"} => req.site # "created"
    BY <2>1, <2>4, AfterForwardCases
  <2> QED
    BY <1>a, <1>d, <2>1, <2>2, <2>3, <2>4, CloseSessionsAge
<1>2. CASE TakeAdmission
  <2>1. pc = "admit" /\ req.site # "created"
    BY <1>2 DEF TakeAdmission, SessionsNew
  <2>2. req'.site = "admitted"
    BY <1>2 DEF TakeAdmission, ServeType, Request
  <2> QED
    BY <1>2, <1>a, <1>d, <2>1, <2>2 DEF TakeAdmission
<1>3. CASE RemoveDeadSession \/ DropDeadQueue
  <2>1. /\ pc \in {"remove", "removing", "dropQueue"} /\ pc' \in {"removing", "dropQueue", "sample"}
        /\ UNCHANGED <<req, received, owner, watcher>>
    BY <1>3 DEF RemoveDeadSession, DropDeadQueue
  <2>2. UNCHANGED state \/ CloseSessions({req.cur})
    BY <1>3 DEF RemoveDeadSession, DropDeadQueue
  <2>3. StoreShrinks
    BY <1>3 DEF RemoveDeadSession, DropDeadQueue, StoreRemove, StoreShrinks, SessionType
  <2> QED
    BY <1>a, <2>1, <2>2, <2>3, CloseSessionsAge DEF SessionsNew
<1>4. CASE SampleGate \/ CreateFails \/ FinishAdmission
  <2>1. /\ pc \in {"sample", "create", "finish"} /\ UNCHANGED <<state, sessions, received, owner, watcher>>
        /\ pc' = "idle" \/ (pc = "sample" /\ pc' = "create" /\ req' = [req EXCEPT !.sawReady = backendReady])
    BY <1>4 DEF SampleGate, CreateFails, FinishAdmission, DropPacket
  <2>2. pc' = "create" => req'.site = req.site /\ req'.cur = req.cur
    BY <2>1 DEF ServeType, Request
  <2> QED
    BY <1>a, <1>d, <2>1, <2>2 DEF SessionsNew
<1> QED
  BY <1>1, <1>2, <1>3, <1>4 DEF Ingress

\* Store.sessions maps to sessions.
LEMMA StoredAreSessions ==
  ASSUME SessionType, NEW k \in Keys, sessions[k] # NoSession PROVE sessions[k] \in Session
  BY DEF SessionType, SessionOrNone

\* What only ages and leaves keeps its key.
LEMMA KeysKept ==
  ASSUME SessionType, SessionsKeyed, SessionsAge, StoreShrinks, UNCHANGED owner
  PROVE  SessionsKeyed'
<1> SUFFICES ASSUME NEW k \in Keys, sessions'[k] # NoSession
             PROVE  owner'[sessions'[k]] = k /\ state'[sessions'[k]] # "none"
  BY DEF SessionsKeyed
<1>1. sessions'[k] = sessions[k] /\ sessions[k] # NoSession
  BY DEF StoreShrinks
<1>2. sessions[k] \in Session /\ owner[sessions[k]] = k /\ state[sessions[k]] # "none"
  BY <1>1, StoredAreSessions DEF SessionsKeyed
<1> QED
  BY <1>1, <1>2 DEF SessionsAge

\* A new proxy has no session.
LEMMA InitSessions == Init => SessionInv
<1> SUFFICES ASSUME Init PROVE SessionInv
  OBVIOUS
<1>1. {k \in Keys : sessions[k] # NoSession} = {} /\ detached = {}
  BY DEF Init
<1>2. StoreBounded
  BY <1>1, FS_EmptySet, OptionsAssumption DEF StoreBounded
<1> QED
  BY <1>2 DEF Init, SessionInv, SessionsNew, SessionsWatched, SessionsKeyed, HandlingPC

\* Sessions are numbered by datagrams and watched from their creation on.
LEMMA NextSessions ==
  ASSUME SafeInv, SessionInv, [Next]_vars
  PROVE  SessionsNew' /\ SessionsWatched' /\ SessionsKeyed'
<1> USE DEF SessionInv
<1>t. SessionType /\ ServeType /\ RequestOK /\ received \in Nat /\ Session \subseteq Nat
  BY OptionsAssumption DEF SafeInv, TypeInv, TypeOK, ServeType, Session
<1>1. CASE ~Ingress
  <2>1. SessionsNew'
    BY <1>1, <1>t, OtherSteps DEF SessionsNew, SessionsAge, WatchersAge, RequestOK, HandlingPC
  <2>2. SessionsWatched'
    BY <1>1, OtherSteps DEF SessionsWatched, SessionsAge, WatchersAge, HandlingPC
  <2>3. SessionsKeyed'
    BY <1>1, <1>t, OtherSteps, KeysKept
  <2> QED
    BY <2>1, <2>2, <2>3
<1>2. CASE \E k \in Keys : ReceivePacket(k)
  <2>1. /\ pc = "idle" /\ pc' \in {"forward", "admit"} /\ received' = received + 1 /\ received' \in Session
        /\ req'.site = "fast" /\ UNCHANGED <<state, watcher, sessions, owner>>
    <3>1. received' = received + 1 /\ received < MaxPackets
      BY <1>2 DEF ReceivePacket
    <3>2. received' \in Session
      BY <1>t, <3>1, OptionsAssumption DEF Session
    <3> QED
      BY <1>2, <3>1, <3>2 DEF ReceivePacket, NoRequest
  <2>2. \A s \in Session : state[s] # "none" \/ watcher[s] # "none" => s <= received' /\ s # received'
    BY <1>t, <2>1 DEF SessionsNew
  <2>3. SessionsNew'
    BY <2>1, <2>2 DEF SessionsNew
  <2> QED
    BY <2>1, <2>3 DEF SessionsWatched, SessionsKeyed
<1>3. CASE CreateSession
  <2>1. PICK s \in Session :
          /\ s = received /\ sessions' = [sessions EXCEPT ![req.key] = s] /\ state' = [state EXCEPT ![s] = "open"]
          /\ owner' = [owner EXCEPT ![s] = req.key] /\ req' = [req EXCEPT !.cur = s, !.site = "created"]
    BY <1>3 DEF CreateSession
  <2>2. pc = "create" /\ pc' = "watch" /\ UNCHANGED <<received, watcher>>
    BY <1>3 DEF CreateSession
  <2>3. req'.cur = s /\ req'.site = "created" /\ req.key \in Keys
    BY <1>t, <2>1, <2>2 DEF ServeType, Request, RequestOK, HandlingPC
  <2>4. /\ \A q \in Session : state'[q] = IF q = s THEN "open" ELSE state[q]
        /\ \A q \in Session : owner'[q] = IF q = s THEN req.key ELSE owner[q]
    <3>1. \A q \in Session : state'[q] = IF q = s THEN "open" ELSE state[q]
      BY <1>t, <2>1 DEF SessionType
    <3>2. \A q \in Session : owner'[q] = IF q = s THEN req.key ELSE owner[q]
      BY <1>t, <2>1 DEF SessionType
    <3> QED
      BY <3>1, <3>2
  <2>5. \A k \in Keys : sessions'[k] = IF k = req.key THEN s ELSE sessions[k]
    BY <1>t, <2>1 DEF SessionType
  <2>6. state[s] = "none" /\ watcher[s] = "none"
    BY <2>1, <2>2 DEF SessionsNew, HandlingPC
  <2>7. SessionsNew'
    BY <1>t, <2>1, <2>2, <2>3, <2>4 DEF SessionsNew
  <2>8. SessionsWatched'
    <3> SUFFICES ASSUME NEW q \in Session, state'[q] \in {"open", "closing"}, q # s PROVE watcher'[q] = "wait"
      BY <2>2, <2>3 DEF SessionsWatched
    <3> QED
      BY <2>2, <2>4 DEF SessionsWatched
  <2>9. SessionsKeyed'
    <3> SUFFICES ASSUME NEW k \in Keys, sessions'[k] # NoSession
                 PROVE  owner'[sessions'[k]] = k /\ state'[sessions'[k]] # "none"
      BY DEF SessionsKeyed
    <3>1. CASE k = req.key
      BY <2>3, <2>4, <2>5, <3>1
    <3>2. CASE k # req.key
      <4>1. sessions'[k] = sessions[k] /\ sessions[k] \in Session
        BY <1>t, <2>5, <3>2, StoredAreSessions
      <4>2. owner[sessions[k]] = k /\ state[sessions[k]] # "none"
        BY <4>1, <2>5, <3>2 DEF SessionsKeyed
      <4> QED
        BY <2>4, <2>6, <4>1, <4>2
    <3> QED
      BY <3>1, <3>2
  <2> QED
    BY <2>7, <2>8, <2>9
<1>4. CASE WatchSession
  <2>1. /\ pc = "watch" /\ pc' = "forward" /\ watcher' = [watcher EXCEPT ![req.cur] = "wait"]
        /\ UNCHANGED <<req, received, sessions, owner, state>>
    BY <1>4 DEF WatchSession
  <2>2. req.site = "created" /\ req.cur = received /\ req.cur \in Session
    BY <1>t, <2>1 DEF SafeInv, PowerInv, KeyHeld, SessionsNew, HandlingPC, RequestOK
  <2>3. \A q \in Session : watcher'[q] = IF q = req.cur THEN "wait" ELSE watcher[q]
    BY <1>t, <2>1 DEF SessionType
  <2>4. SessionsNew'
    BY <1>t, <2>1, <2>2, <2>3 DEF SessionsNew
  <2>5. SessionsWatched' /\ SessionsKeyed'
    BY <2>1, <2>3 DEF SessionsWatched, SessionsKeyed
  <2> QED
    BY <2>4, <2>5
<1>5. CASE Ingress /\ ~(\E k \in Keys : ReceivePacket(k)) /\ ~CreateSession /\ ~WatchSession
  <2>1. SessionsNew'
    BY <1>5, <1>t, IngressSteps DEF SessionsNew, SessionsAge, RequestOK, HandlingPC
  <2>2. SessionsWatched'
    BY <1>5, IngressSteps DEF SessionsWatched, SessionsAge
  <2>3. SessionsKeyed'
    BY <1>5, <1>t, IngressSteps, KeysKept
  <2> QED
    BY <2>1, <2>2, <2>3
<1> QED
  BY <1>1, <1>2, <1>3, <1>4, <1>5

-----------------------------------------------------------------------------
(* The capacity of the store.                                              *)

Occupied == {k \in Keys : sessions[k] # NoSession}

\* Every step of a goroutine but the ingress and CloseAll's own leaves CloseAll
\* alone, begins it, or takes its result.
LEMMA CloseAllSteps ==
  ASSUME [Next]_vars, ~CloseAllDetaches
  PROVE  \/ UNCHANGED closeVars
         \/ BeginCloseAll
         \/ closeAll = "closing" /\ (\A s \in detached : state[s] = "done") /\ closeAll' = "none" /\ detached' = {}
<1>1. CASE IgnorePacket \/ Returned \/ CooldownElapses \/ UNCHANGED vars \/ ServeBoots \/ Ingress \/ Sweeper
           \/ (\E t \in timers : TimerFires(t)) \/ (\E c \in callbacks : Callback(c))
           \/ (\E s \in Session : SessionStep(s) \/ Watcher(s))
  BY <1>1 DEF IgnorePacket, Returned, CooldownElapses, vars, ServeBoots, Ingress, Sweeper, TimerFires, Callback,
              SessionStep, Watcher
<1>2. CASE Monitor
  BY <1>2 DEF Monitor, MonitorTicks, MonitorProbed, MonitorTakesAdmission, MonitorClosesGate, MonitorClosed,
              MonitorExits, CloseAllReturns
<1>3. CASE Shutdown
  BY <1>3 DEF Shutdown, Cancel, ListenerCloses, ReadFails, ShutdownTakesAdmission, ShutdownClosesGate,
              ShutdownClosed, ServeWaits, CloseAllReturns
<1>4. CASE \E r \in startups : Startup(r)
  BY <1>4 DEF Startup, StartupPolls, StartupTakesAdmission, StartupOpensGate, StartupGateOpened, StartupFails,
              StartupFailed, StartupCompletes, StartupRestarts, CloseAllReturns
<1> QED
  BY <1>1, <1>2, <1>3, <1>4 DEF Next

\* CloseAll runs for a startup, the monitor or the shutdown, which hold
\* admissionMu meanwhile: never during an admission.
LEMMA AdmissionExcludesCloseAll == ASSUME AdmissionOwned, CloseAllOwned, IngressHolds PROVE closeAll = "none"
  BY DEF AdmissionOwned, CloseAllOwned, Holds, MonitorHolds, ShutdownHolds

\* A store that shrinks stays within its limit.
LEMMA ShrinkingBounded ==
  ASSUME StoreBounded, StoreShrinks, UNCHANGED closeVars \/ (closeAll' # "closing" /\ detached' \in {detached, {}})
  PROVE  StoreBounded'
<1>1. IsFiniteSet(Occupied) /\ Cardinality(Occupied) <= MaxSessions /\ Cardinality(Occupied) \in Nat
  BY FS_CardinalityType DEF StoreBounded, Occupied
<1>2. Occupied' \subseteq Occupied
  BY DEF StoreShrinks, Occupied
<1>3. IsFiniteSet(Occupied') /\ Cardinality(Occupied') <= Cardinality(Occupied) /\ Cardinality(Occupied') \in Nat
  BY <1>1, <1>2, FS_Subset, FS_CardinalityType
<1>4. Cardinality(Occupied') <= MaxSessions
  BY <1>1, <1>3, OptionsAssumption
<1>5. IsFiniteSet(detached') /\ Cardinality(detached') <= MaxSessions
  BY FS_EmptySet, OptionsAssumption DEF StoreBounded
<1>6. closeAll' = "closing" => Occupied' = {}
  BY <1>2 DEF StoreBounded, Occupied
<1> QED
  BY <1>3, <1>4, <1>5, <1>6 DEF StoreBounded, Occupied

\* GetOrCreate's test and CloseAll keep the store and what CloseAll is closing
\* within MaxSessions.
LEMMA NextStore == ASSUME SafeInv, SessionInv, [Next]_vars PROVE StoreBounded'
<1> USE DEF SafeInv, TypeInv, TypeOK, PowerInv, SessionInv
<1>1. CASE CreateSession /\ Ingress
  <2>1. pc = "create" /\ ~AtCapacity /\ UNCHANGED closeVars
    BY <1>1 DEF CreateSession, Ingress
  <2>2. closeAll = "none"
    BY <2>1, AdmissionExcludesCloseAll DEF IngressHolds, AdmittedPC
  <2>3. req.key \in Keys /\ Occupied' = Occupied \cup {req.key}
    <3>1. req.key \in Keys
      BY <2>1 DEF RequestOK, HandlingPC
    <3>2. PICK s \in Session : sessions' = [sessions EXCEPT ![req.key] = s]
      BY <1>1 DEF CreateSession
    <3>3. s # NoSession
      BY OptionsAssumption DEF Session, NoSession
    <3>4. \A k \in Keys : sessions'[k] = IF k = req.key THEN s ELSE sessions[k]
      BY <3>1, <3>2 DEF SessionType
    <3> QED
      BY <3>1, <3>3, <3>4 DEF Occupied
  <2>4. IsFiniteSet(Occupied) /\ Cardinality(Occupied) \in Nat /\ Cardinality(Occupied) < MaxSessions
    BY <2>1, FS_CardinalityType, OptionsAssumption DEF StoreBounded, Occupied, AtCapacity, StoreLen
  <2>5. IsFiniteSet(Occupied') /\ Cardinality(Occupied') <= Cardinality(Occupied) + 1
    <3>1. /\ IsFiniteSet(Occupied \cup {req.key})
          /\ Cardinality(Occupied \cup {req.key}) \in {Cardinality(Occupied), Cardinality(Occupied) + 1}
      BY <2>4, FS_AddElement
    <3> QED
      BY <2>3, <2>4, <3>1
  <2>6. Cardinality(Occupied') <= MaxSessions
    BY <2>4, <2>5, FS_CardinalityType, OptionsAssumption
  <2>7. IsFiniteSet(detached') /\ Cardinality(detached') <= MaxSessions /\ closeAll' = "none"
    BY <2>1, <2>2 DEF StoreBounded
  <2> QED
    BY <2>5, <2>6, <2>7 DEF StoreBounded, Occupied
<1>2. CASE CloseAllDetaches
  <2>1. detached' = Stored /\ Occupied' = {}
    BY <1>2 DEF CloseAllDetaches, Occupied
  <2>2. IsFiniteSet(Occupied) /\ Cardinality(Occupied) \in Nat /\ Cardinality(Occupied) <= MaxSessions
    BY FS_CardinalityType DEF StoreBounded, Occupied
  <2> DEFINE f == [k \in Occupied |-> sessions[k]]
  <2>3. f \in Surjection(Occupied, Stored)
    BY DEF Surjection, Stored, Occupied
  <2>4. IsFiniteSet(Stored) /\ Cardinality(Stored) <= Cardinality(Occupied)
    BY <2>2, <2>3, FS_Surjection
  <2>5. Cardinality(Stored) <= MaxSessions
    BY <2>2, <2>4, FS_CardinalityType, OptionsAssumption
  <2>6. IsFiniteSet(Occupied') /\ Cardinality(Occupied') <= MaxSessions
    BY <2>1, FS_EmptySet, OptionsAssumption
  <2> QED
    BY <2>1, <2>4, <2>5, <2>6 DEF StoreBounded, Occupied
<1>3. CASE ~CloseAllDetaches /\ ~(CreateSession /\ Ingress)
  <2>1. StoreShrinks
    <3>1. CASE ~Ingress
      BY <3>1, OtherSteps
    <3>2. CASE Ingress /\ ((\E k \in Keys : ReceivePacket(k)) \/ WatchSession)
      BY <3>2 DEF ReceivePacket, WatchSession, StoreShrinks
    <3>3. CASE Ingress /\ ~(\E k \in Keys : ReceivePacket(k)) /\ ~WatchSession
      BY <1>3, <3>3, IngressSteps
    <3> QED
      BY <3>1, <3>2, <3>3
  <2>2. UNCHANGED closeVars \/ (closeAll' # "closing" /\ detached' \in {detached, {}})
    BY <1>3, CloseAllSteps DEF BeginCloseAll
  <2> QED
    BY <2>1, <2>2, ShrinkingBounded
<1> QED
  BY <1>1, <1>2, <1>3

\* The sockets in use: those in the store, or those CloseAll is closing.
LEMMA OpenBounded == SafeInv /\ SessionInv => SessionBound
<1> SUFFICES ASSUME SafeInv, SessionInv PROVE SessionBound
  OBVIOUS
<1> USE DEF SafeInv, TypeInv, TypeOK, PowerInv, SessionInv
<1>1. Open \subseteq Stored \cup detached
  BY DEF SessionsTracked
<1>2. IsFiniteSet(Occupied) /\ Cardinality(Occupied) \in Nat /\ Cardinality(Occupied) <= MaxSessions
  BY FS_CardinalityType DEF StoreBounded, Occupied
<1>3. CASE detached = {}
  <2> DEFINE f == [k \in Occupied |-> sessions[k]]
  <2>1. f \in Surjection(Occupied, Stored)
    BY DEF Surjection, Stored, Occupied
  <2>2. IsFiniteSet(Stored) /\ Cardinality(Stored) <= Cardinality(Occupied) /\ Cardinality(Stored) \in Nat
    BY <1>2, <2>1, FS_Surjection, FS_CardinalityType
  <2>3. Cardinality(Open) <= Cardinality(Stored) /\ Cardinality(Open) \in Nat
    BY <1>1, <1>3, <2>2, FS_Subset, FS_CardinalityType
  <2> QED
    BY <1>2, <2>2, <2>3, OptionsAssumption DEF SessionBound
<1>4. CASE detached # {}
  <2>1. Occupied = {}
    BY <1>4 DEF CloseAllOwned, StoreBounded, Occupied
  <2>2. Stored = {}
    BY <2>1 DEF Stored, Occupied
  <2>3. IsFiniteSet(detached) /\ Cardinality(detached) <= MaxSessions /\ Cardinality(detached) \in Nat
    BY FS_CardinalityType DEF StoreBounded
  <2>4. Cardinality(Open) <= Cardinality(detached) /\ Cardinality(Open) \in Nat
    BY <1>1, <2>2, <2>3, FS_Subset, FS_CardinalityType
  <2> QED
    BY <2>3, <2>4, OptionsAssumption DEF SessionBound
<1> QED
  BY <1>3, <1>4

-----------------------------------------------------------------------------
(* The startup queues.                                                     *)

\* forwardOrQueue puts the datagram in hand into the queue of its session.
Enqueues == QueuePacket /\ RecordActivity(req.cur)

\* The queue of a session before the datagram in hand is put into it.
Waiting(s) == IF s \in DOMAIN queues THEN queues[s].packets ELSE <<>>

\* enqueueLocked appends the datagram to the queue of its session, or refuses
\* it, and leaves the other queues alone.
LEMMA EnqueuesOne ==
  ASSUME SafeInv, Enqueues
  PROVE  LET p == [id |-> received, size |-> req.size]
         IN  /\ req.cur \in Session /\ pc = "forward" /\ pc' = "kick" /\ forwarding = "free" /\ ~backendReady
             /\ state[req.cur] = "open" /\ p \in Packet /\ Waiting(req.cur) \in Seq(Packet)
             /\ UNCHANGED <<state, watcher, received, req, sent>> /\ Touched({req.cur})
             /\ DOMAIN queues' = DOMAIN queues \cup {req.cur}
             /\ \A s \in DOMAIN queues \ {req.cur} : queues'[s] = queues[s]
             /\ queues'[req.cur].packets \in {Waiting(req.cur), Append(Waiting(req.cur), p)}
<1> USE DEF SafeInv, TypeInv, TypeOK, PowerInv
<1> DEFINE p == [id |-> received, size |-> req.size]
           q == IF req.cur \in DOMAIN queues THEN queues[req.cur] ELSE [packets |-> <<>>, bytes |-> 0]
           after == IF ~QueueFull(q, p.size)
                      THEN [packets |-> Append(q.packets, p), bytes |-> q.bytes + p.size] ELSE q
<1>1. /\ pc = "forward" /\ pc' = "kick" /\ forwarding = "free" /\ ~backendReady /\ state[req.cur] = "open"
      /\ UNCHANGED <<state, watcher, received, req, sent>> /\ Touched({req.cur}) /\ Enqueue(req.cur, p)
  BY DEF Enqueues, QueuePacket, RecordActivity
<1>2. req.cur \in Session /\ p \in Packet
  BY <1>1 DEF RequestOK, HandlingPC, Packet
<1>3. q.packets = Waiting(req.cur)
  BY DEF Waiting
<1>4. Waiting(req.cur) \in Seq(Packet)
  BY DEF Waiting, QueueType, Queue
<1>5. queues' = [x \in DOMAIN queues \cup {req.cur} |-> IF x = req.cur THEN after ELSE queues[x]]
  BY <1>1 DEF Enqueue
<1>6. after.packets \in {q.packets, Append(q.packets, p)}
  OBVIOUS
<1> HIDE DEF after, q
<1> QED
  BY <1>1, <1>2, <1>3, <1>4, <1>5, <1>6

\* handleClientPacket changes the queues otherwise only by removing one, and
\* what was sent only by a write.
LEMMA IngressQueues ==
  ASSUME Ingress, ~Enqueues
  PROVE  QueuesShrink /\ (UNCHANGED sent \/ ForwardClient)
<1>1. UNCHANGED queues => QueuesShrink
  BY DEF QueuesShrink
<1>2. UNCHANGED queues \/ \E S : RemoveQueues(S)
  BY DEF Ingress, ReceivePacket, QueuePacket, Enqueues, KickStartup, SeeGateOpen, ForwardClient, TakeAdmission,
         RemoveDeadSession, DropDeadQueue, SampleGate, CreateFails, CreateSession, WatchSession, FinishAdmission
<1>3. UNCHANGED sent \/ ForwardClient
  BY DEF Ingress, ReceivePacket, QueuePacket, KickStartup, SeeGateOpen, TakeAdmission, RemoveDeadSession,
         DropDeadQueue, SampleGate, CreateFails, CreateSession, WatchSession, FinishAdmission
<1> QED
  BY <1>1, <1>2, <1>3, RemoveQueuesShrink

\* Every queue has a watcher that is going to remove it: RecordActivity fails
\* on a session whose watcher has gone on.
LEMMA NextOrphan ==
  ASSUME SafeInv, SessionInv, NoOrphanQueue, [Next]_vars
  PROVE  NoOrphanQueue'
<1> USE DEF SafeInv, TypeInv, TypeOK, SessionInv
<1>0. DOMAIN queues \subseteq Session
  BY DEF QueueType
<1>1. CASE ~Ingress
  BY <1>0, <1>1, OtherSteps DEF NoOrphanQueue, WatchersAge, QueuesShrink
<1>2. CASE Ingress /\ Enqueues
  <2>1. watcher[req.cur] = "wait" /\ UNCHANGED watcher /\ DOMAIN queues' = DOMAIN queues \cup {req.cur}
    BY <1>2, EnqueuesOne DEF SessionsWatched
  <2> QED
    BY <2>1 DEF NoOrphanQueue
<1>3. CASE Ingress /\ ~Enqueues
  <2>1. DOMAIN queues' \subseteq DOMAIN queues
    BY <1>3, IngressQueues DEF QueuesShrink
  <2>2. UNCHANGED watcher \/ WatchSession
    BY <1>3 DEF Ingress, ReceivePacket, QueuePacket, KickStartup, SeeGateOpen, ForwardClient, TakeAdmission,
                RemoveDeadSession, DropDeadQueue, SampleGate, CreateFails, CreateSession, FinishAdmission
  <2>3. \A s \in Session : watcher'[s] \in {watcher[s], "wait"}
    BY <2>2 DEF WatchSession, SessionType
  <2> QED
    BY <1>0, <2>1, <2>3 DEF NoOrphanQueue
<1> QED
  BY <1>1, <1>2, <1>3

\* As long as nothing is queued or written and no datagram is taken in hand,
\* numbers and order stay.
LEMMA NumbersKept ==
  ASSUME SafeInv, DeliveryInOrder, QueuesNumbered, QueuesShrink, UNCHANGED <<sent, received>>,
         pc' \in InHandPC => pc \in InHandPC
  PROVE  DeliveryInOrder' /\ QueuesNumbered'
<1>1. \A s \in DOMAIN queues' : s \in DOMAIN queues /\ queues'[s] = queues[s]
  BY DEF QueuesShrink
<1>2. DeliveryInOrder'
  BY <1>1 DEF DeliveryInOrder
<1>3. QueuesNumbered'
  BY <1>1 DEF QueuesNumbered, Newest
<1> QED
  BY <1>2, <1>3

\* The flush writes datagrams of the queues and leaves none.
LEMMA FlushNumbers ==
  ASSUME SafeInv, QueuesNumbered, NEW n \in FlushCounts, Flush(n), UNCHANGED <<received, pc>>
  PROVE  DeliveryInOrder' /\ QueuesNumbered'
<1> USE DEF SafeInv, TypeInv, TypeOK
<1>1. DOMAIN queues' = {}
  BY ClearQueuesShrink DEF Flush
<1>2. \A s \in Session : Newest(sent'[s])
  <2> SUFFICES ASSUME NEW s \in Session PROVE Newest(sent'[s])
    OBVIOUS
  <2>1. CASE s \in DOMAIN queues /\ n[s] > 0
    <3>1. n[s] \in 1..Len(queues[s].packets)
      BY <2>1, OptionsAssumption DEF FlushCounts, QueueType, Queue
    <3>2. sent'[s] = queues[s].packets[n[s]].id
      BY <2>1 DEF Flush
    <3> QED
      BY <2>1, <3>1, <3>2 DEF QueuesNumbered
  <2>2. CASE ~(s \in DOMAIN queues /\ n[s] > 0)
    BY <2>2 DEF Flush, QueuesNumbered
  <2> QED
    BY <2>1, <2>2
<1>3. \A s \in Session : Newest(sent[s])'
  BY <1>2 DEF Newest
<1> QED
  BY <1>1, <1>3 DEF DeliveryInOrder, QueuesNumbered

\* The datagram in hand is the newest, so that appending it keeps the order.
LEMMA EnqueueNumbers ==
  ASSUME SafeInv, DeliveryInOrder, QueuesNumbered, Enqueues
  PROVE  DeliveryInOrder' /\ QueuesNumbered'
<1> USE DEF SafeInv, TypeInv, TypeOK
<1> DEFINE p == [id |-> received, size |-> req.size]
           w == Waiting(req.cur)
<1>1. /\ req.cur \in Session /\ pc = "forward" /\ pc' = "kick" /\ w \in Seq(Packet) /\ p \in Packet
      /\ UNCHANGED <<received, sent>> /\ DOMAIN queues' = DOMAIN queues \cup {req.cur}
      /\ \A s \in DOMAIN queues \ {req.cur} : queues'[s] = queues[s]
      /\ queues'[req.cur].packets \in {w, Append(w, p)}
  BY EnqueuesOne
<1>2. \A i \in 1..Len(w) : w[i].id \in Nat /\ w[i].id > sent[req.cur] /\ w[i].id < received
  <2> SUFFICES ASSUME NEW i \in 1..Len(w)
               PROVE  w[i].id \in Nat /\ w[i].id > sent[req.cur] /\ w[i].id < received
    OBVIOUS
  <2>1. w[i].id \in Nat
    <3> HIDE DEF w
    <3>1. w[i] \in Packet
      BY <1>1
    <3> QED
      BY <3>1, OptionsAssumption DEF Packet, Session
  <2>2. req.cur \in DOMAIN queues /\ w = queues[req.cur].packets
    BY DEF Waiting
  <2> QED
    BY <1>1, <2>1, <2>2 DEF DeliveryInOrder, QueuesNumbered, Newest, InHandPC
<1>3. \A i, j \in 1..Len(w) : i < j => w[i].id < w[j].id
  <2>1. CASE req.cur \in DOMAIN queues
    BY <2>1 DEF Waiting, DeliveryInOrder
  <2>2. CASE req.cur \notin DOMAIN queues
    BY <2>2 DEF Waiting
  <2> QED
    BY <2>1, <2>2
<1>4. received \in Nat /\ sent[req.cur] \in Nat /\ sent[req.cur] < received
  <2>0. received \in Nat /\ \A s \in Session : sent[s] \in Nat
    BY OptionsAssumption DEF ServeType, SessionType, SessionOrNone, Session, NoSession
  <2>1. received \in Nat /\ sent[req.cur] \in Nat
    BY <1>1, <2>0
  <2>2. sent[req.cur] < received
    BY <1>1 DEF QueuesNumbered, Newest, InHandPC
  <2> QED
    BY <2>1, <2>2
<1> DEFINE v == queues'[req.cur].packets
<1>5. /\ \A i \in 1..Len(v) : v[i].id > sent[req.cur] /\ v[i].id <= received
      /\ \A i, j \in 1..Len(v) : i < j => v[i].id < v[j].id
  <2> HIDE DEF w, v
  <2>1. CASE v = w
    BY <1>2, <1>3, <1>4, <2>1
  <2>2. CASE v = Append(w, p)
    <3>1. Len(v) = Len(w) + 1 /\ Len(w) \in Nat /\ (\A i \in 1..Len(w) : v[i] = w[i]) /\ v[Len(w) + 1] = p
      BY <1>1, <2>2
    <3>2. \A i \in 1..Len(v) : i \in 1..Len(w) \/ i = Len(w) + 1
      BY <3>1
    <3>3. p.id = received
      OBVIOUS
    <3> HIDE DEF p
    <3>4. \A i \in 1..Len(v) : v[i].id > sent[req.cur] /\ v[i].id <= received
      BY <1>2, <1>4, <3>1, <3>2, <3>3
    <3>5. \A i, j \in 1..Len(v) : i < j => v[i].id < v[j].id
      <4> SUFFICES ASSUME NEW i \in 1..Len(v), NEW j \in 1..Len(v), i < j PROVE v[i].id < v[j].id
        OBVIOUS
      <4>1. i \in 1..Len(w)
        BY <3>1
      <4> QED
        BY <1>2, <1>3, <3>1, <3>2, <3>3, <4>1
    <3> QED
      BY <3>4, <3>5
  <2> QED
    BY <1>1, <2>1, <2>2 DEF v
<1>6. \A s \in DOMAIN queues' : s = req.cur \/ (s \in DOMAIN queues /\ queues'[s] = queues[s])
  BY <1>1
<1>7. DeliveryInOrder'
  <2> SUFFICES ASSUME NEW s \in DOMAIN queues'
               PROVE  /\ \A i \in 1..Len(queues'[s].packets) : queues'[s].packets[i].id > sent'[s]
                      /\ \A i, j \in 1..Len(queues'[s].packets) :
                           i < j => queues'[s].packets[i].id < queues'[s].packets[j].id
    BY DEF DeliveryInOrder
  <2> QED
    BY <1>1, <1>5, <1>6 DEF DeliveryInOrder
<1>8. QueuesNumbered'
  <2>1. pc' \notin InHandPC
    BY <1>1 DEF InHandPC
  <2>2. \A s \in Session : Newest(sent[s])'
    BY <1>1, <2>1 DEF QueuesNumbered, Newest
  <2>3. \A s \in DOMAIN queues' : \A i \in 1..Len(queues'[s].packets) : queues'[s].packets[i].id <= received'
    BY <1>1, <1>5, <1>6 DEF QueuesNumbered, Newest
  <2> QED
    BY <2>1, <2>2, <2>3 DEF QueuesNumbered, Newest
<1> QED
  BY <1>7, <1>8

\* Datagrams keep their order: they are queued behind a closed gate, written
\* at once through an open one, and the gate opens with the flush.
LEMMA NextNumbered ==
  ASSUME SafeInv, LockInv, SessionInv, QueueInv, [Next]_vars
  PROVE  DeliveryInOrder' /\ QueuesNumbered'
<1> USE DEF SafeInv, TypeInv, TypeOK, SessionInv, QueueInv
<1>0. received \in Nat /\ \A s \in Session : sent[s] \in Nat
  BY OptionsAssumption DEF ServeType, SessionType, SessionOrNone, Session, NoSession
<1>1. CASE Ingress /\ Enqueues
  BY <1>1, EnqueueNumbers
<1>2. CASE Ingress /\ ForwardClient
  <2>1. pc = "send" /\ UNCHANGED <<queues, received>>
    BY <1>2 DEF ForwardClient
  <2>2. DOMAIN queues' = {}
    BY <2>1 DEF LockInv, SendOnlyWhenReady, QueuesGated
  <2>3. \/ UNCHANGED sent
        \/ sent' = [sent EXCEPT ![req.cur] = received] /\ AfterForward(TRUE)
    BY <1>2 DEF ForwardClient
  <2>4. CASE UNCHANGED sent
    BY <2>1, <2>2, <2>4 DEF DeliveryInOrder, QueuesNumbered, Newest, InHandPC
  <2>5. CASE sent' = [sent EXCEPT ![req.cur] = received] /\ AfterForward(TRUE)
    <3>1. pc' \in {"finish", "idle"}
      BY <2>1, <2>5, AfterForwardCases DEF PowerInv, AfterForward
    <3>2. \A s \in Session : sent'[s] \in {sent[s], received}
      BY <2>5 DEF SessionType
    <3>3. \A s \in Session : sent'[s] <= received'
      BY <1>0, <2>1, <3>2 DEF QueuesNumbered, Newest
    <3> QED
      BY <2>2, <3>1, <3>3 DEF DeliveryInOrder, QueuesNumbered, Newest, InHandPC
  <2> QED
    BY <2>3, <2>4, <2>5
<1>3. CASE Ingress /\ \E k \in Keys : ReceivePacket(k)
  <2>1. received' = received + 1 /\ UNCHANGED <<queues, sent>>
    BY <1>3 DEF ReceivePacket
  <2>2. DeliveryInOrder'
    BY <2>1 DEF DeliveryInOrder
  <2>3. \A s \in Session : Newest(sent[s])'
    BY <1>0, <2>1 DEF QueuesNumbered, Newest
  <2>4. ASSUME NEW s \in DOMAIN queues, NEW i \in 1..Len(queues[s].packets)
        PROVE  Newest(queues[s].packets[i].id)'
    <3>1. queues[s].packets[i].id \in Nat
      <4>1. queues[s].packets \in Seq(Packet)
        BY DEF QueueType, Queue
      <4>2. queues[s].packets[i] \in Packet
        BY <4>1
      <4> QED
        BY <4>2, OptionsAssumption DEF Packet, Session
    <3>2. queues[s].packets[i].id <= received
      BY DEF QueuesNumbered, Newest
    <3> QED
      BY <1>0, <2>1, <3>1, <3>2 DEF Newest
  <2> QED
    BY <2>1, <2>2, <2>3, <2>4 DEF QueuesNumbered
<1>4. CASE Ingress /\ ~Enqueues /\ ~ForwardClient /\ ~(\E k \in Keys : ReceivePacket(k))
  <2>1. QueuesShrink /\ UNCHANGED sent
    BY <1>4, IngressQueues
  <2>2. UNCHANGED received
    BY <1>4 DEF Ingress, QueuePacket, KickStartup, SeeGateOpen, TakeAdmission, RemoveDeadSession, DropDeadQueue,
                SampleGate, CreateFails, CreateSession, WatchSession, FinishAdmission
  <2>3. pc' \in InHandPC => pc \in InHandPC
    <3>1. CASE KickStartup
      BY <3>1, AfterForwardCases DEF KickStartup, AfterForward, PowerInv, InHandPC
    <3>2. CASE ~KickStartup
      BY <1>4, <3>2 DEF Ingress, QueuePacket, SeeGateOpen, TakeAdmission, RemoveDeadSession, DropDeadQueue,
                SampleGate, CreateFails, CreateSession, WatchSession, FinishAdmission, DropPacket, InHandPC
    <3> QED
      BY <3>1, <3>2
  <2> QED
    BY <2>1, <2>2, <2>3, NumbersKept
<1>5. CASE ~Ingress
  <2>1. CASE \E r \in startups : Startup(r) /\ StartupOpensGate(r) /\ ~shuttingDown
    <3>1. PICK n \in FlushCounts : Flush(n)
      BY <2>1 DEF StartupOpensGate
    <3>2. UNCHANGED <<received, pc>>
      BY <2>1 DEF Startup
    <3> QED
      BY <3>1, <3>2, FlushNumbers
  <2>2. CASE ~(\E r \in startups : Startup(r) /\ StartupOpensGate(r) /\ ~shuttingDown)
    <3>1. UNCHANGED sent
      <4>1. CASE \E r \in startups : Startup(r)
        BY <2>2, <4>1 DEF Startup, StartupPolls, StartupTakesAdmission, StartupOpensGate, StartupGateOpened,
                          StartupFails, StartupFailed, StartupCompletes, StartupRestarts
      <4>2. CASE ~(\E r \in startups : Startup(r))
        BY <1>5, <4>2 DEF Next, ServeBoots, Sweeper, Monitor, Shutdown, IgnorePacket, Returned, CloseAllDetaches,
                          CooldownElapses, SessionStep, Watcher, TimerFires, Callback, vars
      <4> QED
        BY <4>1, <4>2
    <3>2. QueuesShrink /\ UNCHANGED received /\ (pc' \in InHandPC => pc \in InHandPC)
      BY <1>5, OtherSteps DEF HandlingPC, InHandPC
    <3> QED
      BY <3>1, <3>2, NumbersKept
  <2> QED
    BY <2>1, <2>2
<1> QED
  BY <1>1, <1>2, <1>3, <1>4, <1>5

\* The gate is opened by the first status query in delay mode and by a startup,
\* which flushes the queues.
LEMMA GateOpens ==
  ASSUME SafeInv, [Next]_vars, ~backendReady, backendReady'
  PROVE  ServeBoots \/ \E r \in startups : Startup(r) /\ r.pc = "openGate" /\ ClearQueues
<1> USE DEF SafeInv, TypeInv, TypeOK
<1>1. CASE \E r \in startups : Startup(r)
  <2>1. PICK r \in startups : Startup(r)
    BY <1>1
  <2>2. ~StartupPolls(r)
    BY PollsMove
  <2>3. StartupOpensGate(r) /\ ~shuttingDown
    BY <2>1, <2>2 DEF Startup, StartupTakesAdmission, StartupOpensGate, StartupGateOpened, StartupFails,
                      StartupFailed, StartupCompletes, StartupRestarts
  <2>4. r.pc = "openGate" /\ ClearQueues
    BY <2>3 DEF StartupOpensGate, Flush
  <2> QED
    BY <2>1, <2>4
<1>2. CASE Ingress \/ Sweeper \/ IgnorePacket \/ Returned \/ CloseAllDetaches \/ CooldownElapses
           \/ (\E s \in Session : SessionStep(s) \/ Watcher(s)) \/ (\E t \in timers : TimerFires(t))
           \/ UNCHANGED vars
  BY <1>2 DEF Ingress, Sweeper, IgnorePacket, Returned, CloseAllDetaches, CooldownElapses, SessionStep, Watcher,
              TimerFires, vars
<1>3. CASE \E c \in callbacks : Callback(c)
  BY <1>3 DEF Callback, CallbackDecides, CallbackStopAccepted, CallbackGivesUp, CallbackRetries,
              MarkBackendNotRunning, CloseGate
<1>4. CASE Monitor \/ Shutdown
  BY <1>4 DEF Monitor, MonitorTicks, MonitorProbed, MonitorTakesAdmission, MonitorClosesGate, MonitorClosed,
              MonitorExits, Shutdown, Cancel, ListenerCloses, ReadFails, ShutdownTakesAdmission,
              ShutdownClosesGate, ShutdownClosed, ServeWaits, CloseGate
<1> QED
  BY <1>1, <1>2, <1>3, <1>4 DEF Next

\* The cooldown begins with a startup that fails for good, under both locks.
LEMMA CooldownBegins ==
  ASSUME [Next]_vars, ~blocked, blocked'
  PROVE  \E r \in startups : Startup(r) /\ StartupFails(r)
<1>1. CASE \E r \in startups : Startup(r)
  BY <1>1 DEF Startup, StartupPolls, StartupTakesAdmission, StartupOpensGate, StartupGateOpened,
              StartupFailed, StartupCompletes, StartupRestarts
<1>2. CASE ~(\E r \in startups : Startup(r))
  BY <1>2 DEF Next, ServeBoots, Ingress, Sweeper, Monitor, Shutdown, IgnorePacket, Returned, CloseAllDetaches,
              CooldownElapses, SessionStep, Watcher, TimerFires, Callback, vars
<1> QED
  BY <1>1, <1>2

\* Nothing returns to the first status query.
LEMMA BootOnce == ASSUME SafeInv, [Next]_vars, pc' = "boot" PROVE pc = "boot" /\ ~Ingress
<1>1. CASE Ingress
  <2>1. \A ok \in BOOLEAN : pc \in {"forward", "kick", "send"} /\ AfterForward(ok) => pc' # "boot"
    BY AfterForwardCases DEF SafeInv, TypeInv, TypeOK, PowerInv
  <2> QED
    BY <1>1, <2>1 DEF Ingress, ReceivePacket, QueuePacket, KickStartup, SeeGateOpen, ForwardClient, TakeAdmission,
           RemoveDeadSession, DropDeadQueue, SampleGate, CreateFails, CreateSession, WatchSession, FinishAdmission,
           DropPacket
<1>2. CASE ~Ingress
  BY <1>2 DEF Next, ServeBoots, Sweeper, Monitor, Shutdown, Cancel, ListenerCloses, ReadFails,
              ShutdownTakesAdmission, ShutdownClosesGate, ShutdownClosed, ServeWaits, IgnorePacket, Returned,
              CloseAllDetaches, CooldownElapses, SessionStep, Watcher, TimerFires, Callback, Startup, vars
<1> QED
  BY <1>1, <1>2

\* Queues exist only behind a closed gate.
LEMMA NextGated == ASSUME SafeInv, SessionInv, QueueInv, [Next]_vars PROVE QueuesGated'
<1> USE DEF QueueInv
<1>1. ASSUME pc' = "boot" PROVE DOMAIN queues' = {} /\ ~blocked'
  <2>1. pc = "boot" /\ ~Ingress
    BY <1>1, BootOnce
  <2>2. DOMAIN queues' \subseteq DOMAIN queues /\ DOMAIN queues = {} /\ startups = {} /\ ~blocked
    BY <2>1, OtherSteps DEF QueuesGated, QueuesShrink, SafeInv, PowerInv, StartupAlone
  <2> QED
    BY <2>2, CooldownBegins
<1>2. ASSUME backendReady' PROVE DOMAIN queues' = {}
  <2>1. CASE Ingress /\ Enqueues
    BY <1>2, <2>1, EnqueuesOne DEF Ingress
  <2>2. CASE ~(Ingress /\ Enqueues)
    <3>1. DOMAIN queues' \subseteq DOMAIN queues
      BY <2>2, OtherSteps, IngressQueues DEF QueuesShrink
    <3>2. CASE backendReady \/ ServeBoots
      BY <3>1, <3>2 DEF QueuesGated, ServeBoots
    <3>3. CASE ClearQueues
      BY <3>3, ClearQueuesShrink
    <3> QED
      BY <1>2, <3>2, <3>3, GateOpens
  <2> QED
    BY <2>1, <2>2
<1> QED
  BY <1>1, <1>2 DEF QueuesGated

\* startServer starts a startup, or finds one, when something is queued.
LEMMA StartServerServes ==
  ASSUME QueuesGated, CooldownHolds, NEW S, StartServer(S), DOMAIN queues # {}, ~shuttingDown
  PROVE  startupRunning'
  BY DEF QueuesGated, CooldownHolds, StartServer, StartAllowed

\* A startup that is about to call startServer again is not touched by others.
Restarting == \E r \in startups : r.pc = "restart"

\* The startups keep the wake-up.
LEMMA StartupStranded ==
  ASSUME SafeInv, QueueInv, NEW r \in startups, Startup(r)
  PROVE  NoStrandedQueue'
<1> USE DEF SafeInv, TypeInv, TypeOK, QueueInv
<1>0. UNCHANGED <<pc, shuttingDown>>
  BY DEF Startup
<1>1. ASSUME UNCHANGED startupRunning, UNCHANGED queues \/ ClearQueues, r.pc # "restart",
             startups' = startups \ {r} \/ (\E n : startups' = Replace(startups, r, n))
      PROVE  NoStrandedQueue'
  <2>1. Restarting => Restarting'
    BY <1>1 DEF Restarting, Replace
  <2> QED
    BY <1>0, <1>1, <2>1, ClearQueuesShrink DEF NoStrandedQueue, Restarting
<1>2. CASE StartupPolls(r)
  <2>1. r.pc # "restart" /\ \E n : startups' = Replace(startups, r, n)
    BY <1>2, PollsMove DEF Polling
  <2>2. UNCHANGED <<queues, startupRunning>>
    BY <1>2 DEF StartupPolls
  <2> QED
    BY <1>1, <2>1, <2>2
<1>3. CASE StartupTakesAdmission(r) \/ StartupOpensGate(r) \/ StartupGateOpened(r)
  <2>1. r.pc # "restart" /\ UNCHANGED startupRunning /\ (UNCHANGED queues \/ ClearQueues)
    BY <1>3 DEF StartupTakesAdmission, StartupOpensGate, StartupGateOpened, Flush
  <2>2. \E n : startups' = Replace(startups, r, n)
    BY <1>3 DEF StartupTakesAdmission, StartupOpensGate, StartupGateOpened, Goto
  <2> QED
    BY <1>1, <2>1, <2>2
<1>4. CASE StartupFails(r)
  BY <1>4, ClearQueuesShrink DEF StartupFails, NoStrandedQueue
<1>5. CASE StartupFailed(r)
  BY <1>1, <1>5 DEF StartupFailed
<1>6. CASE StartupCompletes(r)
  <2>1. r.pc = "finish" /\ UNCHANGED queues
    BY <1>6 DEF StartupCompletes
  <2>2. CASE startupGeneration = r.gen /\ NeedsRestart
    <3>1. PICK n : startups' = Replace(startups, r, n) /\ n.pc = "restart"
      BY <1>6, <2>2, GotoMove DEF StartupCompletes
    <3> QED
      BY <3>1 DEF NoStrandedQueue, Replace
  <2>3. CASE startupGeneration = r.gen /\ ~NeedsRestart
    BY <1>0, <2>1, <2>3 DEF NeedsRestart, NoStrandedQueue, QueuesGated, CooldownHolds
  <2>4. CASE startupGeneration # r.gen
    BY <1>1, <1>6, <2>1, <2>4 DEF StartupCompletes
  <2> QED
    BY <2>2, <2>3, <2>4
<1>7. CASE StartupRestarts(r)
  BY <1>0, <1>7, StartServerServes DEF StartupRestarts, NoStrandedQueue
<1> QED
  BY <1>2, <1>3, <1>4, <1>5, <1>6, <1>7 DEF Startup

\* No lost wake-up: whoever ends a startup or queues a datagram sees to it that
\* another startup follows.
LEMMA NextStranded == ASSUME SafeInv, SessionInv, QueueInv, [Next]_vars PROVE NoStrandedQueue'
<1> USE DEF QueueInv
<1>1. CASE Ingress
  <2>0. UNCHANGED shuttingDown
    BY <1>1 DEF Ingress
  <2>1. CASE Enqueues
    BY <2>1, EnqueuesOne DEF NoStrandedQueue
  <2>2. CASE KickStartup
    <3>1. UNCHANGED queues /\ StartServer(startups)
      BY <2>2 DEF KickStartup
    <3> QED
      BY <2>0, <3>1, StartServerServes DEF NoStrandedQueue
  <2>3. CASE ~Enqueues /\ ~KickStartup
    <3>1. DOMAIN queues' \subseteq DOMAIN queues
      BY <1>1, <2>3, IngressQueues DEF QueuesShrink
    <3>2. pc # "kick" /\ (UNCHANGED <<startups, startupRunning>> \/ StartServer(startups))
      BY <1>1, <2>3 DEF Ingress, ReceivePacket, QueuePacket, SeeGateOpen, ForwardClient, TakeAdmission,
           RemoveDeadSession, DropDeadQueue, SampleGate, CreateFails, CreateSession, WatchSession, FinishAdmission
    <3>3. startups \subseteq startups' /\ (startupRunning => startupRunning')
      BY <3>2, StartServerLocks, StartServerSafe
    <3> QED
      BY <2>0, <3>1, <3>2, <3>3 DEF NoStrandedQueue
  <2> QED
    BY <2>1, <2>2, <2>3
<1>2. CASE \E r \in startups : Startup(r)
  BY <1>2, StartupStranded
<1>3. CASE ServeBoots
  BY <1>3 DEF ServeBoots, QueuesGated, NoStrandedQueue
<1>4. CASE Shutdown
  BY <1>4 DEF Shutdown, Cancel, ListenerCloses, ReadFails, ShutdownTakesAdmission, ShutdownClosesGate,
              ShutdownClosed, ServeWaits, NoStrandedQueue
<1>5. CASE ~Ingress /\ ~ServeBoots /\ ~Shutdown /\ ~(\E r \in startups : Startup(r))
  <2>1. UNCHANGED <<startups, startupRunning, pc, shuttingDown>>
    BY <1>5 DEF Next, Sweeper, Monitor, IgnorePacket, Returned, CloseAllDetaches, CooldownElapses, SessionStep,
                Watcher, TimerFires, Callback, vars
  <2>2. DOMAIN queues' \subseteq DOMAIN queues
    BY <1>5, OtherSteps DEF QueuesShrink
  <2> QED
    BY <2>1, <2>2 DEF NoStrandedQueue
<1> QED
  BY <1>1, <1>2, <1>3, <1>4, <1>5

\* While the cooldown lasts the only startups are those closing sessions and
\* those about to call startServer, which refuses.
LEMMA CooldownStartup ==
  ASSUME SafeInv, SessionInv, QueueInv, NEW r \in startups, Startup(r), blocked
  PROVE  /\ UNCHANGED <<backendReady, queues, state>> /\ startups' = startups \ {r}
         /\ r.pc = "restart" \/ (r.pc = "failClosing" /\ Open = {})
<1> USE DEF SafeInv, TypeInv, TypeOK, QueueInv
<1>1. r.pc \in {"failClosing", "restart"}
  BY DEF CooldownHolds, UnderWay
<1>2. StartupFailed(r) \/ StartupRestarts(r)
  <2>1. ~StartupPolls(r)
    BY <1>1, PollsMove DEF Polling
  <2> QED
    BY <1>1, <2>1 DEF Startup, StartupTakesAdmission, StartupOpensGate, StartupGateOpened, StartupFails,
                      StartupCompletes
<1>3. UNCHANGED <<backendReady, queues, state>> /\ startups' = startups \ {r}
  BY <1>2 DEF StartupFailed, StartupRestarts, StartServer, StartAllowed
<1>4. CASE StartupFailed(r)
  <2>1. closeAll = "closing" /\ (\A s \in detached : state[s] = "done") /\ r.pc = "failClosing"
    BY <1>4 DEF StartupFailed, CloseAllReturns
  <2>2. Stored = {}
    BY <2>1 DEF SessionInv, StoreBounded, Stored
  <2>3. Open = {}
    BY <2>1, <2>2 DEF PowerInv, SessionsTracked, Open
  <2> QED
    BY <1>3, <2>1, <2>3
<1>5. CASE StartupRestarts(r)
  BY <1>3, <1>5 DEF StartupRestarts
<1> QED
  BY <1>2, <1>4, <1>5

\* A permanent failure drops the queues and closes the sessions before the
\* locks are free, so that nobody waits for the backend during the cooldown.
LEMMA NextCooldown ==
  ASSUME SafeInv, LockInv, SessionInv, QueueInv, [Next]_vars
  PROVE  CooldownHolds'
<1> USE DEF SafeInv, TypeInv, TypeOK, QueueInv
<1> SUFFICES ASSUME blocked' PROVE CooldownHolds'
  BY DEF CooldownHolds
<1>1. CASE ~blocked
  <2>1. PICK r \in startups : Startup(r) /\ StartupFails(r)
    BY <1>1, CooldownBegins
  <2>2. /\ r.pc = "failGate" /\ DOMAIN queues' = {} /\ UNCHANGED <<backendReady, pc>>
    BY <2>1, ClearQueuesShrink DEF StartupFails, Startup
  <2>3. PICK n : startups' = Replace(startups, r, n) /\ n.pc = "failClosing"
    BY <2>1, GotoMove DEF StartupFails
  <2>4. ~backendReady /\ \A q \in startups : q # r => ~UnderWay(q)
    BY <2>2 DEF PowerInv, StartupAlone, SingleFlight, UnderWay
  <2>5. pc # "create"
    BY <2>2 DEF PowerInv, AdmissionOwned, Holds, IngressHolds, AdmittedPC
  <2>6. \A q \in startups' : ~UnderWay(q)
    BY <2>3, <2>4 DEF Replace, UnderWay
  <2>7. \E q \in startups' : q.pc = "failClosing"
    BY <2>3 DEF Replace
  <2> QED
    BY <2>2, <2>4, <2>5, <2>6, <2>7 DEF CooldownHolds
<1>2. CASE blocked
  <2>0. /\ DOMAIN queues = {} /\ ~backendReady /\ pc # "create" /\ \A r \in startups : ~UnderWay(r)
        /\ Open = {} \/ \E r \in startups : r.pc = "failClosing"
    BY <1>2 DEF CooldownHolds
  <2>1. CASE Ingress
    <3>1. UNCHANGED backendReady
      BY <2>1 DEF Ingress
    <3>2. ~Enqueues
      <4> SUFFICES ASSUME Enqueues PROVE FALSE
        OBVIOUS
      <4>1. req.cur \in Open /\ forwarding = "free"
        BY EnqueuesOne DEF Open
      <4> QED
        BY <2>0, <4>1 DEF LockInv, ForwardingOwned
    <3>3. DOMAIN queues' = {}
      BY <2>0, <2>1, <3>2, IngressQueues DEF QueuesShrink
    <3>4. pc' # "create"
      <4>1. \A ok \in BOOLEAN : pc \in {"forward", "kick", "send"} /\ AfterForward(ok) => pc' # "create"
        BY AfterForwardCases DEF PowerInv
      <4> QED
        BY <1>2, <2>1, <4>1
           DEF Ingress, ReceivePacket, QueuePacket, KickStartup, SeeGateOpen, ForwardClient, TakeAdmission,
               RemoveDeadSession, DropDeadQueue, SampleGate, PacketRefused, CreateFails, CreateSession, WatchSession,
               FinishAdmission, DropPacket
    <3>5. startups' = startups
      BY <1>2, <2>1
         DEF Ingress, ReceivePacket, QueuePacket, KickStartup, SeeGateOpen, ForwardClient, TakeAdmission,
             RemoveDeadSession, DropDeadQueue, SampleGate, CreateFails, CreateSession, WatchSession, FinishAdmission,
             StartServer, StartAllowed
    <3>6. Open' \subseteq Open
      <4>1. SessionsAge
        <5>1. CASE (\E k \in Keys : ReceivePacket(k)) \/ WatchSession
          BY <5>1 DEF ReceivePacket, WatchSession, SessionsAge
        <5>2. ~CreateSession
          BY <2>0 DEF CreateSession
        <5> QED
          BY <2>1, <5>1, <5>2, IngressSteps DEF SessionInv
      <4> QED
        BY <4>1 DEF SessionsAge, Open
    <3> QED
      BY <2>0, <3>1, <3>3, <3>4, <3>5, <3>6 DEF CooldownHolds
  <2>2. CASE \E r \in startups : Startup(r)
    <3>1. PICK r \in startups : Startup(r)
      BY <2>2
    <3>2. /\ UNCHANGED <<backendReady, queues, state, pc>> /\ startups' = startups \ {r}
          /\ r.pc = "restart" \/ (r.pc = "failClosing" /\ Open = {})
      BY <1>2, <3>1, CooldownStartup DEF Startup
    <3>3. Open' = Open
      BY <3>2 DEF Open
    <3> QED
      BY <2>0, <3>2, <3>3 DEF CooldownHolds
  <2>3. CASE ~Ingress /\ ~(\E r \in startups : Startup(r))
    <3>1. pc # "boot"
      BY <1>2 DEF QueuesGated
    <3>2. ~backendReady'
      BY <2>0, <2>3, <3>1, GateOpens DEF ServeBoots
    <3>3. DOMAIN queues' = {} /\ SessionsAge /\ pc' # "create"
      BY <2>0, <2>3, OtherSteps DEF QueuesShrink, HandlingPC
    <3>4. UNCHANGED startups
      BY <2>3, <3>1 DEF Next, ServeBoots, Sweeper, Monitor, Shutdown, IgnorePacket, Returned, CloseAllDetaches,
                        CooldownElapses, SessionStep, Watcher, TimerFires, Callback, vars
    <3>5. Open' \subseteq Open
      BY <3>3 DEF SessionsAge, Open
    <3> QED
      BY <2>0, <3>2, <3>3, <3>4, <3>5 DEF CooldownHolds
  <2> QED
    BY <2>1, <2>2, <2>3
<1> QED
  BY <1>1, <1>2

\* Between the refresh and the expiry of a sweep sessions are only touched.
LEMMA RecentGrows ==
  ASSUME [Next]_vars, ~Sweeper, sweeper = "expire"
  PROVE  UNCHANGED sweeper /\ recent \subseteq recent'
<1>1. UNCHANGED sweeper
  BY DEF Next, ServeBoots, Ingress, Monitor, Shutdown, IgnorePacket, Returned, CloseAllDetaches, CooldownElapses,
         SessionStep, Watcher, TimerFires, Callback, Startup, vars
<1>2. (\E S : Touched(S)) => recent \subseteq recent'
  BY DEF Touched
<1>3. UNCHANGED recent \/ \E S : Touched(S)
  <2>1. CASE Ingress
    BY <2>1 DEF Ingress, ReceivePacket, QueuePacket, KickStartup, SeeGateOpen, ForwardClient, TakeAdmission,
                RemoveDeadSession, DropDeadQueue, SampleGate, CreateFails, CreateSession, WatchSession,
                FinishAdmission
  <2>2. CASE \E r \in startups : Startup(r)
    BY <2>2 DEF Startup, StartupPolls, StartupTakesAdmission, StartupOpensGate, StartupGateOpened, StartupFails,
                StartupFailed, StartupCompletes, StartupRestarts, Flush
  <2>3. CASE \E s \in Session : SessionStep(s)
    BY <2>3 DEF SessionStep, BackendTraffic, SessionFails, CloseDetached, SessionDone
  <2>4. CASE ~Ingress /\ ~(\E r \in startups : Startup(r)) /\ ~(\E s \in Session : SessionStep(s))
    BY <2>4 DEF Next, ServeBoots, Monitor, Shutdown, IgnorePacket, Returned, CloseAllDetaches, CooldownElapses,
                Watcher, TimerFires, Callback, vars
  <2> QED
    BY <2>1, <2>2, <2>3, <2>4
<1> QED
  BY <1>1, <1>2, <1>3

\* A session that begins to wait after the refresh was touched by that.
LEMMA NextPending == ASSUME SafeInv, SessionInv, QueueInv, [Next]_vars PROVE PendingTouched'
<1> USE DEF SafeInv, TypeInv, TypeOK, QueueInv
<1> SUFFICES ASSUME sweeper' = "expire" PROVE PendingSessions' \subseteq recent'
  BY DEF PendingTouched
<1>1. CASE Sweeper
  <2>1. SweeperRefreshes
    BY <1>1 DEF Sweeper, SweeperTicks, SweeperExpires, SweeperDropsQueues, SweeperSchedules, SweeperExits
  <2> QED
    BY <2>1 DEF SweeperRefreshes, PendingSessions, Open
<1>2. CASE ~Sweeper
  <2>1. sweeper = "expire"
    BY <1>2 DEF Next, ServeBoots, Ingress, Monitor, Shutdown, IgnorePacket, Returned, CloseAllDetaches,
                CooldownElapses, SessionStep, Watcher, TimerFires, Callback, Startup, vars
  <2>2. recent \subseteq recent' /\ PendingSessions \subseteq recent
    BY <1>2, <2>1, RecentGrows DEF PendingTouched
  <2>3. ASSUME QueuesShrink, SessionsAge PROVE PendingSessions' \subseteq recent'
    <3>1. Open' \subseteq Open /\ DOMAIN queues' \subseteq DOMAIN queues
      BY <2>3 DEF QueuesShrink, SessionsAge, Open
    <3> QED
      BY <2>2, <3>1 DEF PendingSessions
  <2>4. CASE ~Ingress
    BY <2>3, <2>4, OtherSteps
  <2>5. CASE Ingress /\ Enqueues
    <3>1. UNCHANGED state /\ DOMAIN queues' = DOMAIN queues \cup {req.cur} /\ req.cur \in recent'
      BY <2>1, <2>5, EnqueuesOne DEF Touched
    <3> QED
      BY <2>2, <3>1 DEF PendingSessions, Open
  <2>6. CASE Ingress /\ CreateSession
    <3>1. received \in Session /\ watcher[received] = "none" /\ UNCHANGED queues
      BY <2>6 DEF CreateSession, SessionInv, SessionsNew, HandlingPC
    <3>2. received \notin DOMAIN queues
      BY <3>1 DEF NoOrphanQueue
    <3>3. \A s \in Session : s # received => state'[s] = state[s]
      BY <2>6 DEF CreateSession, SessionType
    <3> QED
      BY <2>2, <3>1, <3>2, <3>3 DEF PendingSessions, Open
  <2>7. CASE Ingress /\ ~Enqueues /\ ~CreateSession
    <3>1. SessionsAge
      <4>1. CASE (\E k \in Keys : ReceivePacket(k)) \/ WatchSession
        BY <4>1 DEF ReceivePacket, WatchSession, SessionsAge
      <4>2. CASE ~(\E k \in Keys : ReceivePacket(k)) /\ ~WatchSession
        BY <2>7, <4>2, IngressSteps DEF SessionInv
      <4> QED
        BY <4>1, <4>2
    <3> QED
      BY <2>3, <2>7, <3>1, IngressQueues
  <2> QED
    BY <2>4, <2>5, <2>6, <2>7
<1> QED
  BY <1>1, <1>2

\* A new proxy has no queue.
LEMMA InitQueues == Init => QueueInv
<1> SUFFICES ASSUME Init PROVE QueueInv
  OBVIOUS
<1>1. DOMAIN queues = {} /\ received = 0 /\ pc = "boot" /\ sweeper = "idle" /\ ~blocked
      /\ \A s \in Session : sent[s] = 0
  BY DEF Init, NoQueues
<1> QED
  BY <1>1 DEF QueueInv, NoOrphanQueue, NoStrandedQueue, DeliveryInOrder, QueuesNumbered, Newest, InHandPC,
              QueuesGated, CooldownHolds, PendingTouched

\* The invariant of the queues.
LEMMA NextQueues == ASSUME SafeInv, LockInv, SessionInv, QueueInv, [Next]_vars PROVE QueueInv'
<1>1. NoOrphanQueue'
  BY NextOrphan DEF QueueInv
<1>2. DeliveryInOrder' /\ QueuesNumbered'
  BY NextNumbered
<1>3. NoStrandedQueue' /\ QueuesGated' /\ CooldownHolds' /\ PendingTouched'
  BY NextStranded, NextGated, NextCooldown, NextPending
<1> QED
  BY <1>1, <1>2, <1>3 DEF QueueInv
=============================================================================
