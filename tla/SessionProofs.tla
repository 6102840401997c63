--------------------------- MODULE SessionProofs ---------------------------
(***************************************************************************)
(* The safety of a session, for any number of callers: the mutex has one   *)
(* holder, so activity, expiry and closing see each other, and the Once    *)
(* puts what Close promises in order.                                      *)
(***************************************************************************)
EXTENDS Session, TLAPS

ReaderPCs == {"read", "touch", "store", "relay", "once", "setClosed", "cancel", "closeSocket",
              "leave", "leaving", "ended"}
WatcherPCs == {"select", "once", "setClosed", "cancel", "closeSocket", "ended"}
CallerPCs == {"idle", "touch", "store", "once", "setClosed", "cancel", "closeSocket", "write", "try", "mark",
              "wait", "returned"}
Ops == {"none", "record", "forward", "close", "expire"}

\* The types, except for the range of expirations.
Types ==
  /\ closed \in BOOLEAN /\ activityMu \in Callers \cup {Reader, NoOne}
  /\ closeOnce \in {"new", "running", "over"} /\ ctxDone \in BOOLEAN
  /\ socket \in {"open", "closed"} /\ done \in BOOLEAN
  /\ pc \in [Procs -> PC] /\ op \in [Procs -> Ops]
  /\ recent \subseteq Callers

\* Every process is in its own code.
Paths ==
  /\ op[Reader] = "none" /\ op[CtxWatcher] = "none"
  /\ pc[Reader] \in ReaderPCs /\ pc[CtxWatcher] \in WatcherPCs
  /\ \A p \in Callers : pc[p] \in CallerPCs /\ (pc[p] = "write" => op[p] = "forward")

\* Who has tested closed under activityMu holds it until it has acted.
Owned == \A p \in Procs : pc[p] \in {"store", "mark"} => activityMu = p

\* closed is set before the resources go, and they go before the Once is over.
Ordered ==
  /\ \A p \in Procs : pc[p] \in {"cancel", "closeSocket"} => closed
  /\ \A p \in Procs : pc[p] = "once" /\ op[p] = "expire" => closed
  /\ closeOnce = "over" => closed /\ socket = "closed"
  /\ pc[Reader] \in {"leave", "leaving", "ended"} => closeOnce = "over"
  /\ pc[Reader] \in {"leaving", "ended"} <=> done

\* A session that was expired is closed.
Counted == expirations \in 0..1 /\ (expirations = 1 => closed)

SessionInv ==
  /\ Types /\ Paths /\ Owned /\ Ordered /\ Counted
  /\ ActivityOnlyWhileOpen /\ ExpireDecisionFresh /\ CloseWaits

\* The invariant holds initially.
LEMMA SessionInit == Init => SessionInv
<1> SUFFICES ASSUME Init PROVE SessionInv
  OBVIOUS
<1>1. /\ pc = [p \in Procs |-> IF p = Reader THEN "read" ELSE IF p = CtxWatcher THEN "select" ELSE "idle"]
      /\ op = [p \in Procs |-> "none"]
  BY DEF Init
<1>2. Types
  BY <1>1 DEF Init, Types, PC, Ops
<1>3. Paths
  BY <1>1, ProcessAssumption DEF Paths, Procs, Goroutines, ReaderPCs, WatcherPCs, CallerPCs
<1>4. \A p \in Procs : pc[p] \in {"read", "select", "idle"}
  BY <1>1
<1>5. pc[Reader] = "read" /\ closeOnce = "new" /\ done = FALSE
  BY <1>1 DEF Init, Procs, Goroutines
<1>6. Owned /\ Ordered
  BY <1>4, <1>5 DEF Owned, Ordered
<1>7. Counted
  BY DEF Init, Counted
<1>8. ActivityOnlyWhileOpen /\ ExpireDecisionFresh /\ CloseWaits
  BY <1>4 DEF ActivityOnlyWhileOpen, ExpireDecisionFresh, CloseWaits, Procs
<1>9. QED
  BY <1>2, <1>3, <1>6, <1>7, <1>8 DEF SessionInv

-----------------------------------------------------------------------------
\* A process that only goes on, to a place that asks nothing of the state,
\* keeps the invariant.
LEMMA InvMoves ==
  ASSUME SessionInv, NEW p \in Procs, NEW l \in PC, Goto(p, l),
         UNCHANGED <<closed, activityMu, closeOnce, socket, done, op, recent, expirations>>, ctxDone' \in BOOLEAN,
         pc[p] # "store", pc[p] # "mark", l \notin {"store", "mark", "cancel", "closeSocket", "leave", "leaving", "returned", "write"},
         p = Reader => l \in ReaderPCs \ {"ended"} /\ pc[p] \notin {"leave", "leaving", "ended"},
         p = CtxWatcher => l \in WatcherPCs /\ pc[p] # "ended",
         p \in Callers => l \in CallerPCs,
         l = "once" /\ op[p] = "expire" => closed
  PROVE  SessionInv'
<1> USE DEF SessionInv, Goto, Procs, Goroutines
<1>1. Types'
  BY DEF Types
<1>2. \A q \in Procs : pc'[q] = IF q = p THEN l ELSE pc[q]
  BY DEF Types
<1>3. Paths'
  BY <1>2, ProcessAssumption DEF Paths
<1>4. Owned'
  BY <1>2 DEF Owned
<1>5. Ordered'
  BY <1>2 DEF Ordered
<1>6. Counted' /\ ActivityOnlyWhileOpen'
  BY <1>2 DEF Counted, ActivityOnlyWhileOpen
<1>7. ExpireDecisionFresh'
  BY <1>2 DEF ExpireDecisionFresh
<1>8. CloseWaits'
  BY <1>2 DEF CloseWaits
<1>9. QED
  BY <1>1, <1>3, <1>4, <1>5, <1>6, <1>7, <1>8

\* Where each process goes on after the Once.
LEMMA AfterOnceGoes ==
  /\ AfterOnce(Reader) = "leave" /\ AfterOnce(CtxWatcher) = "ended"
  /\ \A c \in Callers : AfterOnce(c) \in {"wait", "idle"}
BY ProcessAssumption, Zenon DEF AfterOnce

\* touch: the test takes the mutex, so closed stays as it was tested.
LEMMA InvTouchTests ==
  ASSUME SessionInv, NEW p \in Procs \ {CtxWatcher}, TouchTests(p)
  PROVE  SessionInv'
<1> USE DEF SessionInv, Goto, Procs, Goroutines
<1>1. CASE closed
  <2>1. Goto(p, IF p = Reader THEN "once" ELSE "idle")
    BY <1>1 DEF TouchTests, TouchRefused
  <2>2. op[Reader] = "none" /\ pc[p] = "touch"
    BY DEF TouchTests, Paths
  <2>3. UNCHANGED <<closed, activityMu, closeOnce, socket, done, op, recent, expirations>> /\ ctxDone' \in BOOLEAN
    BY <1>1 DEF TouchTests, Types
  <2>4. CASE p = Reader
    BY <2>1, <2>2, <2>3, <2>4, <1>1, InvMoves, ProcessAssumption DEF ReaderPCs, PC
  <2>5. CASE p # Reader
    BY <2>1, <2>2, <2>3, <2>5, InvMoves DEF CallerPCs, PC
  <2>6. QED
    BY <2>4, <2>5
<1>2. CASE ~closed
  <2>1. /\ pc[p] = "touch" /\ activityMu = NoOne /\ activityMu' = p /\ pc' = [pc EXCEPT ![p] = "store"]
        /\ UNCHANGED <<closed, closeOnce, ctxDone, socket, done, op, recent, expirations>>
    BY <1>2 DEF TouchTests, LockForTest
  <2>2. \A q \in Procs : pc'[q] = IF q = p THEN "store" ELSE pc[q]
    BY <2>1 DEF Types
  <2>3. \A q \in Procs : pc[q] \notin {"store", "mark"}
    BY <2>1, ProcessAssumption DEF Owned, NoOne
  <2>4. Types'
    BY <2>1 DEF Types, PC
  <2>5. Paths'
    BY <2>1, <2>2, ProcessAssumption DEF Paths, ReaderPCs, CallerPCs
  <2>6. Owned'
    BY <2>1, <2>2, <2>3 DEF Owned
  <2>7. Ordered'
    BY <2>1, <2>2 DEF Ordered
  <2>8. Counted' /\ ActivityOnlyWhileOpen'
    BY <1>2, <2>1, <2>2 DEF Counted, ActivityOnlyWhileOpen
  <2>9. ExpireDecisionFresh'
    BY <2>1, <2>2, <2>3 DEF ExpireDecisionFresh
  <2>10. CloseWaits'
    BY <2>1, <2>2 DEF CloseWaits
  <2>11. QED
    BY <2>4, <2>5, <2>6, <2>7, <2>8, <2>9, <2>10
<1>3. QED
  BY <1>1, <1>2

\* touch: activity is stored while nobody is about to expire the session.
LEMMA InvTouchStores ==
  ASSUME SessionInv, NEW p \in Procs \ {CtxWatcher}, TouchStores(p)
  PROVE  SessionInv'
<1> USE DEF SessionInv, Goto, Procs, Goroutines
<1> DEFINE l == IF p = Reader THEN "relay" ELSE IF op[p] = "forward" THEN "write" ELSE "idle"
<1>1. /\ pc[p] = "store" /\ recent' = {c \in Callers : op[c] = "expire"} /\ activityMu' = NoOne
      /\ pc' = [pc EXCEPT ![p] = l]
      /\ UNCHANGED <<closed, closeOnce, ctxDone, socket, done, op, expirations>>
  BY DEF TouchStores
<1>2. l \in {"relay", "write", "idle"} /\ (p = Reader => l = "relay") /\ (p # Reader => l # "relay")
      /\ (l = "write" => op[p] = "forward")
  OBVIOUS
<1> HIDE DEF l
<1>3. \A q \in Procs : pc'[q] = IF q = p THEN l ELSE pc[q]
  BY <1>1 DEF Types
<1>4. \A q \in Procs \ {p} : pc[q] \notin {"store", "mark"}
  BY <1>1 DEF Owned
<1>5. Types'
  BY <1>1, <1>2 DEF Types, PC
<1>6. Paths'
  BY <1>1, <1>2, <1>3, ProcessAssumption DEF Paths, ReaderPCs, CallerPCs
<1>7. Owned'
  BY <1>1, <1>2, <1>3, <1>4 DEF Owned
<1>8. Ordered'
  BY <1>1, <1>2, <1>3 DEF Ordered
<1>9. Counted' /\ ActivityOnlyWhileOpen'
  BY <1>1, <1>2, <1>3 DEF Counted, ActivityOnlyWhileOpen
<1>10. ExpireDecisionFresh'
  BY <1>1, <1>2, <1>3, <1>4 DEF ExpireDecisionFresh
<1>11. CloseWaits'
  BY <1>1, <1>2, <1>3 DEF CloseWaits
<1>12. QED
  BY <1>5, <1>6, <1>7, <1>8, <1>9, <1>10, <1>11

\* The Once: whoever expires has closed the session already.
LEMMA InvOnceEnters ==
  ASSUME SessionInv, NEW p \in Procs, OnceEnters(p)
  PROVE  SessionInv'
<1> USE DEF SessionInv, Goto, Procs, Goroutines
<1>1. PICK l : /\ pc[p] = "once" /\ pc' = [pc EXCEPT ![p] = l]
               /\ \/ /\ closeOnce = "new" /\ closeOnce' = "running"
                     /\ (l = "cancel" /\ op[p] = "expire") \/ l = "setClosed"
                  \/ closeOnce = "over" /\ closeOnce' = closeOnce /\ l = AfterOnce(p)
               /\ UNCHANGED <<closed, activityMu, ctxDone, socket, done, op, recent, expirations>>
  BY DEF OnceEnters
<1>2. /\ l \in {"cancel", "setClosed", "leave", "ended", "wait", "idle"}
      /\ l \in {"wait", "idle"} => p \in Callers
      /\ l = "leave" => p = Reader /\ closeOnce = "over"
      /\ l = "ended" => p = CtxWatcher
      /\ l = "cancel" => closed
      /\ closeOnce # "over" => closeOnce' # "over"
      /\ closeOnce = "over" => closeOnce' = "over"
      /\ closeOnce' \in {"running", "over"}
  BY <1>1, AfterOnceGoes, ProcessAssumption DEF Ordered
<1>3. \A q \in Procs : pc'[q] = IF q = p THEN l ELSE pc[q]
  BY <1>1 DEF Types
<1>4. Types'
  BY <1>1, <1>2 DEF Types, PC
<1>5. Paths'
  BY <1>1, <1>2, <1>3, ProcessAssumption DEF Paths, ReaderPCs, WatcherPCs, CallerPCs
<1>6. Owned'
  BY <1>1, <1>2, <1>3 DEF Owned
<1>7. Ordered'
  BY <1>1, <1>2, <1>3, ProcessAssumption DEF Ordered
<1>8. Counted' /\ ActivityOnlyWhileOpen'
  BY <1>1, <1>2, <1>3 DEF Counted, ActivityOnlyWhileOpen
<1>9. ExpireDecisionFresh'
  BY <1>1, <1>2, <1>3 DEF ExpireDecisionFresh
<1>10. CloseWaits'
  BY <1>1, <1>2, <1>3 DEF CloseWaits
<1>11. QED
  BY <1>4, <1>5, <1>6, <1>7, <1>8, <1>9, <1>10

\* closeResources sets closed while nobody holds the mutex, and cancel
\* follows.
LEMMA InvSetsClosed ==
  ASSUME SessionInv, NEW p \in Procs, SetsClosed(p) \/ Cancels(p)
  PROVE  SessionInv'
<1> USE DEF SessionInv, Goto, Procs, Goroutines
<1>1. PICK l : /\ pc[p] \in {"setClosed", "cancel"} /\ l \in {"cancel", "closeSocket"} /\ pc' = [pc EXCEPT ![p] = l]
               /\ closed' = TRUE /\ ctxDone' \in BOOLEAN
               /\ closed \/ activityMu = NoOne
               /\ UNCHANGED <<activityMu, closeOnce, socket, done, op, recent, expirations>>
  BY DEF SetsClosed, Cancels, MutexFree, Types, Ordered
<1>2. \A q \in Procs : pc'[q] = IF q = p THEN l ELSE pc[q]
  BY <1>1 DEF Types
<1>3. \A q \in Procs : pc'[q] \notin {"store", "mark"}
  BY <1>1, <1>2, ProcessAssumption DEF Owned, NoOne, ActivityOnlyWhileOpen, ExpireDecisionFresh, Paths, ReaderPCs, WatcherPCs
<1>4. Types'
  BY <1>1 DEF Types, PC
<1>5. Paths'
  BY <1>1, <1>2, ProcessAssumption DEF Paths, ReaderPCs, WatcherPCs, CallerPCs
<1>6. Owned' /\ ActivityOnlyWhileOpen' /\ ExpireDecisionFresh'
  BY <1>3 DEF Owned, ActivityOnlyWhileOpen, ExpireDecisionFresh
<1>7. Ordered'
  BY <1>1, <1>2 DEF Ordered
<1>8. Counted'
  BY <1>1 DEF Counted
<1>9. CloseWaits'
  BY <1>1, <1>2 DEF CloseWaits
<1>10. QED
  BY <1>4, <1>5, <1>6, <1>7, <1>8, <1>9

\* closeSocket ends the Once of a closed session.
LEMMA InvClosesSocket ==
  ASSUME SessionInv, NEW p \in Procs, ClosesSocket(p)
  PROVE  SessionInv'
<1> USE DEF SessionInv, Goto, Procs, Goroutines
<1>1. PICK l : /\ pc[p] = "closeSocket" /\ pc' = [pc EXCEPT ![p] = l] /\ l = AfterOnce(p)
               /\ closeOnce' = "over" /\ socket' = "closed"
               /\ UNCHANGED <<closed, activityMu, ctxDone, done, op, recent, expirations>>
  BY DEF ClosesSocket, UpstreamClose
<1>2. /\ l \in {"leave", "ended", "wait", "idle"} /\ closed
      /\ l \in {"wait", "idle"} => p \in Callers
      /\ l = "leave" => p = Reader
      /\ l = "ended" => p = CtxWatcher
  BY <1>1, AfterOnceGoes, ProcessAssumption DEF Ordered
<1>3. \A q \in Procs : pc'[q] = IF q = p THEN l ELSE pc[q]
  BY <1>1 DEF Types
<1>4. Types'
  BY <1>1, <1>2 DEF Types, PC
<1>5. Paths'
  BY <1>1, <1>2, <1>3, ProcessAssumption DEF Paths, ReaderPCs, WatcherPCs, CallerPCs
<1>6. Owned'
  BY <1>1, <1>2, <1>3 DEF Owned
<1>7. Ordered'
  BY <1>1, <1>2, <1>3, ProcessAssumption DEF Ordered
<1>8. Counted' /\ ActivityOnlyWhileOpen'
  BY <1>1, <1>2, <1>3 DEF Counted, ActivityOnlyWhileOpen
<1>9. ExpireDecisionFresh'
  BY <1>1, <1>2, <1>3 DEF ExpireDecisionFresh
<1>10. CloseWaits'
  BY <1>1, <1>2, <1>3 DEF CloseWaits
<1>11. QED
  BY <1>4, <1>5, <1>6, <1>7, <1>8, <1>9, <1>10

\* readBackend reads, relays, and signals done once the Once is over.
LEMMA InvReader ==
  ASSUME SessionInv, ReadsDatagram \/ ReadFails \/ Relays \/ ReaderLeaves
  PROVE  SessionInv'
<1> USE DEF SessionInv, Goto, Procs, Goroutines
<1>1. CASE ReadsDatagram \/ ReadFails \/ Relays
  <2>1. PICK l \in {"touch", "once", "read"} :
           /\ pc[Reader] \in {"read", "relay"} /\ Goto(Reader, l)
           /\ UNCHANGED <<closed, activityMu, closeOnce, ctxDone, socket, done, op, recent, expirations>>
    BY <1>1 DEF ReadsDatagram, ReadFails, Relays
  <2>2. op[Reader] = "none" /\ ctxDone' \in BOOLEAN
    BY <2>1 DEF Paths, Types
  <2>3. QED
    BY <2>1, <2>2, InvMoves, ProcessAssumption DEF ReaderPCs, PC
<1>2. CASE ReaderLeaves
  <2>1. PICK l : /\ pc' = [pc EXCEPT ![Reader] = l] /\ done' = TRUE
                 /\ (pc[Reader] = "leave" /\ l = "leaving") \/ (pc[Reader] = "leaving" /\ l = "ended")
                 /\ UNCHANGED <<closed, activityMu, closeOnce, ctxDone, socket, op, recent, expirations>>
    BY <1>2 DEF ReaderLeaves, Ordered
  <2>2. \A q \in Procs : pc'[q] = IF q = Reader THEN l ELSE pc[q]
    BY <2>1 DEF Types
  <2>3. Types'
    BY <2>1 DEF Types, PC
  <2>4. Paths'
    BY <2>1, <2>2, ProcessAssumption DEF Paths, ReaderPCs
  <2>5. Owned' /\ Ordered'
    BY <2>1, <2>2 DEF Owned, Ordered
  <2>6. Counted' /\ ActivityOnlyWhileOpen' /\ ExpireDecisionFresh'
    BY <2>1, <2>2 DEF Counted, ActivityOnlyWhileOpen, ExpireDecisionFresh
  <2>7. CloseWaits'
    BY <2>1, <2>2, ProcessAssumption DEF CloseWaits
  <2>8. QED
    BY <2>3, <2>4, <2>5, <2>6, <2>7
<1>3. QED
  BY <1>1, <1>2

\* watchContext, and the context it watches.
LEMMA InvContext ==
  ASSUME SessionInv, ContextWakes \/ ParentCancelled
  PROVE  SessionInv'
<1>1. CASE ContextWakes
  <2>1. PICK l \in {"once", "ended"} :
           /\ pc[CtxWatcher] = "select" /\ Goto(CtxWatcher, l)
           /\ UNCHANGED <<closed, activityMu, closeOnce, ctxDone, socket, done, op, recent, expirations>>
    BY <1>1 DEF ContextWakes
  <2>2. op[CtxWatcher] = "none" /\ ctxDone' \in BOOLEAN
    BY <2>1 DEF SessionInv, Paths, Types
  <2>3. QED
    BY <2>1, <2>2, InvMoves, ProcessAssumption DEF WatcherPCs, PC, Procs, Goroutines
<1>2. CASE ParentCancelled
  BY <1>2 DEF ParentCancelled, SessionInv, Types, Paths, Owned, Ordered, Counted, ActivityOnlyWhileOpen,
              ExpireDecisionFresh, CloseWaits
<1>3. QED
  BY <1>1, <1>2

\* A caller enters a method.
LEMMA InvCalls ==
  ASSUME SessionInv, NEW c \in Callers, Calls(c)
  PROVE  SessionInv'
<1> USE DEF SessionInv, Goto, Procs, Goroutines
<1>1. PICK m \in {"record", "forward", "close", "expire"} :
        /\ op' = [op EXCEPT ![c] = m]
        /\ Goto(c, CASE m = "expire" -> "try" [] m = "close" -> "once" [] OTHER -> "touch")
  BY DEF Calls
<1>2. PICK l \in {"try", "once", "touch"} : pc' = [pc EXCEPT ![c] = l] /\ (l = "once" => m = "close")
  BY <1>1, Zenon
<1>3. /\ pc[c] \in {"idle", "returned"} /\ recent' = recent \ {c}
      /\ UNCHANGED <<closed, activityMu, closeOnce, ctxDone, socket, done, expirations>>
  BY DEF Calls
<1>4. /\ \A q \in Procs : pc'[q] = IF q = c THEN l ELSE pc[q]
      /\ \A q \in Procs : op'[q] = IF q = c THEN m ELSE op[q]
  BY <1>1, <1>2 DEF Types
<1>5. Types'
  BY <1>1, <1>2, <1>3 DEF Types, PC, Ops
<1>6. Paths'
  BY <1>1, <1>2, <1>3, <1>4, ProcessAssumption DEF Paths, CallerPCs
<1>7. Owned'
  BY <1>2, <1>3, <1>4 DEF Owned
<1>8. Ordered'
  BY <1>2, <1>3, <1>4, ProcessAssumption DEF Ordered
<1>9. Counted' /\ ActivityOnlyWhileOpen' /\ ExpireDecisionFresh'
  BY <1>2, <1>3, <1>4 DEF Counted, ActivityOnlyWhileOpen, ExpireDecisionFresh
<1>10. CloseWaits'
  BY <1>2, <1>3, <1>4, ProcessAssumption DEF CloseWaits
<1>11. QED
  BY <1>5, <1>6, <1>7, <1>8, <1>9, <1>10

\* ForwardClient writes.
LEMMA InvWrites ==
  ASSUME SessionInv, NEW c \in Callers, Writes(c)
  PROVE  SessionInv'
<1>1. PICK l \in {"idle", "once"} :
        /\ pc[c] = "write" /\ Goto(c, l)
        /\ UNCHANGED <<closed, activityMu, closeOnce, ctxDone, socket, done, op, recent, expirations>>
  BY DEF Writes
<1>2. op[c] = "forward" /\ ctxDone' \in BOOLEAN
  BY <1>1 DEF SessionInv, Paths, Types
<1>3. QED
  BY <1>1, <1>2, InvMoves, ProcessAssumption DEF CallerPCs, PC, Procs, Goroutines

\* TryExpire decides under the mutex.
LEMMA InvExpireTests ==
  ASSUME SessionInv, NEW c \in Callers, ExpireTests(c)
  PROVE  SessionInv'
<1> USE DEF SessionInv, Goto, Procs, Goroutines
<1>1. CASE Goto(c, "idle") /\ UNCHANGED activityMu
  <2>1. pc[c] = "try" /\ UNCHANGED <<closed, closeOnce, ctxDone, socket, done, op, recent, expirations>>
        /\ ctxDone' \in BOOLEAN
    BY DEF ExpireTests, Types
  <2>2. QED
    BY <1>1, <2>1, InvMoves, ProcessAssumption DEF CallerPCs, PC
<1>2. CASE MayExpire(c) /\ activityMu' = c /\ Goto(c, "mark")
  <2>1. /\ pc[c] = "try" /\ activityMu = NoOne /\ activityMu' = c /\ pc' = [pc EXCEPT ![c] = "mark"]
        /\ ~closed /\ c \notin recent
        /\ UNCHANGED <<closed, closeOnce, ctxDone, socket, done, op, recent, expirations>>
    BY <1>2 DEF ExpireTests, MayExpire
  <2>2. \A q \in Procs : pc'[q] = IF q = c THEN "mark" ELSE pc[q]
    BY <2>1 DEF Types
  <2>3. \A q \in Procs : pc[q] \notin {"store", "mark"}
    BY <2>1, ProcessAssumption DEF Owned, NoOne
  <2>4. Types'
    BY <2>1 DEF Types, PC
  <2>5. Paths'
    BY <2>1, <2>2, ProcessAssumption DEF Paths, CallerPCs
  <2>6. Owned'
    BY <2>1, <2>2, <2>3 DEF Owned
  <2>7. Ordered'
    BY <2>1, <2>2, ProcessAssumption DEF Ordered
  <2>8. Counted' /\ ActivityOnlyWhileOpen' /\ ExpireDecisionFresh'
    BY <2>1, <2>2, <2>3 DEF Counted, ActivityOnlyWhileOpen, ExpireDecisionFresh
  <2>9. CloseWaits'
    BY <2>1, <2>2, ProcessAssumption DEF CloseWaits
  <2>10. QED
    BY <2>4, <2>5, <2>6, <2>7, <2>8, <2>9
<1>3. QED
  BY <1>1, <1>2 DEF ExpireTests

\* TryExpire closes the session, for the first time.
LEMMA InvExpireMarks ==
  ASSUME SessionInv, NEW c \in Callers, ExpireMarks(c)
  PROVE  SessionInv'
<1> USE DEF SessionInv, Goto, Procs, Goroutines
<1>1. /\ pc[c] = "mark" /\ closed' = TRUE /\ activityMu' = NoOne /\ pc' = [pc EXCEPT ![c] = "once"]
      /\ UNCHANGED <<closeOnce, ctxDone, socket, done, op, recent>>
  BY DEF ExpireMarks, ReleasesMutex
<1>2. ~closed
  BY <1>1 DEF ExpireDecisionFresh
<1>3. expirations = 0
  BY <1>2 DEF Counted
<1>4. expirations' = 1
  BY <1>3 DEF ExpireMarks
<1>5. \A q \in Procs : pc'[q] = IF q = c THEN "once" ELSE pc[q]
  BY <1>1 DEF Types
<1>6. \A q \in Procs : pc'[q] \notin {"store", "mark"}
  BY <1>1, <1>5 DEF Owned
<1>7. Types'
  BY <1>1 DEF Types, PC
<1>8. Paths'
  BY <1>1, <1>5, ProcessAssumption DEF Paths, CallerPCs
<1>9. Owned' /\ ActivityOnlyWhileOpen' /\ ExpireDecisionFresh'
  BY <1>6 DEF Owned, ActivityOnlyWhileOpen, ExpireDecisionFresh
<1>10. Ordered'
  BY <1>1, <1>5, ProcessAssumption DEF Ordered
<1>11. Counted'
  BY <1>1, <1>4 DEF Counted
<1>12. CloseWaits'
  BY <1>1, <1>5, ProcessAssumption DEF CloseWaits
<1>13. QED
  BY <1>7, <1>8, <1>9, <1>10, <1>11, <1>12

\* Close returns after the goroutines, the reader of which has signalled done.
LEMMA InvCloseReturns ==
  ASSUME SessionInv, NEW c \in Callers, CloseReturns(c)
  PROVE  SessionInv'
<1> USE DEF SessionInv, Goto, Procs, Goroutines
<1>1. /\ pc[c] = "wait" /\ pc' = [pc EXCEPT ![c] = "returned"]
      /\ pc[Reader] = "ended" /\ pc[CtxWatcher] = "ended"
      /\ UNCHANGED <<closed, activityMu, closeOnce, ctxDone, socket, done, op, recent, expirations>>
  BY DEF CloseReturns, GoroutinesEnded
<1>2. done /\ socket = "closed"
  BY <1>1 DEF Ordered
<1>3. \A q \in Procs : pc'[q] = IF q = c THEN "returned" ELSE pc[q]
  BY <1>1 DEF Types
<1>4. Types'
  BY <1>1 DEF Types, PC
<1>5. Paths'
  BY <1>1, <1>3, ProcessAssumption DEF Paths, CallerPCs
<1>6. Owned'
  BY <1>1, <1>3 DEF Owned
<1>7. Ordered'
  BY <1>1, <1>3, ProcessAssumption DEF Ordered
<1>8. Counted' /\ ActivityOnlyWhileOpen' /\ ExpireDecisionFresh'
  BY <1>1, <1>3 DEF Counted, ActivityOnlyWhileOpen, ExpireDecisionFresh
<1>9. CloseWaits'
  BY <1>1, <1>2, <1>3, ProcessAssumption DEF CloseWaits
<1>10. QED
  BY <1>4, <1>5, <1>6, <1>7, <1>8, <1>9

\* The invariant is inductive.
LEMMA SessionStep == SessionInv /\ [Next]_vars => SessionInv'
<1> SUFFICES ASSUME SessionInv, [Next]_vars PROVE SessionInv'
  OBVIOUS
<1>1. Reader \in Procs \ {CtxWatcher} /\ CtxWatcher \in Procs
      /\ \A c \in Callers : c \in Procs \ {CtxWatcher}
  BY ProcessAssumption DEF Procs, Goroutines
<1>2. ASSUME NEW p \in Procs, Closing(p)
      PROVE  SessionInv'
  BY <1>2, InvOnceEnters, InvSetsClosed, InvClosesSocket DEF Closing
<1>3. CASE ReadBackend
  BY <1>1, <1>2, <1>3, InvReader, InvTouchTests, InvTouchStores DEF ReadBackend
<1>4. CASE WatchContext \/ ParentCancelled
  BY <1>1, <1>2, <1>4, InvContext DEF WatchContext
<1>5. ASSUME NEW c \in Callers, Calls(c) \/ Caller(c)
      PROVE  SessionInv'
  BY <1>1, <1>2, <1>5, InvCalls, InvTouchTests, InvTouchStores, InvWrites, InvExpireTests, InvExpireMarks,
     InvCloseReturns DEF Caller
<1>6. CASE UNCHANGED vars
  BY <1>6 DEF vars, SessionInv, Types, Paths, Owned, Ordered, Counted, ActivityOnlyWhileOpen,
              ExpireDecisionFresh, CloseWaits
<1>7. QED
  BY <1>3, <1>4, <1>5, <1>6 DEF Next

\* And so it always holds.
LEMMA SessionAlways == Spec => []SessionInv
BY SessionInit, SessionStep, PTL DEF Spec

-----------------------------------------------------------------------------
\* Types are kept, and TryExpire returns true once at most: the store counts
\* an expired session out once.
THEOREM SessionTypes == Spec => []TypeOK
<1>1. SessionInv => TypeOK
  BY DEF SessionInv, Types, Ops, Counted, TypeOK
<1>2. QED
  BY <1>1, SessionAlways, PTL

\* touch records activity for no session that was closed since its test.
THEOREM ActivityNeverLate == Spec => []ActivityOnlyWhileOpen
<1>1. SessionInv => ActivityOnlyWhileOpen
  BY DEF SessionInv
<1>2. QED
  BY <1>1, SessionAlways, PTL

\* TryExpire closes no session that was active after its cutoff.
THEOREM ExpiryNeverStale == Spec => []ExpireDecisionFresh
<1>1. SessionInv => ExpireDecisionFresh
  BY DEF SessionInv
<1>2. QED
  BY <1>1, SessionAlways, PTL

\* Close returns when the socket is closed, both goroutines ended and Done is
\* signalled, whoever closed the session.
THEOREM CloseAlwaysWaits == Spec => []CloseWaits
<1>1. SessionInv => CloseWaits
  BY DEF SessionInv
<1>2. QED
  BY <1>1, SessionAlways, PTL

\* The life Proxy sees, as steps: a session leaves "open" once and is done
\* only after that.
THEOREM SessionLife == Spec => Life!Init /\ [][Life!Next]_(IF done THEN "done" ELSE IF closed THEN "closing" ELSE "open")
<1> DEFINE life == IF done THEN "done" ELSE IF closed THEN "closing" ELSE "open"
<1>1. Init => Life!Init
  BY DEF Init, Life!Init
<1>2. SessionInv /\ [Next]_vars => [Life!Next]_life
  <2> SUFFICES ASSUME SessionInv, [Next]_vars PROVE [Life!Next]_life
    OBVIOUS
  <2>1. (done => closed) /\ closed \in BOOLEAN /\ done \in BOOLEAN
    BY DEF SessionInv, Ordered, Types
  <2>2. CASE UNCHANGED <<closed, done>>
    BY <2>2
  <2>3. CASE closed' = TRUE /\ done' = done
    <3>1. CASE closed
      BY <2>2, <2>3, <3>1, <2>1
    <3>2. CASE ~closed
      BY <2>1, <2>3, <3>2 DEF Life!Next, Life!Leave
    <3>3. QED
      BY <3>1, <3>2
  <2>4. CASE ReaderLeaves
    <3>1. closed /\ closed' = closed /\ done' = TRUE
      BY <2>4 DEF ReaderLeaves, SessionInv, Ordered
    <3>2. CASE done
      BY <2>1, <2>2, <3>1, <3>2
    <3>3. CASE ~done
      BY <2>1, <3>1, <3>3 DEF Life!Next, Life!Finish
    <3>4. QED
      BY <3>2, <3>3
  <2>5. ASSUME NEW p, TouchTests(p) \/ TouchStores(p) \/ Closing(p)
        PROVE  [Life!Next]_life
    <3>1. CASE SetsClosed(p)
      BY <2>3, <3>1 DEF SetsClosed
    <3>2. CASE ~SetsClosed(p)
      BY <2>2, <2>5, <3>2 DEF TouchTests, TouchStores, Closing, OnceEnters, Cancels, ClosesSocket
    <3>3. QED
      BY <3>1, <3>2
  <2>6. CASE ReadBackend \/ WatchContext \/ ParentCancelled
    BY <2>2, <2>4, <2>5, <2>6 DEF ReadBackend, ReadsDatagram, ReadFails, Relays, WatchContext, ContextWakes,
                                  ParentCancelled
  <2>7. ASSUME NEW c \in Callers, Calls(c) \/ Caller(c)
        PROVE  [Life!Next]_life
    <3>1. CASE ExpireMarks(c)
      BY <2>3, <3>1 DEF ExpireMarks
    <3>2. CASE Calls(c) \/ Writes(c) \/ ExpireTests(c) \/ CloseReturns(c)
      BY <2>2, <3>2 DEF Calls, Writes, ExpireTests, CloseReturns
    <3>3. QED
      BY <2>5, <2>7, <3>1, <3>2 DEF Caller
  <2>8. CASE UNCHANGED vars
    BY <2>2, <2>8 DEF vars
  <2>9. QED
    BY <2>6, <2>7, <2>8 DEF Next
<1>3. QED
  BY <1>1, <1>2, SessionAlways, PTL DEF Spec
=============================================================================
