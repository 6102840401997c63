------------------------------ MODULE Session ------------------------------
(***************************************************************************)
(* One UDP session, pkg/session/session.go: the goroutines readBackend and *)
(* watchContext, and callers that forward datagrams, record activity, try  *)
(* to expire the session and close it, all at once.                        *)
(*                                                                         *)
(* Granularity: one step per lock, atomic, Once or socket operation.  The  *)
(* clock is abstracted to whether activity was recorded after the cutoff a *)
(* caller of TryExpire holds.                                              *)
(***************************************************************************)
EXTENDS Naturals, FiniteSets

CONSTANTS Callers, Reader, CtxWatcher

\* The two goroutines of the session and its callers are different processes,
\* and none of them is the name of a free mutex.
ASSUME ProcessAssumption ==
  /\ Reader \notin Callers /\ CtxWatcher \notin Callers /\ Reader # CtxWatcher
  /\ "free" \notin Callers \cup {Reader, CtxWatcher}

Goroutines == {Reader, CtxWatcher}
Procs == Goroutines \cup Callers

VARIABLES
  closed,       \* Session.closed
  activityMu,   \* who holds activityMu
  closeOnce,    \* "new", "running" or "over"
  ctxDone,      \* the session's context
  socket,       \* "open" or "closed": the upstream socket
  done,         \* the done channel is closed
  pc,           \* program counters
  op,           \* the method a caller is in
  recent,       \* callers with a cutoff older than the last activity
  expirations   \* history: calls of TryExpire that returned true, up to 2

vars == <<closed, activityMu, closeOnce, ctxDone, socket, done, pc, op, recent, expirations>>

NoOne == "free"
Goto(p, l) == pc' = [pc EXCEPT ![p] = l]

\* NewSession has dialled and started both goroutines.
Init ==
  /\ closed = FALSE /\ activityMu = NoOne /\ closeOnce = "new" /\ ctxDone = FALSE
  /\ socket = "open" /\ done = FALSE
  /\ pc = [p \in Procs |-> IF p = Reader THEN "read" ELSE IF p = CtxWatcher THEN "select" ELSE "idle"]
  /\ op = [p \in Procs |-> "none"]
  /\ recent = {} /\ expirations = 0

-----------------------------------------------------------------------------
(* touch: activityMu is held from the test of closed to the store.         *)

\* Mutant: touch tests closed without activityMu.
LockFreeTest(p) == UNCHANGED activityMu
LockForTest(p) == activityMu = NoOne /\ activityMu' = p

\* Where a process goes on when touch returns false.
TouchRefused(p) == Goto(p, IF p = Reader THEN "once" ELSE "idle")

TouchTests(p) ==
  /\ pc[p] = "touch"
  /\ IF closed
       THEN activityMu = NoOne /\ UNCHANGED activityMu /\ TouchRefused(p)
       ELSE LockForTest(p) /\ Goto(p, "store")
  /\ UNCHANGED <<closed, closeOnce, ctxDone, socket, done, op, recent, expirations>>

\* lastActivity.Store, after every cutoff already taken; unlock.
TouchStores(p) ==
  /\ pc[p] = "store"
  /\ recent' = {c \in Callers : op[c] = "expire"}
  /\ activityMu' = NoOne
  /\ Goto(p, IF p = Reader THEN "relay" ELSE IF op[p] = "forward" THEN "write" ELSE "idle")
  /\ UNCHANGED <<closed, closeOnce, ctxDone, socket, done, op, expirations>>

-----------------------------------------------------------------------------
(* closeResources, and closeSocket alone for TryExpire, run by closeOnce.  *)

\* Where a process goes on after the Once.
AfterOnce(p) == CASE p = Reader -> "leave"
                  [] p = CtxWatcher -> "ended"
                  [] OTHER -> IF op[p] = "close" THEN "wait" ELSE "idle"

\* closeOnce.Do: the first caller runs, the others wait for it.
OnceEnters(p) ==
  /\ pc[p] = "once"
  /\ \/ /\ closeOnce = "new" /\ closeOnce' = "running"
        /\ Goto(p, IF op[p] = "expire" THEN "cancel" ELSE "setClosed")
     \/ /\ closeOnce = "over" /\ UNCHANGED closeOnce
        /\ Goto(p, AfterOnce(p))
  /\ UNCHANGED <<closed, activityMu, ctxDone, socket, done, op, recent, expirations>>

\* Mutant: closeResources sets closed without activityMu.
NoWait == TRUE
MutexFree == activityMu = NoOne

\* closeResources: closed is set under activityMu.
SetsClosed(p) ==
  /\ pc[p] = "setClosed" /\ MutexFree
  /\ closed' = TRUE
  /\ Goto(p, "cancel")
  /\ UNCHANGED <<activityMu, closeOnce, ctxDone, socket, done, op, recent, expirations>>

\* closeSocket: cancel.
Cancels(p) ==
  /\ pc[p] = "cancel"
  /\ ctxDone' = TRUE
  /\ Goto(p, "closeSocket")
  /\ UNCHANGED <<closed, activityMu, closeOnce, socket, done, op, recent, expirations>>

\* closeSocket: upstream.Close, which wakes the reader; the mutant forgets it.
LeavesSocket == UNCHANGED socket
UpstreamClose == socket' = "closed"

ClosesSocket(p) ==
  /\ pc[p] = "closeSocket"
  /\ UpstreamClose
  /\ closeOnce' = "over"
  /\ Goto(p, AfterOnce(p))
  /\ UNCHANGED <<closed, activityMu, ctxDone, done, op, recent, expirations>>

Closing(p) == OnceEnters(p) \/ SetsClosed(p) \/ Cancels(p) \/ ClosesSocket(p)

-----------------------------------------------------------------------------
(* readBackend.                                                            *)

\* A datagram of the backend; an empty or truncated one is skipped.
ReadsDatagram ==
  /\ pc[Reader] = "read" /\ socket = "open"
  /\ Goto(Reader, "touch")
  /\ UNCHANGED <<closed, activityMu, closeOnce, ctxDone, socket, done, op, recent, expirations>>

\* The socket was closed or fails.
ReadFails ==
  /\ pc[Reader] = "read"
  /\ Goto(Reader, "once")
  /\ UNCHANGED <<closed, activityMu, closeOnce, ctxDone, socket, done, op, recent, expirations>>

\* WriteToUDP on the public socket.
Relays ==
  /\ pc[Reader] = "relay"
  /\ \/ Goto(Reader, "read")
     \/ Goto(Reader, "once")
  /\ UNCHANGED <<closed, activityMu, closeOnce, ctxDone, socket, done, op, recent, expirations>>

\* The deferred close(done), then goroutineWG.Done.
ReaderLeaves ==
  /\ \/ pc[Reader] = "leave" /\ done' = TRUE /\ Goto(Reader, "leaving")
     \/ pc[Reader] = "leaving" /\ Goto(Reader, "ended") /\ UNCHANGED done
  /\ UNCHANGED <<closed, activityMu, closeOnce, ctxDone, socket, op, recent, expirations>>

ReadBackend == ReadsDatagram \/ ReadFails \/ Relays \/ ReaderLeaves \/ TouchTests(Reader)
               \/ TouchStores(Reader) \/ Closing(Reader)

-----------------------------------------------------------------------------
(* watchContext.                                                           *)

ContextWakes ==
  /\ pc[CtxWatcher] = "select"
  /\ \/ ctxDone /\ Goto(CtxWatcher, "once")
     \/ done /\ Goto(CtxWatcher, "ended")
  /\ UNCHANGED <<closed, activityMu, closeOnce, ctxDone, socket, done, op, recent, expirations>>

WatchContext == ContextWakes \/ Closing(CtxWatcher)

\* The context given to NewSession is cancelled.
ParentCancelled ==
  /\ ~ctxDone /\ ctxDone' = TRUE
  /\ UNCHANGED <<closed, activityMu, closeOnce, socket, done, pc, op, recent, expirations>>

-----------------------------------------------------------------------------
(* Callers.                                                                *)

\* A method is called; TryExpire's cutoff was taken before the call.
Calls(c) ==
  /\ pc[c] \in {"idle", "returned"}
  /\ \E m \in {"record", "forward", "close", "expire"} :
       /\ op' = [op EXCEPT ![c] = m]
       /\ Goto(c, CASE m = "expire" -> "try" [] m = "close" -> "once" [] OTHER -> "touch")
  /\ recent' = recent \ {c}
  /\ UNCHANGED <<closed, activityMu, closeOnce, ctxDone, socket, done, expirations>>

\* ForwardClient: upstream.Write, and the error branches.
Writes(c) ==
  /\ pc[c] = "write"
  /\ \/ socket = "open" /\ Goto(c, "idle")
     \/ Goto(c, IF closed THEN "idle" ELSE "once")
  /\ UNCHANGED <<closed, activityMu, closeOnce, ctxDone, socket, done, op, recent, expirations>>

\* Mutant: TryExpire does not look at closed.
IdleOnly(c) == c \notin recent

\* The test of TryExpire.
MayExpire(c) == ~closed /\ c \notin recent

\* TryExpire: activityMu and the test.  A session untouched since the cutoff
\* was taken may still have activity after the cutoff's time.
ExpireTests(c) ==
  /\ pc[c] = "try" /\ activityMu = NoOne
  /\ \/ MayExpire(c) /\ activityMu' = c /\ Goto(c, "mark")
     \/ Goto(c, "idle") /\ UNCHANGED activityMu
  /\ UNCHANGED <<closed, closeOnce, ctxDone, socket, done, op, recent, expirations>>

\* Mutant: TryExpire keeps activityMu while it waits for the Once.
KeepsMutex(c) == UNCHANGED activityMu
ReleasesMutex(c) == activityMu' = NoOne

\* TryExpire: closed is set and activityMu released before the Once.
ExpireMarks(c) ==
  /\ pc[c] = "mark"
  /\ closed' = TRUE
  /\ expirations' = IF expirations < 2 THEN expirations + 1 ELSE expirations
  /\ ReleasesMutex(c)
  /\ Goto(c, "once")
  /\ UNCHANGED <<closeOnce, ctxDone, socket, done, op, recent>>

\* goroutineWG.Wait; the mutant waits for the reader only.
ReaderEnded == pc[Reader] = "ended"
GoroutinesEnded == \A p \in Goroutines : pc[p] = "ended"

\* Close returns.
CloseReturns(c) ==
  /\ pc[c] = "wait" /\ GoroutinesEnded
  /\ Goto(c, "returned")
  /\ UNCHANGED <<closed, activityMu, closeOnce, ctxDone, socket, done, op, recent, expirations>>

Caller(c) == TouchTests(c) \/ TouchStores(c) \/ Closing(c) \/ Writes(c) \/ ExpireTests(c)
             \/ ExpireMarks(c) \/ CloseReturns(c)

-----------------------------------------------------------------------------
Next == ReadBackend \/ WatchContext \/ ParentCancelled \/ \E c \in Callers : Calls(c) \/ Caller(c)
Spec == Init /\ [][Next]_vars

\* Goroutines run; a read on a closed socket returns; the mutex is not denied
\* for ever to the one that is closing (sync.Mutex does not starve a waiter).
Fairness ==
  /\ WF_vars(ReadBackend /\ (pc[Reader] = "read" => socket = "closed")) /\ WF_vars(WatchContext)
  /\ \A c \in Callers : WF_vars(Caller(c))
  /\ SF_vars(\E p \in Procs : SetsClosed(p))
FairSpec == Spec /\ Fairness

-----------------------------------------------------------------------------
PC == {"read", "relay", "leave", "leaving", "select", "ended", "idle", "touch", "store", "once",
       "setClosed", "cancel", "closeSocket", "write", "try", "mark", "wait", "returned"}

\* The type of every variable; and TryExpire returns true to one caller at
\* most, so that the store counts a session out once.
TypeOK ==
  /\ closed \in BOOLEAN /\ activityMu \in Callers \cup {Reader, NoOne}
  /\ closeOnce \in {"new", "running", "over"} /\ ctxDone \in BOOLEAN
  /\ socket \in {"open", "closed"} /\ done \in BOOLEAN /\ pc \in [Procs -> PC]
  /\ op \in [Procs -> {"none", "record", "forward", "close", "expire"}]
  /\ recent \subseteq Callers /\ expirations \in 0..1

\* Activity is recorded only for a session that is not closed: touch answers
\* true for no session somebody expires or closes in between.
ActivityOnlyWhileOpen == \A p \in Procs : pc[p] = "store" => ~closed

\* When TryExpire has decided, no activity was recorded since its cutoff and
\* nobody else closed the session.
ExpireDecisionFresh == \A c \in Callers : pc[c] = "mark" => ~closed /\ c \notin recent

\* Close returns after both goroutines ended, the socket is closed and Done
\* is signalled, also to a caller that found the session closed already.
CloseWaits ==
  \A c \in Callers : pc[c] = "returned" => done /\ socket = "closed" /\ (\A p \in Goroutines : pc[p] = "ended")

\* Close never hangs, whoever else expires or closes the session.
CloseEnds == \A c \in Callers : op[c] = "close" ~> pc[c] = "returned"

Life == INSTANCE SessionContract
          WITH life <- IF done THEN "done" ELSE IF closed THEN "closing" ELSE "open"

\* The session leaves "open" once, is never done before it is closed, and a
\* closed session becomes done.
ImplementsLife == Life!Spec
=============================================================================
