------------------------------ MODULE MCProxy ------------------------------
(***************************************************************************)
(* Model checking the orchestration core.                                  *)
(*                                                                         *)
(* A generation is only ever compared for equality with its counter, so    *)
(* two states that differ in the absolute value of a counter and agree on  *)
(* which of the generations in use are current behave alike.  The safety   *)
(* runs use this as a VIEW, with MaxStartups above any count they meet;    *)
(* the liveness runs do not.                                               *)
(***************************************************************************)
EXTENDS ProxyProperties, TLC

CONSTANTS k1, k2, k3

Symmetry == Permutations(Keys)

\* Goroutines that no longer look at their generation, by number.
EndingView ==
  [p \in {"restart", "failClosing"} |-> Cardinality({r \in startups : r.pc = p})]
StartupView ==
  {<<r.gen = startupGeneration, r.pc, r.sent, r.permanent>> : r \in {x \in startups : UnderWay(x)}}

\* Callbacks and the timer, current ones with their attempt, stale ones by number.
StopView ==
  LET current == {c \in callbacks : c.timer.gen = stopGeneration}
  IN  <<{<<c.timer.attempt, c.pc>> : c \in current},
        [p \in {"lock", "stopping"} |-> Cardinality({c \in callbacks \ current : c.pc = p})],
        IF stopTimer = NoTimer THEN <<>>
          ELSE <<stopTimer.gen = stopGeneration, stopTimer.attempt, stopTimer \in timers>>,
        timerWG, gaveUp, quiet>>

MonitorView ==
  <<monitor.pc,
    IF monitor.pc \in {"probe", "lose", "loseGate"} THEN monitor.gen = readinessGeneration ELSE FALSE,
    failures.count, IF failures.count > 0 THEN failures.generation = readinessGeneration ELSE FALSE,
    failures.generation = monitor.gen, streak>>

GenerationView ==
  <<backendReady, backendRunning, startupRunning, StartupView, EndingView, blocked, queueVars,
    StopView, lockVars, watcher, MonitorView, sweepVars, recent, serveVars, ctlVars, sessions, owner,
    state, closeVars, sent>>
=============================================================================
