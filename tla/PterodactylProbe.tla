-------------------------- MODULE PterodactylProbe --------------------------
(***************************************************************************)
(* PterodactylProbe, pkg/readiness/pterodactyl.go: the panel's "running"   *)
(* is taken for readiness.                                                 *)
(***************************************************************************)
EXTENDS PterodactylClient

\* Probe, and the Probe in WaitReady's loop, look at the context and ask.
ProbeAsks ==
  /\ mode = "pterodactyl" /\ call # "none" /\ pc = "idle"
  /\ IF ctxDone
       THEN Returns(IF call = "probe" THEN "inconclusive" ELSE "cancelled") /\ UNCHANGED exchange
       ELSE GoesTo("asked") /\ exchange' = "asked"
  /\ UNCHANGED <<reply, powerVars>>

\* inconclusiveReadinessError, against a state that is not running.
Verdict(s) == IF s \in States THEN "unavailable" ELSE "inconclusive"

\* Status has ended with s, a state or an error.
ProbeConcludes(s) ==
  /\ exchange' = "none"
  /\ IF s = "running" THEN Returns("ready")
     ELSE IF call = "probe" THEN Returns(Verdict(s))
     ELSE IF ctxDone THEN Returns("cancelled")
     ELSE IF s = "permanent" THEN Returns("refused")
     ELSE GoesTo("retry")

StatusReturns(s) ==
  /\ mode = "pterodactyl" /\ pc = "asked" /\ exchange = "answered" /\ s = StatusOf(reply)
  /\ ProbeConcludes(s) /\ reply' = NoReply /\ UNCHANGED powerVars

\* Do fails: lost, timed out, or the context is done.
StatusFails ==
  /\ mode = "pterodactyl" /\ pc = "asked" /\ (stable => ctxDone)
  /\ ProbeConcludes("transient") /\ reply' = NoReply /\ UNCHANGED powerVars

\* waitForRetry.
ProbeRetries ==
  /\ mode = "pterodactyl" /\ pc = "retry"
  /\ \/ ctxDone /\ Returns("cancelled")
     \/ GoesTo("idle")
  /\ UNCHANGED panelVars

ProbeClient ==
  ProbeAsks \/ StatusFails \/ ProbeRetries
  \/ \E s \in States \cup {"permanent", "transient"} : StatusReturns(s)
=============================================================================
