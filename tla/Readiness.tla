----------------------------- MODULE Readiness -----------------------------
(***************************************************************************)
(* Backend readiness: one probe at a time asks about a backend that comes  *)
(* and goes, over UDP or through the panel, while power requests are sent. *)
(***************************************************************************)
EXTENDS A2SProbe, PterodactylProbe

vars == <<callVars, a2sVars, panelVars>>

Init == CallInit /\ A2SInit /\ PanelInit

Environment == BackendMoves \/ Settles \/ Cancelled \/ \E k \in {"probe", "wait"} : Begins(k)

Next ==
  \/ Environment /\ UNCHANGED <<a2sVars, panelVars>>
  \/ (A2SClient \/ Server) /\ UNCHANGED panelVars
  \/ (ProbeClient \/ PowerClient \/ Panel) /\ UNCHANGED a2sVars

Spec == Init /\ [][Next]_vars

\* The calls run on and their timers fire, and server and panel answer.
\* Nothing is assumed of the network, the backend or the callers.
Fairness ==
  /\ WF_vars(A2SClient /\ UNCHANGED panelVars) /\ WF_vars(ProbeClient /\ UNCHANGED a2sVars)
  /\ WF_vars(Server /\ UNCHANGED panelVars) /\ WF_vars(Panel /\ UNCHANGED a2sVars)
FairSpec == Spec /\ Fairness

-----------------------------------------------------------------------------
\* The type of every variable.  Probe sends two queries at most.
TypeOK ==
  /\ mode \in {"a2s", "pterodactyl"} /\ backend \in States /\ challenge \in Challenges /\ stable \in BOOLEAN
  /\ call \in {"none", "probe", "wait"} /\ ctxDone \in BOOLEAN
  /\ pc \in {"idle", "write", "read", "retry", "asked"}
  /\ seen \subseteq {"up", "down", "refusal"}
  /\ result \in {"none", "ready", "unavailable", "inconclusive", "cancelled", "refused", "failed"}
  /\ query \in Challenges \cup {Plain} /\ attempts \in 0..1
  /\ outbound \in Challenges \cup {Plain, NoQuery} /\ answers \in [Answers -> 0..MaxCopies]
  /\ exchange \in {"none", "asked", "answered"}
  /\ reply \in Responses \cup {NoReply}
  /\ power \in {"none", "start", "stop"} /\ accepted \in BOOLEAN
  /\ outcome \in {"none", "ok", "transient", "permanent"}

Contract == INSTANCE ReadinessContract WITH up <- backend = "running"

\* Both probes keep what the orchestration core relies on: no late answer of
\* an earlier call opens the gate, a panel that cannot be asked is not a
\* backend that is down, and WaitReady is given up only with a reason.
ImplementsReadiness == Contract!Spec

\* Start and Stop return nil only for a request the panel has accepted, and
\* a permanent error only for one it has not: the startup may then fail, and
\* an error of the other kind leaves open what happened.
PowerHonest ==
  /\ outcome = "ok" => accepted
  /\ outcome = "permanent" => ~accepted

\* A call whose context ends returns, whatever is still received: a server
\* that hands out challenges does not keep WaitReady.
CallEnds == (ctxDone /\ call # "none") ~> call = "none"

\* Once the backend is up to stay and nothing is lost any more, WaitReady
\* ends, whatever was lost before, which challenge it holds and which late
\* answers it still reads.
WaitResolves == (stable /\ call = "wait") ~> call = "none"
=============================================================================
