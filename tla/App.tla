-------------------------------- MODULE App --------------------------------
(***************************************************************************)
(* The application: run of cmd/main.go sets the proxy and its health       *)
(* endpoint up, waits for a reason to end and takes both down within a     *)
(* deadline.  Beside it run the goroutines of healthServer.Serve and of    *)
(* instance.Serve, of which Proxy has the detail: here it serves, closes,  *)
(* waits for a stop request in flight, and returns.                        *)
(*                                                                         *)
(* Time: the three timeouts are counted in ticks.  Computing takes no      *)
(* time next to them, so a tick passes only when nobody can go on.         *)
(***************************************************************************)
EXTENDS Config, FiniteSets

CONSTANTS
  Files, Envs,       \* what config.yaml and the environment may give
  ShutdownTimeout,   \* of shutdownCtx
  StopTimeout,       \* of the stop request in runAutoStopAttempt
  HeaderTimeout      \* healthServer.ReadHeaderTimeout

ASSUME InputAssumption == \A g \in Files \cup Envs : Gives(g)
ASSUME TimeoutAssumption ==
  ShutdownTimeout \in Nat \ {0} /\ StopTimeout \in Nat /\ HeaderTimeout \in Nat

VARIABLES
  run,        \* where run is
  cfg,        \* the configuration, while run is setting up
  dns,        \* what a host name resolves to
  renamed,    \* history: that has changed since the configuration was read
  backendAt, healthAt,   \* what the backend and the health address resolved to
  udp, tcp,   \* the listeners: "none", "open" or "closed"
  parent,     \* the process was told to end
  cancelled,  \* run's own cancel was called
  ready,      \* HealthState
  health,     \* healthServer.Serve: "none", "started", "serving", "closed" or "failed"
  proxy,      \* instance.Serve: "none", "serving", "closing", "failing", "canceled" or "failed"
  done,       \* proxyDone and healthDone
  stopLeft,   \* ticks until the stop request in flight ends
  connLeft,   \* ticks until a health client that has sent nothing is cut off
  handler,    \* what the handler of a request is about to write
  answer,     \* the health endpoint's last answer
  asked,      \* history: the Phase when that client connected
  left,       \* ticks left of shutdownCtx
  waited,     \* history: for whom run has waited while shutting down
  errs        \* the errors run has to report

setupVars == <<cfg, dns, renamed, backendAt, healthAt>>
clientVars == <<connLeft, handler, answer, asked>>
serveVars == <<udp, tcp, health, proxy, stopLeft, clientVars>>
endVars == <<parent, cancelled, ready, done, left, waited>>
vars == <<run, setupVars, serveVars, endVars, errs>>

NoConfig == [Game |-> "none"]

Init ==
  /\ run = "load" /\ cfg = NoConfig /\ dns \in Meanings /\ renamed = FALSE
  /\ backendAt = "empty" /\ healthAt = "empty"
  /\ udp = "none" /\ tcp = "none" /\ health = "none" /\ proxy = "none"
  /\ stopLeft = 0 /\ connLeft = 0 /\ handler = "none" /\ answer = "none" /\ asked = "nobody"
  /\ parent = FALSE /\ cancelled = FALSE /\ ready = FALSE /\ done = {} /\ left = 0 /\ waited = {}
  /\ errs = {}

-----------------------------------------------------------------------------
(* run: setting up.                                                        *)

\* The setup goes on at l, or ends with an error.
Goes(l) == run' = l /\ UNCHANGED <<errs, endVars, health, proxy, stopLeft, clientVars>>
Fails(e) ==
  /\ run' = "returned" /\ errs' = {e} /\ cfg' = NoConfig
  /\ UNCHANGED <<dns, renamed, backendAt, healthAt, endVars, tcp, health, proxy, stopLeft, clientVars>>

\* LoadConfig reads config.yaml over the defaults.  A file that is there but
\* cannot be opened counts as absent.
ReadsFile ==
  /\ run = "load"
  /\ \E file \in Files : cfg' = Override(DefaultConfig, file)
  /\ Goes("env") /\ UNCHANGED <<dns, renamed, backendAt, healthAt, udp, tcp>>

\* The environment comes over both, and the whole is validated.
ReadsEnvironment ==
  /\ run = "env"
  /\ \E env \in Envs :
       LET c == Override(cfg, env) IN
       \/ Validate(c, dns) /\ cfg' = c /\ Goes("detector") /\ UNCHANGED <<dns, renamed, backendAt, healthAt, udp, tcp>>
       \/ ~Validate(c, dns) /\ Fails("load") /\ UNCHANGED udp

\* Something cannot be parsed: an empty file, an unknown field, a second
\* document, a number or a duration in the environment.
LoadFails == run \in {"load", "env"} /\ Fails("load") /\ UNCHANGED udp

BuildsDetector ==
  /\ run = "detector"
  /\ IF cfg.Game = "palworld" /\ DetectorAccepts(cfg)
       THEN Goes("controller") /\ UNCHANGED <<setupVars, udp, tcp>>
       ELSE Fails("detector") /\ UNCHANGED udp

BuildsController ==
  /\ run = "controller"
  /\ IF ClientAccepts(cfg) THEN Goes("resolve") /\ UNCHANGED <<setupVars, udp, tcp>>
                           ELSE Fails("controller") /\ UNCHANGED udp

\* The addresses are resolved once more.
Resolves ==
  /\ run = "resolve"
  /\ IF Resolve(cfg.ListenAddr, dns) # "bad" /\ Resolve(cfg.ServerAddr, dns) # "bad"
       THEN Goes("readiness") /\ backendAt' = Resolve(cfg.ServerAddr, dns)
            /\ UNCHANGED <<cfg, dns, renamed, healthAt, udp, tcp>>
       ELSE Fails("resolve") /\ UNCHANGED udp

BuildsReadiness ==
  /\ run = "readiness"
  /\ IF ReadinessAccepts(cfg, backendAt, dns) THEN Goes("listen") /\ UNCHANGED <<setupVars, udp, tcp>>
                                              ELSE Fails("readiness") /\ UNCHANGED udp

Listens ==
  /\ run = "listen"
  /\ \/ Goes("new") /\ udp' = "open" /\ UNCHANGED <<setupVars, tcp>>
     \/ Fails("listen") /\ UNCHANGED udp

BuildsProxy ==
  /\ run = "new"
  /\ IF NewAccepts(cfg) THEN Goes("healthListen") /\ UNCHANGED <<setupVars, udp, tcp>>
                        ELSE Fails("new") /\ udp' = "closed"

\* The last use of the configuration; the listener resolves its address again.
ListensForHealth ==
  /\ run = "healthListen"
  /\ \/ /\ Resolve(cfg.HealthAddr, dns) # "bad" /\ tcp' = "open" /\ healthAt' = Resolve(cfg.HealthAddr, dns)
        /\ Goes("go") /\ cfg' = NoConfig /\ UNCHANGED <<dns, renamed, backendAt, udp>>
     \/ Fails("healthListen") /\ udp' = "closed"

\* SetReady(true), and both servers are started.
GoesServing ==
  /\ run = "go" /\ run' = "select" /\ ready' = TRUE
  /\ health' = "started" /\ proxy' = "serving"
  /\ UNCHANGED <<setupVars, errs, parent, cancelled, done, left, waited, udp, tcp, stopLeft, clientVars>>

Setup ==
  \/ ReadsFile \/ ReadsEnvironment \/ LoadFails \/ BuildsDetector \/ BuildsController \/ Resolves
  \/ BuildsReadiness \/ Listens \/ BuildsProxy \/ ListensForHealth \/ GoesServing

-----------------------------------------------------------------------------
(* run: ending.  A server that has returned waits in its channel.          *)

HealthReturned == health \in {"closed", "failed"}
ProxyReturned == proxy \in {"canceled", "failed"}

\* Mutant: nobody looks at what Serve returns while the proxy runs.
ProxyUnwatched == FALSE
ProxyWakes == ProxyReturned

HealthResult == IF health = "failed" THEN {"health"} ELSE {}
ProxyResult == IF proxy = "failed" THEN {"proxy"} ELSE {}

Step(from, to) == run = from /\ run' = to /\ UNCHANGED setupVars

\* The select: the first reason to end, any of them if there are several.
Wakes ==
  /\ Step("select", "unready")
  /\ \/ parent /\ UNCHANGED <<done, errs>>
     \/ ProxyWakes /\ done' = {"proxy"} /\ errs' = ProxyResult
     \/ HealthReturned /\ done' = {"health"} /\ errs' = HealthResult
  /\ UNCHANGED <<serveVars, parent, cancelled, ready, left, waited>>

\* Mutant: the readiness flag stays up.
KeepReady == UNCHANGED ready
ClearReady == ready' = FALSE

GoesUnready == Step("unready", "cancel") /\ ClearReady /\ UNCHANGED <<serveVars, parent, cancelled, done, left, waited, errs>>
Cancels == Step("cancel", "deadline") /\ cancelled' = TRUE /\ UNCHANGED <<serveVars, parent, ready, done, left, waited, errs>>

\* Mutant: the deadline is derived from the cancelled context.
SpentDeadline == 0
ShutdownDeadline == ShutdownTimeout

\* shutdownCtx, and Shutdown closes the listener Serve has registered.
BeginsShutdown ==
  /\ Step("deadline", "shutdown") /\ left' = ShutdownDeadline
  /\ tcp' = IF health = "serving" THEN "closed" ELSE tcp
  /\ UNCHANGED <<udp, health, proxy, stopLeft, clientVars, parent, cancelled, ready, done, waited, errs>>

\* No request and no silent client is left.
NoClient == connLeft = 0 /\ handler = "none"

\* Shutdown returns when no client is left, or at the deadline; then
\* listener.Close.
EndsShutdown ==
  /\ Step("shutdown", "waitProxy")
  /\ \/ NoClient /\ UNCHANGED errs
     \/ left = 0 /\ errs' = errs \cup {"healthShutdown"}
  /\ udp' = "closed"
  /\ UNCHANGED <<tcp, health, proxy, stopLeft, clientVars, endVars>>

\* Each wait takes what the server returned, or gives up at the deadline.
WaitsProxy ==
  /\ Step("waitProxy", "waitHealth")
  /\ \/ "proxy" \in done /\ UNCHANGED errs
     \/ "proxy" \notin done /\ ProxyReturned /\ errs' = errs \cup ProxyResult
     \/ "proxy" \notin done /\ left = 0 /\ errs' = errs \cup {"proxyDeadline"}
  /\ UNCHANGED <<serveVars, endVars>>

WaitsHealth ==
  /\ Step("waitHealth", "returned")
  /\ \/ "health" \in done /\ UNCHANGED errs
     \/ "health" \notin done /\ HealthReturned /\ errs' = errs \cup HealthResult
     \/ "health" \notin done /\ left = 0 /\ errs' = errs \cup {"healthDeadline"}
  /\ UNCHANGED <<serveVars, endVars>>

Ending == Wakes \/ GoesUnready \/ Cancels \/ BeginsShutdown \/ EndsShutdown \/ WaitsProxy \/ WaitsHealth

-----------------------------------------------------------------------------
(* healthServer.Serve and its clients.                                     *)

InShutdown == run \in {"shutdown", "waitProxy", "waitHealth"}
Alive == run # "returned"

\* Serve registers the listener, or finds the server shut down already.
HealthBegins ==
  /\ Alive /\ health = "started"
  /\ IF InShutdown THEN health' = "closed" /\ tcp' = "closed" ELSE health' = "serving" /\ UNCHANGED tcp
  /\ UNCHANGED <<run, setupVars, endVars, errs, udp, proxy, stopLeft, clientVars>>

\* Accept fails: the listener was closed by Shutdown, or is broken.
HealthEnds ==
  /\ Alive /\ health = "serving"
  /\ health' = IF tcp = "closed" THEN "closed" ELSE "failed"
  /\ tcp' = "closed"
  /\ UNCHANGED <<run, setupVars, endVars, errs, udp, proxy, stopLeft, clientVars>>

\* What a client finds that connects now: run has not bound the UDP listener
\* or has cleared the flag again; Serve has closed the listener, and run has
\* yet to act on it; or the listener is open.
Phase ==
  IF udp = "none" \/ run \notin {"select", "unready"} THEN "down"
  ELSE IF udp = "closed" THEN "closed" ELSE "up"

\* A client connects, or sends another request, when it likes.
Connects ==
  /\ Alive /\ health = "serving" /\ tcp = "open" /\ NoClient
  /\ connLeft' = HeaderTimeout /\ answer' = "none" /\ asked' = Phase
  /\ UNCHANGED <<run, setupVars, endVars, errs, udp, tcp, health, proxy, stopLeft, handler>>

\* NewHealthHandler has the headers of a request, for /healthz or /readyz:
\* the latter loads the flag.
Handles ==
  /\ Alive /\ connLeft > 0 /\ connLeft' = 0
  /\ handler' \in {"ok", IF ready THEN "ready" ELSE "not ready"}
  /\ UNCHANGED <<run, setupVars, endVars, errs, udp, tcp, health, proxy, stopLeft, answer, asked>>

\* It writes what it has found, however old; the connection is idle then,
\* which Shutdown closes.
Writes ==
  /\ Alive /\ handler # "none" /\ answer' = handler /\ handler' = "none"
  /\ UNCHANGED <<run, setupVars, endVars, errs, udp, tcp, health, proxy, stopLeft, connLeft, asked>>

HealthServer == HealthBegins \/ HealthEnds \/ Connects \/ Handles \/ Writes

-----------------------------------------------------------------------------
(* instance.Serve.                                                         *)

ContextDone == parent \/ cancelled

\* The context ends, or a read fails while it has not; the deferred cancel
\* and the context itself close the listener.
ServeEnds ==
  /\ Alive /\ proxy = "serving" /\ udp' = "closed"
  /\ proxy' = IF ContextDone THEN "closing" ELSE "failing"
  /\ UNCHANGED <<run, setupVars, endVars, errs, tcp, health, stopLeft, clientVars>>

\* shutdown waits for admissionMu, which a stop request holds.
ServeReturns ==
  /\ Alive /\ proxy \in {"closing", "failing"} /\ stopLeft = 0
  /\ proxy' = IF proxy = "closing" THEN "canceled" ELSE "failed"
  /\ UNCHANGED <<run, setupVars, endVars, errs, udp, tcp, health, stopLeft, clientVars>>

\* runAutoStopAttempt, on a context of its own, until shutdown has the lock.
StopBegins ==
  /\ Alive /\ proxy \in {"serving", "closing", "failing"} /\ stopLeft = 0
  /\ stopLeft' \in 1..StopTimeout
  /\ UNCHANGED <<run, setupVars, endVars, errs, udp, tcp, health, proxy, clientVars>>

ProxyServer == ServeEnds \/ ServeReturns \/ StopBegins

-----------------------------------------------------------------------------
(* The world.                                                              *)

\* SIGINT or SIGTERM.
Signal ==
  /\ Alive /\ ~parent /\ parent' = TRUE
  /\ UNCHANGED <<run, setupVars, serveVars, cancelled, ready, done, left, waited, errs>>

\* The name service changes its mind; nobody asks it after the setup.
Renames ==
  /\ run \notin {"env", "returned"} /\ cfg # NoConfig /\ dns' \in Meanings \ {dns} /\ renamed' = TRUE
  /\ UNCHANGED <<run, cfg, backendAt, healthAt, serveVars, endVars, errs>>

\* Somebody can go on at once.
RunMoves ==
  CASE run = "select" -> parent \/ ProxyReturned \/ HealthReturned
    [] run = "shutdown" -> NoClient \/ left = 0
    [] run = "waitProxy" -> "proxy" \in done \/ ProxyReturned \/ left = 0
    [] run = "waitHealth" -> "health" \in done \/ HealthReturned \/ left = 0
    [] OTHER -> TRUE
ServersMove ==
  \/ health = "started" \/ (health = "serving" /\ tcp = "closed")
  \/ (proxy = "serving" /\ ContextDone) \/ (proxy \in {"closing", "failing"} /\ stopLeft = 0)
  \/ handler # "none"

Less(n) == IF n = 0 THEN 0 ELSE n - 1
Tick ==
  /\ ~RunMoves /\ ~ServersMove /\ (stopLeft > 0 \/ connLeft > 0)
  /\ stopLeft' = Less(stopLeft) /\ connLeft' = Less(connLeft) /\ left' = Less(left)
  /\ waited' = CASE run = "shutdown" -> waited \cup {"client"}
                 [] run = "waitProxy" -> waited \cup {"stop"}
                 [] OTHER -> waited
  /\ UNCHANGED <<run, setupVars, udp, tcp, health, proxy, handler, answer, asked, parent, cancelled, ready, done, errs>>

World == Signal \/ Renames \/ Tick

Next == Setup \/ Ending \/ HealthServer \/ ProxyServer \/ World
Spec == Init /\ [][Next]_vars

\* The goroutines are scheduled and time passes.  Nothing is assumed of
\* signals, clients, the panel or the sockets.
Fairness ==
  /\ WF_vars(Setup \/ Ending) /\ WF_vars(Tick)
  /\ WF_vars(HealthBegins) /\ WF_vars(HealthEnds /\ tcp = "closed") /\ WF_vars(Writes)
  /\ WF_vars(ServeEnds /\ ContextDone) /\ WF_vars(ServeReturns)
FairSpec == Spec /\ Fairness

-----------------------------------------------------------------------------
\* The ranges the configuration contract lists.
Configs ==
  [ListenAddr : Addresses \ {"bad"}, ServerAddr : Specific \cup {"name"}, MaxSessions : Nat \ {0},
   MaxPacketSize : 1..maxUDPPayloadSize, Game : {"palworld"}, AutoStopDelay : Nat \ {0}, IdleTimeout : Nat \ {0},
   StartupTimeout : Nat \ {0}, StartupPollInterval : Nat \ {0}, StartupSettleDelay : Nat,
   StartupBufferPackets : Nat \ {0}, StartupBufferBytesPerSession : Nat \ {0}, StartupBufferBytesGlobal : Nat \ {0},
   WakePolicy : {"signature", "any"}, WakeSignatures : Seq(Seq(Bytes) \ {<< >>}),
   DiagnosticPrefixBytes : 1..32, HealthAddr : {"loopback", "name"},
   BackendReadinessMode : {"pterodactyl", "a2s", "delay"},
   BackendReadinessAddr : Specific \cup {"empty", "name"},
   BaseURL : [scheme : {"http", "https"}, loopback : BOOLEAN, extra : {"none", "query"}],
   APIToken : {"set"}, ServerID : {"safe", "unsafe"}, LogLevel : {"debug", "info", "warn", "error", "fatal"}]

\* The type of every variable; a configuration that LoadConfig has returned
\* is within the documented ranges, whatever file and environment gave.
TypeOK ==
  /\ run \in {"load", "env", "detector", "controller", "resolve", "readiness", "listen", "new", "healthListen",
              "go", "select", "unready", "cancel", "deadline", "shutdown", "waitProxy", "waitHealth", "returned"}
  /\ (run # "env" => cfg \in Configs \cup {NoConfig}) /\ dns \in Meanings /\ renamed \in BOOLEAN
  /\ backendAt \in Meanings \cup {"empty"} /\ healthAt \in Meanings \cup {"empty"}
  /\ udp \in {"none", "open", "closed"} /\ tcp \in {"none", "open", "closed"}
  /\ parent \in BOOLEAN /\ cancelled \in BOOLEAN /\ ready \in BOOLEAN
  /\ health \in {"none", "started", "serving", "closed", "failed"}
  /\ proxy \in {"none", "serving", "closing", "failing", "canceled", "failed"}
  /\ done \subseteq {"proxy", "health"}
  /\ stopLeft \in 0..StopTimeout /\ connLeft \in 0..HeaderTimeout /\ left \in 0..ShutdownTimeout
  /\ handler \in {"none", "ok", "ready", "not ready"} /\ answer \in {"none", "ok", "ready", "not ready"}
  /\ asked \in {"nobody", "down", "closed", "up"}
  /\ waited \subseteq {"client", "stop"}
  /\ errs \subseteq {"load", "detector", "controller", "resolve", "readiness", "listen", "new", "healthListen",
                     "proxy", "health", "healthShutdown", "proxyDeadline", "healthDeadline"}

\* What the orchestration core and its tickers assume of the options, and a
\* detector no empty datagram can wake.
CoreOptions(c) ==
  /\ c.MaxSessions >= 1 /\ c.StartupBufferPackets >= 1
  /\ c.MaxPacketSize <= c.StartupBufferBytesPerSession /\ c.StartupBufferBytesPerSession <= c.StartupBufferBytesGlobal
  /\ SweepInterval(c) > 0 /\ c.StartupPollInterval > 0
  /\ ~DetectStart(c, << >>)

\* A configuration that LoadConfig accepts is good enough for all that is
\* built from it: detector and proxy are never refused, addresses that were
\* validated fail or point elsewhere only when a name has changed its meaning
\* since, and the core's assumptions hold when the proxy begins to serve.
ConfigurationSuffices ==
  /\ errs \cap {"detector", "new"} = {}
  /\ errs \cap {"resolve", "readiness"} # {} => renamed
  /\ backendAt \notin Specific \cup {"empty"} => renamed
  /\ healthAt \notin {"loopback", "empty"} => renamed
  /\ run = "healthListen" => CoreOptions(cfg)

\* However run ends, no listener stays open, a server's failure is not lost
\* without another error in its place, the deadline is blamed only when a
\* stop request or a silent health client has used it up, and an exit without
\* an error was asked for.
ExitAccounted ==
  /\ run = "returned" => udp # "open" /\ tcp # "open"
  /\ run = "returned" /\ proxy = "failed" => errs \cap {"proxy", "proxyDeadline"} # {}
  /\ run = "returned" /\ health = "failed" => errs \cap {"health", "healthDeadline"} # {}
  /\ "healthShutdown" \in errs => "client" \in waited
  /\ errs \cap {"proxyDeadline", "healthDeadline"} # {} => waited # {}
  /\ run = "returned" /\ errs = {} => parent

\* /readyz changes its answer once: a client that connects after run has
\* cleared the flag does not read 200, whatever handlers of earlier requests
\* still write; and no client reads 503 before.
ReadyzHonest ==
  /\ answer = "ready" => asked \in {"up", "closed"}
  /\ answer = "not ready" => run \notin {"select", "unready"}

\* What FR-024 says, readiness means that the UDP listener is open and
\* shutdown has not begun: a client that connects when Serve has closed the
\* listener to shut down does not read 200.
ReadyzDuringShutdown == answer = "ready" => asked # "closed"

\* Told to end, or left by one of its servers, run returns.
RunEnds == (parent \/ ProxyReturned \/ HealthReturned) ~> run = "returned"
=============================================================================
