----------------------------- MODULE AppProofs -----------------------------
(***************************************************************************)
(* The application, for every configuration that can be given and every    *)
(* length of the timeouts: what LoadConfig accepts suffices, every exit is *)
(* accounted for and /readyz is honest.                                    *)
(***************************************************************************)
EXTENDS App, TLAPS, SequenceTheorems

-----------------------------------------------------------------------------
(* What Validate guarantees, for every configuration that can be given and *)
(* every resolution of the clock.                                          *)

\* Every setting has a value of its kind.
Complete(c) ==
  /\ c = [f \in DOMAIN Settings |-> c[f]]
  /\ \A f \in DOMAIN Settings : c[f] \in Settings[f]

\* The defaults are complete.
LEMMA DefaultsComplete == Complete(DefaultConfig)
<1>1. DefaultConfig = [f \in DOMAIN Settings |-> DefaultConfig[f]]
  BY SMT DEF DefaultConfig, Settings
<1>2. /\ 60 * Second \in Int /\ 30 * Second \in Int /\ 300 * Second \in Int
      /\ 2 * Second \in Int /\ 5 * Second \in Int
  BY SecondAssumption
<1>3. << <<9, 8, 0, 4, 188, 89, 126, 115>> >> \in Seq(Seq(Bytes))
  <2>1. <<9, 8, 0, 4, 188, 89, 126, 115>> \in Seq(Bytes)
    BY DEF Bytes
  <2>2. QED
    BY <2>1
<1>4. [scheme |-> "none", loopback |-> FALSE, extra |-> "none"] \in
        [scheme : {"http", "https", "none"}, loopback : BOOLEAN, extra : {"none", "user", "query"}]
  OBVIOUS
<1>5. /\ DefaultConfig.WakeSignatures \in Settings.WakeSignatures
      /\ DefaultConfig.BaseURL \in Settings.BaseURL
  BY <1>3, <1>4 DEF DefaultConfig, Settings
<1>6. ASSUME NEW f \in {"MaxSessions", "MaxPacketSize", "AutoStopDelay", "IdleTimeout", "StartupTimeout",
                        "StartupPollInterval", "StartupSettleDelay", "StartupBufferPackets",
                        "StartupBufferBytesPerSession", "StartupBufferBytesGlobal", "DiagnosticPrefixBytes"}
      PROVE DefaultConfig[f] \in Int /\ Settings[f] = Int
  <2>1. Settings[f] = Int
    BY DEF Settings
  <2>2. CASE f \in {"AutoStopDelay", "IdleTimeout", "StartupTimeout", "StartupPollInterval", "StartupSettleDelay"}
    <3>1. \/ DefaultConfig[f] = 60 * Second \/ DefaultConfig[f] = 30 * Second \/ DefaultConfig[f] = 300 * Second
          \/ DefaultConfig[f] = 2 * Second \/ DefaultConfig[f] = 5 * Second
      BY <2>2, SMT DEF DefaultConfig
    <3>2. QED
      BY <1>2, <2>1, <3>1
  <2>3. CASE f \in {"MaxSessions", "MaxPacketSize", "StartupBufferPackets", "StartupBufferBytesPerSession",
                    "StartupBufferBytesGlobal", "DiagnosticPrefixBytes"}
    <3>1. DefaultConfig[f] \in {32, maxUDPPayloadSize, 262144, 4194304, 8}
      BY <2>3, SMT DEF DefaultConfig
    <3>2. QED
      BY <2>1, <3>1 DEF maxUDPPayloadSize
  <2>4. QED
    BY <2>2, <2>3
<1>7. ASSUME NEW f \in {"ListenAddr", "ServerAddr", "HealthAddr", "BackendReadinessAddr"}
      PROVE DefaultConfig[f] \in Addresses /\ Settings[f] = Addresses
  BY DEF DefaultConfig, Settings, Addresses
<1>8. ASSUME NEW f \in {"Game", "WakePolicy", "BackendReadinessMode", "APIToken", "ServerID", "LogLevel"}
      PROVE DefaultConfig[f] \in Settings[f]
  BY DEF DefaultConfig, Settings
<1>9. ASSUME NEW f \in DOMAIN Settings PROVE DefaultConfig[f] \in Settings[f]
  <2>1. \/ f \in {"MaxSessions", "MaxPacketSize", "AutoStopDelay", "IdleTimeout", "StartupTimeout",
                  "StartupPollInterval", "StartupSettleDelay", "StartupBufferPackets",
                  "StartupBufferBytesPerSession", "StartupBufferBytesGlobal", "DiagnosticPrefixBytes"}
        \/ f \in {"ListenAddr", "ServerAddr", "HealthAddr", "BackendReadinessAddr"}
        \/ f \in {"Game", "WakePolicy", "BackendReadinessMode", "APIToken", "ServerID", "LogLevel"}
        \/ f = "WakeSignatures" \/ f = "BaseURL"
    BY DEF Settings
  <2>2. QED
    BY <1>5, <1>6, <1>7, <1>8, <2>1
<1>10. QED
  BY <1>1, <1>9 DEF Complete

\* parseYAML and applyEnvOverrides keep a configuration complete.
LEMMA OverrideComplete ==
  ASSUME NEW c, NEW g, Complete(c), Gives(g)
  PROVE  Complete(Override(c, g))
BY DEF Complete, Gives, Override

\* The fields of a complete configuration that Validate computes with.
LEMMA Fields ==
  ASSUME NEW c, Complete(c)
  PROVE  /\ c.MaxSessions \in Int /\ c.MaxPacketSize \in Int
         /\ c.AutoStopDelay \in Int /\ c.IdleTimeout \in Int
         /\ c.StartupTimeout \in Int /\ c.StartupPollInterval \in Int /\ c.StartupSettleDelay \in Int
         /\ c.StartupBufferPackets \in Int /\ c.StartupBufferBytesPerSession \in Int
         /\ c.StartupBufferBytesGlobal \in Int /\ c.DiagnosticPrefixBytes \in Int
         /\ c.WakeSignatures \in Seq(Seq(Bytes))
         /\ c.ListenAddr \in Addresses /\ c.ServerAddr \in Addresses /\ c.HealthAddr \in Addresses
         /\ c.BackendReadinessAddr \in Addresses
BY DEF Complete, Settings

-----------------------------------------------------------------------------
\* What Validate accepts, the constructors of detector and proxy accept:
\* their own tests never fire after LoadConfig.
LEMMA ConstructorsAccept ==
  ASSUME NEW c, Complete(c), ValidLimits(c), ValidTimes(c), ValidWake(c)
  PROVE  DetectorAccepts(c) /\ NewAccepts(c)
BY Fields DEF ValidLimits, ValidTimes, ValidWake, DetectorAccepts, NewAccepts

\* The sweep ticker's interval is positive, so NewTicker does not panic, and
\* never longer than five seconds.
LEMMA SweepBounded ==
  ASSUME NEW c, Complete(c)
  PROVE  SweepInterval(c) \in Int /\ SweepInterval(c) > 0 /\ SweepInterval(c) <= 5 * Second
<1>1. c.IdleTimeout \in Int
  BY Fields
<1>2. c.IdleTimeout \div 2 \in Int
  BY <1>1
<1>3. QED
  BY <1>2, SecondAssumption DEF SweepInterval

\* No empty datagram wakes the backend, whatever the policy.
LEMMA EmptyNeverWakes ==
  ASSUME NEW c, Complete(c), ValidWake(c)
  PROVE  ~DetectStart(c, << >>)
<1>1. CASE c.WakePolicy = "any"
  BY <1>1 DEF DetectStart
<1>2. CASE c.WakePolicy # "any"
  <2>1. ASSUME NEW i \in 1..Len(c.WakeSignatures) PROVE ~(Len(<< >>) >= Len(c.WakeSignatures[i]))
    <3>1. c.WakeSignatures \in Seq(Seq(Bytes))
      BY Fields
    <3>2. c.WakeSignatures[i] \in Seq(Bytes)
      BY <3>1
    <3>3. c.WakeSignatures[i] # << >>
      BY DEF ValidWake
    <3>4. QED
      BY <3>2, <3>3
  <2>2. QED
    BY <1>2, <2>1 DEF DetectStart
<1>3. QED
  BY <1>1, <1>2

\* While names keep their meaning, the readiness probe can be built: an A2S
\* address that was validated resolves, and so does the backend's own.
LEMMA ReadinessBuilds ==
  ASSUME NEW c, Complete(c), NEW names \in Meanings, ValidAddresses(c, names), ValidTimes(c), ValidNames(c)
  PROVE  ReadinessAccepts(c, Resolve(c.ServerAddr, names), names)
<1>1. c.StartupPollInterval > 0
  BY DEF ValidTimes
<1>2. Resolve(c.ServerAddr, names) \notin {"empty", "nohost"}
  BY DEF ValidAddresses, Specific
<1>3. c.BackendReadinessAddr # "empty" => Resolve(c.BackendReadinessAddr, names) # "bad"
  BY DEF ValidAddresses, Specific
<1>4. c.BackendReadinessMode \in {"pterodactyl", "a2s", "delay"}
  BY DEF ValidNames
<1>5. QED
  BY <1>1, <1>2, <1>3, <1>4 DEF ReadinessAccepts

\* A configuration that LoadConfig returns suffices for all that run builds
\* from it, save the panel client, which has tests of its own; it wakes for
\* no empty datagram, and its tickers tick.
THEOREM ValidateSuffices ==
  ASSUME NEW c, Complete(c), NEW names \in Meanings, Validate(c, names)
  PROVE  /\ DetectorAccepts(c) /\ NewAccepts(c)
         /\ ReadinessAccepts(c, Resolve(c.ServerAddr, names), names)
         /\ ~DetectStart(c, << >>)
         /\ SweepInterval(c) > 0 /\ SweepInterval(c) <= 5 * Second
<1>1. ValidAddresses(c, names) /\ ValidLimits(c) /\ ValidTimes(c) /\ ValidWake(c) /\ ValidNames(c)
  BY DEF Validate
<1>2. QED
  BY <1>1, ConstructorsAccept, SweepBounded, EmptyNeverWakes, ReadinessBuilds

-----------------------------------------------------------------------------
(* The run of the application.                                             *)

Configured == {"detector", "controller", "resolve", "readiness", "listen", "new", "healthListen"}
Early == {"load", "env", "go"} \cup Configured
Ends == {"unready", "cancel", "deadline", "shutdown", "waitProxy", "waitHealth"}
Deadlines == {"healthShutdown", "proxyDeadline", "healthDeadline"}

\* The types of the variables the argument computes with.
Types ==
  /\ run \in Early \cup Ends \cup {"select", "returned"}
  /\ dns \in Meanings /\ renamed \in BOOLEAN
  /\ stopLeft \in Nat /\ connLeft \in Nat /\ left \in Nat
  /\ health \in {"none", "started", "serving", "closed", "failed"}
  /\ proxy \in {"none", "serving", "closing", "failing", "canceled", "failed"}

\* Nothing is served, and nothing has failed, before the setup is over.
EarlyInv ==
  run \in Early =>
    /\ health = "none" /\ proxy = "none" /\ errs = {} /\ done = {} /\ waited = {}
    /\ ~cancelled /\ ~ready /\ connLeft = 0 /\ stopLeft = 0
    /\ run # "go" => tcp = "none"
    /\ run \notin {"new", "healthListen", "go"} => udp = "none"
    /\ run \in {"new", "healthListen", "go"} => udp # "none"

\* A setup that failed leaves nothing behind but its error.
FailedInv ==
  run = "returned" /\ proxy = "none" =>
    /\ health = "none" /\ udp # "open" /\ tcp = "none"
    /\ errs # {} /\ errs \cap Deadlines = {}

\* The servers from the start to the end of run.
ServersInv ==
  /\ run \in Ends \cup {"select"} => health # "none" /\ proxy # "none" /\ udp # "none"
  /\ cancelled => run \in {"deadline", "shutdown", "waitProxy", "waitHealth", "returned"} /\ ~ready
  /\ ready => run \in {"select", "unready"}
  /\ proxy \in {"closing", "canceled"} => parent \/ cancelled
  /\ health = "closed" => run \in {"shutdown", "waitProxy", "waitHealth", "returned"}
  /\ HealthReturned => tcp = "closed"
  /\ run \notin {"shutdown", "waitProxy", "waitHealth", "returned"} /\ health = "serving" => tcp = "open"
  /\ run \in {"shutdown", "waitProxy", "waitHealth"} /\ health = "serving" => tcp = "closed"
  /\ run \in {"go", "select", "unready", "cancel", "deadline"} /\ health \in {"none", "started"} => tcp = "open"

\* What run has taken from its servers, and that it has a reason to end.
ReportInv ==
  /\ "proxy" \in done => ProxyReturned /\ (proxy = "failed" => "proxy" \in errs)
  /\ "health" \in done => HealthReturned /\ (health = "failed" => "health" \in errs)
  /\ run = "select" => errs = {} /\ done = {}
  /\ run \in Ends => parent \/ errs # {}
  /\ run = "waitHealth" => "proxyDeadline" \in errs \/ (ProxyReturned /\ (proxy = "failed" => "proxy" \in errs))
  /\ run \in {"waitProxy", "waitHealth"} => udp = "closed"

\* The deadline passes only because somebody was waited for.
BlameInv ==
  /\ run \in {"select", "unready", "cancel", "deadline"} => waited = {} /\ errs \cap Deadlines = {}
  /\ run = "shutdown" => waited \subseteq {"client"} /\ errs \cap Deadlines = {}
  /\ run \in {"shutdown", "waitProxy", "waitHealth"} => left = ShutdownTimeout \/ waited # {}
  /\ waited # {} /\ run # "returned" => health # "started" /\ run \in {"shutdown", "waitProxy", "waitHealth"}
  /\ "healthShutdown" \in errs => "client" \in waited
  /\ errs \cap {"proxyDeadline", "healthDeadline"} # {} => waited # {}

\* What holds of an exit after the servers were started.
ExitInv ==
  run = "returned" /\ proxy # "none" =>
    /\ udp = "closed" /\ tcp # "open"
    /\ "proxyDeadline" \in errs \/ (ProxyReturned /\ (proxy = "failed" => "proxy" \in errs))
    /\ "healthDeadline" \in errs \/ (HealthReturned /\ (health = "failed" => "health" \in errs))
    /\ parent \/ errs # {}

Control == Types /\ EarlyInv /\ FailedInv /\ ServersInv /\ ReportInv /\ BlameInv /\ ExitInv

-----------------------------------------------------------------------------
\* Control holds initially.
LEMMA ControlInit == Init => Control
<1> SUFFICES ASSUME Init PROVE Control
  OBVIOUS
<1>1. Types
  BY DEF Init, Types, Early
<1>2. EarlyInv /\ FailedInv /\ ExitInv
  BY DEF Init, EarlyInv, FailedInv, ExitInv
<1>3. ServersInv
  BY DEF Init, ServersInv, HealthReturned, Ends
<1>4. ReportInv
  BY DEF Init, ReportInv, Ends
<1>5. BlameInv
  BY DEF Init, BlameInv
<1>6. QED
  BY <1>1, <1>2, <1>3, <1>4, <1>5 DEF Control

\* Every step of the application keeps Control.
LEMMA ControlStep == Control /\ [Next]_vars => Control'
<1> SUFFICES ASSUME Control, [Next]_vars PROVE Control'
  OBVIOUS
<1> USE TimeoutAssumption DEF Control, Types, EarlyInv, FailedInv, ServersInv, ReportInv, BlameInv,
       ExitInv, NoClient,
       Early, Ends, Configured, Deadlines, HealthReturned, ProxyReturned, setupVars, serveVars, clientVars, endVars
<1>1. CASE ReadsFile
  BY <1>1 DEF ReadsFile, Goes
<1>2. CASE ReadsEnvironment
  BY <1>2 DEF ReadsEnvironment, Goes, Fails
<1>3. CASE LoadFails
  BY <1>3 DEF LoadFails, Fails
<1>4. CASE BuildsDetector
  BY <1>4 DEF BuildsDetector, Goes, Fails
<1>5. CASE BuildsController
  BY <1>5 DEF BuildsController, Goes, Fails
<1>6. CASE Resolves
  BY <1>6 DEF Resolves, Goes, Fails
<1>7. CASE BuildsReadiness
  BY <1>7 DEF BuildsReadiness, Goes, Fails
<1>8. CASE Listens
  BY <1>8 DEF Listens, Goes, Fails
<1>9. CASE BuildsProxy
  BY <1>9 DEF BuildsProxy, Goes, Fails
<1>10. CASE ListensForHealth
  BY <1>10 DEF ListensForHealth, Goes, Fails
<1>11. CASE GoesServing
  BY <1>11 DEF GoesServing
<1>12. CASE Wakes
  BY <1>12 DEF Wakes, Step, ProxyWakes, ProxyResult, HealthResult
<1>13. CASE GoesUnready
  BY <1>13 DEF GoesUnready, Step, ClearReady
<1>14. CASE Cancels
  BY <1>14 DEF Cancels, Step
<1>15. CASE BeginsShutdown
  BY <1>15 DEF BeginsShutdown, Step, ShutdownDeadline
<1>16. CASE EndsShutdown
  BY <1>16 DEF EndsShutdown, Step
<1>17. CASE WaitsProxy
  BY <1>17 DEF WaitsProxy, Step, ProxyResult
<1>18. CASE WaitsHealth
  BY <1>18 DEF WaitsHealth, Step, HealthResult
<1>19. CASE HealthBegins
  BY <1>19 DEF HealthBegins, Alive, InShutdown
<1>20. CASE HealthEnds
  BY <1>20 DEF HealthEnds, Alive
<1>21. CASE Connects
  BY <1>21 DEF Connects, Phase, Alive
<1>22. CASE Handles
  <2>1. /\ run # "returned" /\ connLeft > 0 /\ connLeft' = 0
        /\ UNCHANGED <<run, setupVars, endVars, errs, udp, tcp, health, proxy, stopLeft>>
    BY <1>22 DEF Handles, Alive
  <2>2. run \notin Early
    BY <2>1
  <2>3. QED
    BY <2>1, <2>2
<1>22a. CASE Writes
  BY <1>22a DEF Writes, Alive
<1>23. CASE ServeEnds
  BY <1>23 DEF ServeEnds, Alive, ContextDone
<1>24. CASE ServeReturns
  BY <1>24 DEF ServeReturns, Alive
<1>25. CASE StopBegins
  BY <1>25 DEF StopBegins, Alive
<1>26. CASE Signal
  BY <1>26 DEF Signal, Alive
<1>27. CASE Renames
  BY <1>27 DEF Renames
<1>28. CASE Tick
  BY <1>28 DEF Tick, RunMoves, ServersMove, Less
<1>29. CASE UNCHANGED vars
  BY <1>29 DEF vars
<1>30. QED
  BY <1>1, <1>2, <1>3, <1>4, <1>5, <1>6, <1>7, <1>8, <1>9, <1>10, <1>11, <1>12, <1>13, <1>14, <1>15, <1>16, <1>17, <1>18, <1>19, <1>20, <1>21, <1>22, <1>22a, <1>23, <1>24, <1>25, <1>26, <1>27, <1>28, <1>29
     DEF Next, Setup, Ending, HealthServer, ProxyServer, World

-----------------------------------------------------------------------------
\* Nobody is answered before the setup is over, the flag is up between
\* SetReady(true) and SetReady(false), and what a handler has loaded or
\* written fits the moment its client connected.
ReadyInv ==
  /\ handler \in {"none", "ok", "ready", "not ready"} /\ answer \in {"none", "ok", "ready", "not ready"}
  /\ asked \in {"nobody", "down", "closed", "up"} /\ (connLeft > 0 => asked # "nobody")
  /\ run \in Early => handler = "none" /\ answer = "none" /\ asked = "nobody"
  /\ run \in {"select", "unready"} => ready
  /\ asked = "down" => run \notin {"select", "unready"}
  /\ handler = "ready" \/ answer = "ready" => asked \in {"closed", "up"}
  /\ handler = "not ready" \/ answer = "not ready" => run \notin {"select", "unready"}

\* A step away from the health clients keeps ReadyInv if run neither goes
\* back to the setup nor to serving.
LEMMA ReadyKept ==
  ASSUME ReadyInv, UNCHANGED <<handler, answer, asked>>, connLeft' > 0 => connLeft > 0,
         run' \in Early => run \in Early,
         run' \in {"select", "unready"} => run \in {"select", "unready"} /\ UNCHANGED ready
  PROVE  ReadyInv'
BY DEF ReadyInv

\* Every step keeps ReadyInv: a handler loads the flag after its client has
\* connected, and the flag does not come up again.
LEMMA ReadyStep == Control /\ ReadyInv /\ [Next]_vars => ReadyInv'
<1> SUFFICES ASSUME Control, ReadyInv, [Next]_vars PROVE ReadyInv'
  OBVIOUS
<1>s. CASE /\ UNCHANGED <<handler, answer, asked>> /\ (connLeft' > 0 => connLeft > 0)
           /\ run' \in Early => run \in Early
           /\ run' \in {"select", "unready"} => run \in {"select", "unready"} /\ UNCHANGED ready
  BY <1>s, ReadyKept
<1> USE DEF setupVars, serveVars, clientVars, endVars
<1>1. CASE Setup /\ ~GoesServing
  <2>1. /\ run \in Early /\ run' \notin {"select", "unready"}
        /\ UNCHANGED <<handler, answer, asked, connLeft>>
    BY <1>1 DEF Setup, ReadsFile, Goes, ReadsEnvironment, Fails, LoadFails, BuildsDetector, BuildsController,
           Resolves, BuildsReadiness, Listens, BuildsProxy, ListensForHealth, Early, Configured
  <2>2. QED
    BY <1>s, <2>1
<1>2. CASE GoesServing
  <2>1. run \in Early /\ run' = "select" /\ ready' = TRUE /\ UNCHANGED <<handler, answer, asked, connLeft>>
    BY <1>2 DEF GoesServing, Early
  <2>2. run' \notin Early
    BY <2>1 DEF Early, Configured
  <2>3. QED
    BY <2>1, <2>2 DEF ReadyInv
<1>3. CASE Ending
  <2>1. /\ run' \in {"unready", "cancel", "deadline", "shutdown", "waitProxy", "waitHealth", "returned"}
        /\ run' = "unready" => run = "select" /\ UNCHANGED ready
        /\ UNCHANGED <<handler, answer, asked, connLeft>>
    BY <1>3 DEF Ending, Wakes, GoesUnready, Cancels, BeginsShutdown, EndsShutdown, WaitsProxy, WaitsHealth, Step
  <2>2. QED
    BY <1>s, <2>1 DEF Early, Configured
<1>4. CASE HealthBegins \/ HealthEnds \/ ProxyServer \/ Signal \/ Renames
  <2>1. UNCHANGED <<run, ready, handler, answer, asked, connLeft>>
    BY <1>4 DEF HealthBegins, HealthEnds, ProxyServer, ServeEnds, ServeReturns, StopBegins, Signal, Renames
  <2>2. QED
    BY <1>s, <2>1
<1>5. CASE Connects
  <2>1. /\ handler = "none" /\ answer' = "none" /\ asked' = Phase /\ health = "serving"
        /\ UNCHANGED <<run, ready, handler, udp>>
    BY <1>5 DEF Connects, NoClient
  <2>2. run \notin Early
    BY <2>1 DEF Control, EarlyInv
  <2>3. /\ asked' \in {"down", "closed", "up"}
        /\ asked' = "down" => udp = "none" \/ run \notin {"select", "unready"}
    BY <2>1 DEF Phase
  <2>4. run \in {"select", "unready"} => udp # "none"
    BY DEF Control, ServersInv, Ends
  <2>5. QED
    BY <2>1, <2>2, <2>3, <2>4 DEF ReadyInv
<1>6. CASE Handles
  <2>1. connLeft > 0 /\ connLeft' = 0 /\ UNCHANGED <<run, ready, answer, asked>>
    BY <1>6 DEF Handles
  <2>2. run \notin Early
    BY <2>1 DEF Control, EarlyInv
  <2>3. (ready => run \in {"select", "unready"}) /\ ~(connLeft' > 0)
    BY <2>1 DEF Control, ServersInv
  <2>4. asked # "down" => asked \in {"closed", "up"}
    BY <2>1 DEF ReadyInv
  <2>5. CASE handler' = "ok"
    BY <2>1, <2>2, <2>3, <2>5 DEF ReadyInv
  <2>6. CASE ready /\ handler' = "ready"
    <3>1. asked \in {"closed", "up"}
      BY <2>3, <2>4, <2>6 DEF ReadyInv
    <3>2. QED
      BY <2>1, <2>2, <2>3, <2>6, <3>1 DEF ReadyInv
  <2>7. CASE ~ready /\ handler' = "not ready"
    BY <2>1, <2>2, <2>3, <2>7 DEF ReadyInv
  <2>8. QED
    BY <1>6, <2>5, <2>6, <2>7 DEF Handles
<1>7. CASE Writes
  <2>1. answer' = handler /\ handler' = "none" /\ UNCHANGED <<run, ready, connLeft, asked>>
    BY <1>7 DEF Writes
  <2>2. QED
    BY <2>1 DEF ReadyInv
<1>8. CASE Tick
  <2>1. UNCHANGED <<run, ready, handler, answer, asked>> /\ connLeft' = Less(connLeft)
    BY <1>8 DEF Tick
  <2>2. connLeft' > 0 => connLeft > 0
    BY <2>1 DEF Less, Control, Types
  <2>3. QED
    BY <1>s, <2>1, <2>2
<1>9. CASE UNCHANGED vars
  BY <1>s, <1>9 DEF vars
<1>10. QED
  BY <1>1, <1>2, <1>3, <1>4, <1>5, <1>6, <1>7, <1>8, <1>9 DEF Next, HealthServer, World

-----------------------------------------------------------------------------
\* What Validate accepts is within the documented ranges.
LEMMA ValidInRange ==
  ASSUME NEW c, Complete(c), NEW d \in Meanings, Validate(c, d)
  PROVE  c \in Configs
<1>0. ValidAddresses(c, d) /\ ValidLimits(c) /\ ValidTimes(c) /\ ValidWake(c) /\ ValidNames(c)
  BY DEF Validate
<1>1. /\ c.ListenAddr \in Addresses \ {"bad"} /\ c.ServerAddr \in Specific \cup {"name"}
      /\ c.HealthAddr \in {"loopback", "name"} /\ c.BackendReadinessAddr \in Specific \cup {"empty", "name"}
  BY <1>0, Fields DEF ValidAddresses, Resolve, Specific, Addresses, Meanings
<1>2. /\ c.MaxSessions \in Nat \ {0} /\ c.MaxPacketSize \in 1..maxUDPPayloadSize
      /\ c.StartupBufferPackets \in Nat \ {0}
      /\ c.StartupBufferBytesPerSession \in Nat \ {0} /\ c.StartupBufferBytesGlobal \in Nat \ {0}
  <2>1. /\ c.MaxSessions \in Int /\ c.MaxPacketSize \in Int /\ c.StartupBufferPackets \in Int
        /\ c.StartupBufferBytesPerSession \in Int /\ c.StartupBufferBytesGlobal \in Int
    BY Fields
  <2>2. /\ c.MaxSessions >= 1 /\ c.MaxPacketSize >= 1 /\ c.MaxPacketSize <= maxUDPPayloadSize
        /\ c.StartupBufferPackets >= 1 /\ c.StartupBufferBytesPerSession >= c.MaxPacketSize
        /\ c.StartupBufferBytesGlobal >= c.StartupBufferBytesPerSession
    BY <1>0 DEF ValidLimits
  <2>3. maxUDPPayloadSize \in Int
    BY SMT DEF maxUDPPayloadSize
  <2>4. QED
    BY <2>1, <2>2, <2>3
<1>3. /\ c.AutoStopDelay \in Nat \ {0} /\ c.IdleTimeout \in Nat \ {0} /\ c.StartupTimeout \in Nat \ {0}
      /\ c.StartupPollInterval \in Nat \ {0} /\ c.StartupSettleDelay \in Nat
  BY <1>0, Fields DEF ValidTimes
<1>4. c.WakePolicy \in {"signature", "any"} /\ c.DiagnosticPrefixBytes \in 1..32
  <2>1. c.DiagnosticPrefixBytes \in Int
    BY Fields
  <2>2. /\ c.WakePolicy \in {"signature", "any"}
        /\ c.DiagnosticPrefixBytes >= 1 /\ c.DiagnosticPrefixBytes <= 32
    BY <1>0 DEF ValidWake
  <2>3. QED
    BY <2>1, <2>2
<1>5. c.WakeSignatures \in Seq(Seq(Bytes) \ {<< >>})
  <2>1. c.WakeSignatures \in Seq(Seq(Bytes))
    BY Fields
  <2>2. \A i \in 1..Len(c.WakeSignatures) : c.WakeSignatures[i] # << >>
    BY <1>0 DEF ValidWake
  <2>3. c.WakeSignatures \in [1..Len(c.WakeSignatures) -> Seq(Bytes) \ {<< >>}]
    BY <2>1, <2>2
  <2>4. Len(c.WakeSignatures) \in Nat
    BY <2>1
  <2>5. QED
    BY <2>3, <2>4, SeqDef
<1>6. /\ c.Game \in {"palworld"} /\ c.BackendReadinessMode \in {"pterodactyl", "a2s", "delay"}
      /\ c.LogLevel \in {"debug", "info", "warn", "error", "fatal"}
  BY <1>0 DEF ValidNames
<1>7. c.APIToken \in {"set"} /\ c.ServerID \in {"safe", "unsafe"}
  BY <1>0 DEF ValidNames, Complete, Settings
<1>8. c.BaseURL \in [scheme : {"http", "https"}, loopback : BOOLEAN, extra : {"none", "query"}]
  <2>1. c.BaseURL \in [scheme : {"http", "https", "none"}, loopback : BOOLEAN, extra : {"none", "user", "query"}]
    BY DEF Complete, Settings
  <2>2. c.BaseURL.scheme \in {"http", "https"} /\ c.BaseURL.extra # "user"
    BY <1>0 DEF ValidNames, PanelURL
  <2>3. QED
    BY <2>1, <2>2
<1>9. c = [f \in DOMAIN Settings |-> c[f]]
  BY DEF Complete
<1>10. QED
  BY <1>1, <1>2, <1>3, <1>4, <1>5, <1>6, <1>7, <1>8, <1>9, SMT DEF Configs, Settings

-----------------------------------------------------------------------------
\* A configuration that has passed Validate.
Sound(c) ==
  Complete(c) /\ ValidLimits(c) /\ ValidTimes(c) /\ ValidWake(c) /\ ValidNames(c) /\ c \in Configs

\* The configuration from LoadConfig to its last use, and what it was used for.
\* A renamed host is the only thing that can make its addresses stale.
ConfigInv ==
  /\ run = "env" => Complete(cfg)
  /\ run \in Configured => Sound(cfg) /\ (renamed \/ ValidAddresses(cfg, dns))
  /\ run \notin Configured \cup {"env"} => cfg = NoConfig
  /\ run \in {"readiness", "listen", "new", "healthListen"} => renamed \/ backendAt = Resolve(cfg.ServerAddr, dns)

\* The setup's errors and addresses, as ConfigurationSuffices has them.
UseInv ==
  /\ errs \cap {"detector", "new"} = {}
  /\ errs \cap {"resolve", "readiness"} # {} => renamed
  /\ backendAt \notin Specific \cup {"empty"} => renamed
  /\ healthAt \notin {"loopback", "empty"} => renamed

\* The configuration invariant holds initially.
LEMMA ConfigInit == Init => ConfigInv /\ UseInv
BY DEF Init, ConfigInv, UseInv, Configured

\* Every step keeps the configuration as it was accepted.
LEMMA ConfigStep == Control /\ ConfigInv /\ [Next]_vars => ConfigInv'
<1> SUFFICES ASSUME Control, ConfigInv, [Next]_vars PROVE ConfigInv'
  OBVIOUS
<1>t. dns \in Meanings /\ run \in Early \cup Ends \cup {"select", "returned"}
  BY DEF Control, Types
<1> USE DEF ConfigInv, Configured, setupVars, serveVars, clientVars, endVars
<1>1. CASE ReadsFile
  <2>1. PICK file \in Files : cfg' = Override(DefaultConfig, file)
    BY <1>1 DEF ReadsFile
  <2>2. Complete(cfg')
    BY <2>1, DefaultsComplete, OverrideComplete, InputAssumption
  <2>3. run' = "env"
    BY <1>1 DEF ReadsFile, Goes
  <2>4. QED
    BY <2>2, <2>3
<1>2. CASE ReadsEnvironment
  <2>1. PICK env \in Envs :
          LET c == Override(cfg, env) IN
          \/ Validate(c, dns) /\ cfg' = c /\ Goes("detector") /\ UNCHANGED <<dns, renamed, backendAt, healthAt, udp, tcp>>
          \/ ~Validate(c, dns) /\ Fails("load") /\ UNCHANGED udp
    BY <1>2 DEF ReadsEnvironment
  <2>2. Complete(Override(cfg, env))
    BY <1>2, OverrideComplete, InputAssumption DEF ReadsEnvironment
  <2>3. CASE Validate(Override(cfg, env), dns)
    <3>1. Sound(Override(cfg, env)) /\ ValidAddresses(Override(cfg, env), dns)
      BY <1>t, <2>2, <2>3, ValidInRange DEF Sound, Validate
    <3>2. cfg' = Override(cfg, env) /\ run' = "detector" /\ dns' = dns
      BY <2>1, <2>3 DEF Goes
    <3>3. QED
      BY <3>1, <3>2
  <2>4. CASE ~Validate(Override(cfg, env), dns)
    BY <2>1, <2>4 DEF Fails
  <2>5. QED
    BY <2>3, <2>4
<1>3. CASE LoadFails
  BY <1>3 DEF LoadFails, Fails
<1>4. CASE BuildsDetector
  BY <1>4 DEF BuildsDetector, Goes, Fails
<1>5. CASE BuildsController
  BY <1>5 DEF BuildsController, Goes, Fails
<1>6. CASE Resolves
  BY <1>6 DEF Resolves, Goes, Fails
<1>7. CASE BuildsReadiness
  BY <1>7 DEF BuildsReadiness, Goes, Fails
<1>8. CASE Listens
  BY <1>8 DEF Listens, Goes, Fails
<1>9. CASE BuildsProxy
  BY <1>9 DEF BuildsProxy, Goes, Fails
<1>10. CASE ListensForHealth
  BY <1>10 DEF ListensForHealth, Goes, Fails
<1>11. CASE GoesServing
  BY <1>11 DEF GoesServing
<1>12. CASE Wakes
  BY <1>12 DEF Wakes, Step, ProxyWakes, ProxyResult, HealthResult
<1>13. CASE GoesUnready
  BY <1>13 DEF GoesUnready, Step, ClearReady
<1>14. CASE Cancels
  BY <1>14 DEF Cancels, Step
<1>15. CASE BeginsShutdown
  BY <1>15 DEF BeginsShutdown, Step, ShutdownDeadline
<1>16. CASE EndsShutdown
  BY <1>16 DEF EndsShutdown, Step
<1>17. CASE WaitsProxy
  BY <1>17 DEF WaitsProxy, Step, ProxyResult
<1>18. CASE WaitsHealth
  BY <1>18 DEF WaitsHealth, Step, HealthResult
<1>19. CASE HealthBegins
  BY <1>19 DEF HealthBegins, Alive, InShutdown
<1>20. CASE HealthEnds
  BY <1>20 DEF HealthEnds, Alive
<1>21. CASE Connects
  BY <1>21 DEF Connects, Phase, Alive
<1>22. CASE Handles
  BY <1>22 DEF Handles, Alive
<1>22a. CASE Writes
  BY <1>22a DEF Writes, Alive
<1>23. CASE ServeEnds
  BY <1>23 DEF ServeEnds, Alive, ContextDone
<1>24. CASE ServeReturns
  BY <1>24 DEF ServeReturns, Alive
<1>25. CASE StopBegins
  BY <1>25 DEF StopBegins, Alive
<1>26. CASE Signal
  BY <1>26 DEF Signal, Alive
<1>27. CASE Renames
  BY <1>27, <1>t DEF Renames, serveVars, clientVars, endVars, Early, Ends
<1>28. CASE Tick
  BY <1>28 DEF Tick, RunMoves, ServersMove, Less
<1>29. CASE UNCHANGED vars
  BY <1>29 DEF vars
<1>30. QED
  BY <1>1, <1>2, <1>3, <1>4, <1>5, <1>6, <1>7, <1>8, <1>9, <1>10, <1>11, <1>12, <1>13, <1>14, <1>15, <1>16, <1>17, <1>18, <1>19, <1>20, <1>21, <1>22, <1>22a, <1>23, <1>24, <1>25, <1>26, <1>27, <1>28, <1>29
     DEF Next, Setup, Ending, HealthServer, ProxyServer, World

\* No step uses the configuration for what it does not suffice.
LEMMA UseStep == Control /\ ConfigInv /\ UseInv /\ [Next]_vars => UseInv'
<1> SUFFICES ASSUME Control, ConfigInv, UseInv, [Next]_vars PROVE UseInv'
  OBVIOUS
<1>t. dns \in Meanings /\ renamed \in BOOLEAN
  BY DEF Control, Types
<1>e. run \in Early => errs = {}
  BY DEF Control, EarlyInv
<1> USE DEF UseInv, setupVars, serveVars, clientVars, endVars
<1>1. CASE ReadsFile
  BY <1>1 DEF ReadsFile, Goes
<1>2. CASE ReadsEnvironment
  BY <1>2 DEF ReadsEnvironment, Goes, Fails
<1>3. CASE LoadFails
  BY <1>3 DEF LoadFails, Fails
<1>4. CASE BuildsDetector
  <2>1. Sound(cfg)
    BY <1>4 DEF BuildsDetector, ConfigInv, Configured
  <2>2. cfg.Game = "palworld" /\ DetectorAccepts(cfg)
    BY <2>1, ConstructorsAccept DEF Sound, ValidNames
  <2>3. QED
    BY <1>4, <2>2 DEF BuildsDetector, Goes
<1>5. CASE BuildsController
  BY <1>5 DEF BuildsController, Goes, Fails
<1>6. CASE Resolves
  <2>1. renamed \/ ValidAddresses(cfg, dns)
    BY <1>6 DEF Resolves, ConfigInv, Configured
  <2>2. CASE renamed
    BY <1>6, <2>2 DEF Resolves, Goes, Fails
  <2>3. CASE ValidAddresses(cfg, dns)
    <3>1. Resolve(cfg.ListenAddr, dns) # "bad" /\ Resolve(cfg.ServerAddr, dns) \in Specific
      BY <2>3 DEF ValidAddresses
    <3>2. Resolve(cfg.ServerAddr, dns) # "bad"
      BY <3>1 DEF Specific
    <3>3. UNCHANGED <<errs, renamed, healthAt>> /\ backendAt' = Resolve(cfg.ServerAddr, dns)
      BY <1>6, <3>1, <3>2 DEF Resolves, Goes
    <3>4. QED
      BY <3>1, <3>3
  <2>4. QED
    BY <2>1, <2>2, <2>3
<1>7. CASE BuildsReadiness
  <2>1. /\ Sound(cfg) /\ (renamed \/ ValidAddresses(cfg, dns))
        /\ renamed \/ backendAt = Resolve(cfg.ServerAddr, dns)
    BY <1>7 DEF BuildsReadiness, ConfigInv, Configured
  <2>2. CASE renamed
    BY <1>7, <2>2 DEF BuildsReadiness, Goes, Fails
  <2>3. CASE ValidAddresses(cfg, dns) /\ backendAt = Resolve(cfg.ServerAddr, dns)
    <3>1. ReadinessAccepts(cfg, backendAt, dns)
      BY <1>t, <2>1, <2>3, ReadinessBuilds DEF Sound
    <3>2. QED
      BY <1>7, <3>1 DEF BuildsReadiness, Goes
  <2>4. QED
    BY <2>1, <2>2, <2>3
<1>8. CASE Listens
  BY <1>8 DEF Listens, Goes, Fails
<1>9. CASE BuildsProxy
  <2>1. Sound(cfg)
    BY <1>9 DEF BuildsProxy, ConfigInv, Configured
  <2>2. NewAccepts(cfg)
    BY <2>1, ConstructorsAccept DEF Sound
  <2>3. QED
    BY <1>9, <2>2 DEF BuildsProxy, Goes
<1>10. CASE ListensForHealth
  <2>1. renamed \/ ValidAddresses(cfg, dns)
    BY <1>10 DEF ListensForHealth, ConfigInv, Configured
  <2>2. CASE Fails("healthListen")
    BY <2>2 DEF Fails
  <2>3. CASE healthAt' = Resolve(cfg.HealthAddr, dns) /\ UNCHANGED <<errs, renamed, backendAt>>
    <3>1. renamed \/ Resolve(cfg.HealthAddr, dns) = "loopback"
      BY <2>1 DEF ValidAddresses
    <3>2. QED
      BY <2>3, <3>1
  <2>4. QED
    BY <1>10, <2>2, <2>3 DEF ListensForHealth, Goes
<1>11. CASE GoesServing
  BY <1>11 DEF GoesServing
<1>12. CASE Wakes
  BY <1>12 DEF Wakes, Step, ProxyWakes, ProxyResult, HealthResult
<1>13. CASE GoesUnready
  BY <1>13 DEF GoesUnready, Step, ClearReady
<1>14. CASE Cancels
  BY <1>14 DEF Cancels, Step
<1>15. CASE BeginsShutdown
  BY <1>15 DEF BeginsShutdown, Step, ShutdownDeadline
<1>16. CASE EndsShutdown
  BY <1>16 DEF EndsShutdown, Step
<1>17. CASE WaitsProxy
  BY <1>17 DEF WaitsProxy, Step, ProxyResult
<1>18. CASE WaitsHealth
  BY <1>18 DEF WaitsHealth, Step, HealthResult
<1>19. CASE HealthBegins
  BY <1>19 DEF HealthBegins, Alive, InShutdown
<1>20. CASE HealthEnds
  BY <1>20 DEF HealthEnds, Alive
<1>21. CASE Connects
  BY <1>21 DEF Connects, Phase, Alive
<1>22. CASE Handles
  BY <1>22 DEF Handles, Alive
<1>22a. CASE Writes
  BY <1>22a DEF Writes, Alive
<1>23. CASE ServeEnds
  BY <1>23 DEF ServeEnds, Alive, ContextDone
<1>24. CASE ServeReturns
  BY <1>24 DEF ServeReturns, Alive
<1>25. CASE StopBegins
  BY <1>25 DEF StopBegins, Alive
<1>26. CASE Signal
  BY <1>26 DEF Signal, Alive
<1>27. CASE Renames
  BY <1>27 DEF Renames
<1>28. CASE Tick
  BY <1>28 DEF Tick, RunMoves, ServersMove, Less
<1>29. CASE UNCHANGED vars
  BY <1>29 DEF vars
<1>30. QED
  BY <1>1, <1>2, <1>3, <1>4, <1>5, <1>6, <1>7, <1>8, <1>9, <1>10, <1>11, <1>12, <1>13, <1>14, <1>15, <1>16, <1>17, <1>18, <1>19, <1>20, <1>21, <1>22, <1>22a, <1>23, <1>24, <1>25, <1>26, <1>27, <1>28, <1>29
     DEF Next, Setup, Ending, HealthServer, ProxyServer, World

\* What the core assumes of its options follows from Validate.
LEMMA SoundOptions ==
  ASSUME NEW c, Sound(c)
  PROVE  CoreOptions(c)
<1>1. /\ c.MaxSessions \in Int /\ c.MaxPacketSize \in Int /\ c.StartupBufferPackets \in Int
      /\ c.StartupBufferBytesPerSession \in Int /\ c.StartupBufferBytesGlobal \in Int
  BY Fields DEF Sound
<1>2. /\ c.MaxSessions >= 1 /\ c.StartupBufferPackets >= 1
      /\ c.StartupBufferBytesPerSession >= c.MaxPacketSize
      /\ c.StartupBufferBytesGlobal >= c.StartupBufferBytesPerSession
  BY DEF Sound, ValidLimits
<1>3. c.StartupPollInterval > 0
  BY DEF Sound, ValidTimes
<1>4. SweepInterval(c) > 0 /\ ~DetectStart(c, << >>)
  BY SweepBounded, EmptyNeverWakes DEF Sound
<1>5. QED
  BY <1>1, <1>2, <1>3, <1>4 DEF CoreOptions

\* The invariants the theorems rest on.
AppInv == Control /\ ReadyInv /\ ConfigInv /\ UseInv

\* AppInv holds throughout.
LEMMA AppInvariant == Spec => []AppInv
<1>1. Init => AppInv
  <2>1. Init => ReadyInv
    BY DEF Init, ReadyInv
  <2>2. QED
    BY <2>1, ControlInit, ConfigInit DEF AppInv
<1>2. AppInv /\ [Next]_vars => AppInv'
  BY ControlStep, ReadyStep, ConfigStep, UseStep DEF AppInv
<1>3. QED
  BY <1>1, <1>2, PTL DEF Spec

\* Whatever file and environment give, and however long a clock unit is, a
\* configuration that LoadConfig returns suffices for the detector, the readiness probe
\* and the proxy that run builds from it.
THEOREM ConfigurationAlwaysSuffices == Spec => []ConfigurationSuffices
<1>1. AppInv => ConfigurationSuffices
  <2> SUFFICES ASSUME AppInv PROVE ConfigurationSuffices
    OBVIOUS
  <2>1. run = "healthListen" => CoreOptions(cfg)
    BY SoundOptions DEF AppInv, ConfigInv, Configured
  <2>2. QED
    BY <2>1 DEF AppInv, UseInv, ConfigurationSuffices
<1>2. QED
  BY <1>1, AppInvariant, PTL

\* However run ends, listeners are closed, failures are reported and the
\* deadline is blamed only on whom run has waited for.
THEOREM ExitAlwaysAccounted == Spec => []ExitAccounted
<1>1. AppInv => ExitAccounted
  <2> SUFFICES ASSUME AppInv PROVE ExitAccounted
    OBVIOUS
  <2>1. CASE run # "returned"
    BY <2>1 DEF AppInv, Control, BlameInv, ExitAccounted
  <2>2. CASE run = "returned" /\ proxy = "none"
    BY <2>2 DEF AppInv, Control, FailedInv, BlameInv, ExitAccounted
  <2>3. CASE run = "returned" /\ proxy # "none"
    BY <2>3 DEF AppInv, Control, ExitInv, BlameInv, ExitAccounted
  <2>4. QED
    BY <2>1, <2>2, <2>3
<1>2. QED
  BY <1>1, AppInvariant, PTL

\* /readyz changes its answer once: 200 to no client that connects after run
\* has cleared the flag, and 503 to none that is answered before, however late
\* a handler writes what it has loaded.
THEOREM ReadyzAlwaysHonest == Spec => []ReadyzHonest
<1>1. AppInv => ReadyzHonest
  BY DEF AppInv, ReadyInv, ReadyzHonest
<1>2. QED
  BY <1>1, AppInvariant, PTL

-----------------------------------------------------------------------------
\* The types of the variables but the configuration.
Counters == stopLeft \in 0..StopTimeout /\ connLeft \in 0..HeaderTimeout /\ left \in 0..ShutdownTimeout
Flags ==
  /\ backendAt \in Meanings \cup {"empty"} /\ healthAt \in Meanings \cup {"empty"}
  /\ udp \in {"none", "open", "closed"} /\ tcp \in {"none", "open", "closed"}
  /\ parent \in BOOLEAN /\ cancelled \in BOOLEAN /\ ready \in BOOLEAN
  /\ done \subseteq {"proxy", "health"}
  /\ waited \subseteq {"client", "stop"}
  /\ errs \subseteq {"load", "detector", "controller", "resolve", "readiness", "listen", "new", "healthListen",
                     "proxy", "health", "healthShutdown", "proxyDeadline", "healthDeadline"}
Ranges == Counters /\ Flags

\* An address that was accepted resolves to a meaning, or is one.
LEMMA Resolved ==
  ASSUME NEW c \in Configs, NEW d \in Meanings
  PROVE  Resolve(c.ServerAddr, d) \in Meanings /\ Resolve(c.HealthAddr, d) \in Meanings
<1>1. c.ServerAddr \in Specific \cup {"name"} /\ c.HealthAddr \in {"loopback", "name"}
  BY DEF Configs
<1>2. QED
  BY <1>1 DEF Resolve, Specific, Meanings

\* Every step keeps the ranges.
LEMMA RangesStep == AppInv /\ Ranges /\ [Next]_vars => Ranges'
<1> SUFFICES ASSUME AppInv, Ranges, [Next]_vars PROVE Ranges'
  OBVIOUS
<1>t. dns \in Meanings /\ TimeoutAssumption
  BY TimeoutAssumption DEF AppInv, Control, Types
<1>c. run \in Configured => cfg \in Configs
  BY DEF AppInv, ConfigInv, Sound
<1> USE DEF Ranges, setupVars, serveVars, clientVars, endVars
<1>1. CASE ReadsFile
  BY <1>1 DEF ReadsFile, Goes, Counters, Flags
<1>2. CASE ReadsEnvironment
  BY <1>2 DEF ReadsEnvironment, Goes, Fails, Counters, Flags
<1>3. CASE LoadFails
  BY <1>3 DEF LoadFails, Fails, Counters, Flags
<1>4. CASE BuildsDetector
  BY <1>4 DEF BuildsDetector, Goes, Fails, Counters, Flags
<1>5. CASE BuildsController
  BY <1>5 DEF BuildsController, Goes, Fails, Counters, Flags
<1>6. CASE Resolves
  <2>1. Resolve(cfg.ServerAddr, dns) \in Meanings /\ Resolve(cfg.HealthAddr, dns) \in Meanings
    BY <1>6, <1>t, <1>c, Resolved DEF Resolves, Configured
  <2>2. QED
    BY <1>6, <2>1 DEF Resolves, Goes, Fails, Counters, Flags
<1>7. CASE BuildsReadiness
  BY <1>7 DEF BuildsReadiness, Goes, Fails, Counters, Flags
<1>8. CASE Listens
  BY <1>8 DEF Listens, Goes, Fails, Counters, Flags
<1>9. CASE BuildsProxy
  BY <1>9 DEF BuildsProxy, Goes, Fails, Counters, Flags
<1>10. CASE ListensForHealth
  <2>1. Resolve(cfg.ServerAddr, dns) \in Meanings /\ Resolve(cfg.HealthAddr, dns) \in Meanings
    BY <1>10, <1>t, <1>c, Resolved DEF ListensForHealth, Configured
  <2>2. QED
    BY <1>10, <2>1 DEF ListensForHealth, Goes, Fails, Counters, Flags
<1>11. CASE GoesServing
  BY <1>11 DEF GoesServing, Counters, Flags
<1>12. CASE Wakes
  BY <1>12 DEF Wakes, Step, ProxyWakes, ProxyResult, HealthResult, Counters, Flags
<1>13. CASE GoesUnready
  BY <1>13 DEF GoesUnready, Step, ClearReady, Counters, Flags
<1>14. CASE Cancels
  BY <1>14 DEF Cancels, Step, Counters, Flags
<1>15. CASE BeginsShutdown
  <2>1. Counters'
    BY <1>15, TimeoutAssumption DEF BeginsShutdown, Step, ShutdownDeadline, Counters
  <2>2. Flags'
    BY <1>15 DEF BeginsShutdown, Step, ShutdownDeadline, Flags, Counters, Flags
  <2>3. QED
    BY <2>1, <2>2
<1>16. CASE EndsShutdown
  BY <1>16 DEF EndsShutdown, Step, Counters, Flags
<1>17. CASE WaitsProxy
  BY <1>17 DEF WaitsProxy, Step, ProxyResult, Counters, Flags
<1>18. CASE WaitsHealth
  BY <1>18 DEF WaitsHealth, Step, HealthResult, Counters, Flags
<1>19. CASE HealthBegins
  BY <1>19 DEF HealthBegins, Alive, InShutdown, Counters, Flags
<1>20. CASE HealthEnds
  BY <1>20 DEF HealthEnds, Alive, Counters, Flags
<1>21. CASE Connects
  <2>1. Counters'
    BY <1>21, TimeoutAssumption DEF Connects, Phase, Alive, Counters
  <2>2. Flags'
    BY <1>21 DEF Connects, Phase, Alive, Flags, Counters, Flags
  <2>3. QED
    BY <2>1, <2>2
<1>22. CASE Handles
  <2>1. Counters'
    <3>1. connLeft' = 0 /\ UNCHANGED <<stopLeft, left>>
      BY <1>22 DEF Handles
    <3>2. QED
      BY <3>1, TimeoutAssumption DEF Counters
  <2>2. Flags'
    BY <1>22 DEF Handles, Flags
  <2>3. QED
    BY <2>1, <2>2
<1>22a. CASE Writes
  BY <1>22a DEF Writes, Counters, Flags
<1>23. CASE ServeEnds
  BY <1>23 DEF ServeEnds, Alive, ContextDone, Counters, Flags
<1>24. CASE ServeReturns
  BY <1>24 DEF ServeReturns, Alive, Counters, Flags
<1>25. CASE StopBegins
  <2>1. Counters'
    BY <1>25, TimeoutAssumption DEF StopBegins, Alive, Counters
  <2>2. Flags'
    BY <1>25 DEF StopBegins, Alive, Flags, Counters, Flags
  <2>3. QED
    BY <2>1, <2>2
<1>26. CASE Signal
  BY <1>26 DEF Signal, Alive, Counters, Flags
<1>27. CASE Renames
  BY <1>27 DEF Renames, Counters, Flags
<1>28. CASE Tick
  <2>1. Counters'
    BY <1>28, TimeoutAssumption DEF Tick, Less, Counters
  <2>2. Flags'
    BY <1>28 DEF Tick, Less, Flags, Counters, Flags
  <2>3. QED
    BY <2>1, <2>2
<1>29. CASE UNCHANGED vars
  BY <1>29 DEF vars, Counters, Flags
<1>30. QED
  BY <1>1, <1>2, <1>3, <1>4, <1>5, <1>6, <1>7, <1>8, <1>9, <1>10, <1>11, <1>12, <1>13, <1>14, <1>15, <1>16, <1>17, <1>18, <1>19, <1>20, <1>21, <1>22, <1>22a, <1>23, <1>24, <1>25, <1>26, <1>27, <1>28, <1>29
     DEF Next, Setup, Ending, HealthServer, ProxyServer, World

\* Every variable keeps its type, and a configuration that was accepted the
\* ranges documented for it.
THEOREM TypeCorrect == Spec => []TypeOK
<1>1. Init => Ranges
  <2>1. Init => Counters
    BY TimeoutAssumption DEF Init, Counters
  <2>2. Init => Flags
    BY DEF Init, Flags
  <2>3. QED
    BY <2>1, <2>2 DEF Ranges
<1>2. AppInv /\ Ranges => TypeOK
  <2> SUFFICES ASSUME AppInv, Ranges PROVE TypeOK
    OBVIOUS
  <2>1. run # "env" => cfg \in Configs \cup {NoConfig}
    BY DEF AppInv, ConfigInv, Sound
  <2>2. QED
    BY <2>1 DEF AppInv, Control, Types, ReadyInv, Early, Ends, Configured, Ranges, Counters, Flags,
       TypeOK
<1>3. QED
  BY <1>1, <1>2, AppInvariant, RangesStep, PTL DEF Spec
=============================================================================
