------------------------------- MODULE Config -------------------------------
(***************************************************************************)
(* The configuration, pkg/config/config.go, and what the constructors that *)
(* run hands it to demand of it once more.                                 *)
(*                                                                         *)
(* Data: an address is what it resolves to, a wake signature the bytes it  *)
(* decodes to (none if it is not hexadecimal), a URL its scheme, whether   *)
(* its host is a loopback address, and what else it carries.  A duration   *)
(* is a number of clock units, Second of them to the second.               *)
(***************************************************************************)
EXTENDS Integers, Sequences

CONSTANT Second

ASSUME SecondAssumption == Second \in Nat \ {0}

maxUDPPayloadSize == 65507
Bytes == 0..255

\* "nohost" is a port alone, "unspecified" is 0.0.0.0, "name" a host name.
Addresses == {"empty", "nohost", "unspecified", "loopback", "host", "bad", "name"}
Meanings == {"unspecified", "loopback", "host", "bad"}

\* A host name resolves to what the name service says at that moment, every
\* other address to itself.
Resolve(addr, dns) == IF addr = "name" THEN dns ELSE addr
Specific == {"loopback", "host"}

\* What each setting can hold once it is parsed.  The settings that only
\* steer the log are left out but for the level.
Settings ==
  [ListenAddr |-> Addresses, ServerAddr |-> Addresses, MaxSessions |-> Int, MaxPacketSize |-> Int,
   Game |-> {"palworld", "other"}, AutoStopDelay |-> Int, IdleTimeout |-> Int,
   StartupTimeout |-> Int, StartupPollInterval |-> Int, StartupSettleDelay |-> Int,
   StartupBufferPackets |-> Int, StartupBufferBytesPerSession |-> Int, StartupBufferBytesGlobal |-> Int,
   WakePolicy |-> {"signature", "any", "other"}, WakeSignatures |-> Seq(Seq(Bytes)),
   DiagnosticPrefixBytes |-> Int, HealthAddr |-> Addresses,
   BackendReadinessMode |-> {"pterodactyl", "a2s", "delay", "other"}, BackendReadinessAddr |-> Addresses,
   BaseURL |-> [scheme : {"http", "https", "none"}, loopback : BOOLEAN, extra : {"none", "user", "query"}],
   APIToken |-> {"set", "blank"}, ServerID |-> {"safe", "unsafe", "blank"},
   LogLevel |-> {"debug", "info", "warn", "error", "fatal", "other"}]

\* Values for some of the settings.
Gives(g) == DOMAIN g \subseteq DOMAIN Settings /\ \A f \in DOMAIN g : g[f] \in Settings[f]

-----------------------------------------------------------------------------
DefaultConfig ==
  [ListenAddr |-> "nohost", ServerAddr |-> "empty", MaxSessions |-> 32, MaxPacketSize |-> maxUDPPayloadSize,
   Game |-> "palworld", AutoStopDelay |-> 60 * Second, IdleTimeout |-> 30 * Second,
   StartupTimeout |-> 300 * Second, StartupPollInterval |-> 2 * Second, StartupSettleDelay |-> 5 * Second,
   StartupBufferPackets |-> 32, StartupBufferBytesPerSession |-> 262144, StartupBufferBytesGlobal |-> 4194304,
   WakePolicy |-> "signature", WakeSignatures |-> << <<9, 8, 0, 4, 188, 89, 126, 115>> >>,
   DiagnosticPrefixBytes |-> 8, HealthAddr |-> "loopback",
   BackendReadinessMode |-> "pterodactyl", BackendReadinessAddr |-> "empty",
   BaseURL |-> [scheme |-> "none", loopback |-> FALSE, extra |-> "none"], APIToken |-> "blank",
   ServerID |-> "blank", LogLevel |-> "info"]

\* parseYAML and applyEnvOverrides: what is given replaces what was there.
Override(cfg, given) == [f \in DOMAIN cfg |-> IF f \in DOMAIN given THEN given[f] ELSE cfg[f]]

-----------------------------------------------------------------------------
(* Validate, group by group.                                               *)

ValidAddresses(c, dns) ==
  /\ Resolve(c.ListenAddr, dns) # "bad"
  /\ Resolve(c.ServerAddr, dns) \in Specific
  /\ Resolve(c.HealthAddr, dns) = "loopback"
  /\ c.BackendReadinessAddr # "empty" =>
       c.BackendReadinessMode = "a2s" /\ Resolve(c.BackendReadinessAddr, dns) \in Specific

\* Mutant: an empty datagram limit is let through.
LimitsFromZero(c) ==
  /\ c.MaxSessions >= 1 /\ c.MaxPacketSize >= 0 /\ c.MaxPacketSize <= maxUDPPayloadSize
  /\ c.StartupBufferPackets >= 1
  /\ c.StartupBufferBytesPerSession >= c.MaxPacketSize
  /\ c.StartupBufferBytesGlobal >= c.StartupBufferBytesPerSession
ValidLimits(c) ==
  /\ c.MaxSessions >= 1 /\ c.MaxPacketSize >= 1 /\ c.MaxPacketSize <= maxUDPPayloadSize
  /\ c.StartupBufferPackets >= 1
  /\ c.StartupBufferBytesPerSession >= c.MaxPacketSize
  /\ c.StartupBufferBytesGlobal >= c.StartupBufferBytesPerSession

\* Mutant: the poll interval may be as long as the timeout.
TimesUpTo(c) ==
  /\ c.IdleTimeout > 0 /\ c.AutoStopDelay > 0 /\ c.StartupTimeout > 0
  /\ c.StartupPollInterval > 0 /\ c.StartupPollInterval <= c.StartupTimeout
  /\ c.StartupSettleDelay >= 0 /\ c.StartupSettleDelay < c.StartupTimeout
ValidTimes(c) ==
  /\ c.IdleTimeout > 0 /\ c.AutoStopDelay > 0 /\ c.StartupTimeout > 0
  /\ c.StartupPollInterval > 0 /\ c.StartupPollInterval < c.StartupTimeout
  /\ c.StartupSettleDelay >= 0 /\ c.StartupSettleDelay < c.StartupTimeout

ValidWake(c) ==
  /\ c.WakePolicy \in {"signature", "any"}
  /\ c.WakePolicy = "signature" => Len(c.WakeSignatures) # 0
  /\ \A i \in 1..Len(c.WakeSignatures) : c.WakeSignatures[i] # << >>
  /\ c.DiagnosticPrefixBytes >= 1 /\ c.DiagnosticPrefixBytes <= 32

\* HTTP only to a loopback host, and no user info.
PanelURL(u) ==
  /\ u.scheme \in {"http", "https"} /\ u.extra # "user"
  /\ u.scheme = "http" => u.loopback

ValidNames(c) ==
  /\ c.Game = "palworld"
  /\ c.BackendReadinessMode \in {"pterodactyl", "a2s", "delay"}
  /\ PanelURL(c.BaseURL) /\ c.APIToken # "blank" /\ c.ServerID # "blank"
  /\ c.LogLevel \in {"debug", "info", "warn", "error", "fatal"}

Validate(c, dns) ==
  ValidAddresses(c, dns) /\ ValidLimits(c) /\ ValidTimes(c) /\ ValidWake(c) /\ ValidNames(c)

-----------------------------------------------------------------------------
(* The constructors.                                                       *)

\* NewConfiguredPalworldGame.
DetectorAccepts(c) ==
  /\ c.WakePolicy \in {"signature", "any"}
  /\ c.DiagnosticPrefixBytes <= 32
  /\ c.WakePolicy = "signature" =>
       Len(c.WakeSignatures) # 0 /\ \A i \in 1..Len(c.WakeSignatures) : c.WakeSignatures[i] # << >>

\* DetectStart: any datagram with a byte in it, or one that begins like a signature.
DetectStart(c, data) ==
  IF c.WakePolicy = "any" THEN Len(data) > 0
  ELSE \E i \in 1..Len(c.WakeSignatures) :
         LET s == c.WakeSignatures[i] IN Len(data) >= Len(s) /\ \A j \in 1..Len(s) : data[j] = s[j]

\* NewPterodactylClient refuses what Validate lets pass: a query or fragment
\* in the URL, a server ID that does not fit into a path.
ClientAccepts(c) ==
  PanelURL(c.BaseURL) /\ c.BaseURL.extra # "query" /\ c.APIToken # "blank" /\ c.ServerID = "safe"

\* newBackendReadiness; without an address of its own A2S asks the backend's.
ReadinessAccepts(c, backend, dns) ==
  CASE c.BackendReadinessMode = "delay" -> TRUE
    [] c.BackendReadinessMode = "pterodactyl" -> c.StartupPollInterval > 0
    [] c.BackendReadinessMode = "a2s" ->
         /\ c.StartupPollInterval > 0
         /\ IF c.BackendReadinessAddr = "empty" THEN backend \notin {"empty", "nohost"}
            ELSE Resolve(c.BackendReadinessAddr, dns) # "bad"
    [] OTHER -> FALSE

\* New and NewStore.
NewAccepts(c) ==
  /\ c.MaxPacketSize >= 1 /\ c.IdleTimeout > 0 /\ c.AutoStopDelay > 0
  /\ c.StartupTimeout > 0 /\ c.StartupPollInterval > 0
  /\ c.StartupPollInterval < c.StartupTimeout /\ c.StartupSettleDelay >= 0
  /\ c.StartupBufferPackets >= 1
  /\ c.StartupBufferBytesPerSession >= c.MaxPacketSize
  /\ c.StartupBufferBytesGlobal >= c.StartupBufferBytesPerSession
  /\ c.MaxSessions >= 1

\* New: half the idle timeout, at least a clock unit, at most five seconds.
SweepInterval(c) ==
  LET half == c.IdleTimeout \div 2 IN
  IF half <= 0 THEN 1 ELSE IF half > 5 * Second THEN 5 * Second ELSE half
=============================================================================
