------------------------------- MODULE MCApp -------------------------------
(* Model checking the application: config.yaml gives what has no default   *)
(* and may change one value, the environment may change another.  Every    *)
(* value tried is next to a limit of Validate.                             *)
EXTENDS App, TLC

Required ==
  [ServerAddr |-> "host", BaseURL |-> [scheme |-> "https", loopback |-> FALSE, extra |-> "none"],
   APIToken |-> "set", ServerID |-> "safe"]

Values ==
  [ListenAddr |-> {"name", "bad", "empty"}, ServerAddr |-> {"empty", "nohost", "unspecified", "loopback", "name"},
   MaxSessions |-> {0, 1}, MaxPacketSize |-> {0, 1, 65506, 65508}, Game |-> {"other"},
   AutoStopDelay |-> {-1, 0, 1}, IdleTimeout |-> {-1, 0, 1}, StartupTimeout |-> {0, 1, 2 * Second, 2 * Second + 1},
   StartupPollInterval |-> {0, 1, 300 * Second - 1, 300 * Second},
   StartupSettleDelay |-> {-1, 0, 2 * Second, 300 * Second},
   StartupBufferPackets |-> {0, 1}, StartupBufferBytesPerSession |-> {65506, 65507, 4194305},
   StartupBufferBytesGlobal |-> {65507, 262143, 262144},
   WakePolicy |-> {"any", "other"},
   WakeSignatures |-> {<< >>, << << >> >>, << <<1>>, << >> >>, << <<1>>, <<1, 2>> >>},
   DiagnosticPrefixBytes |-> {0, 1, 32, 33}, HealthAddr |-> {"name", "host", "nohost"},
   BackendReadinessMode |-> {"a2s", "delay", "other"}, BackendReadinessAddr |-> {"host", "name", "bad", "unspecified"},
   BaseURL |-> Settings.BaseURL, APIToken |-> {"blank"}, ServerID |-> {"blank", "unsafe"}, LogLevel |-> {"debug", "other"}]

Changes == UNION {{f :> v : v \in Values[f]} : f \in DOMAIN Values}
NoChange == [f \in {} |-> 0]

MCFiles == {NoChange, Required} \cup {c @@ Required : c \in Changes}
MCEnvs == {NoChange} \cup Changes

\* One good configuration, for a question about the end of run alone.
OneFile == {Required}
NoEnv == {NoChange}
=============================================================================
