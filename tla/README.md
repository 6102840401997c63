# A TLA+ model of game-server-snooze

`game-server-snooze` is a UDP proxy in front of a Palworld server run by a
Pterodactyl panel. It starts the server when a player knocks, buffers the
player's datagrams until the server is ready, forwards traffic, and stops the
server when nobody has played for a while. This directory models the parts of
the program where that can go wrong, checks them with TLC on small instances,
and proves every safety property the runs check, and the refinements, with TLAPS for
every instance.

## Inventory

| Component | State | Operations | Hard behaviour |
|---|---|---|---|
| Orchestration core, `pkg/proxy/proxy.go` | gate (`backendReady`, `readinessGeneration`, `backendRunning`), startup (`startupRunning`, `startupGeneration`, cooldown), queues and byte counters, stop timer and its generation, `shuttingDown`, three locks, two WaitGroups | `Serve`, `handleClientPacket`, `startServer`/`ensureRunning`, health monitor, sweeper, watchers, auto-stop callbacks, `shutdown` | six kinds of goroutine share it; values are read in one critical section and used in the next; timers fire while they are being stopped |
| Session store, `pkg/session/store.go` | map from endpoint to session | `GetOrCreate`, `Get`, `Len`, `Remove`, `ExpireIdle`, `CloseAll` | counts returned under the lock are used after it; sessions leave the map before they are closed |
| Session, `pkg/session/session.go` | `closed`, `lastActivity`, socket, context, `done` | `ForwardClient`, `RecordActivity`, `TryExpire`, `Close`, `readBackend`, `watchContext` | expiry against activity; several closers meeting in one `Once` |
| Panel client, `pkg/server/pterodactyl.go` | none | `Status`, `Start`, `Stop` | ambiguous failures, permanent against transient errors |
| Readiness, `pkg/readiness/` | per call: socket, query, attempts | `Probe`, `WaitReady` of the A2S and the panel probe | lost, late and duplicated answers, a backend that restarts between challenge and echo, a context that ends |
| Wake detector, `pkg/games/palworld.go` | diagnostic limit | `NewConfiguredPalworldGame`, `DetectStart` | signatures that match too much |
| Configuration, `pkg/config/config.go` | none | `LoadConfig`, `DefaultConfig`, `Validate` | limits that other parts rely on and test again |
| Application, `cmd/main.go`, `pkg/proxy/health.go` | ready flag, two listeners, two result channels, shutdown deadline | `run`, `/healthz`, `/readyz` | setup that fails half-way; several reasons to end at once; a deadline of five seconds against a stop request of ten |

The core calls the panel and the probes, owns the store, and is the only caller
of sessions. A session reports its end through its `done` channel to the
watcher, and to whoever waits in `Close`. The application only cancels the
context. What makes each part correct: a stop never meets a player, no startup
or queue is lost or doubled, limits hold, shutdown ends and leaves nothing
(core); an endpoint has one session and the bound holds (store); activity,
expiry and closing do not contradict each other and `Close` ends (session); a
verdict is about the time of the call and a wait ends (readiness); an error says
no more than is known (panel client); what is accepted can be built
(configuration); nothing is left open and no failure is lost (application).
PROJECT.json lists the hazards, each at its line, with the properties for it.

## Modules

| Module | What it is |
|---|---|
| `Proxy` | the core and the store: state, one action per critical section, `Next`, `Spec` |
| `ProxyProperties` | types, safety, action and liveness properties, fairness, the inductive invariant, the refinement mapping |
| `SnoozeContract` | what the core promises: gate, one power request, active sessions |
| `MCProxy` | constants, symmetry and view for TLC |
| `Session` | one session from inside |
| `SessionContract` | its life as `Proxy` sees it: open, closing, done |
| `MCSession` | constants for TLC |
| `ReadinessCall` | a call of `Probe` or `WaitReady`, its context, and the backend it asks about |
| `A2SProbe` | the A2S probe, the game server and the datagrams between them |
| `PterodactylClient` | `Status` and `power`, the panel, and the exchange between them |
| `PterodactylProbe` | the panel probe |
| `Readiness` | the composition of the four, with properties and fairness |
| `ReadinessContract` | what the core may rely on when it calls a probe |
| `Config` | defaults, overriding, `Validate` and the tests of the constructors, as operators |
| `App` | `run`, the health server and the outline of `instance.Serve`; uses `Config` |
| `MCReadiness`, `MCApp` | constants for TLC |
| `ProxyTypeProofs`, `ProxySafetyProofs`, `ProxyTimerProofs`, `ProxyQueueProofs`, `ProxyResourceProofs`, `SessionProofs`, `ReadinessProofs`, `AppProofs` | theorems and proofs |

### How Proxy corresponds to the code

Variables carry the names of the struct's fields. `admission` and `forwarding`
say who holds `admissionMu` and `forwardingMu`, which the code keeps across calls;
a critical section of `mu` or of the store's lock is one step. Only the ingress
takes `forwardingMu` for reading, so the read lock excludes everybody, as a
plain mutex would. Every goroutine has a program counter: `pc`/`req` for Serve and
the datagram in its hand, `startups`, `monitor`, `sweeper`, `watcher`, `callbacks`.
A program counter stands wherever the code can be overtaken: before a lock,
between two critical sections, during a call of the panel or a probe, while it
waits for `Session.Close`.

A session is named by the number of the datagram that created it, a datagram is
its number, its size and whether the detector accepts it. The panel and the
probes answer anything the constants list, in any order. Time is what is
compared with it: the cooldown is a flag that may end at any moment, an armed timer
may fire at any moment, and a session is idle when it was not touched since the
sweep began. One assumption about time is made (`Admitting`): the ingress does
not take longer than `IdleTimeout` between creating a session and forwarding its
first datagram, a stretch in which it waits only for locks.

`streak`, `gaveUp`, `quiet` and `sent` are history: no action of the code reads
them. `streak` counts the unavailable results in a row that belong to the generation of
the open gate; a late result of an older one ends the row, as `record` does. Definitions whose comment says mutant are plausible slips of the code,
used to see that each property can fail; no action uses them.

### How Session corresponds to the code

One step per mutex, atomic, `Once` or socket operation. Callers run any method at
any time and again after it has returned. The clock is whether activity was stored
after the cutoff a caller of `TryExpire` holds. `ImplementsLife` includes the
fairness of `SessionContract`, which is what `Proxy` assumes when it makes
`SessionEnds` fair, so the two modules fit together.

### How Readiness corresponds to the code

`mode` is the probe `newBackendReadiness` has built. One call runs at a time, with
a context that may be done from the start or end at any moment. The steps of the A2S
probe are dial, write, read and the wait for the retry timer; its socket lives as
long as the call, so what arrives later is gone. The server answers a plain query
with info or a challenge, and a challenge it has not drawn with the right one or
not at all; it draws a new one whenever it starts. `answers` counts unread copies, from which any may
be read next: that is loss, delay, duplication and reordering. A datagram that is
neither a complete info nor a challenge makes `A2SReadFails` possible at any time.

`Status` is one request whose response is a code and a body; `StatusOf` is the
code's classification. `power` runs at the same time on behalf of a startup or an
auto-stop, and may be carried out although its response is lost. What the codes
mean to the panel (`CodesAssumption`) is kept apart from what the client makes of
them (`Success`, `ClassifyHTTPError`), so that `PowerHonest` compares the two.

`seen` is history: whether the backend was up, was down, or the panel refused for
good at some moment since the call began. `ReadinessContract` gives each verdict its reason in these terms.

### How Config and App correspond to the code

A setting is what the code tells apart: an address is what it parses and resolves
to, a URL its scheme, host and extras, a text whether it is empty, blank or safe;
numbers, durations and signatures are themselves. `Override` puts given values
over others, first the file's over the defaults, then the environment's.

`App` has one step of `run` for each thing it builds or waits for; a step that
fails does what the deferred calls do. `dns` is what a host name resolves to; it may
change between `LoadConfig`, `run` and `net.Listen`, which each resolve again.
`instance.Serve` is here what `run` sees of it: it serves, ends with the context or
with a read error, waits for a stop request in flight, and returns. The timeouts are
counted in ticks of a second.

A request to `/readyz` takes three steps, connecting, the handler's load of the flag
and the write of the answer, and anything may happen between them; `http.Server.Shutdown`
waits for all three. A further request on a kept-alive connection is a new `Connects`.
`asked` is history, what the proxy was doing when the client connected, and so are
`waited` and `renamed`.

## Runs

| Run | Instance | Shows |
|---|---|---|
| `proxy_churn` | 3 datagrams, 1 endpoint, sessions fail at any moment, starts and stops that succeed or fail | no stop meets a session or an interrupted quiet period; auto-stop stays armed; timers are accounted for; no stranded or orphaned queue; queue accounting; refinement of `SnoozeContract` |
| `proxy_background` | 2 datagrams, sweeper and monitor tick, inconclusive probes, starts and stops that succeed or fail | types and limits, start against stop, no write through a closed gate, confirmed loss only, waiting sessions are not expired |
| `proxy_shutdown` | 2 datagrams, errors, cancellation and listener failure at any moment | no stop in shutdown, nothing left after `Serve`, one startup, and `Inductive`, the invariant of the proofs |
| `proxy_limits` | 3 symmetric endpoints, 4 datagrams of 1 or 2 bytes, 2 sessions, buffers of 2 packets, 2 and 3 bytes, every answer of the panel, failing dials | queue accounting, session bound, order of delivery, quiet cooldown |
| `proxy_live` | 1 datagram, errors and shutdown, no view | a cancelled `Serve` returns, queues are resolved, an idle backend is stopped |
| `session` | 3 callers | activity, expiry, `Close`, refinement with fairness |
| `readiness` | both probes, 2 challenges, up to 2 unread copies of an answer, every class of status code with its limits | every verdict has its reason (refinement of `ReadinessContract`); power requests are reported honestly; a done context ends the call; once the backend is up to stay, a wait ends |
| `application` | files and environments that each change one setting of a good configuration to a value next to a limit; timeouts of 5, 10 and 5 ticks | what `LoadConfig` accepts suffices; every exit is accounted for; `/readyz` says ready only to who asked between `SetReady(true)` and `SetReady(false)`, however late the answer, and not ready only outside of that time; `run` returns |
| `replacement_lost_stop`, `readyz_shutdown`, `wake_without_client`, `early_stop` | smallest instance with the case | the disagreements below |

Bounds. `MaxPackets` bounds the datagrams and with them the sessions: two of one
endpoint are needed for a session that succeeds another, a third for one that
meets the leftovers of both. Two stop attempts and two confirmations (three in the
code) give a first, a last and a repeated one. `MaxStartups` bounds the restarts
before shutdown of a startup that finds its context cancelled. In the safety runs it
is 100 and is never met; in `proxy_live` it is 2. It must not be 1 there: the boot
startup already uses that one, and a datagram queued just before it completes
would wait for a restart the bound forbids. With 3 the result is the same.
Sessions do not fail in `proxy_limits`, so there no watcher removes a queue that holds
datagrams; that case of `QueueAccounting` is in `proxy_churn`, with one endpoint.

Two challenges are the one a probe holds and the one of a server that has restarted
since; two copies are an answer and its duplicate. `MCApp` pairs every value next
to a limit of `Validate` from the file with every one from the environment, which
covers the tests that relate two settings; a second is ten units, so that the
limits given in seconds have neighbours. The timeouts are the code's own.

View. A generation is only compared for equality with its counter, so two states
that agree on which generations in use are current behave alike, whatever the
counters' values. The safety runs use that as a VIEW (`GenerationView`), without
which the counters make the state space infinite; the liveness run does not.
Every property these runs check reads generations only through such comparisons.

Fairness. Weak fairness for every goroutine that can go on: the Go scheduler runs
it, and a mutex that stays free is granted. HTTP client and probes time out, so an
answer comes; an armed timer fires. Strong fairness three times: a startup that
keeps polling meets its deadline (`StartupTimesOut`), a `select` with a cancelled
context takes that branch eventually although its ticker keeps ticking
(`ContextEnds`), and `sync.Mutex` does not starve the one who closes a session
(`SetsClosed`). Nothing is assumed of clients, tickers or answers. The read loop is not
made fair: a client may fall silent.

In `readiness` calls, game server and panel are weakly fair. The network owes
nothing before `stable`: `WaitResolves` speaks of a time from which the backend
stays up, nothing more is lost, and a round trip is shorter than the poll interval
(otherwise no probe can succeed). `CallEnds` needs none of that. In `application`
goroutines are scheduled and time passes; a tick passes only when nobody can go on
at once, that is, computing takes no time next to the seconds of the deadlines.
The deadlock check is off there, because the process ends.

## What the runs found

- **A lost auto-stop** (`replacement_lost_stop`, proxy.go:247). The ingress finds
  the endpoint's session dead, removes it from the store and cannot dial a new one.
  The watcher then finds nothing to remove, and nobody schedules the stop.
- **Ready while shutting down** (`readyz_shutdown`, main.go:142). After a signal, or a read
  error, `Serve` closes the UDP socket, while `/readyz` answers 200 until `run` reaches
  `SetReady(false)`: up to ten seconds when a failing `Serve` waits for a stop request.
  FR-024 and the health contract want 503 from the beginning of the shutdown. `ReadyzHonest`
  says what does hold, and for a client that asks in that window it allows either answer.
- **A start without a client** (`wake_without_client`, proxy.go:195). Running at the
  first query and offline at the second leads to `Start` with no datagram received.
- **An early stop** (`early_stop`, proxy.go:319). A watcher that schedules late arms
  the timer while the next session is active. The stop is still sent only with
  nobody there (`NoStopWhileActive`), but less than a full delay after that session.

Two more were met without a run of their own. Delay mode at boot (proxy.go:189): without a
readiness probe a running backend's gate is opened and no auto-stop scheduled until a
session has come and gone, although the repository's README.md:3 has it keep "the expensive
backend stopped when no sessions are active"; `HasReadiness = FALSE` in `proxy_churn.cfg` makes
`AutoStopArmed` fail right after boot. And `NewPterodactylClient` refuses a server
identifier and a URL with a query that `Validate` accepts, so `ConfigurationSuffices`
leaves the "controller" error out.

Everywhere else the properties hold. `AutoStopArmed` in `proxy_churn` is checked
with a dial that does not fail and with a readiness probe, which excludes the lost
auto-stop and delay mode at boot.

## Proofs

All proofs are for every value of the constants, from the assumptions stated with
them: `OptionsAssumption` (what `New` and the configuration enforce) for the core,
`ProcessAssumption` (processes are distinct), `A2SAssumption` and `CodesAssumption`
(queries and answers can be told apart; the panel's codes lie in their classes),
`InputAssumption`, `TimeoutAssumption` and `SecondAssumption`.

The proofs about the core are layered: each module extends the one before it and adds
parts to the invariant, and the parts together are `Inductive`, which the run
`proxy_shutdown` checks on its instance and `InductiveAlways` proves.

- `ProxyTypeProofs`: `TypeCorrect`. `TypeOK` is not inductive by itself, because
  queues and the store receive what the ingress has in hand. `RequestOK`, that a
  datagram being handled is real, goes with it.
- `ProxySafetyProofs` (`PowerInv`): `StopOnlyWhenIdle`, `PowerExclusive`,
  `StartupSingleFlight`, `AdmissionCreates`, `ShutdownSendsNoStop`,
  `ProxyImplementsContract`. The argument: `admissionMu` has one holder
  (`AdmissionOwned`); `CloseAll` works only for a holder that waits for it
  (`CloseAllOwned`), so with the lock free every open session is in the store
  (`SessionsTracked`). Hence a callback that sees an empty store under the lock
  knows that no session is open, and none can be created until it unlocks
  (`StopJustified`). A startup under way is alone and behind a closed gate until it
  opens it (`StartupAlone`), while a stop needs an open one, so they exclude each
  other. `KeyHeld` says that under the lock a key can be vacated, never filled, so the
  second look-up still holds when the session is stored (`NoDuplicateKey`, proved and not run). From
  the same invariant every step maps to a step of `SnoozeContract` or to a stutter,
  and `ContractPowerSafe` says what the contract means for power.
- `ProxyTimerProofs` (`LockInv`, `TimerInv`, `HealthInv`): `SendsOnlyWhenReady`,
  `StopUninterrupted`, `TimersAccounted`, `LossIsConfirmed`. The locks are owned in
  both directions: who is in a section holds the lock, and a lock that is held has
  somebody in a section (`ForwardingOwned`, `AdmissionReturned`), so nobody closes the gate
  between the ingress's test and its write. One timer or callback at most belongs to a
  generation, and the armed one to the current generation (`TimersCurrent`); that makes
  the WaitGroup a cardinality (`TimersCounted`) and a callback that a session has
  interrupted one of an old generation (`InterruptionEnds`). Failures counted for
  the gate's own generation are at most the failures in a row (`HealthInv`).
- `ProxyQueueProofs` (`SessionInv`, `QueueInv`) has the lemmas about sessions and queues.
  `OtherSteps` and `IngressSteps` sum up what a step may do to them: sessions age, watchers
  age with them, queues only shrink unless the ingress enqueues, keys are only vacated
  unless it admits. A session is watched from its creation on and enqueued for only while it
  is not done (`SessionsWatched`), so no queue outlives its clean-up; the datagram in hand is
  newer than every number written or queued (`QueuesNumbered`), so appending keeps the
  order; queues exist only behind a closed gate (`QueuesGated`), and a startup that ends
  without opening it clears them or restarts; the cooldown begins under both locks with
  `CloseAll` and lets no session in (`CooldownHolds`). While `CloseAll` is closing what it took out,
  the store is empty (`StoreBounded`): that bounds the sockets and not only the map.
- `ProxyResourceProofs` (`EndInv`, `ScheduleInv`, `QueueAccounting`): `InductiveAlways`,
  `QueuesWatched`, `QueuesServed`, `DeliveredInOrder`, `CooldownIsQuiet`, `SocketsBounded`,
  `BytesAccounted`, `ServeReturnsClean`, `PendingKept`, `SessionsLive`, `IdleBackendArmed`. The byte
  counters need facts about sums over finite sets. The library's induction theorems cannot be
  used by the installed provers, because they take an operator; a finite set of counterexamples
  has a smallest one (`SmallestSubset`, from the well-founded subset relation), and that
  form gives existence, uniqueness and additivity of the library's sum. `EndInv`: what each
  wait at the end of `Serve` has seen stays so. `SessionsLive`: the sessions inside `Proxy` take
  only steps of `SessionContract`, as `SessionLife` shows of a session from inside. `IdleBackendArmed` has two hypotheses, a
  readiness probe and dials that succeed. They are the two cases in which the code really loses
  the stop (delay mode at boot, `replacement_lost_stop`); in all the others whoever empties the store
  under an open gate, or opens the gate over an empty store, is going to schedule.
- `SessionProofs`: the four invariants of `Session` for any number of callers, and the
  steps of `ImplementsLife`. The invariants need each other and two more facts: who
  has tested `closed` under `activityMu` holds it until it has acted (`Owned`), and
  `closed`, socket, `Once` and `done` change in this order (`Ordered`).
- `ReadinessProofs`: `ReadinessTypes`, `PowerAlwaysHonest`, `ReadinessImplemented`. The
  refinement rests on `SeenInv`, that a received info or status is about a moment of
  this call; it is inductive only with `IdleInv` (no call, nothing received) and
  `ModeInv` (which probe may be where).
- `AppProofs`: `ValidateSuffices`, about every configuration there is and not only the
  ones TLC tries; `ConfigurationAlwaysSuffices`, `ExitAlwaysAccounted`,
  `ReadyzAlwaysHonest`, `TypeCorrect`. `ReadyInv` follows a request: a flag loaded as true was
  loaded after `SetReady(true)`, by a client that found the proxy up or its socket just closed,
  and it stays so until the answer is written, whatever `run` does meanwhile. `Control` ties listeners, servers and the readiness flag to where
  `run` is, `ConfigInv` and `UseInv` carry `Validate`'s verdict from `LoadConfig` to
  where the values are used, `Ranges` bounds the clocks.

Only model-checked: liveness and the fairness part of `ImplementsLife`, which are out of
TLAPS's reach (`ShutdownCompletes`, `QueuesResolve`, `IdleBackendStops`, `CloseEnds`,
`CallEnds`, `WaitResolves`, `RunEnds`), and with them freedom from deadlock, which speaks of
what is enabled. The four disagreements above are counterexamples and need no proof.

## Not modelled

Logging, its rate limits and log levels, the detector's limited diagnostic log among
them; the text of errors and the redaction of secrets; the byte layout of an A2S
answer and of YAML; the `healthcheck` subcommand, a single HTTP request of another
process; what `Serve` returns beyond whether it was cancelled.

## Plan

1. Done: core, store and session with their properties, first theorems, refinement.
2. Done: panel client, both readiness probes and their contract; configuration;
   application and health endpoint; proofs about each of them and about the session.
3. Done: proofs of every safety invariant and action property of the core that a run checks.
4. Left: a form of `AutoStopArmed` that covers delay mode and failing dials by naming the two lost cases in
   the state; facts that bring the liveness arguments closer, such as a measure that shutdown
   decreases.
