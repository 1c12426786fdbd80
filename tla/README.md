# TorRotatingHttpProxy: a TLA+ verification project

TorRotatingHttpProxy is one Go binary that runs `TOR_COUNT` Tor clients, checks the exit
address of a circuit of each, and hands verified circuits to the requests of an HTTP
proxy. In unique mode (`UNIQUE_IP=true`, the default) an address serves one request or
tunnel, ever; in reuse mode a verified circuit serves concurrent requests until one of
them fails. All paths below are relative to `src/internal/app/` unless they start with
`src/`.

## 1. Inventory

| Component | Files | State | Operations | What makes it hard | What makes it correct | Module |
|---|---|---|---|---|---|---|
| Address history | `store.go` | table `ips(ip, used)`, SQLite WAL | `OpenStore`, `Observe`, `Consume`, `Counts`, `List` | a failed call may have committed; survives restarts and mode changes | `used` never goes back; `Consume` succeeds at most once per address in unique mode | `Store` |
| Lease scheduler | `pool.go` | slots (state, endpoint, failures), reservations, round-robin pointer, counters, notify channel; endpoint fields `lastErr`, `active`, `done` | `publish`, `Acquire`, `acquireLocked`, `acquireReuseLocked`, `Lease.Finish`, `finishReuse`, `withdraw`, `reuseActive`, `consecutiveFailures` | three parties (worker, calls of Acquire, late Finish calls) plus cancellation that needs no lock | one user per circuit in unique mode, exact reservations, no lost wake-up, no lost instance, fair turns, balanced counters | `Pool` |
| Cycle | `tor.go:347-494` | phase of the worker, its endpoint | `cycle`, `cycleReuse`, `drainReuse` | `done`, the circuit and the control connection end in any order; `lastErr` is read without the lock | a circuit is withdrawn exactly once, drained first in reuse mode, replaced in the end | `Pool`, `TorInstance` |
| Instance supervision | `tor.go:134-345` | Tor child, control connection, data directory, back-off, used-IP streak | `RunWorkers`, `runTor`, `superviseTor`, `resetInstanceData` | shutdown, death of Tor and loss of the control connection at any point | the child is reaped before restart, wipe and end; the used-IP policy is exact; shutdown ends | `Worker`, `TorInstance` |
| Stream attachment | `tor.go:30-132` | current endpoint of a session, set of internal streams | `setEndpoint`, `events` | a late stream of an earlier circuit; an event before `setEndpoint` | a stream is attached only to the circuit whose token it carries; a dead circuit is not served on | `Session` |
| Control connection | `control.go` | command token, reply buffer, event queue, `done` | `command`, `readLoop`, `Close` | replies matched by order only; time-outs; overflow | a reply answers its command or the connection is closed; no event is lost | `Control` |
| Proxy front end | `proxy.go:87-331` | per request: attempt, last error, "dialed", "responded" | `ServeHTTP`, `serveForward`, `serveConnect`, `forwardAttempt`, `connectAttempt` | failover after partial progress | no replay once the body may have left; each lease finished once; no retry after a response | `Proxy` (over `Pool`) |
| Bounded listener, shutdown | `proxy.go:356-412`, `run.go` | set of tracked connections, server state | `Accept`, `Close`, `closeConnections`, `Run` | accept racing close; several owners of one socket; wait order | never more than the limit; every registered connection closed at the end; `Run` returns | `Shutdown` |
| Idle deadlines, tunnels | `proxy.go:17-85`, `proxy.go:314-354` | deadline, caller's limits | `touch`, `SetDeadline`..., `guardConnection`, `relayTunnel` | two directions share one deadline; two wrappers are nested | traffic in either direction keeps both alive, the caller's limit wins, both copies end together | `Tunnel` |
| Load tester | `loadtest.go` | state, counters, 128 request slots | `Start`, `Stop`, `Wait`, `run`, `record` | `Stop` and `Start` racing the end of a run and shutdown | counters balance; one run at a time; `Wait` returns and nothing runs after it | `LoadTester` |
| Dashboard | `web.go`, `static/app.js`, `store.go:85-117` | page, request number, pending flag; 32 viewer tokens | HTTP handlers, history paging, event stream | answers out of order; workers write between two statements | the newest answer wins, with its own total; the page converges | `History` (paging; the event stream is not modelled) |
| Configuration, logging, CLI | `config.go`, `src/cmd/torproxy/main.go` | none after start | parsing | nothing concurrent | | not modelled |

### How they interact

* A **worker** (one goroutine per instance) runs `RunWorkers` > `runTor` > `superviseTor` >
  `cycle`. A cycle builds a circuit, checks its address and calls `Pool.publish`, then waits
  for `endpoint.done`, the endpoint's context or the control connection, and calls
  `Pool.withdraw`.
* `torSession.events` (one goroutine per session) cancels the endpoint's context when Tor
  reports the circuit gone, or when the control connection is.
* The **proxy** calls `Pool.Acquire`, dials through the lease and calls `Lease.Finish` with the
  result. `Finish` updates the slot under the pool lock and closes `endpoint.done` after it.
* `Pool` calls `Store.Observe` and `Store.Consume` with the pool lock held; the database is
  the only state that survives the process.
* `torSession.events` and `cycle` both send commands over the one control connection; its
  reader feeds the events one of them waits for and the replies both wait for.
* `Run` starts the workers, the two servers and the load tester, and when one of them or a
  signal ends it, cancels, closes the servers, sweeps what they let go of and waits.
* The load tester is a client of the proxy; the dashboard reads snapshots and pages through
  the table while workers write it.

## 2. Plan

The order is that of importance: what the project promises about addresses, then the worker
that keeps instances alive, then the front end, then what surrounds them.

1. `Store`, `Assignment` (abstract promise), `Pool`: **done**, with `PoolProofs`.
2. `Worker`: **done**, with `WorkerProofs`.
3. `Proxy` over `Pool`, each handler taking the pool's own steps: **done**, with `ProxyProofs`,
   which show that the front end is one of the environments `Pool` is proved for.
4. `Control` and `Session`: **done**, with `ControlProofs` and `SessionProofs`.
5. `Shutdown`, `LoadTester`, `Tunnel`, `History`: **done**, with `ShutdownProofs`, `TunnelProofs`
   and, for the last two and the paging of the store, `DashboardProofs`.
6. The service side of `Pool` (`NoInstanceLost`, `LeasesCounted`, `NoCloseUnderLease`) and the
   events of `Session` (`DeathKnown`, `InternalLeftAlone`): **done**, each with a second inductive
   invariant.
7. `TorInstance`, what `Pool` and `Worker`, which are modelled apart, assume of each other: **done**,
   both proved to implement it.
8. Left: the event stream of the dashboard with its 32 viewers.

## 3. Modules

### `Store` (`store.go`)

`ips[a]` says what the table says of address `a`: `"absent"`, `"unused"` or `"used"`.
`Observe`/`ObserveFails` and `Consume`/`ConsumeFails` are the outcomes of the two calls; an
error leaves open whether the statement committed. The module has no behaviour of its own;
`Pool` takes these steps under its lock as the code does. `StoreInit` allows any table, so
every run starts on the history of any earlier process.

### `Assignment` (abstract)

What a user is promised: `Grant` hands an address to a call at most once and puts it on
record; in unique mode it was not on record before. `Spend` records an address without
granting it (the call failed after the commit). `Restart` may change the mode.

### `Pool` (`pool.go`, `tor.go:347-494`)

Each step is one critical section of `Pool.mu`, or one of the steps the code takes outside
the lock: `close(ep.done)` (`CloseDone`), a branch of a `select`, the cancellation of a context
(`CircuitLost`), the loss of the control connection (`ControlLost`), the death of the process
(`Crash`).

| Variable | Code |
|---|---|
| `slot[i]` | `Pool.slots[i]`: `view.State`, `ep`, `fails` (saturates at `MaxFailures`, the only value it is compared with) |
| `reserved`, `next`, `count` | `Pool.reserved`, `Pool.next`, the four counters |
| `ep[e]` | the fields of an `endpoint`; identities are reused once nothing refers to them |
| `phase[i]`, `cur[i]`, `verdict[i]`, `lost[i]` | where the worker is in `cycle`/`cycleReuse`, its `ep`, what it concluded from the result, `ctrl.done` |
| `client[c]`, `lease[c]` | a call of `Acquire` and the lease it returned |
| `unique`, `ips` | `UNIQUE_IP` of this process, the table |
| `granted`, `bypass`, `tried` | history variables, read by properties only (`tried` by `RotationTried` alone) |

| Action | Code |
|---|---|
| `StartCycle`, `CheckFails` | `cycle` up to `publish`, and its error returns |
| `PublishReady`, `PublishRefused`, `PublishFails` | the three outcomes of `publish` |
| `DoneSeen`, `Interrupted`, `Judge`, `Drained`, `Withdraw` | the `select`, the test of `lastErr` and `fails`, `drainReuse`, `withdraw` and return |
| `ControlLost`, `NewSession` | `ctrl.done`, in a cycle or between two, and the new session of the restarted Tor |
| `CallAcquire`, `GrantUnique`, `GrantReuse`, `ScanFails`, `ScanFindsNone` | a scan under the lock with its outcome |
| `Rescan`, `TimerFires`, `DeadlinePassed`, `ContextEnds`, `CountRejected` | the `select` of `Acquire` and its exits |
| `FinishUnique`, `FinishReuse`, `FailReuse`, `CloseDone` | `Lease.Finish` in either mode, in two steps where the code leaves the lock |
| `Crash` | the end of the process; the next one starts on the same table |

Left out: what only the dashboard reads (labels between cycles, events, revision), the
bytes of addresses, circuit identifiers and tokens.

### `Worker` (`tor.go:134-345`)

One instance: `pc` is the position in `RunWorkers` / `runTor` / `superviseTor`; `child`, `ctrl`
and `data` are the Tor process, the control connection and the data directory; `streak`,
`fails`, `backoff` and `retry` are the counters of the code. Of a cycle only what it returns is
modelled: it ends without having served (`CycleEnds`), or its circuit is done and the result is
read off `slot.fails` (`Judge`) before the circuit drains and is withdrawn (`Withdrawn`); `Pool`
opens it. Leases of this or of earlier circuits may finish at any moment (`LeaseFinished`). The
environment may shut the application down, kill Tor, or break the control connection at any
moment. `bootEnd`, `rebuild` and `usedRun` are history variables; `rebuild`
remembers that a start from scratch is owed over attempts that fail with another error.

### `TorInstance` (abstract)

One Tor instance as `Pool` and `Worker` both see it: whether a cycle is under way, whether the
control connection is gone, `slot.fails`, and what the cycle concluded from it. A cycle begins on
a living connection, which is replaced only between two cycles; a lease may finish at any moment;
a cycle is judged at most once, and as a case for a rebuild only with the failure limit reached.
`Pool!TorSpec` says so of each of its slots, `Worker!TorSpec` of the one instance it has. With
both, what `Pool` takes for granted of its workers is what `Worker` does, and the results of
cycles in `Worker` are some that `Pool`'s cycles have.

### `Proxy` (`proxy.go:87-331`), composed with `Pool`

`Proxy` extends `Pool`. A request makes one call of `Acquire` after the other, at most `Size` of
them; its `k`-th call is the client `<<r, k>>` of `Pool`, and the handler takes the pool's own
steps (`CallAcquire`, `GrantUnique`, `FinishReuse`, `CloseDone`...) conjoined with its own. The
workers, `CircuitLost`, `ControlLost` and `Crash` go on beside it.

| Variable | Code |
|---|---|
| `kind[r]` | no body, a body, `CONNECT`, or a request `ServeHTTP` refuses |
| `handler[r]`, `attempt[r]` | where the goroutine is, the loop counter |
| `lastErr`, `dialed`, `err` | the locals of the loop and of one attempt |
| `answer[r]`, `body[r]`, `context[r]` | what was written, the state of `r.Body`, `r.Context()` |
| `reached`, `blamed` | history variables, read by properties only |

| Action | Code |
|---|---|
| `Arrive`, `StopLoop`, `NextAttempt` | `ServeHTTP`, the head of the loop and its two exits |
| `AcquireGoesOn`, `GetLease`, `NoneReady`, `AcquireFails` | `Acquire` and `acquireError` |
| `DialFails`, `DialSucceeds` | `DialContext` inside the transport, or `connectAttempt`'s dial |
| `ExchangeFails`, `ResponseBegins`, `ResponsePanics` | `RoundTrip` and `WriteHeader` in `forwardAttempt` |
| `HijackFails`, `TunnelBegins` | `connectAttempt` after its dial |
| `CopyEnds` | `io.CopyBuffer` or the relay, with its result |
| `FinishLease`, `CloseLease`, `AfterFinish` | `lease.Finish` in its two steps, and what the loop makes of the result |
| `ClientLeaves`, `Stop`, `ProxyCrash` | the context ends, or the process |

Two answers with different status but one meaning (502, 504) are one; headers are left out.
`net/http` is modelled by what it does to a request: it closes the body on every error of a
round trip, recovers a panic, and answers an empty 200 for a handler that wrote nothing.

### `Session` (`tor.go:30-132`, `tor.go:347-415`)

Generation `g` stands for a cycle, its circuit, its endpoint and its token. Tor opens, detaches
and closes streams and circuits (`InternalOpens` ... `CircuitDies`) and reports that once
subscribed; `TakeEvent`, `Attach`, `CloseStream`, `CommandFails`, `SessionEnds` are the loop of
`events`; `Subscribe` ... `WorkerEnds` are the parts of `superviseTor` and `cycle` that install
and remove endpoints. The decision to attach and the command are two steps, so that the worker
and Tor move in between. The IP check of a cycle opens a stream of its own, which may arrive
after the cycle has given up. Commands are executed and answered in one step, which is what
`Control` promises, and `LinkLost` stands for every reason the connection goes, an overflow of
the queue included. The death of a circuit is reported with the fate of its streams at once, in
any order (`Orders`, `Report`): nothing in the code relies on the one Tor chooses.

### `Control` (`control.go`)

Callers of `command` (`Request` ... `Fail`), the reader (`ReadEvent`, `ReadReply`, `Deliver`,
`ReaderStops`, `ReaderEnds`), `Close` in its two steps (`done` first, then the socket), the
wire in both directions, and Tor, which answers in order and may report or die at any moment. A
reply carries the call it answers, which the code cannot see; that is what `AnswersOwn`
compares. A malformed line is the action `StopReading` with `Garbage`. After a close the
reader may still go through what the scanner had buffered; what Tor sends later is never read.

### `Tunnel` (`proxy.go:17-85`, `proxy.go:314-354`)

One connection from its header to the end of its tunnel, on a clock of ticks. `Touched` is
`touch`; `ReadClient` and `WriteClient` show what the nesting of two `idleConn` does: a read goes
through the inner one, a write through both. `Arrive`, `Forward`, `PeerEnds`, `TimesOut`, `Broken`
are the two copies; `FirstResult` and `Return` are `relayTunnel`; `GuardFires` is
`guardConnection`; `Shutdown` is `closeConnections`. `age` and `since` are history variables.

### `LoadTester` (`loadtest.go`)

`Start`, `Stop`, `Wait`/`WaitReturns` as called; `Leave`, `Tick`, `Send`, `Skip`, `RunEnds` are the
goroutine `run`; `Finished`, `Record`, `Release` a request. The two identities of runs are used in
turn, so a run meets the remains of the one before.

### `Shutdown` (`proxy.go:356-412`, `run.go:57-78`)

`Connect` ... `HandOver` are the listener and the loop of `http.Server.Serve` around it; `Hijack`,
`CloseOwn`, `CloseEnds` a connection's goroutine (the socket is closed and the entry removed in
two steps); `Leave` ... `Return` are `Run` once something ended. `BackgroundEnds` is what `Worker`
(`ShutdownCompletes`) and `LoadTester` (`RunsEnd`) establish. `owed` is a history variable.

### `History` (`static/app.js:48-80`, `web.go:90-110`, `store.go:85-117`)

The page (`Refresh`, `ClickPrevious`, `ClickNext`, `Refilter`, and the four ways an answer is taken),
the handler of `/api/ips` (`Invalid`, `CountRows`, `SelectRows`, the two statements under `s.mu`)
and the workers, who write the table in between (`Write`, over `Store`). A slot of `requests` is
a request in flight; `newest` is the slot of the number `ipRequest`. `Page` gives each row that
the filter lets through its rank, as `ORDER BY` does, and takes the ranks `LIMIT` and `OFFSET`
choose. The search field acts like one more filter and is left out.

### `MCPool`, `MCProxy`

`Pool` and `Proxy` with the symmetry of their model values, for the runs that check safety
only; `MCProxy` also gives `Clients` its value.

## 4. Runs

| Run | Instance | Checks |
|---|---|---|
| `PoolModes` | either mode, changing at restarts, 2 instances, 2 addresses, 2 calls, 3 endpoint identities, rebuild after 2 failures | `LeaseExclusive`, `ReservationsExact`, `NoInstanceLost`, `NoLostWakeup`, `LeasesCounted`, `NoCloseUnderLease`, `BoundedBypass`, and `PromiseSpec`: `Pool` implements `Assignment` |
| `PoolFair` | either mode, 1 instance, 1 address, 2 calls, 2 endpoint identities, no symmetry | `RotationCompletes`, `AcquireReturns` |
| `Worker` | the code's constants 3 and 3 | `ReapedFirst`, `NoWipeOnShutdown`, `UsedPolicyExact`, `FreshMeansFresh`, `ShutdownCompletes`, `DeadTorReplaced` |
| `WorkerServe` | same | violates `ServeFailuresRebuild` (finding 1) |
| `Proxy` | either mode, 2 instances, 1 address, 1 request of any kind with 2 attempts, 1 endpoint identity, no symmetry | `OneLeaseAtATime`, `BodyOnce`, `NoSplice`, `RequestEnds` |
| `Tunnel` | `IDLE_TIMEOUT` 3 ticks, header limit 2 | `HeaderBounded`, `DownloadKeepsAlive`, `NoByteAfterReturn`, `EndsTogether` |
| `TunnelUpload` | same | violates `UploadKeepsAlive` (finding 2) |
| `LoadTester` | 3 request goroutines, 2 slots, 3 ticks a run | `Balance`, `StoppedIsFinal`, `CancelsOwn`, `RunsEnd` |
| `Shutdown` | 3 connections, limit 2 | `PlacesExact`, `SweptClean`, `RunReturns` |
| `Control` | 2 calls, a queue of 1 event, 3 events | `NoEventLost`, `AnswersOwn`, `CommandReturns` |
| `Session` | 2 generations, a user's stream, a stream of Tor itself, 2 checks, 2 waiting events | `AttachedToOwn`, `DeathKnown`, `InternalLeftAlone`, `StreamSettled` |
| `History` | 2 addresses, 1 row a page, 2 requests in flight, 3 clicks, 1 failure | `ShownIsAsked`, `Converges` |

**Bounds.** Two instances are what reservations, round robin and the scan of several slots
need; a third adds no neighbour of a new kind. Two addresses let both instances serve in unique
mode and contend for one; reuse mode excludes no sharing. Two calls are enough for two leases
on one circuit, for a lease beside a sleeper, and for two grants past a ready slot; the
theorems cover any number. A third endpoint identity lets a late `Finish` of an old circuit
meet two new ones. `fails` saturates at `MaxFailures` and `tried` at 2: the only values compared
with.

One request is enough for `Proxy`, whose properties speak of one request each; with two
instances it has a second attempt. The single endpoint identity makes the instances serve in
turn; safety with more is what `ProxyProofs` are for. `Tunnel`'s limits are small but different, so
that each can be the earlier one, and `IDLE_TIMEOUT` is long enough for a byte to arrive between
any two of its ticks. `LoadTester` has a goroutine more than slots, so that ticks are skipped.
`Shutdown` has a connection more than places. A queue of one event in `Control` overflows at the
second. Two generations in `Session` give a late stream a circuit to be mistaken for;
`MaxQueue` bounds what Tor adds of its own while events wait, not what the session causes.
`History` needs two pages to leave one, and two requests to overtake each other; `MaxClicks` lets
a user go forth and back once and change the filter.

`CHECK_DEADLOCK FALSE` stands where everything may be over: the goroutine of `Worker`, a
connection (`Tunnel`), the application (`LoadTester`, `Shutdown`), the control connection
(`Control`, `Session`). `Pool` and `Proxy` never stop, since a process may be restarted, nor does
`History`, whose status events go on.

**Fairness.** `Pool!FairSpec`: weak fairness of each worker and of each call, since
goroutines are scheduled and no critical section blocks for ever; strong fairness of the
deadline, since it is absolute, so a call that returns to its `select` again and again finds
it passed; weak fairness of `Finish`, which assumes that connections end: `IDLE_TIMEOUT`
bounds silence, not a tunnel that keeps talking. `AcquireReturns` does not rest on the last
one; `RotationCompletes` in reuse mode does, and shows what `drainReuse` depends on. It asks for the
next check or, when the control connection goes first, for the worker to have come back from the
cycle: `Worker` then takes over (`DeadTorReplaced`).
`Worker!FairSpec`: weak fairness of the goroutine's own steps, of the end of a cycle once the
application stops or the control connection is lost, and of noticing that a dead Tor closed
its end of the control connection. A bootstrap always ends because of `BOOTSTRAP_TIMEOUT`.
`ProxyFairSpec`: the handlers and workers, and the deadline as in `Pool`; dials and headers are
bounded by `CONNECT_TIMEOUT`, and that a copy ends is the same assumption about the peers.
`Tunnel!FairSpec`: time passes, and a call returns once its socket is closed or its deadline has
passed; nothing is assumed of the peers. `LoadTester!Spec`: a request ends because the client has
a time-out and a context. `Shutdown!Spec`: `Run`, the background and the second half of a `Close`
go on; no connection has to end by itself and no client has to leave. `Control!FairSpec`: the
reader and the callers are scheduled and a living Tor answers; strong fairness of taking the
token, since a Go channel serves its waiters in turn; no time-out is needed. `Session!FairSpec`:
`events` and the worker go on. `History!FairSpec`: status events keep coming and requests are
answered; nobody has to click and no worker has to write.

**Mutants.** Operators whose names begin with `Bad` are plausible mistakes: a guard dropped, an
index not wrapped, a label reset for the wrong endpoint, a wake-up forgotten. Nothing uses
them. With one of them in place of the definition it stands before, the run fails on the
property it is listed with in `PROJECT.json`. They document which mistake each property is
there to catch.

## 5. Findings

Two runs show a bug of the code by the trace they end with:

1. **Serving failures never rebuild an instance** (`WorkerServe`). `cycle` returns
   `errServeFailures` (`tor.go:440`, `tor.go:475`), but `superviseTor` treats it as any error:
   label `Retrying`, pause, next cycle (`tor.go:298-300`). It never returns it, so
   `needsFreshRestart` (`tor.go:328`) never sees it. The comment at `tor.go:44` and
   `src/README.md:24` and `:148` promise a rebuild.
2. **An upload does not keep its tunnel alive** (`TunnelUpload`). `connectAttempt` wraps the
   hijacked connection, an `idleConn` already, in a second one (`proxy.go:331`). The deadline the
   outer one sets on a write becomes the `readLimit` of the inner one (`proxy.go:38`, `:53`), and
   reads go through the inner one alone. So bytes from the client do not move the client's read
   deadline: an upload ends `IDLE_TIMEOUT` after the last write to the client. `proxy.go:17` and
   `src/README.md:99` promise that traffic in either direction keeps a tunnel alive.

Each of the following has a configuration too, which is not among the runs of `PROJECT.json`;
`tlc -config <name>.cfg <module>` ends with the trace.

| Configuration (module) | Violates | What the code does, and what says otherwise |
|---|---|---|
| `ProxyReplay` (`MCProxy`) | `ReplayCarriesBody` | After a failed dial the transport has closed the body the next attempt shares (`proxy.go:228`), so the failover of a request with a body cannot succeed, spends another address and counts a failure against a healthy instance. `src/README.md:145` allows that replay. |
| `ProxyOnce` (`MCProxy`) | `NotReplayed` | A request without a body is sent again after its dial succeeded (`proxy.go:151-166`). `src/README.md:156`: "requests are not automatically replayed on failure". |
| `ProxyFailover` (`MCProxy`) | `EveryInstanceTried` | The loop makes `Size` attempts, two of which may meet the same instance. `proxy.go:134`: "only when every instance fails (or none is ready) does the client see an error". |
| `ProxyLeft` (`MCProxy`) | `OnlyForThoseWhoLeft` | `r.Context()` ends at a shutdown too (`run.go:55`); the client then gets an empty 200. `proxy.go:141`: "The client went away". |
| `ProxyPanic` (`MCProxy`) | `LeaseReturned` | `WriteHeader` (`proxy.go:244`) panics on a status below 100; `lease.Finish` (`proxy.go:150`) is not deferred. |
| `PoolLastErr` (`MCPool`) | `LastErrSettled` | In reuse mode a second failing lease sets `lastErr` (`pool.go:320`) while the worker reads it without the lock (`tor.go:472`). `pool.go:61`: "set by Lease.Finish before done is closed". |
| `PoolRotation` (`MCPool`) | `RotationTried` | Leases that fail together on one circuit count as failures in a row (`pool.go:319`). `tor.go:44`: "Rotation did not help". |
| `WorkerDelay` (`Worker`) | `RetryStartsAtTen` | The back-off is doubled before the first pause (`tor.go:300-307`), so it lasts twenty seconds. `src/README.md:147`: "approximately 10 to 60". |
| `ShutdownLate` (`Shutdown`) | `AllClosed` | A connection the system accepted before the listener closed may be registered (`proxy.go:391`) after the snapshot (`proxy.go:402`) and stays open until the process exits. `proxy.go:356`: "so shutdown can close every connection". |
| `ControlStale` (`Control`) | `NeverAnothers` | Between `close(done)` and `conn.Close()` (`control.go:43`) a waiting command may take the token, since `select` picks any ready branch, and receive the late reply to the one that timed out. |
| `SessionInternal` (`Session`) | `NoInterference` | A stream of Tor that is older than the subscription is not known as internal; when it is detached, it is closed (`tor.go:114-116`). `tor.go:89`: "Interfering with them prevents consensus downloads". |
| `HistoryPage` (`History`) | `PageServed` | Two quick clicks on Previous on page 2 ask for page 0 (`app.js:72`), which `web.go:95` refuses; every refresh asks for it again until a filter, a search or Next, when it is enabled, sets the page. |

## 6. What is proved

For every number of instances, every set of addresses, calls and endpoint identities, every
failure limit, in either mode and across restarts, from the assumptions `CountAssumption`,
`ModeAssumption` and `NoneAssumption` of `Pool` (at least one instance, a limit of at least
one, `None` is no value):

| Theorem (`PoolProofs`) | Says |
|---|---|
| `PoolTypes` | `Spec => []TypeOK` |
| `OneUserPerCircuit` | `Spec => []LeaseExclusive` |
| `Reservations` | `Spec => []ReservationsExact` |
| `NoStaleEndpoint` | `Spec => []PublishedIsServed` |
| `SleepersAreRight` | `Spec => []NoLostWakeup` |
| `FairTurns` | `Spec => []BoundedBypass` |
| `PromiseKept` | `Spec => PromiseSpec`: `Pool` implements `Assignment` |
| `NoneLost` | `Spec => []NoInstanceLost` |
| `CountsExact` | `Spec => []LeasesCounted` |
| `ClosedWhenFree` | `Spec => []NoCloseUnderLease` |
| `PoolHasInstances` | `Spec => TorSpec`: each slot implements `TorInstance` |

for any set of requests besides, from `CallAssumption` (the calls of `Pool` are those of the
requests) and `KindAssumption`:

| Theorem (`ProxyProofs`) | Says |
|---|---|
| `FrontTyped` | `ProxySpec => []ProxyTypeOK` |
| `OneLease` | `ProxySpec => []OneLeaseAtATime`; a handler that panicked is excepted (`ProxyPanic`, section 5) |
| `BodyLeavesOnce` | `ProxySpec => BodyOnce` |
| `NeverSpliced` | `ProxySpec => NoSplice` |
| `FrontUsesPool` | `ProxySpec => Spec`: the front end implements `Pool`'s specification |
| `ProxyKeepsPromise` | `ProxySpec => PromiseSpec /\ []LeaseExclusive` |
| `ProxyKeepsLeases` | `ProxySpec => [](NoInstanceLost /\ LeasesCounted /\ NoCloseUnderLease)` |

for every value of `MAX_USED_IP_RETRIES` and of the failure limit, from `WorkerAssumption`:

| Theorem (`WorkerProofs`) | Says |
|---|---|
| `WorkerTypes` | `Spec => []TypeOK` |
| `ReapsFirst` | `Spec => []ReapedFirst` |
| `ShutdownSparesData` | `Spec => []NoWipeOnShutdown` |
| `UsedPolicy` | `Spec => []UsedPolicyExact` |
| `RebuildIsFresh` | `Spec => []FreshMeansFresh` |
| `WorkerIsInstance` | `Spec => TorSpec`: the supervised instance implements `TorInstance` |

for any number of calls, generations, streams and events, and queues of any length, from
`QueueAssumption` and `NoneAssumption` of `Control` and from `CycleAssumption` and
`StreamAssumption` of `Session`:

| Theorem | Says |
|---|---|
| `ControlProofs!ControlTypes` | `Spec => []TypeOK` |
| `ControlProofs!EventsInOrder` | `Spec => []NoEventLost` |
| `ControlProofs!RepliesMatch` | `Spec => AnswersOwn`: own replies, while the connection is open (`ControlStale`, section 5, shows the rest) |
| `SessionProofs!SessionTyped` | `Spec => []TypeOK` |
| `SessionProofs!OwnCircuit` | `Spec => []AttachedToOwn` |
| `SessionProofs!NoDeathMissed` | `Spec => []DeathKnown` |
| `SessionProofs!TorIsLeftAlone` | `Spec => []InternalLeftAlone` |

and for any number of requests, slots and ticks, any table, page length and number of requests
of the page in flight, any number of connections and places, and any two time-outs, from
`SlotAssumption` (at least one slot, and more goroutines than slots) and `TickAssumption` of
`LoadTester`, `HistoryAssumption` of `History` (finitely many addresses, in an order), `LimitAssumption`
of `Shutdown` and `TimeoutAssumption` of `Tunnel` (limits and time-outs are positive):

| Theorem | Says |
|---|---|
| `DashboardProofs!TesterTypes` | `Spec => []TypeOK` |
| `DashboardProofs!BooksBalance` | `Spec => []Balance` |
| `DashboardProofs!StopIsFinal` | `Spec => []StoppedIsFinal` |
| `DashboardProofs!OwnCancel` | `Spec => CancelsOwn` |
| `DashboardProofs!PageOfRows` | a page has the rows of `LIMIT` and `OFFSET`, each once, in the order of `ORDER BY`, and as many as `total` says |
| `DashboardProofs!HistoryTypes` | `HistorySpec => []HistoryTypeOK` |
| `DashboardProofs!HistoryIsAsked` | `HistorySpec => []ShownIsAsked` |
| `ShutdownProofs!ListenerTypes` | `Spec => []TypeOK` |
| `ShutdownProofs!PlacesAreExact` | `Spec => []PlacesExact` |
| `ShutdownProofs!SweepIsClean` | `Spec => []SweptClean` |
| `TunnelProofs!TunnelTypes` | `Spec => []TypeOK` |
| `TunnelProofs!HeaderIsBounded` | `Spec => []HeaderBounded` |
| `TunnelProofs!DownloadKeeps` | `Spec => DownloadKeepsAlive` |
| `TunnelProofs!ReturnIsLast` | `Spec => NoByteAfterReturn` |

But for the addresses in the dashboard's table, no set is assumed to be finite: that only finitely many calls hold a lease, streams exist, requests
have a slot and connections are registered at any moment is part of the invariants, so
`Cardinality` means what it says whatever the sets of identities are.

**The argument for Pool.** None of the properties is inductive by itself. `PoolProofs!IInv` adds:

* `Ownership`: a worker owns the endpoint of its cycle, no other worker does, the endpoint
  knows its slot, and a slot publishes nothing but its worker's endpoint. Without it a late
  `Finish` or a `withdraw` could touch another cycle.
* `LeaseStates`: a call holds an endpoint exactly from its grant to the close of `done`, and
  only one that was published. So a new cycle's endpoint has no users.
* `Exclusive`: in unique mode nobody holds what is on offer, which makes a grant the first.
* `OnRecord`: every address handed out is on record, and a call not served yet has none.
* `RoundRobin`: for an eligible slot, the grants that passed it plus its distance from the
  pointer stay below `N`; a grant at offset `k` moves the pointer `k + 1` slots, and those it
  went past are not counted. `BoundedBypass` alone is not inductive.

Most steps move no cycle and publish nothing: `Sedate` names that, and `SedateKeeps` and
`SedateFrame` prove once that such a step keeps everything about ownership, reservations,
waiting calls and turns. Each action then has a lemma of its own, with one step per part of
the invariant. `ScanFindsNoneIInv` uses `ScanCovers` (a scan of `N` slots meets every slot) to
show that a call that goes to sleep left nothing eligible behind. For `PromiseKept`, grants
map to `Grant`, a failed `Consume` that committed to `Spend`, `Crash` to `Restart`, and every
other step changes nothing the promise speaks of (`Silent`).

**What the service of an instance rests on.** `NoInstanceLost`, `LeasesCounted` and
`NoCloseUnderLease` need more about the worker of an instance, its endpoint and the calls on it
together: `PoolProofs!JInv` is `IInv` with `ServiceAt` of every instance and `Books`.

* `Occupied`: while a worker serves a circuit that is not done and whose done nobody is about to
  close, its endpoint is in its slot, on offer or `Busy` with the call that has it. This is
  `NoInstanceLost` without its excuses for circuits that are gone.
* `DoneWhenServed`: once the result that closes `done` is on its way, the endpoint is not on
  offer, so no lease is granted on a circuit that is being given up.
* `DoneWith`: a worker that goes to withdraw a circuit that still works saw its one lease end, or
  all of them. That stays true only because of the part above.
* `Tallied` and `Books`: the counts are those of the calls. A call is counted when it is granted
  its lease and once more when that ends, and `Cardinality` follows by one each time.

Most steps leave an instance alone: `LeftAlone` says when they do, and every action has one lemma
for the instance it concerns and an appeal to `LeftAlone` for the others.

**The argument for TorInstance.** On `Pool`'s side the mapped state of an instance is touched by its
own worker, by the finish of a lease of its endpoint and by the crash; `Unseen` names the steps that
leave it alone, and a `Finish` needs `LeaseStates` of `IInv` for the slot it counts at. `Undecided`
(only a cycle that drains or withdraws has a verdict) makes `Judge` the one `Decide` of a cycle. On
`Worker`'s side the verdict is `result` while the cycle drains. Stating what the two have in common
corrected both models: `Pool` lost the control connection only during a cycle, and
`Worker` read `slot.fails` when the cycle returned and let leases finish only during a session.

**The argument for Proxy.** `FInv` says where the call of a request may be for each place of its
handler (`CallsInStep`, `CallStates`): the calls before the present one are over, those after it
were never made, and the present one is in a lease exactly between grant and `Finish`. A step of
the front end is then a step of `Pool` for that call, or leaves `Pool` alone
(`FrontStepIsPoolStep`), so the front end implements `Pool`'s specification, and `Pool`'s
theorems hold with the real clients in place of arbitrary ones. `BodyOnce` and `NoSplice` need
what a handler that comes back to its loop has not done: dialled with a body, or answered. For
`FrontTyped`, `RecordTypes` adds that a request reached a target at most once in each attempt, and
`BlamedIsSlot` needs `Pool`'s invariant: what is finished is a lease.

**The argument for Control and Session.** `ControlProofs!CInv` counts what is under way for the
holder of the token: while the connection is open, at most one of its request on the wire, the
reply on the wire, the reader's reply and the buffer, and nothing for anybody else
(`OneOutstanding`). A call that stops waiting closes the connection before it gives the token
back, which is what makes that inductive. `WireInOrder` says that the events on the wire go on
where the queue ends, and a reader that found no room has stopped. `SessionProofs!SInv` rests on
`TokenOnce`, a stream's token never changes once it is set, and `DecisionStands`, a decision to
attach names the stream's own generation, whatever the worker does between it and the command.

`SessionProofs!QInv` adds what is on its way from Tor to `events`. `InPlace`: Tor reports deaths
from the first cycle on, and the endpoint of a circuit that is checked or serves is `current`, so
the report of a death after `publish` finds it there; the check's stream rides on the circuit, so
it cannot have died before. `Remembered`: of a reported stream of Tor, the `NEW` is ahead in the
queue of whatever else is reported of it or the stream is in `internalStreams`, and nothing follows
its `CLOSED`. `InternalLeftAlone` alone is not inductive: without the order in the queue an event
might come that nothing identifies as Tor's. `Existing` keeps apart the streams that do not exist
yet, whose first event is `NEW`. `Longer` and `Reported` say once what a report does to the queue,
`QueueShifts` what taking an event does.

**The argument for LoadTester, Shutdown and Tunnel.** `DashboardProofs!IInv`: only the present run
moves or has requests out (`OneRun`), a stopped or ended application has cancelled it (`Winding`),
each request whose result is not recorded has a slot, and their number is the counter `inflight`
(`Slotted`). `FlyingHolds` bounds the one by the other, which gives `Balance` its second half;
`CancelsOwn` needs that a new run starts only when the one before is over.
`ShutdownProofs!IInv`: the accept loop owns the one connection it took until it handed it over
(`HeldByLoop`); an open socket is in the set from its registration on (`Entered`), so the snapshot
contains every connection that `Run` owes the end of (`Owing`). `Limit` bounds the set because the
test and the entry are one step.
`TunnelProofs!IInv`: in the header the client's read deadline and the limit behind it never pass
what is left of net/http's (`HeaderLeft`), and in a tunnel every read deadline lies at least
`IDLE_TIMEOUT` after the last byte from the target (`KeptAlive`). The latter has to speak of `limit`
as well, since the next read of the client takes its deadline from there: the nesting that makes
finding 2 is the reason. `TouchFacts` states what `touch` computes.

**The argument for History.** `Ranked` shows that the ranks of the rows a filter lets through are
exactly `1` to their number, each of one row: the rank is an injection of the rows into an interval
of as many numbers, hence onto it, which takes no induction. `PageLength` follows by counting an
interval, and `PageOfRows` from both. `DashboardProofs!HistoryIInv` adds to
`ShownIsAsked` where each request stands. `Asked`: the newest request in flight is for the page and
filter of the controls, unless they have been used since. `Locked`: between the two statements
the handler holds `s.mu`, so the count is that of the table the rows are selected from. `Whole`: an answer has
as many rows as its total promises for its page. Without `Locked`, which speaks of the
table, `Whole` is not inductive.

**Only model-checked.** Liveness (`RotationCompletes`, `AcquireReturns`, `ShutdownCompletes`,
`DeadTorReplaced`, `RequestEnds`, `EndsTogether`, `RunsEnd`, `RunReturns`, `CommandReturns`,
`StreamSettled`, `Converges`): the prover has no backend for fairness and `ENABLED`. The two
properties the code violates (section 5) are shown by their traces. Every other invariant and
action property of the runs, the refinements and the type invariant of every module that
models code are proved.

## 7. What is not modelled

* The event stream of the dashboard with its 32 viewers, its reconnects, the status page and
  the test buttons: they pass on what other components keep. The search field of the history.
* The start of `Run` and the `healthcheck` subcommand: sequential. Configuration and the command line: parsed
  once; their values are constants of the modules.
* Time, except in `Tunnel`: delays are symbols; a time-out is a step that may be taken whenever
  the code waits.
* The contents of addresses, headers and Tor's replies, and the parsing of them. Reply codes in
  `Control`: a refusal matters in `Session` only.
* In `Converges`, a page below 1 is set aside: that is `PageServed`, which does not hold.
* In `Session` a command is atomic (`Control` is where it is not), and an application that stops
  is a lost connection.
* `Counts` of the store, a query that changes nothing; `OpenStore` is `StoreInit`.
* Several applications on one data directory: `run.go:27` takes a lock on it.
