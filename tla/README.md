# A verification project for d8a-server

d8a-server is an MCP gateway: AI clients speak MCP over HTTP to it, and it
speaks MCP over stdio to a backing MCP server it runs as a child process. This
directory holds TLA+ models of its stateful parts, the TLC runs that check them
on small instances, and proofs checked by TLAPS. All paths below are relative
to `src/internal/server/` unless they start with `src/`.

## The system

| Component | State it keeps | Operations | Talks to |
|---|---|---|---|
| `StdioRunner` (`stdio_runner.go`, interface in `runner.go`) | the child's pipes; `stopped`, `nextID`, `pending` under `mu`; `readDone` | `Start`, `Call`, `Notify`, `Stop`, the goroutine `readLoop` | the child, by lines of JSON |
| `RunnerPool` (`runner_pool.go`) | `instances`, `closed` under `mu`; per instance `startOnce`, `started`, `startErr`, `lastUsed` | `Start` (warm-up), `RunnerFor`, `EvictIdle`, `Close` | one `Runner` per partition |
| `RateLimiter` (`ratelimit.go`, `middleware.go`) | one token bucket per subject | `Allow`, `Cleanup` | called by the middleware and by the GC |
| `SessionStore` and the `/mcp` handlers (`session_store.go`, `session.go`, `mcp_handler.go`) | one record per MCP session | `Create`, `Get`, `Touch`, `MarkInitialized`, `Delete`, `ExpireBefore`; POST, GET, DELETE | store, catalog, pool, runner |
| `Catalog` (`catalog.go`, the forwarders of `mcp_handler.go`) | the operator's bundles, read-only | `Resolve`, `Allows*`, `HasAny*`, list filter, name gate | called by the handlers |
| Server lifecycle (`server.go`, `src/cmd/server/main.go`) | the GC goroutine, the HTTP server, the signal context | `main`, `Run`, `runSessionGC`, shutdown | everything above |
| Authentication, middleware chain (`auth.go`, `middleware.go`) | none per request | origin, version, bearer and audience checks | wrap the handlers |
| Configuration (`config.go`, `src/cmd/server/main.go`) | none after startup | read a file, apply flags and defaults | `Run` |
| Sandbox (`sandbox.go`) | none | turn a policy and a command into a bwrap command | the runner's constructor |
| JSON-RPC codec, MCP types (`jsonrpc.go`, `mcp_types.go`), client, version | none | | everything |

Requests are goroutines of `net/http`. They meet in the session store, the
limiter, the pool and the runner, each with its own mutex and none held from
one call to the next; one GC goroutine sweeps sessions, buckets and runners in
turn. What is hard here: the interleavings of those critical sections, a child
process that may do anything with its pipes, timeouts that judge state by its
last *lookup*, contexts that end at any moment, and the order of shutdown. What
makes each part correct:

* runner: every response reaches the Call it answers, nobody waits for ever,
  `Stop` leaves no process and returns;
* pool: one runner per identity (or one for all), not stopped under a request
  before the idle timeout is over, not forgotten while it runs, whatever the
  sweep, a failing start and `Close` do in between;
* limiter: no more requests than the bucket allows, none refused without cause,
  and forgetting a bucket forgets nothing;
* sessions: only the owner changes a session, a session that is gone stays
  gone, an active session is kept and a quiet one removed;
* catalog: what is listed, announced and let through is what was granted;
* the chain of them: a client gets the answer to its own request, and a child
  sees only requests that passed every check for one and the same key;
* the server: it serves only with a backend that is up, takes none away from a
  request within the idle timeout, stops cleanly or says that it did not, and
  stops when it is told to.

`PROJECT.json` lists the hazards one by one, each at its line, with the
properties that watch it.

## Modules

| Module | Models | Notes |
|---|---|---|
| `BackingMCP` | the child process | external: written from how the runner uses it; `Behaviours` says what it may do wrong |
| `StdioRunner` | `stdio_runner.go` | extends `BackingMCP`; each Call, Notify and Stop is a process, `Start` and `readLoop` one each |
| `RunnerContract` | the `Runner` interface | what callers may rely on; `StdioRunner` implements it |
| `RunnerPool` | `runner_pool.go` | runners are black boxes whose `Start` succeeds or cleans up and whose `Stop` ends, but for the one of a spawn that failed |
| `RateLimiter` | `ratelimit.go` | time as ages in ticks, tokens as integer fractions |
| `McpSession` | `session_store.go`, handlers of `mcp_handler.go` | each HTTP request a process making store calls |
| `Catalog` | `catalog.go`, forwarders of `mcp_handler.go` | names and patterns are values, `path.Match` a constant relation |
| `Configuration` | `config.go`, `main.go`, defaults of `server.go` | operators, from a file to the `Config` of `Run`; durations wrap |
| `Sandbox` | `sandbox.go` | operators, from a policy to bwrap's arguments, and what bwrap makes of them |
| `Service` | the comments on `Run` and `RunnerPool` | the abstract promise of a server |
| `ServerLifecycle` | `server.go`, `main.go` | extends `Configuration`, has an instance of `Sandbox`; implements `Service` |
| `Gateway` | a request through `middleware.go`, `auth.go`, `mcp_handler.go`, `runner_pool.go`, `stdio_runner.go` | composes what the modules above show one by one, in larger steps |
| `StdioRunner_proofs`, `StdioRunnerStop_proofs` | | theorems about `StdioRunner`: types, responses, the read loop; Stop, Start, the drain, and the refinement of `RunnerContract` |
| `RunnerPool_proofs`, `RateLimiter_proofs`, `McpSession_proofs`, `Catalog_proofs`, `Gateway_proofs` | | theorems about the module each is named for |
| `ServerLifecycle_proofs` | | theorems about `ServerLifecycle`, its refinement of `Service` included, and about the mounts of `Sandbox` |
| `MC*` | | constants for TLC |

### StdioRunner

An action is the code between two points where another goroutine may take a
lock, a channel or a pipe: `CallBegin` is the critical section that takes an id
and registers the channel, `CallWrites` the write under `writeMu`,
`CallReceives` and `CallGivesUp` the two arms of the select, `CallLeaves` the
deferred delete. `ReadLine` is the scan and the lookup under `mu`,
`ReadDeliver` the send on the channel outside it, `ReadEnds` the drain and the
close of `readDone`. `Stop` is `StopBegins`, `StopClosesStdin`, `StopDrained`
(the wait for `readDone`), `StopReaps` or `StopKills`. `Start` is a process
that calls the same `Call`, `Notify` and `Stop` (`InitCall`, `InitNote`,
`Starter`). The pipes are sequences; a write blocks on a child that has stopped
reading, and fails once the pipe is closed. stderr is left out.

### RunnerPool

`Lookup` is the critical section of `RunnerFor`; `EnterOnce`, `StartSucceeds`,
`StartFails` and `PassOnce` are `startOnce`; `Finish` ends the handler's use.
`EvictIdle` and `Close` take instances out of the map under the lock;
`SweepTakes` and `SweepStopped` stop them one by one outside it. Time is ticks:
`lastUsed` counts those since the last lookup of an instance, and the history
`held` those since a handler's own. Nothing bounds either: a start, or a use, may
last as long as it likes, and `Close` may come at any moment, as it does in `Run`
when the listener fails or `Shutdown` times out. The properties say what holds
all the same. `InUseNotReaped`: for the idle timeout after its lookup, only
`Close` takes a request's runner. `OnlyLateStartsLeak`: a process the pool has
no hold on any more (`Leaked`) is one whose `Start` was overtaken, by `Close` or
after the idle timeout. `WarmCannotSpawn` is the warm-up whose spawn fails, after
which `pool.Start` never returns. `shareSafe` is chosen in the initial state from
`ShareModes`.

### RateLimiter

`Arrive`, `FindBucket` or `CreateBucket`, `Consume` are the three steps of a
request in the middleware and `Allow`. A bucket the sweep forgets lives on in
the hands of the request that found it. `level` is a history variable: the
bucket that is never forgotten. `OverdraftBounded` compares the two: `Slack` is
one request for each that may be in flight, and the refill of `MaxDelay`, for a
bucket created full at a moment that is already past.

### McpSession

A handler goes through the store calls the Go handler makes. `Found` and
`Accept` are the two halves of `Get`, which copies the record after it releases
the lock. `ReadClock` and `Touch` are apart because the time is read before the
store's lock is taken, so `lastSeen` can go back. The sweep works with a tick
from its channel that may be old. `used` is a history variable.

### Catalog

The catalog and the identity are chosen in the initial state, from every
catalog over the constants; initialize, the lists and uses by name follow in any
order. `Granted` is written from what an operator reads into a catalog, not
from the code's two paths.

### ServerLifecycle, with Configuration, Sandbox and Service

`main` is the control of `main` and `Run`: `Configure` (file, flag, defaults,
key hashes), `RunBegins` (is there a backend, can it be built, sandbox
included), `WarmStarts`, `WarmFails` or `WarmCannotSpawn` (with a pool, "stuck":
the Stop of a runner without a child), in isolate mode `WarmStopped`, then
`Listens` (GC and listener), and the select in `Run`: `Undrained` for the
listener's error, `ShutdownBegins` for the signal, `Drained` or `TimesOut` for
the end of `Shutdown`, and `Exits` after the deferred `Close` or `Stop`. A
listener that is "broken" was open before: the connections it has accepted go on
sending requests, also while the deferred `Close` runs. `gc` is `runSessionGC`:
`SweepStores`, `EvictIdle` and `SweepStep("evict")`, one after the other in one
goroutine; `SweepStep("close")` is the deferred close. `stale` and `cold` hold
what the next sweep of a store should remove, in place of clocks. A runner gets
cold with or without requests on it, for its last lookup is all the sweep looks
at; the history `late` has the requests whose own lookup is then long ago. A run
starts from a configuration file or, as tests and embedding programs do, from a
`Config` with a `Runner`.

`Service` has five variables: what has become of `Run`, the processes in service,
those out of service that still run, who uses which, and who has done so for
longer than the idle timeout. While the server runs, a process is put out of
service only when every request that uses it is late (`Retire`), and stopped in
service only when nobody uses it; a server that fails may cut requests off, but it
ends like any other with no process in service, and cleanly only with every
request over. The refinement maps `backing` to the running processes the server
will stop (on the map, in the hands of `Close`, the warm-up), and `leaving` to the
other running ones: those `EvictIdle` has taken off the map, and those whose Start
`Close` overtook. What is leaving may outlive the server.

`Configuration` and `Sandbox` are operators over records. A `Duration` wraps at
`Word`, as an int64 does. Mounts keep the order in which bwrap applies them;
`View` reads that list, `Intended` the comments on the fields of `SandboxPolicy`,
and the assumption `MountOrderIsRight` of `MCServerLifecycle` compares the two for
every policy over the constants. They differ for the paths a policy grants both
ways (`Conflicting`), which can be written although the comment on `BindReadOnly`
says otherwise.

### Gateway

A request is a record of what the checks look at: origin, version, token,
method, session, name and the client's id. `Arrives` is the chain up to the
bearer check, `RateLimit` the bucket, `CheckSession` or `Initialize` the
handler, `LooksUp` the pool, `Forwards` the gate and the write of `Call` or
`Notify`, and `Writes` the reply. The methods stand for the ways through the
handlers: "call" for what `forwardWithNameGate` sends, "other" for requests that
pass no gate, "notify" and "cancel" for notifications, which are forwarded
whatever their method and params. Runners are the members of `Insts`, each built
for a partition (`serves`); `Evicts` takes one off the map, be there handlers that
hold it or not, and `Stops` makes it refuse, after which its child still answers
what it has read; the next lookup builds another, with ids of its own. `nextID`
and `wire` are the ids of `Call`; `lines` is what a child has read and not dealt
with, each line with the request it came from, a history that no action reads. A
key is the first whose hash and audience match. `ChildDies` and `Drains` are
apart: between them the runner still has pending calls.

## Runs

Passing runs:

| Run | Question | Instance |
|---|---|---|
| `stdio_sound` | are responses, drains, stops and failed starts right? | 2 client calls, a notification, a stopper once Start is over, and Start's own; child may refuse, crash, chatter |
| `stdio_live` | does the runner keep its contract with a child that breaks the protocol, and do Stop, Start, Calls and cancelled Calls return? | 1 client call, 2 stoppers; child may crash, close its stdout, keep it open unread, not be spawned, answer twice, write an over-long line |
| `pool` | is each partition's runner its own, kept while it is in use and not late, forgotten by nobody, and does everything end? | both sharing modes, 2 subjects, 2 handlers, 3 instances; idle timeout 1, starts and uses of any length, `Close` at any moment |
| `limiter` | is the bucket exact up to a fixed slack, and are quiet buckets forgotten? | 1 subject, 3 concurrent requests, 4 buckets; a burst of 2 requests, eviction after 13 ticks: a full refill takes 4, the slack 7, and 2 are for delays |
| `session` | do sessions obey owner, delete and idleness, and do quiet ones go? | 2 handlers, 2 subjects, 1 session, every kind of request; idle timeout 2, clock to 4 |
| `catalog` | do gate, list and initialize follow the grant? | every catalog of 2 scopes over tools and resources with a literal, a glob and `*`; 2 names |
| `lifecycle` | does a server keep the promise of `Service`, end after a signal, and sweep what it should? | 2 requests, the warm-up runner and 2 more; 7 files and 2 embedding callers, so every backend, a policy refused and one accepted, a timeout that wraps; spawns may fail, and the children of 2 of the runners hang |
| `gateway` | whose answer does a client get, what reaches a child, does everybody get an answer? | 2 handlers, 2 sessions, 6 keys (one token twice, another audience, an empty subject), 15 requests (gated, ungated, notifications), 3 backends; 2 runners, 2 ids each, buckets of 2 |

Two handlers, calls or stoppers are what the races here need: one acts between
two steps of the other, and the child, sweep or closer is the third party.
Three are used where a third makes a difference (requests on an orphaned and a
fresh bucket). In `pool` one handler waits on the `startOnce` the other is in; the
third instance lets the runners of both partitions be there with one that is being
stopped, and an idle timeout of 1 has ages on either side of it. Sessions, and the
buckets of different subjects, share nothing but a map, so one of each is enough;
two subjects contend for the session. Clocks run just past the timeout plus the
delay, so that both sides of each comparison are reached; a longer clock
repeats the same ages.

In `lifecycle` two requests meet on one starting runner, or one uses what the
other's sweep or close would take; a runner that was evicted, hung or not, can
be replaced by another. `Word` and `Second` are such that one of the
configured seconds wraps around to a negative duration, as about 9.2 billion
seconds do in an int64. In `gateway`, `MayArrive` bounds the ids of a runner
(`MaxWire`), the runners and the sessions; two ids are enough for an answer, or a
cancellation, to meet the wrong Call, and two runners for a partition to have a
new one, which counts from one again, while a handler waits for the old. Buckets
are not refilled, so the third request of a subject is refused, and a session ends
by DELETE only; `limiter` and `session` have the refill and the expiry.

`stdio_live` switches off the deadlock check, since a child that hangs or that
closed its stdout leaves a runner that waits for it; so do `lifecycle`, where the
server exits or is stuck, `gateway`, where the bounds end the instance, and the
violation runs in which something may get stuck. Everywhere else TLC checks it.

Every property of a passing run has a mutant in `PROJECT.json`: an operator
`X_Why` beside the definition `X`, with which TLC finds the property violated.

Violation runs: places where the code does other than its comments say. Each
checks one property.

| Run | What happens |
|---|---|
| `stdio_stop_hung` | `Stop` waits for the read loop before its grace period starts; a child that keeps stdout open is never killed |
| `pool_close` | `Close` skips an instance that is not started yet; its Start then brings up a runner that nobody stops, although "Close stops every live Runner in the pool" |
| `limiter_no_default` | without `evictAfterSeconds` each sweep refills everybody |
| `gateway_cancel` | `notifications/cancelled` carries the client's id; at the child that is another request's, with a shared runner another client's, although the notification is forwarded "so it can react to cancellations" (`mcp_handler.go:171-174`) |

### Other limits of the code

The constants and conditions of the passing runs are also assumptions about the
system. The same modules show what happens without them; where a constant or a
condition is named, change it and check the property.

* A request from the child under the id of a pending Call is taken for that
  Call's response (`stdio_runner.go:256-268` looks at the id alone):
  `"request"` in `Behaviours` with `ServerIDs = {2}`, `OwnResponse`.
* A runner whose Start outlasts the idle timeout is evicted while it starts, and
  forgotten instead of stopped, since `started` is not set yet
  (`runner_pool.go:298`); `Close` forgets one that is starting in the same way
  (`runner_pool.go:326`). These are the exceptions in `OnlyLateStartsLeak`, and
  `pool_close` shows the second.
* A request that outlasts the idle timeout may have its runner stopped under it
  (`runner_pool.go:290`): `held` in `InUseNotReaped`, `late` in `Service`. The
  next request of its partition gets another process then, perhaps while the
  first still runs.
* A resource granted by its uri can be read but is not listed: the list goes by
  name where there is one (`mcp_handler.go:231-235`), the gate by uri
  (`mcp_handler.go:424`). In `Catalog`, `ListAgreesWithUse` is therefore about
  tools and prompts.
* A Stop after a spawn that failed waits for a read loop that never was
  (`runner_pool.go:150`, `stdio_runner.go:100-102`, `308`), so `pool.Start` and
  `Run` hang where they should report the error, and a signal, being caught, does
  not end the process: `"nospawn"` and `StopTerminates`, `NeverStuck` in
  `SignalEndsRun`.
* A Call that registers after the drain waits for its context: `"longline"` or
  `"mute"`, `NoCallStranded`. Hence the condition `ChildBehaves` of `CallReturns`.
* A second answer to a Call still on the pending map blocks the read loop on the
  channel until that Call takes its first; if the Call has given up meanwhile, for
  good, and every other Call waits with it
  (`stdio_runner.go:271`), and so does a Stop: `"duplicate"`, `ReaderNotWedged`;
  a condition of `StopReturns` and `CallReturns`.
* A Call blocked in the write to a child that stopped reading ignores its
  context (`stdio_runner.go:175`): `NeverHung` in the second half of
  `CancelledCallReturns`.
* What the catalog grants is asked of requests with a method that
  `forwardWithNameGate` is for. A notification is forwarded whatever its method
  and params (`mcp_handler.go:181-188`), one called `tools/call` included, and so
  is a request with any other method (`mcp_handler.go:246`): the kinds "notify"
  and "other" of `Gateway`, of which `Admitted` asks no grant.
* A sweep forgets buckets that are not full yet if `EvictAfter` is shorter than a
  full refill: `EvictAfter = 2`, `EvictionForgetsNothing`.
* A bucket may be overdrawn through an orphan, so the slack of
  `OverdraftBounded` is not zero; and it grows if `EvictAfter` is shorter than
  it takes to refill the burst and the slack, delays not counted.
* A burst below the cost of a request is accepted and its bucket never grants
  anything.
* A request served for longer than the idle timeout is not a use of its
  session while it lasts: the session may be expired under it.
* The runner whose child has died stays in the map: who gets it has an error at
  once (`EveryoneAnswered`), but a shared one is never replaced, and one of a
  partition only after the partition was quiet. A call that the gate is
  going to refuse has looked its runner up, and perhaps started it, before.
* `Run` may return cleanly while the GC is still in the `Stop` of a runner it
  evicted (`server.go:334-342`), or while one that was evicted during its Start
  lives on, and with an error also while one that `Close` overtook does:
  `leaving` in `Service`. die-with-parent ends a
  sandboxed child with the process; a program that embeds the server has no such
  help, and its `Run`, after an error of the listener, also leaves the open
  connections and their handlers.
* A negative `idleTimeoutSeconds`, or one so large that it wraps around, switches
  off the sweeps of buckets and runners as well: remove the condition on
  `cfg.idle` and `StoresSwept` fails. Likewise for an evicted child that hangs
  (`NeverHung`), which stops the one goroutine that sweeps.
* Streams do not end when the server shuts down, so with one open `Run` waits
  for `shutdownTimeout` and returns an error. A second signal does not shorten
  that: it is caught like the first.
* `config.go:24-27` says of an empty audience that every key matches;
  `auth.go:110` refuses every token then (`Validate`).
* A key with an empty subject is not throttled (`middleware.go:156`), and all
  such keys are one owner of sessions and one partition.
* A path that a policy grants read-only and read-write can be written, since the
  read-write mounts come last (`sandbox.go:184-198`), though the comment on
  `BindReadOnly` says the MCP can read such paths "but not write them"
  (`sandbox.go:43-46`): `Conflicting`.

## Fairness

Goroutines that can run do run (weak fairness of each one's next step), the
clock moves and tickers fire. Nothing is assumed of clients: they need not
call, cancel, stop or hang up. In `StdioRunner` the child goes on reading and
answering, and exits on end of file unless it has closed its stdout or hangs;
nothing makes it misbehave, and the Stop of a child that has closed its stdout
needs no exit of it. In `RunnerPool` starts and uses end: contexts and `stdio_live` are the
reason, and the limits above say when they do not. In `McpSession` a forwarded
request need not be answered and a stream need not end. Fairness of the sweep
assumes that it is not stuck in the `Stop` of a runner.

In `ServerLifecycle`, `main` and the GC go on, `Shutdown`'s timeout comes, a
warm-up Start whose context has ended fails, and a Stop ends unless its child
hangs (which the liveness properties exclude by name, `NeverHung`; `SignalEndsRun`
also excludes the warm-up whose spawn fails, `NeverStuck`); a warm-up
need not end otherwise, and no request, stream or start of a handler need ever
end. In `Gateway` handlers go on and a read loop drains when its child has died;
no child answers unless it likes to, and no client gives up.

## Proofs

Every invariant and every action property of a passing run is proved for all
values of the constants, and so are both refinements; what is left to TLC is
liveness. No assumption is used beyond those the modules name (`...Assumption`),
which TLC evaluates on every run, and the hypotheses that theorems state. Each
hypothesis is a condition on the constants that the limits above show to be
needed and that the instance of the run satisfies.

| Theorem | Property | Hypothesis |
|---|---|---|
| `StdioRunner_proofs`: `TypeCorrect` | `TypeOK` | |
| `NoForeignResponse` | `OwnResponse` | the child sends no requests of its own |
| `ReaderNeverBlocks` | `ReaderNotWedged` | nor answers a request twice |
| `StdioRunnerStop_proofs`: `StopLeavesNothing`, `FailedStartLeavesNothing` | `StopComplete`, `FailedStartIsClean` | |
| `DrainReachesAll` | `NoCallStranded` | the child neither closes its stdout early nor writes an over-long line |
| `ImplementsRunner` | `ImplementsContract` | the child sends no requests of its own |
| `RunnerPool_proofs`: `PoolTypes`, `SharedRunnerStays` | `TypeOK`, `SharedStays` | |
| `IdentitiesApart` | half of `OneRunnerPerPartition` | |
| `NotReapedInUse`, `OneRunnerEach` | `InUseNotReaped`, `OneRunnerPerPartition` | |
| `LeaksAreLateStarts` | `OnlyLateStartsLeak` | |
| `RateLimiter_proofs`: `LimiterTypes`, `RefusedFairly`, `BucketsBounded` | `TypeOK`, `RefusedOnlyWhenSpent`, `OverdraftBounded` | (the last is an implication itself) |
| `EvictionHarmless` | `EvictionForgetsNothing` | `(EvictAfter + 1 - MaxDelay) * Rate >= Burst` |
| `McpSession_proofs`: `SessionTypes`, `GoneForGood`, `OwnerOnly`, `ExpiryAfterIdleness` | `TypeOK`, `GoneIsFinal`, `ChangedByOwner`, `ExpiryNeedsIdleness` | |
| `Catalog_proofs`: `CatalogTypes`, `GateFollowsGrant`, `ListedIsUsable`, `ListedIsAnnounced` | `TypeOK`, `UseFollowsGrant`, `ListAgreesWithUse`, `AnnouncedIfListed` | |
| `Gateway_proofs`: `GatewayTypes`, `AnswersArrive`, `NothingUnadmitted` | `TypeOK`, `OwnAnswer`, `OnlyAdmittedForwarded` | |
| `ServerLifecycle_proofs`: `LifecycleTypes`, `Implements` | `TypeOK`, `ImplementsService` | |
| `MountOrder` | none: a fact about every sandbox policy | |

### The runner

`TypeOK` of `StdioRunner` is inductive by itself; the proof has one lemma per
group of actions (child, calls, notifications, read loop, start, stop). The
other theorems each need an invariant of their own:

* `OwnInv`, for `OwnResponse`. The property speaks of what a Call has returned;
  the answer travels through the pipes, the hands of the read loop and a
  channel first, so `OwnInv` says what each of them may hold: `IdsOK` (ids
  are handed out once, and `pending` maps each to the Call that drew it),
  `WireOK` (each line on a pipe carries the id of the Call it is for) and
  `HandsOK` (so does what the read loop or a channel holds).
* `OnceInv`, for `ReaderNotWedged`: a request or its answer is in one place at a
  time (`InOnePlace`: pipe to the child, owed by it, pipe from it, the read
  loop, the channel), and only once in each (`OnlyOnce`). A channel of capacity
  one is then empty whenever the read loop has something for it, also for a Call
  that has gone.
* `StopInv`, for `StopComplete` and `FailedStartIsClean`, adds `StopOrder`: only
  the Stop that set `stopped` is at work, its stages are what they claim to be
  (stdin closed, read loop over), no Stop comes before the handshake is over,
  and while Start's own Stop runs no other does.
* `DrainInv`, for `NoCallStranded`, adds `Registered` (a Call is on the pending
  map from its registration until it leaves, so the drain finds it) and
  `ChildEndsLast` (the read loop ends only with the child, after which no write
  succeeds).
* `ContractInv`, for the refinement: `OwnInv` and `StopInv`, with `AnswersKnown`
  (what is on its way to a Call, or has been returned by it, is one of the
  answers the child gave to that Call) and `Spawned`. Each action is then shown
  to be a step of `RunnerContract` or a stutter, one lemma per group of actions.

### The pool

`PoolInv` ties the three views of a runner together: what a handler holds
(`HandlersOK`), how `startOnce`, `started`, `startErr` and the process of an
instance go with each other (`InstsOK`, `OneStarter`, `WarmOK`), which partition
an instance serves on the map and in the hands of handlers (`OnePartition`), and
what a sweeper has taken (`SweepersOK`). It needs no timing, and it is all that
`PoolTypes` and `IdentitiesApart` rest on: that two identities never meet in one
process does not depend on how long anything takes.

What does depend on it is `Kept`: for the idle timeout after its lookup the
instance a handler holds is the one on the map, until `Close`. It is inductive
because `HandlersOK` knows an instance to be at least as recently used as its
handlers looked it up (`lastUsed <= held`), so what the sweep takes is held by late
handlers only. With it, `PooledLive` (a started instance on the map runs) and
`SameInstance` give `NotReapedInUse` and `OneRunnerEach`, and each step that takes
the last hold on a process is shown to be one that overtakes its Start, which is
`LeaksAreLateStarts`. Nothing is assumed of how long a start or a use takes, or of
when `Close` comes.

### The limiter

`LimiterInv` says what a request knows between its steps (`RequestsOK`), that a
bucket belongs to one subject (`OneSubject`), how its two ages differ
(`AgesOK`), and that no bucket in use holds less than the ideal one with the refill
it is due (`NeverShort`), which is why nobody is refused early. `BucketsBounded`
adds the other direction, `PaidOK`: the bucket on the map holds more than the
ideal one by at most a request for each that holds a forgotten bucket or none,
and the refill of a delay; and once nobody holds a forgotten bucket, the
difference melts while the bucket is left alone, which is what `EvictAfter` has
to be long enough for. `YoungOK`, that a bucket created while
an older one is in use is young, says that there is never more than one
generation to pay for.

The proof corrected the model: with a slack of `Cardinality(Requests) * Unit`
the induction fails, and so does the property, on an instance in which a bucket
is created full with an old reading of the clock and then refilled for the time
since. `Slack` has `MaxDelay * Rate` since then, and `EvictAfter` of the run pays
it back.

### Sessions and catalog

`TypeOK` of `McpSession` is inductive by itself. `GoneForGood` and `OwnerOnly` rest on
`HandsOK`: a handler about to create a session holds one that is nobody else's,
any other handler holds one that was minted, and past the identity check its
own. What others do to the store meanwhile is `Harmless` (never unminted, never
a new subject), which is the lemma that carries a handler's knowledge over the
steps of the others. `ExpiryAfterIdleness` rests on `DelaysOK`: a handler about
to write read the clock at most `MaxDelay` ago, the waiting tick is not from the
future, and the last use of a session is at most `MaxDelay` later than its
`LastSeen`.

The invariant of `Catalog_proofs`, `Told`, says that what the client has been
told was computed from the bundles and scopes of the start; `AllowsIsGranted` is
the heart of it: literals first, patterns after, over the union of scopes, is
what the bundles grant one by one.

### The gateway

`GatewayInv` follows a request through the chain: `Passed` (who is past the first
checks has a request that may pass, and an identity), `Checked` (who has come to the
runner owns its session), `WireOK` (an id on the wire was given out by its
runner to one handler, and the line with it is that handler's), `AllAdmitted`
(what a child has is admitted for the partition whose child it is), `Serving` (the
runner on the map, or in the hands of a handler, was built for its partition) and
`PaidFor`
(what of a subject is with a child or about to be sent is no more than its
bucket has paid for, by cardinalities). `RoomOK` is about the bound of the model:
`MayArrive` leaves an id for every handler on its way. Client ids are any
values, equal for all clients if they like; that the reply carries the right one
follows from the wire id alone.

### The server

`LifeInv` says what has come first in each phase of `Run` (`PhasesOK`, `ConfigOK`),
where a request and its runner are, and that who has a cold one is late
(`RequestsOK`), that what `EvictIdle` has taken is no longer in service
(`PlacesOK`), and that the warm-up's runner, or the single one, is always known to
whoever has to stop it (`WarmOK`). From it each action is shown to be a step of
`Service` or a stutter: `Retire`, for one, when `EvictIdle` takes cold runners off
the map, whose requests are late by `RequestsOK`; `Fail` when `Run` returns with an
error; and `Finish` when `Exits` comes with nothing left in service.

`MountOrder` is about `Sandbox` alone: for every policy, the default binds
included, the last of bwrap's arguments that covers a path is what the comments on
the policy say of it, unless the policy grants the path both ways; then it can be
written, against the comment on `BindReadOnly`. It is the statement
`MountOrderIsRight` checks on a set of policies.

### What is only model-checked

The liveness properties (`StopReturns`, `StopTerminates`, `CancelledCallReturns`, `CallReturns`,
`RequestReturns`, `QuietPoolEmpties`, `QuietSubjectForgotten`,
`QuietSessionExpires`, `SignalEndsRun`, `StoresSwept`, `EveryoneAnswered`) are out of
the prover's reach, since they rest on fairness and `ENABLED`, and stay with TLC; so
do the violations, which are counterexamples.

## Not modelled

* Encoding and decoding of JSON (`jsonrpc.go`, the types of `mcp_types.go`): messages
  are abstract values, and a body that does not parse changes nothing.
* Logging and the child's stderr; HTTP details such as headers of replies, body
  limits and the server's read timeouts; and `/healthz`,
  which keeps and changes nothing.
* The client command (`src/cmd/client`) is a stub, and the version package a
  constant.
* What bwrap and the kernel do is a reading of bwrap's argument list (`View`).

## Plan

In order of what matters most; all of it is done.

1. `BackingMCP`, `StdioRunner`, `RunnerContract`: the concurrent core.
2. `RunnerPool`: partitions, eviction and close.
3. `RateLimiter`.
4. `McpSession`: the store and the handlers.
5. `Catalog`.
6. `ServerLifecycle` with `Configuration`, `Sandbox` and `Service`.
7. `Gateway`.

Left: an abstract `Pool` (a map from identity to a live runner) implemented by
`RunnerPool`, and an abstract bucket implemented by `RateLimiter`; with them, their
refinements as theorems. `PoolInv` with `Kept`, and `NeverShort` with `PaidOK`, are
the invariants those proofs would start from. What `Gateway` takes over from the
other modules in larger steps is compared by reading so far; that `Configuration`
never gives a server a store it does not sweep, but for the wrapped durations,
is a lemma worth stating.
