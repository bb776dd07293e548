# A TLA+ verification of warpweft

warpweft runs the methods of *components* through a chain of policy links (degradation, concurrency, cache, circuit
breaker, retry, timeout), slices the state of components and links along *axes* (tenant, endpoint, ...), and serves the
methods as MCP tools, some of them as background tasks. Everything is asynchronous Python on one anyio event loop: code
between two `await`s is atomic, an `await` is a place where every other task may run, and where a cancellation may
arrive. The hazards of this code are at these places, and the modules here are about them.

Paths below are relative to `src/src/warpweft/`.

## Inventory

| Part | State | Operations | Talks to | Hard behaviour | What makes it correct |
|---|---|---|---|---|---|
| Circuit breaker link (`core/pipeline/builtin/circuit_breaker.py`) | state, window of results, opening time, probe slot | admit, settle a success or a failure, `force_open`, `reset` | called by the chain, calls the inner links | results of calls admitted in an earlier state; cancellation; manual transitions in between | trips exactly at the threshold, no probe early, one at a time, never rejects for ever |
| Instance store (`core/pipeline/state.py`) | LRU of instances, pins by `id()`, deferred stops, lock | `get_or_create`, `acquire`, `release`, `evict`, `close` | `Container.invoke` (instances), `build_chain` (links) | eviction against calls in flight; awaits under the lock; `start()`/`stop()` that fail | a pinned instance is never stopped; each is stopped once, and is stopped at all; one per key; bounded |
| Cache link (`core/pipeline/builtin/cache.py`) | LRU with expiry, flights | lookup, lead, follow, land | chain | single flight without a lock; a leader that is cancelled; shared between slices | one call per key, no follower is stuck, no leak between slices, nothing expired is served |
| Background tasks (`mcp/tasks.py`, `_start_task` of `mcp/server.py`) | records, cancel scopes, nursery | start, cancel, poll, progress, terminal write, shutdown | MCP server, container | cancel before start, cancel against completion, expiry, writes that fail, late progress | results are kept, nothing but a late report touches a terminal record, a cancel is honoured, the end is reported |
| Concurrency link (`core/pipeline/builtin/concurrency.py`) | an outer and many inner semaphores | acquire both, release both | chain | nesting, deadlines while waiting, cancellation between the two | limits hold, every slot comes back |
| Retry and timeout links, deadlines (`retry.py`, `timeout.py`, `core/context.py`, `core/errors.py`) | none (per call) | attempts, backoff, per-attempt bound | clock, classifier | last attempt, backoff against the remaining budget | at most `attempts` calls, each for a reason, none after the deadline |
| Degradation (`degradation.py`) | none | replace a failure by the stub | outside the chain | the stub hides an error | only unavailability is masked |
| Chain and link store (`core/pipeline/chain.py`, `core/composition/links.py`, `wiring.py`, `endpoint.py`) | link instances by name and scope; the endpoint in the context | `build_chain`, the onion, the endpoint axis | instance store, container | link instances shared by methods; nested and retried calls | a method runs with its own policy, on the breaker of its own endpoint |
| Container (`core/composition/container.py`) | process instances, scoped stores, chains, caches, active calls, degraded names | `build`, `start`, `stop`, `invoke`, `get`, readiness, introspection | everything | calls against shutdown, failed starts, lazily started slices, captured dependencies | no call on a stopped instance, everything started is stopped, order of the graph |
| Dependency graph (`graph.py`), health (`health.py`) | none | validation, layers, cycles; readiness | container | depth-first search over duplicates, self-loops, cycles | dependencies first; unreadiness goes upwards |
| Configuration (`config.py`, `registry.py`, `policy.py`, `settings.py`, `runtime/sources.py`) | caches of merged config and provenance | merge of layers, slice overrides | container | precedence and provenance agree; overrides that change | the last layer that says something wins, per field and per slice |
| Axes (`core/axes.py`, `runtime/tenancy.py`) | values seen, warned axes | bind, resolve, observe | everything that is sliced | threads in `_observe` | canonical keys, the watch is exact |
| Components and descriptors (`core/component/`) | none | `describe`, `register` | registry | what is refused | only what can be built is accepted |
| Dependency calls (`core/telemetry/dependency.py`) | endpoint in the context | call through a captured proxy | the captured instance | an instance that is stopped meanwhile | a dependency that is called is live |
| MCP server (`mcp/server.py`, `mcp/tool.py`), tasks extension (`mcp/tasks_extension.py`) | bindings, requests under way | collect, filter, list, call, task tools | container, task runner | order of validate, confirm, bind, run; two surfaces on one record | no execution without consent; answers conform to what is advertised; the surfaces differ as documented |
| MCP over HTTP (`mcp/http.py`), application (`runtime/app.py`) | the claim of the lifespan, the container of the app, the open runner | enter and leave a lifespan, `start`, `stop` | container, task runner, SDK session manager | hosts that overlap, starts and stops that fail | one lifespan at a time, a running container whenever a request gets in |
| Clocks, actions, telemetry, formats, CLI parsing, discovery, schema building | none, or observation only | | | | see "Not modelled" |

The hazards of `PROJECT.json` are the hard behaviours at the lines where they bite.

## Modules

| Module | Models | Composed with |
|---|---|---|
| `CircuitBreaker` | one breaker and the calls through it | |
| `StateStore` | the instance store and the tasks that use it as `Container.invoke` does | implements `InstanceLeases` |
| `InstanceLeases` | what such a store promises: the abstract specification | |
| `Cache` | the cache link and its callers | |
| `Pipeline` | concurrency, retry, timeout and degradation in any order, with nested calls | |
| `DependencyGraph` | validation, layers, readiness | |
| `Container` | the life of a container: start, invocations, drain, stop | extends `DependencyGraph` |
| `Assembly` | pure definitions: descriptors, layers of configuration, links, endpoints, the harness | |
| `Slices` | calls of several slices in a running container: configuration, capture, eviction, links, endpoints, axes | extends `Assembly` |
| `TaskRunner` | the task runner, the task store, the jobs and their progress | |
| `ToolServing` | pure definitions: which tools are served, listed, and how they answer | |
| `Server` | tool calls, confirmation, the task tools and the extension | extends `TaskRunner` and `ToolServing` |
| `Application` | an App, its hosts and the lifespan of the HTTP app | |
| `..._proofs` | the theorems of a module | |
| `...MC` | the instance that TLC checks | |

Operators marked `Mutant:` are plausible mistakes in the definition that follows them; putting one in place of its
neighbour makes TLC report the property it is listed with in `PROJECT.json`. They are not used otherwise.

### Conventions

An action is what the code does from one `await` to the next. The critical section of an uncontended lock that awaits
nothing inside is one action; where the code awaits while it holds the lock (`get_or_create`, `close`) the lock is a
variable. Acquiring an anyio lock in a cancelled scope raises before the body of the `with` runs: this is how
cancellation is modelled (`CircuitBreaker!Cancel`). Time is counted in ticks and only as far as a comparison in the code
can tell. Variables called *history* are not in the code: they say what has happened, so that a property does not depend
on the very variable that the code uses to bring it about.

### CircuitBreaker

`state`, `window`, `slot` and `elapsed` are `_state`, `_window`, `_probe_in_flight` and the time since `_opened_at`
(which stops at `ResetTimeout`, beyond it nothing is told apart). A call is at `idle`, `calling` (its guarded call
runs), at one of `ok`/`transient`/`permanent` (the guarded call has ended and its task waits for the lock), or
`rejected`. `AdmitClosed`, `AdmitAfterTimeout`, `AdmitProbe` and `Reject` are the branches of `_admit`; `OnSuccess`,
`OnTransient` and `OnPermanent` those of `_on_success` and `_on_error`. `probes`, `tally` and `spoilt` are history: the
calls admitted as probes in this half-open period, the transient failures recorded since the window was cleared (those
of calls admitted in an earlier closed period among them: the code does not ask), and whether the permanent failure of
another call has freed the slot of the probe.

### StateStore and InstanceLeases

A task makes an instance (`making`, `start()` under the lock), trims the store (`trimming`), uses the instance it has
pinned (`using`), or waits for a `stop()` (`stopping`, `closing`). Identities are reused: a new object may get the
identity of one that nothing refers to any more, because `_refs` and `_pending_stop` are keyed by `id()`. A
`StopMayFail` store has `stop()`s that raise or are cancelled, and with them the operations that await them.

`InstanceLeases` knows no keys, order, lock or counts: a call leases a published instance, an instance that is retired
while it is leased is stopped at the end of its last lease, and at no other time before the store is closed. The
refinement maps `leases[i]` to the tasks that use `i` and `published` to the instances in `_entries`.

### Cache

`stored` is `_store` with ages for expiry times, `inflight` the leader of each key. A lookup runs up to the next await
or return as one action (`Hit`, `Follow`, `Lead`); the end of the real call (`Complete`, `CancelLeader`) wakes the
followers, whose results are fixed then. `since` is history: the time since a real call last left a result for a key.
`left` is the rest of a caller's deadline; the timeout link inside the real call keeps a leader within it.

### Pipeline

A call goes down the chain (`at = "down"`), link by link, and its outcome comes up (`"up"`); it waits for a semaphore
(`"wait"`), for its backoff (`"backoff"`) or for its base call (`"base"`). Only the base call, the waits and the backoff
are awaits: between two of them a call takes all its steps before anybody else takes one. Deadlines, the timeout scope
and the backoff are what is left of them, and a timer that is due fires before the next tick. Semaphores are handed over
in the order of arrival, as anyio's are. A base call may call its component again (`parent`), as the bound invoker
allows. A breaker is a base call that fails at once; the cache is a module of its own.

### DependencyGraph and Container

A component is a number, so that `sorted()` is `<`. `_check_missing`, `_check_lifetime`, `_check_cycles` and
`startup_layers` are steps of `Build`, with the grey nodes of the depth-first search as the explicit `stack`, and
`Pending` what the loop of `visit()` has before it. `phase` says where `start()` or `stop()` is; `inst` is what happens
to each process instance, and `members`, `chains`, `degraded`, `shut` and `links` are `_process`, `_process_chains`,
`_degraded`, and whether the stores are closed. `call` is where an invocation is between two awaits and `active` is
`_active_calls`. `start()` and `stop()` are awaited by one owner, one after the other; each component may fail or time
out. The owner itself may be cancelled in `start()` (`OwnerCancels`); the clean-up then runs in the cancelled scope and
is broken off at its first await, which leaves instances running (`raised`). After the process instances, `stop()`
closes the scoped stores one by one (`CloseStore`), with no timeout: the `stop()` of a slice returns (`CloseEnds`),
raises and ends `Container.stop()` there (`CloseRaises`), or does neither. `late` and `overtime` are history: the calls
counted after the drain, and those that the drain has given up.

### Assembly and Slices

A mapping of mappings is a function on the paths of its entries, nested ones included, so that `deep_merge` and its
provenance are one set expression each (`Merge`, `Traced`), and `DeepMerge` lays one layer over the other. The sources
of a deployment are merged among themselves before they become a layer of the container, and the provenance of that
merge is thrown away: `FieldByField` says of both merges that the last layer to speak of a leaf decides it, and of the
container's layers alone that the leaf is traced to it. A value of an axis is the sequence of its pieces between commas,
a piece being a plain text or one that reads as `axis=value`, and `DefaultEndpoint` is the text that the code joins, so
that two keys may have one text. `Described` is the answer of a container built afresh, with an empty cache, that asks
the resolver again. `Buildable` is what `register()`, `build()` and `start()` refuse or accept; `Resolved` and the link
definitions are `resolve_policy`, `link_settings` and the store key and scope of each link; `Harness` is the chain of
the test harness.

In `Slices`, a task binds axes, invokes a method (`Invoke`), which resolves the configuration of the slice and its
instance with what it captures of its dependencies (`Enter`), goes through the links (`Descend`), and in the base call
invokes other components (`Invoke` again) or its captured dependencies (`Depend`). `stack` holds the calls of a task,
`endpoint` the context variable that a call sets and restores. `Tune` changes what the resolver answers and `Introspect`
is `explain()`, at any time. `Evict` drops any slice, and stops it unless a call is running on it: the order of the LRU,
the counts and the deferred stop are the subject of `StateStore`. The `bindings` of an app are what its requests bind.
`met` is history: the values that an axis has been resolved to.

### TaskRunner, ToolServing and Server

A record is a status and a result; `age` is the time since `last_updated_at`. A job is `spawned`, `running`, `ended`
(its scope has been left), `failing` (an exception is on its way to the last-resort handler) or `gone`. The terminal
write is one action, shielded, after the end of the job. With any store a subtask that inherits the progress sink may
report after the end of the job, before the terminal write or after it (`LateProgress`). In a `faulty` runner the store
is a custom one whose writes may raise, before or after taking effect. `payload`, `asked` and `stray` are history: what
the job has returned, who was cancelled while it was live, and the tasks on whose settled record a report has come.

`Server` adds the requests of the clients. A request is answered in the step that takes it unless it waits for the user
(`asking`) or for `invoke()` (`invoking`). `ran` is history: what the user had said when a destructive tool was last
run. A client is modern or not, has the tasks extension or not, can be asked or not, and has a channel to be asked on or
not. `TaskStatus`, `TaskResult` and `DetailedTask` are what the task tools and the extension tell of a record. The
return type of a tool is the set of values it admits, an answer is the content that the client gets for a value (wrapped
or not, as the code does it), and a schema is the set of contents it admits; the `oneOf` of `task_result` admits the
contents that exactly one background tool's model admits (`TaskResultSchema`), so that a value of two return types is
refused by it (`Ambiguous`).

### Application

A host is one entry of a block: of `App.run`, of `open_server` over stdio, or of the lifespan of one `MCPHttpApp`. A
container is named by the host that has built it. `running`, `inner` and `current` are `_running`, `_inner` and
`App._container`. A host that starts may join the container of another; one that leaves stops whatever container the App
has then. A start that fails stops what it had started, or leaves it running if the host was cancelled (`StartFails`).
`disturbed` says that a component may raise in `stop()` or the host may be cancelled in it. The run has no fairness:
`Container.stop()` need not return (see `Container`), so that nothing can be promised of a host that leaves.

## Runs

| Run | Checks | Instance |
|---|---|---|
| `CircuitBreaker` | threshold, stale results, one probe unless another call spoils it, justified trips; callers are let through again and again | 3 calls, window 3, threshold 2, timeout 2, all outcomes, cancellation, manual transitions; 16 900 states |
| `StateStore` | pins, keys, leaks, refinement of `InstanceLeases`, deferred stops | 3 tasks, 3 keys, 4 identities, 2 entries, `start()` and `stop()` fail; 123 000 states |
| `Cache_safety` | single flight, slices, expiry, followers are served | 3 callers, 3 slices, 2 entries, ttl 2, every caller may be cancelled; 145 000 states |
| `Server` | records, consent, advertising, the two surfaces, what may touch a terminal record, cancels honoured, ends reported | 2 tasks, one request at a time, clients of 4 kinds, 73 servers; 178 000 states |
| `Container` | cycles, order of starting and stopping, all or nothing, readiness, drain, stop returns | every system of 3 components is built; one of 5 with a diamond over process and scoped components also runs, with 2 calls, and its owner may be cancelled; 119 000 states |
| `Pipeline` | slots, deadlines, masked errors, attempts, hangs are cut | 3 callers of 2 slices, six chains, limits 1, 3 attempts, budget 2 or none; 181 000 states |
| `Application` | one lifespan, a container while it is served | 3 hosts of all kinds, disturbed or not; 251 000 states |
| `Slices` | merging, overrides, introspection, endpoints, the cardinality watch | 2 tasks, calls nested twice, 1315 initial states; 329 000 states |
| `CircuitBreaker_lost_probe` | **violation** of `ProbeResolves` | 2 calls, one of them cancellable |
| `Cache_budget` | **violation** of `BudgetRespected` | 2 callers, one with a deadline |
| `Slices_settings` | **violation** of `LinksHaveOwnSettings` | one component with two methods, one of which tunes its retries |
| `Slices_stopped` | **violation** of `DependenciesAreLive` | a scoped component that depends on another of its scope |

Why these bounds are enough to be interesting:

- Three calls of a breaker are a probe, a stale call and a newcomer; a window longer than the threshold lets old
  failures slide out.
- Three tasks on a store of two entries are a pinned instance, its evictor and a third that reuses an identity; four
  identities let every task hold one while another is stored.
- Three callers of a cache are a leader and two followers that compete when it is cancelled; three keys on two entries
  overflow the LRU.
- Two tasks of a runner show that the end of one job is not that of another, and the clients are one for each way of
  asking and of answering. A second request in flight shares nothing with the first but the tasks.
- Three components show every cycle, self-loop, duplicate, missing dependency and lifetime leak; the web of five has a
  diamond, a layer of two, a chain of scoped components, and an optional one below a required one.
- In a pipeline two callers of one slice compete for the inner slot and one of another for the outer, three attempts
  have two backoffs, and a budget of two ends in the middle of either.
- Three hosts are one that serves, one that enters or leaves meanwhile, and one that comes later.
- The deployments of `Slices` are the 1296 combinations of what four layers may say of one mapping, what is refused, and
  eight that run: nested calls, slices with overrides, an axis with a cap, a captured dependency, deployment sources,
  degradation, two axes whose values have commas so that two keys have one text, and a resolver that tunes a component
  without slices. Two nested calls show an endpoint that is set and restored.

All counters are bounded by what the code compares (`ResetTimeout`, `TTL`, `Budget`, `Attempts`); nesting by `MaxDepth`.
Calls, identities and requests are reused without bound. A task id runs one job, a caller of `Pipeline` makes one call
and a host is entered once: these systems stop, as do a refused deployment, a graph that is only built and a container
whose owner does not start it again, and their runs have `CHECK_DEADLOCK FALSE`.

Only `Slices` uses symmetry, of its tasks, and it has no temporal property.

### Fairness

- `CircuitBreaker`: weak fairness of every step of a ready task (the event loop is fair), of the end of a guarded call
  (the timeout link is inside the breaker), of callers that come back, and of the clock.
- `StateStore`: weak fairness of `start()`, `stop()` (`init_timeout`, `drain_timeout`) and of the end of a call.
- `Cache`: weak fairness of a woken follower and of the end of the real call. `FollowersAreServed` assumes that leaders
  are not cancelled for ever, since a follower that looks again may find a new leader before it.
- `Server`: weak fairness of the steps of the runner. Jobs are not assumed to end, nor users to answer: a task that is
  not cancelled may run for ever.
- `Container`: strong fairness of the owner's steps, because a lock that calls take again and again is granted in the
  order of arrival, to `close()` too, and the starts, the drain and the stops of process instances are bounded by
  `init_timeout` and `drain_timeout`; weak fairness of resolutions (`init_timeout`). A running call may never return,
  and neither may the `stop()` of a slice, which nothing bounds: `StopReturns` says that `stop()` ends or waits there.
- `Pipeline`: weak fairness of what is ready to run, and of the clock. A base call may never end.

## Findings

The violation runs show where the code does not do what a docstring or a comment says:

- `CircuitBreaker_lost_probe`: when the scope of the probe is cancelled, taking the lock in `_on_error` raises and the
  slot is never released (`circuit_breaker.py:165`); the comment says that cancellation releases it. Everybody is
  rejected until an operator resets the breaker.
- `Cache_budget`: a follower's wait (`cache.py:122`) ignores its own deadline; `budget` is documented as an overall
  deadline of the call.
- `Slices_settings`: the link store knows a link by its name, version and scope, and the scope of all links but the
  breaker and the semaphores is empty (`chain.py:61`): the retry link made for the first method that runs serves every
  other one, whatever its policy says.
- `Slices_stopped`: a captured scoped dependency is not pinned (`container.py:447`): its own store may evict and stop it
  under the call of its dependent.

Met while modelling, and described here only:

- A permanent failure of a call that was admitted while the breaker was closed frees the slot of the probe in flight
  (`circuit_breaker.py:170`); the docstring promises exactly one probe. `OneProbeUnlessSpoilt` says that this is the
  only way to a second one.
- The first `stop()` that raises in `StateStore.close()` (`state.py:151`) leaves the others running, and a second
  `close()` returns at once.
- `update()` of a task record (`tasks.py:151`) has no guard for terminal records: a progress report of a detached
  subtask makes a completed task "working" for ever, although a terminal task "never changes again", and `server.py:699`
  wants no poller to loop for ever. `TerminalIsFinal`, `SurfacesAgree` and `PollersAreTold` name this report as the one
  exception.
- The `oneOf` that `task_result` advertises (`server.py:354`) refuses a result that the return types of two background
  tools admit. `AdvertisedIsReal` excepts it.
- New calls are admitted until `stop()` is over (`container.py:325`): one that is counted after the drain loses its
  instance, although the docstring says that active calls are drained first. `DrainProtects` is about the others.
- A method that calls its own component at limit 1 waits for the slot it holds (`concurrency.py:93`), until a deadline.
- A retry link that retries permanent errors (`retry_on`) raises the last one wrapped in `RetryExhausted`, a transient
  error (`retry.py:101`), which the stub then hides (`degradation.py:18` says a permanent error is re-raised).
- Two hosts that start one App at once build two containers (`app.py:153`); the first is never stopped. A host that
  starts during the stop of another may join a container that is going down.
- A scoped dependency that is captured across a narrower scope is the one of whoever came first (`container.py:415`).
- `stop()` stops all process instances and then closes the scoped stores (`container.py:325`), so that slices outlive
  what they depend on, where the docstring says "in reverse dependency order". `DependenciesOutlive` ends for slices
  with the drain.
- The scoped stores are closed outside of any timeout (`container.py:326`, `state.py:151`): a slice that hangs in
  `stop()` keeps `Container.stop()`, and the host of the application with it.
- A cancelled `start()` cleans up in the cancelled scope (`container.py:271`): the first await raises, and what was
  started goes on running. An optional component whose constructor or configuration raises aborts the start
  (`container.py:299`); a container that is started again has a closed link store; a caller that waits for the lock of a
  scoped store beyond `init_timeout` is told that the component is degraded (`container.py:424`).
- `App.config_mapping` merges the sources before the container sees them, so that errors name the deployment
  configuration and not the file or the variable: the provenance of that merge is dropped (`app.py:136` against
  `app.py:122` and `docs/runtime.md:58`). The two merges are not one: a mapping that the file sets to null and the
  environment sets again is, for the container, as if the file had not spoken, and the fields of a framework default
  show through it. `deep_merge` keeps the provenance of paths that a later scalar has replaced.
- The text of an endpoint joins `axis=value` with commas (`endpoint.py:33`), and the header binder passes any value of a
  header: `a=x,b=y,b=z` is the text of two keys, whose slices share one breaker, against the docstring of `default_endpoint`.
  `EndpointsApart` is about keys without commas, and the run has a deployment in which two others collide.
- `describe` and `explain` of the command line build a container of their own (`cli.py:100`), which asks the resolver
  anew: what they print may differ from what the server runs with.
- The harness of the tests says it builds the same chain, but leaves out the layers of the component's defaults and of
  the framework.

## Proofs

The proof modules are checked by TLAPS; their theorems hold for every value of the constants that satisfies the named
assumptions, which are what validators and constructors enforce, plus the finiteness of the sets of tasks, calls and
hosts where something is counted.

**CircuitBreaker.** The invariant is the conjunction of `TypeOK` with the safety invariants and `TallyCoversWindow`: the
failures in the window are at most those recorded since it was cleared. The latter is needed for `TripJustified` only:
the window drops old results, so that the count in the window alone says nothing of the past. The lemmas on which the
steps rest say what the bounded deque does to the count of failures (`PushFailures`). A step of the breaker is of one of
three shapes (`OpenIInv`, `CloseIInv`, `QuietIInv`), which the proof of `NextIInv` reuses. `OneProbe` is about all
outcomes: while no permanent failure of another call has freed the slot (`spoilt`), there is at most one probe and it
holds the slot, so that neither cancellation nor `force_open`, `reset` or a late result makes a second one.

**StateStore.** `IInv` has three parts. `StoreInv`: entries are distinct, what is stored is live and not deferred, what
is deferred is live and pinned, a closed store is empty, `close()` takes live instances, and the store is above its
bound only if the owner of the lock is about to trim. `UsersInv`: for each task, who owns the lock, that the instance
being made is at the end of the sequence until the store is trimmed (so that a task never evicts what it is about to
return, which takes `max_entries >= 1`), that a call's instance is live, and that two tasks never stop the same
instance. `PinsAreOwned`: the counts are cardinalities, by the lemmas `PinCounts` and `UnpinCounts`. Two arguments meet
at an eviction (`EvictPart`): an unpinned instance has no call on it because the count is exact, and a pinned one stays
live because whoever drops the last pin finds it in `_pending_stop`. The refinement (`ImplementsLeases`) maps each
action to one action of `InstanceLeases` or to a stutter, again from `IInv`, failing `start()`s and `stop()`s included.
`NoLeak` and `CloseStopsAll` assume `StopMayFail = FALSE`.

Because the store implements the leases, it keeps what they promise (`LeasesAreLive`, `NothingIsLost`): leased instances
are live, and no instance goes on running that is neither published nor leased while the store is open.

**Cache.** `SingleFlight` is about the calls that lead, and follows from `LeadersInv`: the flight of a key is that of
the caller who leads it. It survives a cancelled leader because only its own flight is taken back. `StoredInv` says of
each entry that its result is of the slice in its key, and that it is at least as old as the last real call for the key:
the first half gives `NoLeakBetweenSlices` for hits, where followers have it from the key they share with their leader,
and the second half gives `NeverServesExpired`. The lemmas `RemoveAtEntries` and `PutEntries` say that hits, expiries
and evictions bring nothing new into the store.

**Pipeline.** The chain is any sequence of distinct links with degradation outside; its links' order is not used. Per
call, `PlaceInv` says which link it is at, `TriesInv` that it has no more base calls than attempts and that whoever may
come to the base call again has been failed by the last one, `ErrorInv` that a permanent error that is not retried is on
its way up, and `TimeInv` relates the three timers: the scope of the timeout link cancels no later than the deadline, it
is set for whoever is below that link, and a pause is shorter than what is left of the budget. The last is why
`DeadlineKept` holds: at the deadline a waiter, a pause or a base call is due, so that the clock cannot pass it.
`SlotsInv` counts: queues hold waiters, once each, who do not have the slot; the free slots and the holders add up. Each
way out of the link (`AcquireSlots`, `DequeueSlots`, `LeaveSlots`) has its lemma, and `StaysBelow` says that no other
step leaves it with a slot. `ErrorsSurface` assumes `RetryOn = "transient"`: if permanent errors are retried, the
attempts may run out on one and the stub stands for the exhaustion.

**Server.** `ServerImplementsRunner` maps each step of the server to a step of `TaskRunner` or a stutter, so that
`WorkingTrue` and `ScopesMatchJobs` are proved of the runner alone. `RunnerInv` is a table: for each place of a job,
what its scope, its record and its payload may be. `RecordsTrue`, `TerminalStays` and `SurfacesDifferAsTold` are read
off it, with `stray` for the tasks that a late report has come upon, whatever the store; `TerminalStays` needs in
addition that nothing but the write of its own job and a report updates the record of a task, and that an expired record
is never brought back. `ConsentComesFirst` needs no invariant but itself: every branch that runs a destructive tool has
its accept in the same step, or has had it when it left `asking`. `AdvertisementsHold` compares two definitions that the
code keeps apart, how a call or a stored result is rendered and which schema was listed for it, by the kind of the tool
and of the client; for `task_result` it shows that the model of the tool itself admits the result, so that the `oneOf`
can only fail on a second model that does (`Ambiguous`), and that models with one key are one model, because names of
served tools are distinct.

**Application.** `ClaimInv` ties `running` to the one HTTP host that is inside; `ServingInv` says where the host is that
serves, runs a call or runs jobs; `AloneInv` says, of an App with HTTP hosts only and undisturbed stops, that whoever is
past the start has a started container, and that nobody leaves one behind for the next to join. The last one needs
`ClaimInv`: a second host inside could stop the container of the first.

**Container.** `GraphInv` is that the search leaves a node after its dependencies, so that among the nodes that are left
out of every layer the first one to be left would be ready: `startup_layers()` ends with every component in one layer
and its dependencies in earlier ones (`LayersSort`). `InstInv` and `LayerInv` add that only the layer under way is
starting, all that is there is of that layer or an earlier one, and whoever stops is alone; `DependenciesOutlive` is
then kept for process instances by `StopNext`, which takes a component of the last layer. Its part about slices rests on
`SlicesInOrder` (a slice is bound to dependencies that are there) and on the phase: no process instance stops before the
drain is over. `WholeInv` says what is there in each phase while no `stop()` has been broken off, `SliceInv` that a
slice is being made exactly while a call owns it, and `CallInv` that `_active_calls` counts the running calls, all of
which came after the drain, or were given up by it, once it is over. `DrainProtects` needs them all. For `CyclesRefused`
the search is followed along its path (`PathInv`): a node that is met again on the path closes the cycle that is
reported, and a search that ends without one has left every node after its dependencies. `ReadinessIsTrue` compares the
recursion of `ready()` with the least set that is closed under required dependencies, by the layer at which the two
would first differ. From: finitely many components and calls (`SystemsAssumption`, `CallsAssumption`).

**Slices.** `StackInv` says what a stack of calls is: only the innermost call of a task resolves, goes through links or
runs, and the others wait in their base. Three invariants stand on it.
- `AxisInv`: a value that has been met and is not counted is still to be looked at by the task that met it, unless the
  warning is out. That is what the second look under the lock is for, and gives `WatchExact`.
- `EndpointInv`: the endpoint in the context of a task is that of its innermost call, and what the call inside it will
  restore is that of the call outside (`Within`), calls through proxies excepted, which have no links. Two endpoints
  that no component names are equal only if component and slice are (`EndpointsDiffer`), if the values have no commas:
  the first piece of the text is the name, which `Buildable` makes unique, and two keys over the same axes are compared
  by induction along `AxisOrder`, where their texts have the same length and each piece tells one value (`TextsDiffer`).
  So `EndpointsStayApart`.
- `ConfigInv`: what is in the cache was assembled with an answer of the resolver for that component and slice, is valid
  and never replaced; every instance has its entry; and the chain of a call is what its entry gives. From this follow
  `OverridesStayInTheirSlice` and `ExplainTellsTheTruth`. The latter has three parts: `explain()` of the running
  container for every slice; `describe`, which asks a resolver anew, for components that no resolver tunes; and the
  harness, for what the deployment alone configures, which rests on `SameChain`: a chain depends on nothing but the
  policy section.

`LayeredFieldByField` is about lists of layers of any length: the values of sources, the values and the provenance of
the layers of a container. The recursive function of `DeepMerge` is shown to exist and to satisfy its equations
(`DeepMergeIs`), and the claim is carried from n layers to n + 1 by looking at the least length at which it would fail
(`NoFailure`), with what a leaf is owed to after n layers as the hypothesis (`LastLayerWins`). The invariant was found
false in an earlier form that took the two merges for one; the deployments of the run now contain the case. Assumed of
the apps (`AssemblyAssumption`, `SlicesAssumption`): tasks are finitely many, dependencies name classes of the app, caps
are positive, the sources are a list, requests bind axes of the app, and the axes are listed in the order in which keys
are sorted. Names of components and axes are assumed to be free of the separators of the endpoint's text; values are
not.

Every safety property that a run checks is a theorem. Only model-checked are the liveness properties (`KeepsAdmitting`,
`DeferredStopHappens`, `FollowersAreServed`, `CancelHonoured`, `PollersAreTold`, `StopReturns`, `HangsAreCut`), because
fairness and `ENABLED` are out of the prover's reach. The four violations are counterexamples and have no proof.

## Not modelled

- Telemetry, logging and observation: spans and metrics decide nothing.
- Formats, the schemas of tools, binders, the rendering of errors: pure conversions, here a step that may raise.
- The command line and discovery: parsing and imports. What `describe`, `explain` and `check` answer is in `Assembly`.
- Actions: a thin base class over components. A callable dependency that goes through a chain of its own is left out.
- Clocks: each module that reads a clock has a `Tick`; `ManualClock` is a test helper.
- HTTP routing, origins and transports; the SDK's session manager is external (`Application!Answered`).
- In `Pipeline`: jitter, the `retry_after` hint, a cache or a stateful breaker in the chain. In `Container`: recovery of
  an optional component, and the tenants of a store, which are in `StateStore`. In `Slices`: eviction of links, the
  deferred stop, dependencies of dependencies, snapshots. `explain()` leaves out the degradation link.

## Plan

1. A link store with eviction under `Slices`, on top of `StateStore`, for the breaker and semaphores that calls are in
   flight on.
2. The composed chain of cache, breaker and retry: what a follower or a rejected call costs the attempts of another.
