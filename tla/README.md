# TLA+ models of graphql-go-tools

The repository is a GraphQL engine for federation: it parses and normalizes
operations, plans fetches to subgraphs, resolves responses (with `@defer`),
keeps subscriptions open to clients and to subgraphs, and offers a WebSocket
server for them. This directory holds TLA+ modules of the parts in which
several goroutines share state, TLC configurations that check them on small
instances, and proofs checked by TLAPS.

## 1. Inventory

| Component | State | Operations | What is hard |
|---|---|---|---|
| **Resolver, subscriptions** (`v2/pkg/engine/resolve/resolve.go`, from line 824) | `triggers` by id, `subscriptionsByID`, `subscriptionsByConnection`, per trigger its subscriptions, `initialized`, context; per subscription `removed`, `completed`, `writeMu`; per updater `done` and its mutex; the Reporter's counts | add and remove subscriptions, the seven updater callbacks, startup hooks and `Source.Start`, heartbeat loop, shutdown | removals by clients, failed writes, the data source and the shutdown at once; writes outside the registry lock; trigger ids reused while goroutines of the former trigger still run |
| **Inbound request single flight** (`inbound_request_singleflight.go`, `ArenaResolveGraphQLResponse`) | map of in-flight requests, follower counts, `maxConcurrency` tokens | join or lead, resolve, finish | a follower arriving while the leader finishes; order of what is published and the close that publishes it |
| **Subgraph request single flight** (`subgraph_request_singleflight.go`, `Loader.loadByContext`) | map of items, size estimates | join or lead, load, finish | same, and the wrap of the size window |
| **Loader** (`loader.go`, `loader_multi_entity.go`) | data buffer, errors, tainted objects | walk the fetch tree serially and in parallel, authorize, rate-limit, load, merge | results merged in plan order whatever the order of arrival; failed dependencies |
| **`@defer`** (`resolve.go` 528-784, `defer_tree.go`) | outstanding count, tree of deferred groups, writer lock | initial response, one payload per group | concurrent siblings, `hasNext:false` last and once, a failed parent |
| **Subscription client** (`graphql_datasource/subscriptionclient`, bridge `graphql_subscription_client.go`) | pool of WebSocket connections by key, dials in flight, subscriptions per connection; SSE connections | dial, subscribe, dispatch, unsubscribe, ping, idle close, shutdown | pool entries replaced while an old connection closes; idle timer against a new subscription; dial on another caller's context |
| **Subscription server** (`execution/subscription`, `.../websocket`) | cancellations by id, acknowledged flag, init timer, read-error timer | init, start, stop, terminate, keep-alive | init timeout against ack; reuse of an id; termination while operations end |
| **Plan postprocessing** (`v2/pkg/engine/postprocess`) | none (pure) | deduplicate, merge, order and group fetches by dependencies, schedule, build the defer tree | every fetch after its dependencies, none lost, ids rewired after each rewrite; the scheduler never slower than what it replaces |
| **Planner, AST packages, data sources** | none between calls | sequential data processing | not a matter of interleaving; covered by the repository's tests |

How they interact: the execution engine plans an operation and calls the
`Resolver`. Queries go through the inbound single flight, the concurrency limit,
the `Loader` (whose fetches go through the subgraph single flight) and the
`Resolvable`, which renders. Subscriptions register under a *trigger*, one per
hash of input and headers; the trigger's `subscriptionUpdater` is handed to the
data source, which calls it back for every event of the upstream connection, and
each event is resolved and written to every subscription of the trigger. The
subscription server feeds client messages to the engine and its cancellations to
the contexts the resolver waits on. A GraphQL data source that is started for a
trigger calls the subscription client, whose transport shares WebSocket
connections between triggers and calls the updater through the bridge. Deferred
responses are walked fragment by fragment after the initial one, each with a
`Loader` of its own. The trees all these loaders walk are made by the
postprocessing of the plan.

`PROJECT.json` lists every component with its status, and under `hazards` each
place in the code where something hard to test can go wrong, with the property
that watches it.

## 2. Modules

| Module | Models |
|---|---|
| `ResolverSubscriptions` | the subscription half of the `Resolver` |
| `MCResolverSubscriptions` | its instances for TLC |
| `ResolverSubscriptionsProofs` | its theorems: type correctness, indexes, closing, writes, triggers, counts, shutdown |
| `ResolverSubscriptionsObservers` | its theorems about what others see: a blocking call that has returned, and the Reporter's trigger count |
| `SingleFlight` | what a single flight promises (abstract) |
| `SubgraphSingleFlight`, `SubgraphSingleFlightProofs` | `SubgraphRequestSingleFlight` under `loadByContext`; implements `SingleFlight` |
| `InboundSingleFlight`, `InboundSingleFlightProofs` | `InboundRequestSingleFlight` under `ArenaResolveGraphQLResponse` |
| `IncrementalDelivery` | what a client of a deferred response may rely on (abstract) |
| `DeferResponse`, `DeferResponseProofs`, `MCDeferResponse` | `ResolveGraphQLDeferResponse`; implements `IncrementalDelivery` |
| `FetchGraph` | dependency graphs and fetch trees: order, predecessors, validation, dominance, the calls of `schedule` |
| `FetchExecution`, `FetchExecutionProofs` | postprocessing, the scheduler call by call, then the `Loader`'s walk of the tree it left |
| `FetchTree` | the scheduler of `postprocess` as the recursion it is, and how long a tree takes (for TLC) |
| `ScheduledExecution`, `MCFetchExecution` | `FetchExecution` compared with that recursion, and its instances |
| `WSTransport`, `WSTransportProofs`, `MCWSTransport` | the WebSocket transport of the subscription client with the bridge's `Subscribe` |
| `SubscriptionServer`, `SubscriptionServerProofs`, `MCSubscriptionServer` | a client connection of the subscription server: handler, both protocols, engine |

### ResolverSubscriptions

A section of code under `Resolver.mu` is one step, as is a section under
`trigger.mu` together with the `getTrigger` before it: a trigger that is detached
between the two has no subscriptions left, so the snapshot is the one taken after
the detachment. Everything after an unlock is a step of its own:

* A removal leaves a *tail* in `tails`: the `completed` channels its goroutine has
  to close (each needs the subscription's `writeMu`), then the trigger contexts it
  has to cancel. `owner` is the goroutine, which does nothing else until its tail
  is gone.
* A goroutine that writes to clients has a set of *jobs*: `todo`, `checked` (what
  is read before `writeMu`), `writing` (the mutex is held), `unsubscribe` (the
  write failed and the mutex is released). The updates of one event run in
  parallel, everything else one after another, in map order, that is in any order.
* `upd[t]` is the call that holds `subscriptionUpdater.mu`; the lookup of the
  trigger by id is a step after the check of `done` and the context, because
  `Resolver.mu` is taken after it. `start`, `hook` and `caller` are the program
  counters of the goroutine that starts a trigger, of the one that runs the hooks
  of a joining subscription, and of a blocked `ResolveGraphQLSubscription`.
* Trigger structs are distinct from trigger ids: `Trigs` bounds how many may be
  created, `tid` is the id a struct carries, `triggers` says which one the registry
  holds. All lookups by id that the code makes are lookups by id here.

Payloads, filters and rendering are reduced to who is written to and whether the
write fails. Ids of subscriptions are not reused (`ResolveGraphQLSubscription`
takes a new `ConnectionID`; callers of the asynchronous variant are expected to).
The clock is not modelled: a heartbeat may come at any time.

`Moves` names what the environment (clients, servers, data sources, hooks,
networks) does in an instance. It only restricts who acts from outside; every step
of the resolver's own goroutines is always possible.

### Single flights

`SubgraphSingleFlight` has one step for each access to the shared maps, channels
and size estimate. A response is its length; 50, the size window, is the constant
`Window`. `SingleFlight` keeps of this only which flight a request takes part in
and with what it returned; under the mapping `flight <- item` and
`outcome <- Outcome` every step is one of its steps or stutters.
`InboundSingleFlight` models one key and the tokens of `maxConcurrency`, with the
path on which a woken follower finds no bytes and resolves by itself.

### DeferResponse

One step is one section under the lock of the `DataBuffer` or what a goroutine does
between two of them: a fragment is fetched outside the lock (`Fetched`,
`FetchFails`), its frame is rendered, counted and flushed under it (`Render`,
`RenderError`, `FrameLost`). `resolveDeferTree` and `pruneDeadDefers` become the
rule that a frame schedules exactly the nested fragments it announced; which
anchors survive a render is a choice. A frame that is lost after the counter was
changed leaves its nested fragments counted and unresolved (`orphan`). The model
assumes that every descriptor has a fetch group. This is a matter of the planner, which
has to give each fragment a fetch of its own: `extract_defer_fetches.go` and
`build_defer_tree.go` make groups and nodes from the fetches there are, and check nothing.
`IncrementalDelivery` knows only open and completed fragments and the `hasNext` of
the last frame.

### FetchGraph, FetchExecution, FetchTree

A graph maps the id of a fetch to the ids it depends on. A tree is the set of its
`Single` nodes, each with its path from the root; `Precedes` compares two paths where
they part, and `Predecessors` is what `treePredecessors` collects on its walk.
`DependsOn`, which `nodeDependsOn` computes by recursion, is the least set that holds
the dependencies of a fetch and is closed; `ComesFirst` is the comparison the legacy
order sorts with.

`FetchExecution` takes a plan through postprocessing, one step per stage and per round
of a loop: `Deduplicate`; `NextWave`, a round of `createParallelNodes` (the first fetch
that is left opens a wave, the sorted list itself is not kept); `CreateMultiFetch`,
which merges the candidates of each wave and rewires their dependents;
`BuildScheduleTree` and `Schedule`, the recursion of `schedule` (below);
`ScheduleFetches`, which chooses between the two trees of each component and takes the
result if it passes validation; and `FallBack` to waves if it does not. `rep` remembers
which fetch of the tree does the work of a planned one.

`schedule` calls itself for the components of a set of fetches or, in a component, for
what each ready root inlines and for the rest. In the model a call is a set of fetches
and the path at which its tree is to be (`Call`), `Subcalls` are the calls it makes, and
a call for one fetch leaves a leaf at its path. `Schedule` makes all calls of one depth;
`calls` are those still to be made and `built` the leaves so far, without and with
inlining. Components (`Component`) and the fetches only one root reaches (`Exclusive`)
are defined by what the work lists of the code compute. So no operator is recursive, and
the scheduler can be reasoned about.

The two errors of the scheduler itself (a fetch that depends on itself, no ready root)
and those of validation lead to the fallback. As the theorems show that its own tree
never gets there, `Schedules` hands `ScheduleFetches` other trees too, so that
validation and fallback have something to catch.

Then the tree is walked: `Started` says that `resolveSerial` and `resolveParallel`
have come to a fetch, and each fetch goes through `preparePhase` (under the data
lock), `loadPhase` (outside it), `recordErroredFetchID` (under it again) and
`mergePhase`. Preparing may fail, or leave nothing to load (no items, authorization,
rate limit, a cache hit).

`FetchTree` is the same scheduler as the recursion the code has, with the work list of
`colorExclusive` and with `combineOf`, which splices, unwraps and sorts nodes.
`ScheduledExecution` states that both make the same tree (`CallsMakeTheTree`), up to
what no walk and no test of the code can tell apart: which fetches wait for which.

Assumed of the planner (`PlansAssumption`): graphs are finite and acyclic, and equal
fetches have equal dependencies up to equal fetches
(`deduplicate_single_fetches.go:22` compares inputs, not dependencies). The loaders of
deferred groups have an `erroredFetchIDs` of their own. Dependencies on fetches outside
the tree occur in those groups; for them the scheduler is sound, but it may be slower
than the waves, which is why the comparison in `ScheduleIsBest` is restricted.

### WSTransport

A call of `subscriptionClientV2.Subscribe` is a program counter `at[s]` from
`getOrDial` to its `AfterFunc`; a connection has `stage`, how far `shutdown` has
come, a read loop with the message it holds, idle timers, and is or is not in the
pool. Every section under `t.mu` or `subsMu` is a step, and so is every call of a
handler. `removeConn` deletes by key, whoever is there. Not modelled: SSE, the
client's context (it only stops the ping loop), and the contents of messages apart
from whether they end their subscription. `PingInterval > PingTimeout` is assumed,
and that a peer that is not silent answers within `PingTimeout`. `graphql-ws`, which
cannot ping, is the case of no `Ping` move.

### SubscriptionServer

`at` is the program counter of `UniversalProtocolHandler.Handle`, `opAt[o]` of the
goroutine of an operation. A message is handled in one step, except for
`TerminateAllSubscriptions`, which cancels id by id. `Disconnect` needs to write a
close frame: when that fails the code leaves the connection open, and so does the
model. `socket` tells an orderly end (`eof`) from a connection whose reads fail
with another error (`reset`), for which only the read-error timer ends the handler.
The unlocked iteration of `TerminateAllSubscriptions` is modelled by its effect;
that the Go runtime may abort on it is not a state.

## 3. Runs

| Run | Shows | Distinct states |
|---|---|---|
| `registry` | two blocking subscriptions, one trigger id, two incarnations of the trigger; updates, heartbeats, disconnects, failed writes, `Done`, shutdown: `CompletedClosedOnce`, `NoOrphanedTrigger`, `NoWriteAfterCompleted`, `ShutdownIsFinal` | 1,500,000 |
| `startup` | two trigger ids and two connections, one blocking and one asynchronous subscription; failing hooks and `Start`, `UpdateSubscription`, `CloseSubscription`, `UnsubscribeClient`: `IndexesAgree`, `SubscriptionCountExact`, `TriggerCountCovers` | 1,137,000 |
| `live` | one incarnation, all seven updater callbacks, failing writes, disconnects and shutdown, with fairness: `ReturnedCallIsQuiet`, `RemovedIsCompleted`, `DisconnectedCallReturns`, `ShutdownReleasesAll`, `UpdaterCallReturns` | 51,000 |
| `subgraph` | `StoredItemsAreOpen`, `SizeHintBounded`, refinement of `SingleFlight`, `EveryLoadReturns` | 47,000 |
| `inbound` | four queries, one slot: `SharedDataBeforeBytes`, `SlotsConserved`, `EveryRequestReturns` | 84,000 |
| `defer` | every tree of four fragments: `OutstandingExact`, `FinalFrameIsFinal`, `ClosedAfterLastFrame`, refinement of `IncrementalDelivery`, `StreamIsClosed` | 8,000 |
| `fetch` | every graph of four fetches executed and every graph of five scheduled; every acyclic graph of three, also with trees that lose, repeat or misplace fetches in place of the scheduler's: `DominanceIsExact`, `ScheduleIsBest`, `CallsMakeTheTree`, `TreeIsSound`, `WaitsForDependencies`, `ErrorsSpreadDown`, `WalkReturns` | 298,000 |
| `ws` | data, terminal messages, silent peers, idle timers and pings: `NobodyForgotten`, `NothingOnClosedConnection` | 706,000 |
| `ws_live` | leaving clients and breaking connections, with fairness: `LostConnectionTellsAll`, `CallSettles`, `EmptyConnectionCloses` | 94,000 |
| `server` | both protocols, a query and a subscription with one id: `RunningIsRegistered`, `LostConnectionEndsAll`, `UninitializedIsClosed`, `StoppedOperationEnds` | 54,000 |
| `staledone`, `inbound_leader` | violations, see section 5 | |

`NoWriteAfterCompleted` and the first half of `ReturnedCallIsQuiet` are about updates,
heartbeats and formatted errors. A complete or error message looks at `removed` only
before it takes `writeMu`, and may come after the call has returned; the second half of
`ReturnedCallIsQuiet` says that only one that had looked before the return does
(section 5). `live` checks it because there every kind of write occurs, over one
incarnation of the trigger; `ReturnedCallStaysQuiet` proves it for any number.

What the fair runs leave out, because it makes them too large: in `live`, a subscription
is removed by its client's disconnect, a failed write, `CloseSubscription`, `Done` or the
shutdown, and not by `UnsubscribeClient`, a failed hook or a failed start (whose tails are the
same steps); in `ws_live` no message ends a subscription, so that the read loop is never
the one that drops the last (which `ws` explores for safety).

**Bounds.** Two subscriptions are what it takes for one to be the last of a
trigger and one not, for a removal to overlap a write to another subscriber, and
for a subscription to meet a successor of the trigger it was first registered
under; two trigger structs give a former and a current incarnation. A third
subscription or incarnation adds only copies of these roles. The same holds of the
two calls and two connections of `WSTransport` (a connection and its successor in
the pool, a dialler and a waiter, the last subscriber and one that joins) and of
the query and the subscription of the server, which share an id. `Window = 2` with
three leaders wraps the size window; `MaxLen = 1` tells empty responses from
others. Four fragments give every tree up to depth four with siblings. Four
fetches are the least for which inlining and waves differ and duplicates, merging
and an error two levels up can meet; five (and, tried once, six) are what the pure
part is checked with, two of them with a dependency outside the tree. Dependencies
point at lower ids there; in the plans of three fetches they point anywhere.
`MaxKeepAlives` bounds the goroutines a `graphql-ws` client can start. Trigger
structs, subscriptions of one kind and calls are interchangeable, so the large
safety runs use symmetry; the fair ones do not.

Deadlock is not checked: when every call has returned the system rests.

**Fairness.** Goroutines that can run do run: weak fairness of each goroutine's steps. Writes
to clients are taken to return or fail. This is an assumption about the peer and TCP: the
client of the subscription server (`client.go`) sets no write deadline, so a peer that
stops reading and keeps the connection open can hold a writer up, and what is said under
fairness of `ResolverSubscriptions` and `SubscriptionServer` does not hold for it. A goroutine
that waits for a contended `writeMu` gets it, since a `sync.Mutex` hands over to a
waiter that has starved for 1ms: strong fairness of taking it; the same holds of
the `maxConcurrency` channel, which serves receivers in order. Subgraph requests
end (the HTTP client has a timeout), and so do the dials and protocol writes of the
subscription client (`AckTimeout`, `WriteTimeout`). Timers expire. Of
`FetchExecution` only the walk is fair, as `WalkReturns` is about it. An operation of the server returns
from its execution once its context is done, and the `select` of
`startSubscription`, which picks at random among ready cases, does not miss the end
of the context for ever (strong fairness of `SubscriptionEnds`). Nothing else is
assumed of the environment: no client leaves, no source calls `Done`, no hook returns, no
start succeeds or fails, no peer sends.

**Mutants.** Beside a definition stand variants of it marked *Mutant*, each a
plausible slip in that code; replacing the definition by it makes the run report
the property it is paired with in `PROJECT.json`.

## 4. Proofs

Checked by TLAPS from the modules' `ConstantsAssumption`s alone, which say that the
sets of actors are finite where something is counted, that the functions among the
constants are functions, and that the values that mark absence are outside the sets.
The theorems hold for any number of clients, connections, fragments or fetches and
for every `Moves`. Every safety invariant the passing runs check is proved, except
the two that speak of the recursion in `FetchTree`, `DominanceIsExact` and
`CallsMakeTheTree`. Proved and not run are the two `TypeOK`, `CompletedWasAnnounced`,
`OrderIsTotal`, `FallbackHasCause`, `NoFetchLater` and `ChoiceIsExact` (which quantify
over all durations), and `LeftOutForCause` as an invariant of its own (`WalkReturns` says it of
the end of the walk).

`ResolverSubscriptions`:

* `TypeCorrect`: `Spec => []TypeOK`. `TypeOK` is not inductive by itself.
  `upd[t]`, `start[t]` and `joined[s]` lead, through `tid`, to an index into `triggers`,
  so it must be known that whoever is started, called back or subscribed to has an id,
  that the registry holds a trigger under its own id, and that `StoreInitialized`
  stores into a trigger that was found; `StartedHasID` says so, and
  `TypeInv == TypeOK /\ StartedHasID` is inductive. The lemmas `TeardownTyped`,
  `UnsubscribeTyped` and `DoneTyped` establish once, for every remover, that a
  removal leaves the registry typed and registers nothing.
* Safety. `StepShape` reduces the steps of `Next` to six kinds: the registry is left
  alone (`Quiet`), a subscription joins a trigger or creates one, a removal (`Removes`),
  a channel is closed, a context is cancelled. The nine removing actions are one kind
  because, as long as the indexes agree, each removes the registered ones among the ids
  it was given and exactly the triggers this empties (`RemovalArgs`; lemmas
  `FoundIsRegistered`, `LockedArgs`, `DetachArgs`). The inductive invariant `SafetyInv` is
  the six properties strengthened by `TypeInv`, by `AddedOnce` (a call that has not
  registered yet has left no trace, so registering adds to every index and counts one)
  and by `TailsOwed` (a subscription is in the tail of at most one remover, is marked and
  is not closed yet, so closing it brings `closes` from 0 to 1). Its parts are the
  theorems `IndexesAlwaysAgree`, `ClosedAtMostOnce`, `NoLateWrite`,
  `TriggersAreCancelled`, `CountIsExact`, `ShutdownStaysFinal`.
* `ReturnedCallStaysQuiet` (`Observers`). `CallersInv` adds to `SafetyInv` that writes and
  hooks concern registered subscriptions only (`OnlyJoined`), that `shutdown` implies a
  cancelled context, and that before this a blocked call gets past its wait only with
  `completed` closed or without having registered (`WaitedForCompleted`). A closed
  `completed` means removed (`CompletedClosedOnce`), removed means out of the indexes
  (`IndexesAgree`), and closed means no update, heartbeat or formatted error is under way
  (`NoWriteAfterCompleted`). The theorem also has an action part, about the terminal
  messages these two exempt: `JobMoves` sorts the steps by what they do to the writes
  under way, and a write to a removed subscription gets no further than it was unless it
  was past its last look at `removed` (`RemovedGoesNoFurther`), so after the return nothing
  joins the writes that nothing stops (`NothingJoinsTheWrites`).
* `TriggerCountNeverLow` (`Observers`). A removal counts down the initialized triggers it
  unregisters, a start goroutine between the store and the increment counts as one in
  advance, and a trigger that was never registered is not initialized
  (`InitializedHasID`), so no step lowers the left side of `TriggerCountCovers` by more
  than the right.

The other modules, each with one inductive invariant:

* `SubgraphSingleFlightProofs`: `FlightInv` ties the program counters to the map. A
  fetch that leads owns its item (`Books`), a follower holds the item of one that
  leads (`FollowsLeader`), an item in the map has a leader that has still to delete it
  (`StoredByLeader`), and an item is closed by its leader only, after the result was
  stored (`ClosedByLeader`). With them
  `FlightStoredOpen` follows, each step maps to a step of `SingleFlight` or stutters
  (`FlightRefines`), and `FlightSizeHint` is inductive by itself: the total stays
  within the count times the longest response, across the restart of the window.
* `InboundSingleFlightProofs`: `InboundInv` adds to the two properties that whoever
  publishes a success has set `SharedData` on the same `InflightRequest`
  (`SharedWhenOk`), so `data` is always a subset of `shared`; `SlotsStep` counts the
  holders of a slot.
* `DeferResponseProofs`: `DeferInv` says besides `OutstandingExact` which fragments
  can have been reached (`Reached`), that the last `hasNext` is what the counter says
  (`WireMatches`), that an orphan's parent lost its frame, and that fragments are
  announced in order. `CountAfterFrame` is the arithmetic of a frame: one fragment
  leaves, those it announces come. From it follow `DeferCountExact`,
  `DeferFinalFrame` (`hasNext:false` is there only at the end, and at the end unless a
  frame was lost), `DeferCompletedAnnounced`, `DeferClosedLast` and, step by step,
  `DeferRefines`.
* `WSTransportProofs`: `WSNobodyForgotten` and `WSNothingRegistersLate` need that a
  call past `getOrDial` has a connection (`Attached`), that the read loop drops a
  subscription only after its handler was called (`ReaderHolds`), and that handlers
  are owed a message only between the swap of the map and the removal of the
  connection (`OwedWhileNotifying`).
* `SubscriptionServerProofs`: `ServerRunningIsRegistered` needs that an entry of the
  map is an operation that was started and not stopped (`EntriesAreLive`), so that a
  `Cancel` by a stale id always moves the operation it hits from the map to the
  stopped ones.

`FetchExecutionProofs`, for every set of plans that satisfies `PlansAssumption` and
every operator `Schedules`:

* *Graphs.* `DependsOnLeast` characterizes the dependencies at any distance; with
  acyclicity, no fetch depends on itself and each depends on strictly more fetches than
  those it depends on (`DependsOnMore`). So the comparison of
  `orderSequenceByDependencies`, case by case, is the one by number of dependencies and
  then by id (`ComesFirstIsLexicographic`), which gives `FetchOrder`, and the fetch that
  opens a wave has all its dependencies in earlier ones (`FirstIsReady`). Where an
  induction over a graph or a tree is needed, a least counterexample takes its place
  (`LeastNatural`).
* *Postprocessing.* `TreeInv` is the inductive invariant: types, the graph is acyclic, a
  dependency of a planned fetch is one of the fetches that do the work (`DepsKept`),
  waves hold each fetch once and behind its dependencies (`Layered`), and from
  `organized` on the tree is a valid schedule. Merging is the hard step: members of a
  group are of one wave, so the waves without the merged fetches are layered for the
  rewired graph, and a graph that can be layered is acyclic (`LayeredIsAcyclic`).
  `FetchTypeCorrect` and `FetchTreeSound` follow.
* *The walk.* `WalkInv` adds that a fetch that was prepared has all its predecessors
  behind it and the walk returns only when none is on its way (`Waits`), and that a
  fetch is skipped exactly when one it depends on directly is errored (`Spreads`). A
  step of one fetch cannot disturb this for another, because whoever is past preparing
  has no predecessor that can still move. `FetchWaits` needs only this and `DepsKept`.
  For `FetchErrors` direct dependencies become dependencies at any distance by
  `DependsOnLeast` (the fetches merged without error are a closed set) and by
  acyclicity (the skipped ones have a first). For `FetchLeftOut` the order a valid tree
  puts its fetches in is shown to be well-founded (`PrecedesIsOrder`,
  `PredecessorsAreWellFounded`).
* *The scheduler.* What is left of the recursion and what it has built are one thing,
  the set `Made(inline)` of the open calls and of a call for each leaf. `SplitsUp` says of
  it that each fetch is in exactly one call and that, of two fetches that depend on each
  other, both are in one call or the dependency is in one whose path precedes.
  Making the `Subcalls` keeps this (`OnwardSplitsUp`): nothing depends on anything across
  components (`PartsSplit`), a fetch only one root reaches has its dependencies in the
  branch of that root (`RootsSplit`), and extending paths keeps their order (`LeadOn`,
  `LeadOff`). When no call is left the tree is valid (`ScheduleTreeIsValid`). For the
  comparison with the waves, `InWaves` gives each call without inlining a wave that none
  of its fetches is before and that all fetches put before the call are before. Keeping
  that (`OnwardInWaves`) needs waves that are as early as they can be:
  each takes all fetches that are ready (`Saturated`), so a fetch of a later wave waits
  for one of the wave before (`Tight`), also after merging, if all dependencies are
  inside the tree. `ScheduleInv` puts this together and is inductive
  (`FetchScheduleInductive`). From it follow `FetchScheduleBest` and, with it,
  `FallbackIsUnneeded`: the tree the scheduler builds is never rejected.
* *Dominance.* The comment of `dominates` claims that its test is sufficient and exact.
  `DominanceIsSufficient`: if each fetch has no more predecessors in one tree than in the
  other, it is merged no later there, however long (but longer than nothing) each fetch
  takes, even if the walk of the other tree dawdles. With `FetchScheduleBest` this gives
  `FetchScheduleNoLater`, the promise the scheduler is there for, under two conditions: in
  a plan with merging (`multi`), for which the code builds the waves of
  `createParallelNodes` beside the tree, and with all dependencies inside the tree, no
  fetch is merged later than in these waves. With dependencies outside the tree, as
  deferred groups have, it may be. `DominanceIsNecessary`: if a fetch `f` waits in
  one tree for an `e` that it does not wait for in the other, then with some durations
  `f` is merged later there, and if the other tree does not put `f` before `e` either
  the whole response is. That last condition is needed (`1` before `2` takes as long as
  `2` before `1`), but not for the trees the scheduler compares: where the inlined tree
  makes `f` wait for an `e` of a later wave, tight waves hold something in the wave of
  `f` that leads up to `e` (`LedUpTo`), and `f` waits for that too. So, under
  the same two conditions, the choice is exact in every component (`FetchChoiceExact`).

Only model-checked: liveness under fairness, which is out of the prover's reach as
`ENABLED` is, and what is said of the recursive operators of `FetchTree`
(`CallsMakeTheTree`, and `DominanceIsExact`, which says of its makespans, graphs with
dependencies outside the tree included, what `FetchChoiceExact` says of walks).

## 5. Where the code and its comments disagree

* `staledone`: every updater method but `Done` looks at its context.
  `graphql_subscription_client.go:175` calls `Done` *after* the context of the trigger
  is cancelled, that is after the trigger left the registry; `Done` then looks the id
  up and detaches the trigger that a client has opened under it in the meantime. That
  client's subscription ends without a message.
* `inbound_leader`: a request that joins between `HasFollowers` and `close(Done)`
  finds no data, resolves by itself with the leader's `InflightRequest` and finishes it
  a second time. Closing the closed channel panics, and the second finish deletes the
  entry of a newer flight.

Seen while modelling, without a run of their own:

* `complete` and `error` (`resolve.go:947`, `:1315`) do not look at `removed` under
  `writeMu`, so a terminal message can be written after `completed` is closed and
  `ResolveGraphQLSubscription` has returned. `ReturnedCallIsQuiet` says that no more than
  that can happen: it must have looked at `removed` before.
* A trigger removed between `getTrigger` and `TriggerCountInc` of
  `markTriggerInitialized` (`resolve.go:1279`) is counted for ever;
  `TriggerCountCovers` shows that the count errs in this direction only.
* `removeConn` (`ws_transport.go:337`) can delete the pool entry of the successor of
  the connection that closes. The successor keeps serving its subscribers, but it is
  not reused and not pinged any more.
* A handler may get `Complete` and then `ConnectionError` (`ws_conn.go:228`).
* A merged fetch is skipped when a dependency of any member is errored.
* The `Cancel(id)` of a query that ends (`engine.go:182`) can stop a newer operation
  with the same id, when the client has stopped the query and reused the id.

## 6. Not modelled

* SSE connections of the subscription client, and the composition of `WSTransport`
  with `ResolverSubscriptions` through the bridge: each models the other side as
  an environment that may call at any time.
* `addMissingNestedDependencies`, authorization coordinates and the rewriting of
  documents and templates in `postprocess`; the response cache, rate limiting and
  field authorization beyond their outcome for a fetch.
* The contents of responses: rendering and merging of JSON, tainted objects, error
  formatting.
* Lexing, parsing, printing, normalization and validation of documents, the planner's
  visitors, protobuf mapping: sequential processing of unbounded data, which TLC
  cannot enumerate in any interesting size and whose correctness is a matter of the
  GraphQL specification rather than of states and steps. With the generated code,
  the test services and the examples they make up most of the repository's lines,
  which is why the modelled part is a small share of them.
* HTTP and system calls, and the deprecated legacy handler.
