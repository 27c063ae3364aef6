# context-mesh-engine in TLA+

context-mesh-engine serves Arazzo workflows ("plans") as REST endpoints and as MCP tools.
An embedding program supplies the documents, an executor for the workflow steps, a query
matcher, secrets and Rego policies; the engine checks a call, evaluates policy, runs the
workflow through libopenapi and vets what comes out.

Part of the code is small and concurrent: one TTL cache with a singleflight that everything
dynamic goes through, policies that are replaced while calls are running, a pipeline of checks
whose order matters, a construction that must be all or nothing, an HTTP server that shuts down
under streams, tool lists that share the server's tools. The other part is a set of walks over
schemas, security requirements and outputs, each with its own idea of the same document, that
must fit together: what is published must be what is admitted. This directory models both,
checks them with TLC on small instances, and proves the most important properties with TLAPS for
every value of the constants.

Paths below are relative to `src/`.

## 1. The system

| Component | Code | State | Operations | Talks to |
|---|---|---|---|---|
| TTL cache | `internal/ttlcache/cache.go` | entries, flights in progress | `Get` | calls a `Load` callback outside its lock |
| Policy cache | `internal/plans/policy.go` 62-167 | two TTL caches: shared modules, plan bundles | `get`, `getShared` | the embedder's `PolicyLoader`, `SharedPolicySource`; a plan's load calls `Get` of the shared cache |
| Rego evaluation | `internal/plans/policy.go` 212-545 | none | `compilePlan`, `evalAllowOnly`, `applyInbound`, `applyOutbound` | OPA |
| Runner | `internal/plans/runner.go` | none of its own; locals of each call | `Query`, `Run` | policy cache, secrets, matcher, libopenapi, the embedder's executor |
| REST and MCP transports | `internal/api/v1/plans.go`, `internal/plans/mcp.go`, `bind.go`, `public.go` | none | decode, bind, reply, classify errors | Runner |
| Catalog | `internal/plans/catalog.go` | entries, index, latest versions; immutable after `Load` | `Load`, `Get`, `Latest` | document loaders |
| Engine construction | `engine/engine.go` | options | `New`, `Handler` | all of the above |
| MCP tools and REST documents | `internal/plans/mcp.go`, `openapi.go`, `internal/api/v1/plans.go` | the SDK server's tools; routes and documents follow from the catalog | `RegisterMCP`, `OpenAPIJSON`, `execute` | MCP SDK, catalog |
| Tool help cache | `internal/plans/help.go`, `arazzo/tooldoc.go`, `toolhelp.go`, `internal/api/v1/tools.go` | help targets, a TTL cache of help; lists share the server's tools | `apply`, `GET /tools` | the embedder's `ToolHelpLookup`, MCP sessions |
| Schemas and security | `internal/plans/schema.go`, `security.go`, `openapi.go`, `bind.go` | none: pure functions | strip, close, split, check, bind | catalog, Runner, engine |
| Redaction | `internal/plans/redact.go` | none | `applyRedact` | Runner |
| HTTP server | `internal/httpserver/server.go` | `net/http.Server`, one goroutine, one channel | `ListenAndServe`, `NewMux` | handlers |
| File policy loader | `arazzo/filepolicy.go` | the file system | `Load`, `LoadShared` | whoever deploys the files |
| Plan file loader | `arazzo/fileloader.go` | the file system, read once | `Load` | catalog |
| Example: orders | `examples/petstore/async-order-server/server.go`, `mcp-server/executor.go` | confirmations under a mutex, an atomic counter of ids | place, confirm; `Execute` with polling | Petstore, each other over HTTP |
| Other examples and commands | `examples/petstore/...`, `cmd/...` | | | wiring of the above |

**How they interact.** `engine.New` builds the catalog from the loaders, checks it, makes one
Runner, and registers the tools. Afterwards the catalog never changes. Each REST request or
MCP tool call is a goroutine that goes through `EnrichContext`, perhaps `Query`, and `Run`.
`Run` asks the policy cache once and uses that result for inbound and for outbound
evaluation. The policy cache and the help cache share one implementation, `ttlcache.Cache`.

**What is hard about it.**

- *Interleavings.* `Get` works in two critical sections with a callback between them, and
  tells waiters through a WaitGroup before it takes the lock again. Two caches are nested.
- *Change under way.* Policies are replaced at any time; a call may see a cached, a stale or
  a new one, and inbound and outbound must be judged by the same one.
- *Failure of callbacks.* Loads return errors, and panic; net/http recovers the panic and the
  process goes on with what the deferred functions left behind.
- *Order.* Scope check, binding, the closed input check, secrets, policy, execution, vetting,
  header lifting: each reads what an earlier one left.
- *Effects before errors.* Once the workflow has run, domain services were called. What the
  client is told then must not suggest that nothing happened.
- *Shutdown.* Streams never end by themselves, handlers need not return, and the listener can
  fail at the same time as the context is cancelled.
- *Sharing.* Every tool list starts from pointers to the server's own tools.
- *Reading while somebody writes.* A policy is several files, read one after the other.
- *The network.* A lost answer leaves an order nobody knows of; an adapter forgets at a restart;
  a client that gave up does not stop the handler it called.
- *Agreement of walks.* Stripping, closing, splitting, binding and the collision checks walk the
  same schema with different lists of keywords.

## 2. Modules

Each module's comments name the lines that its actions and properties stand for;
`PROJECT.json` maps every definition to its lines.

| Module | Models | Depends on |
|---|---|---|
| `TTLCache` | `Cache.Get`, any callback | |
| `CachedSource` | `Get` over a source that changes | extends `TTLCache` |
| `CachePromise` | what `Get` promises, without locks, flights or entries | |
| `PolicyCache` | `PolicyCache.get` and `getShared`, with the load functions that nest them | two instances of `TTLCache` |
| `Runner` | a call's way through transport, `Query`, `Run` and back, while policies change | uses `PolicyCache` by its contract |
| `Catalog` | `engine.New` from documents to catalog, latest versions, checks, tools, and the routes and OpenAPI documents that follow | |
| `HttpServer` | `ListenAndServe`, its goroutine, shutdown, the REST timeout | |
| `InputSchemas` | what `schema.go` makes of the schemas of inputs and outputs (operators) | |
| `Redaction` | JSON pointers and masks (operators) | |
| `RestContract` | one workflow from the engine's options to what is published, calls, and replies | extends `InputSchemas`, `Redaction` |
| `ToolLists` | tool lists of both surfaces, rewritten with help | uses the cache by `CachePromise` |
| `FilePolicy` | loads of a policy directory during deployments | |
| `AsyncOrder` | the example's purchase: executor, order adapter, network | |
| `TTLCacheProofs` | theorems about `TTLCache`, and about `CachedSource` with its refinement of `CachePromise` | extends `CachedSource` |
| `PolicyCacheProofs` | theorems | extends `PolicyCache`; two instances of `TTLCacheProofs` |
| `RunnerProofs`, `HttpServerProofs`, `ToolListsProofs`, `FilePolicyProofs`, `AsyncOrderProofs` | theorems | extend their component |
| `EngineProofs` | theorems about what an engine serves | extends `Catalog` and `RestContract` |
| `MC...` | instances for TLC: sets of values, symmetry, views | |

### TTLCache

| State | In the code |
|---|---|
| `now` | `time.Now()`, in ticks |
| `entries[k]` | `c.entries[k]`; `have` says whether the map has the key |
| `inflight[k]` | `c.inflight[k]`, a pointer or `NoFlight` |
| `flights[f]` | a `*flight` cell: its WaitGroup (`done`), value, error |
| `frame[p]` | the locals of the goroutine's `Get`: program counter, key, flight pointer, the `stale` copy of the entry, the result |

An action is a critical section, a call of `Load`, or a use of the WaitGroup: `Call`, then
`Hit`, `Join` or `Lead` (the first critical section, lines 71-85), `LoadOK`, `LoadErr` or
`LoadPanic` (94), `Store` (106-112), `Publish` (`wg.Done()`, 88), `Clear` (the deferred delete,
89-92), `Wake` (78-79), `Return`. Cells are reused when nothing points to them any more, so the
number of flights that ever exist is not bounded.

A Go panic in `Load` runs the deferred function: the flight is published with the zero value
and a nil error, then deleted, and the leader's goroutine leaves with outcome `"panic"`.

### CachedSource and CachePromise

`CachedSource` adds a source whose revision `r` became current at `born[k][r]`, and a Load that
reads the current revision at one instant and returns at another. The history variables
`asked` and `seen` record when a Get was called and what had been returned by then.
`CachePromise` is the abstract specification: a Get is called and later responds with a revision
that is not older than what had been returned before the call, and that was still current
`MaxStale` ticks before the call; an error carries a value only under the first condition.
`KeepsPromise` is the refinement: `CachedSource` implements `CachePromise` under the mapping
`CallOf` (every internal point of `Get` is "pending").

### PolicyCache

`stage[p]` is the place of a request in `get`, `call[p]` its locals. `SharedForGet` is
`getShared` at the start of `get`, `LibsForPlan` the same function called by the load function of
the plan cache; `LoadShared`/`CompileShared`/`LoadBundle` are the embedder's loaders and the
compilation. A compiled shared policy is the revision it was compiled from, a compiled plan a
pair of its own revision and that of the libraries compiled into it; revision 0 is the Go zero
value. `SharedUsable` and `PlanUsable` are the conditions of `getShared` and `get` about stale
values.

### Runner

A call's input is a function from keys to where the value came from (`caller`, `http`, `policy`,
`backend`), an output a function from fields to what became of it (`clear`, `blank`, `null`,
`masked`, `replaced`). The actions follow the code: `Arrive` (decode), `Enrich`
(`EnrichContext`), `MatchPlan` (`Query`), `Admit` (catalog lookup, x-security, REST binding, the
closed check of unknown inputs), `Secrets`, `GetPolicy`, `Inbound`, `RunWorkflow`, `Outbound`,
`Respond` (header lifting, the reply). `ReplaceShared` and `ReplacePlan` run at any time.
`GetPolicy` is the contract of the policy cache: it fails, or returns revisions that were
current at some time. Policies are constants, sequences of decisions; a decision stands for what
a Rego module evaluates to. Evaluation and the JSON around it are not modelled.

### Catalog

A document is its plan, its version, its workflows and a fault that some step would find in it.
`AddSource`, `ComputeLatest`, `CheckCatalog`, `RegisterQuery`, `RegisterTool` and `Serve` are the
steps of `engine.New`; each may end in `Abort`. `Rank` is semver precedence, in which different
strings may be equal. The MCP server's `AddTool` replaces a tool of the same name, so does the map
of help targets. The REST surface is a set of functions of the finished catalog: `GetBySegment`
(a version, or `latest`), `executePath`, `OpenAPIJSON` of an entry and `CatalogOpenAPIJSON`, the
index; `Executes` is where a request to a path ends up. Plan ids are single URL segments here.

### HttpServer

`main`, `serve` and `errCh` are the two goroutines of `ListenAndServe` and their channel, `req`
the requests with their connection, their handler and who answered them. `net/http` is external
and modelled by its documentation: `Shutdown` waits for active connections until its context
ends, `Close` cuts them, `TimeoutHandler` answers 503 and leaves the handler running.

### InputSchemas, Redaction and RestContract

A schema is a function from places to nodes. A place is the sequence of steps that leads there
from the root, each into a part of a node (`props`, `oneOf`, `allOf`, `not`, `defs`, `items`,
`extra`, `tuple`, `other`) and to a name or a position in it; a part stands for the keywords that the
code treats alike (`oneOf` for `anyOf`, `not` for `if`/`then`/`else`). `other` stands for the keywords
that hold schemas and that no walk visits: `patternProperties`, `contains`, `propertyNames`,
`dependentSchemas`, the unevaluated ones. Each operator of `InputSchemas` has
the name of the walk in `schema.go` that it translates. A walk that descends into some parts of
every node reaches the places whose steps all go into these parts (`Through`), so it is a
statement about places and needs no recursion; only `Valid`, JSON Schema reduced to which
properties an object has, is a recursive function of the places. A document of `Redaction` is
likewise a function from places to objects, arrays and leaves. `walk`, `setPointer` and `applyRedact`
go token by token and pointer by pointer as the code does, and there is a reference, `Masked`:
the document with a mask at each place that some pointer denotes, all at once.

`RestContract` composes them. `CheckOptions`, `LoadDocument`, `CheckCommonParamCollisions`,
`CheckSecurityCollisions` and `CheckWorkflowSecurity` are what `engine.New` checks, in its order;
`operation` and `InputSchema` are what it then publishes. `Send` chooses any call, following the
document or not; `Run` is the SDK's validation, `checkWorkflowScopes`, `mergeRESTInputs` and
`rejectUnexpectedInputs`; `Reply` is outbound redaction and `SplitRESTOutputs`. `Runner` has the
same pipeline with policies that change and with effects, but takes the sets of keys as given;
`RestContract` has where they come from, and `KeysApartHolds` (section 5) shows that what `Runner`
assumes of them is so.

### ToolLists

`list[l]` is a request: `todo`, the tools it has yet to look at, and `entries`, where `Pointer`
stands for the server's own tool and anything else for a clone. A text is the template it was
rendered from: a field and the revision of the help that supplied it, 0 being the registered
`ToolDoc`. `Rewrite` is one round of `apply`'s loop: the cache's answer, the rendering, the clone.
`GET /tools` (`surface = "rest"`) is an MCP list inside an in-memory session, encoded, decoded and
rewritten again. `Publish` and `AddTool` are the embedder's.

### FilePolicy

`disk` is a directory, `deploy` a release on its way to it, file by file through renames
(`Replace`), by truncating writes (`Write`), or by moving the directory away and another one in
(`SwapOut`, `SwapIn`). `load` is a `Load` or a `LoadShared`, one action for each call of the file
system. `during` remembers what each file held during the load; a file that is missing or blank
counts as no module (`readOptional`). `contentRevision` is left out: `PolicyCache` never reads
`PolicyBundle.Revision`.

### AsyncOrder

`run[r]` is `Execute` in the MCP server for one purchase, `handler[r]` the adapter's handler of its
place call, `wire[r]` its current confirm call; `byCorr`, `counter` are the adapter's memory. A
client may give up at any time (`PlaceFails`, `AskFails`) and the handler goes on. `Restart` loses
memory and handlers, and lets the clock advance, from which the counter of order ids is seeded
again. `left` is what remains of `confirmWait`; it is read twice in a round, in `NotReady` and
in `EndRound`, with a `Tick` possible in between.

## 3. What is checked

Twelve runs; all but `policy_panic` must pass.

| Run | Instance | Shows |
|---|---|---|
| `ttl` | 3 goroutines, 1 key, 2 values, TTL 2, 2 ticks, panics | one Load per key at a time (`SingleFlight`); the deferred delete removes the leader's own flight only (`FlightOwnership`); nobody waits for a flight without a leader (`WaitersServed`); leader and waiters agree (`WaitersAgree`); the last good value survives errors (`StaleOnError`); each `Get` returns (`GetReturns`, liveness) |
| `source` | 3 goroutines, 1 key, 2 revisions, TTL 1, flights of 1 tick, 2 ticks | entries never go back (`EntriesAdvance`), and the refinement `KeepsPromise`: no revision older than one returned before the call, none superseded for more than `MaxStale` |
| `policy_safety` | 2 requests, 1 plan, 2 + 2 revisions, failing loads | no request goes on without a compiled policy (`FailClosed`); policies never go back (`PoliciesAdvance`) |
| `policy_age` | 2 requests, prompt loads, panics, TTL 2, 3 ticks | shared modules are used for less than one TTL after their replacement, libraries for less than two (`BoundedPolicyAge`); the nested Gets never wait in a circle (`NoCircularWait`) |
| `policy_panic` | as `policy_safety`, with panics | **violated**: `FailClosed` |
| `runner_safety` | 1 call, 4 tokens, 7 bodies, 3 + 6 revisions that allow, change and refuse | no workflow runs past a failed check (`Gated`); inputs come from where they may (`InputOrigins`); what was sent is not lost (`NothingDropped`); a call that is refused for its own sake had no effect, domain calls and secrets included (`RefusedWithoutEffect`); outputs are vetted by the revision that admitted the call (`OutputsVetted`); headers (`HeadersComplete`) |
| `http` | 3 requests of any kind | `NilMeansDrained`, `StreamsLast`, and the liveness properties `CancelEnds`, `NothingLeaks`, `RESTAnswered` |
| `catalog` | up to 3 documents of 2 plans and 5 versions with 2 workflows, 3 name templates | an engine serves what it was given or is not built (`ServesWhatItLoaded`); `LatestIsNewest`; each tool, REST path and OpenAPI document leads to the entry it describes (`SurfacesReachEntries`) |
| `order` | 2 purchases with their own or one correlation id, 1 restart, `confirmWait` 2 | a confirmed order was accepted by Petstore under the run's id, and is the run's own unless it shares its id (`ConfirmsOwnOrder`); an order that was placed ends with 404 only after a restart (`NotReadyMeansRestart`); `OrderIdsUnique`; polling stops at its deadline only (`GivesUpAtDeadline`); `EveryPurchaseEnds` (liveness) |
| `lists` | 2 lists, a plan tool with help that breaks, the query tool, a tool of the embedder's | what is shown was rendered for this request from one revision (`EntriesAreOwn`); help that renders is shown, in the surface's words (`HelpReachesItsTool`) |
| `files` | a plan with 3 releases, `_shared` with 2 and 2 libraries, 2 loads, three ways to deploy | a bundle holds what the files held during the load (`EachFileWasThere`); where files are renamed into place no policy is lost (`NeverUnpoliced`) |
| `rest` | some 27000 cases: schemas with every kind of keyword, options and x-security, outbound decisions | a client that follows the document is not refused (`PublishedRequestsAdmitted`); REST and MCP take the same inputs (`TransportsAgree`); an HTTP field means one thing (`FieldsMeanOneThing`); no `x-source` is left where the walks come by, and no reserved name (`PublishedClean`); masks are exactly where pointers point (`RedactsAsPointed`) |

Every property of a passing run has a mutant: a definition changed as a plausible bug would
change it (a check dropped, a boundary moved, a `Done` forgotten), under which TLC finds the
property violated. The mutants stand next to the definitions they replace.

**The bounds, and why they are enough.**

- *Goroutines.* The hazards of `Get` need a leader, a waiter and somebody who arrives in
  between: three callers. The policy cache is checked with two: a leader of a plan flight and one
  that waits for it or for its shared flight; with more, TLC does not finish in minutes.
  Calls of the Runner share nothing but the revisions of the policies, so one call and a changing
  environment are all there is to see, and the proofs cover any number.
- *Keys.* Keys of a cache do not interact: `Get` reads and writes one entry and one flight.
- *Flights.* One cell for each caller is enough, since a flight without a pointer is reused.
- *Time.* `MaxTime` ticks let an entry be fresh, expire and be refreshed, with a tick between a
  store and a use on both sides of the deadline. `Wait = 2` gives a purchase a poll before, at and
  after each reading of its deadline.
- *Revisions.* Two revisions let a policy be replaced at any point; in `runner_safety` the shared
  policy has three and the plan's has six, so that whatever lets a call go on, changes it or refuses
  it occurs; a denial and a failed evaluation differ in the reply only, so not each is paired with each.
- *Documents.* Three documents are the least for a version between two others and for a
  duplicate after a good document; with three versions of one plan, workflows come and go.
- *Purchases.* Two share a correlation id, the counter and its seeding; one restart separates an
  order from its confirmation. `RestartMillis` is at least the number of runs: a restart takes
  longer than as many milliseconds as orders were placed before it (an assumption the code makes
  when it seeds ids from the clock, `server.go:139-149`).
- *Lists.* Two lists share the server's tools; a third would only repeat what the second does.
- *Files.* Three releases change a file, keep a file and remove two; `MaxLoads = 2` lets a second
  load start with what the first left behind.
- *Schemas.* Each part, `other` included, is tried at the root and below a property with branches that hold a
  source, a reserved name, a nested source and a bare `required`, and with two of these in a
  `oneOf`; roots also have another type, or require what they do not declare; schemas, options and outputs are varied one family at a time.
- `SYMMETRY` permutes callers and flights in runs without liveness. The `VIEW`s of
  `MCPolicyCache` drop history that the run's properties do not read.
- `CHECK_DEADLOCK FALSE` in `http` and `catalog`: a server that has shut down, and an engine that
  was built or was not, have nothing left to do. Elsewhere deadlock is checked; where a system is
  done, an action `Done` that changes nothing says so.

**Fairness.** `ttl`, `http` and `order` have liveness properties.

- `ttl` (`FairSpec`): weak fairness of each goroutine's own steps. The Go scheduler runs every
  runnable goroutine, the lock is held for a few instructions only, and `Load` is assumed to
  return, fail or panic. The code has no timeout around `Load`: where an embedder's `Load` hangs,
  so does every `Get` of its key. No fairness is assumed for calls, the clock or the source.
- `http` (`FairSpec`): the goroutines run, timers fire, and a stream's handler notices that its
  context was cancelled. Nothing is assumed of other handlers, clients, or the cancellation
  itself; `CancelEnds` holds because shutdown has a deadline, which the mutant
  `ShutdownUnbounded` removes.
- `order` (`Spec`): the clock goes on, and each executor takes a step when it can; that it can
  while it waits for an answer is the timeout of its `http.Client`. Nothing is assumed of the
  adapter, which may answer 404 or nothing forever: `EveryPurchaseEnds` rests on the deadline.

## 4. Where code and documentation disagree

One has a run:

- **A loader's panic lets a waiting request through without policy** (`policy_panic`, a code
  bug). The flight of a panicking load is released with a zero value and a nil error
  (`internal/ttlcache/cache.go:87-94`). A request that waited for it gets an empty
  `compiledPolicy` without an error (`internal/plans/policy.go:155`) and runs its workflow with no
  inbound and no outbound policy. `policy.go:35-37` promises `ErrPolicyLoad`.

The models follow the code in all others; they were met while modelling, and what the code does is
in the module named.

- *`CachedSource`.* With caching disabled a Get may still be given the result of a flight that was
  finished before it was called: `wg.Done()` (`cache.go:88`) comes before the delete (`cache.go:90`).
  `cache.go:29-30` and `docs/users/configuration.md:140` say that every Get refreshes.
- *`PolicyCache`.* A stale plan bundle is accepted whether or not it has modules
  (`policy.go:157`; `hasModules` has no caller), where `docs/users/adapters.md:418` asks for a
  usable one.
- *`Runner`.* Secrets are fetched before inbound policy (`runner.go:138`), other than the order in
  `docs/contributors/arazzo.md:69-71`. A caller's `policyHints` are refused as an unknown input
  (`runner.go:133`), where `docs/users/adapters.md:433` says that they are discarded. A header
  field that was masked with null stays in the body (`bind.go:99`), other than
  `docs/contributors/arazzo.md:92`.
- *`Catalog`.* The names that a plan tool may not repeat (`mcp.go:82`) do not include the query
  tool's, so a plan tool can replace it (`docs/users/configuration.md:61`,
  `docs/contributors/arazzo.md:35`).
- *`InputSchemas`, `RestContract`.* A root that has combinators is closed itself, so the MCP tool's
  schema refuses what only its branches declare, although `Run` and
  `docs/contributors/arazzo.md:144` accept it; for the same reason `TransportsAgree` speaks of
  roots without combinators. A root that requires what it does not declare is refused by the tool's
  schema whatever is sent, and so is a root of another type than object, while REST, if every
  declared property was lifted, has no body to refuse; `TransportsAgree` excludes both. A body is not published when every root property was lifted, even
  if branches declare others. `x-source` inside the combinators of a nested place is accepted,
  other than `docs/users/arazzo.md:232`, and stripped. On a property that only a branch of the root's
  combinators declares it is accepted, as `docs/contributors/arazzo.md:142` says, and stripped, but
  nothing is lifted (`schema.go:153`), although the line can be read to promise that.
  *Under the keywords of `other` an `x-source` is neither refused nor stripped*: `walkXSource`
  (`schema.go:654-719`) and `stripVendorInputAttrs` (`schema.go:98-141`) visit a fixed list of
  keywords, so one inside `patternProperties`, `contains`, `propertyNames`, `dependentSchemas` or
  `unevaluated*` is published in bodies, parameters, headers, responses and MCP input schemas, where
  `docs/contributors/arazzo.md:144` says that `x-source` "is stripped" and
  `docs/users/arazzo.md:232` that a nested one "fails catalog load". The run `rest` has documents
  that do it, in inputs and in `x-outputs`, and `PublishedClean` holds of it only because it leaves
  these places out; without `Through(p, Visited)` TLC finds one at once. A root's
  `patternProperties` is published too, while `Run` refuses the names it lets through; `Valid`
  does not read it. An oauth2 scheme and an input bound to `Authorization` are not compared
  (`docs/users/configuration.md:280`), and two inputs may share an HTTP parameter. An empty
  `x-security` list is published as the document's default security, while `Run` asks for none.
- *`Redaction`.* An array index `+1` is taken for 1, which RFC 6901 does not allow.
- *`ToolLists`.* Where the REST rendering fails, `GET /tools` shows the MCP wording.
- *`FilePolicy`.* A truncating write or a swap of the directory can make a load find no module at
  all, and a nil bundle means no policy until the cache's TTL is over; only renames rule it out.
- *`AsyncOrder`.* The confirmation is stored before the 200 of the order is sent, so a poll gets a
  404 only when the adapter has been restarted; the polling is for a race that cannot happen.

## 5. What is proved

TLAPS checks the following for every value of the constants that satisfies the modules' `ASSUME`s:
any number of goroutines, keys, flights, inputs, outputs, scopes and policy revisions.

**TTLCacheProofs**, from `ConstantsOK` (the zero value is no value, nil is no flight, TTL and the
clock bound are natural numbers).

- `TypeCorrect`: `TypeOK`. Alone it is not inductive: an action looks up `flights[frame[p].ptr]`
  and `entries[frame[p].key]`, so `TypeInv` adds `LocalsOK`, which locals of `Get` are set at
  which program counter.
- `SingleFlightHolds`, `FlightOwnershipHolds`, `WaitersServedHolds`: from `FlightInv`, the
  conjunction of the three with `DistinctFlights` (leaders have different cells) and
  `PublishedOnce` (a leader's flight is done exactly from `Publish` to `Clear`). None is inductive
  alone: that `Lead` cannot add a second leader of a key follows from `FlightOwnership`, which
  survives `Clear` only because nobody else leads the key, and a waiter is served only if leaders
  publish to different cells.
- `StaleOnErrorHolds`, `WaitersAgreeHolds`: from `ResultInv`, which adds `CapturedStale`: the copy
  of the entry that `Lead` takes is still what the cache holds when the Load fails, since only the
  leader of a key stores.
- `ServeInvariant`: an entry holds only what some Load returned and, without panics, so does a Get
  that reports no error.

The next two are about a source that changes. They assume `Numbered`: revisions are positive numbers
and the zero value is 0, a way of naming them, under which "older" is `<`.

- `EntriesNeverGoBack`: the action property `EntriesAdvance`. A Load's result lies between what the
  entry holds and what the source holds, from the instant of its reading to `Store`, because nobody
  else stores in between (`SingleFlight`). Loads may fail and panic.
- `GetKeepsPromise`: the refinement of `CachePromise`, initial states and every step. What has to
  be known of a Get that has not been answered is what it can still be answered with. `Reaches`
  says so for each program counter (the entry before the flight, the flight's result once it is
  done, the local result at the end), and the invariant is that all of it is allowed by the promise:
  no older than `floor`, by the order of revisions, and not superseded for too long, by
  `AgeInv`. It assumes `~LoadsMayPanic`, without which the promise is false: a waiter of a
  panicking Load gets the zero value and no error (section 4).

**PolicyCacheProofs**, from `PolicyConstantsOK`: any number of requests, plans and revisions. The two
caches are instances of `TTLCacheProofs`, whose invariants hold of each because a step of `PolicyCache`
is a step or a stutter of each cache (`StageOK` says where a request's stage puts it in both).

- `PolicyInvariant`: `PolicyInv`, the invariants of both instances with `StageOK` and types. The
  values of the plan cache are `Sound`: bundles that were compiled with libraries where they need
  some. That is what makes the invariants of one cache depend on those of the other.
- `NoCircularWaitHolds`: from `PolicyInv`, whatever loads do. Only a leader of a plan's flight enters the
  shared cache, and a leader of the shared flight is waiting for nobody.
- `FailClosedHolds`: from `SuccessInv`, which says of each stage what the locals of `get` hold there.
  It assumes that loads do not panic; `policy_panic` is what happens otherwise.
- `PoliciesAdvanceHolds`, with the same assumption. `SharedOrder` and `PlanOrder` are the order of
  revisions from a source through a load to an entry. They are not enough for the libraries,
  which are cached twice: a plan's entry may be replaced by one of the same bundle with other
  libraries. `FloorsInv` has the reason why these are no older: a load of the plan asks the shared
  cache after it took the plan's flight, and until it stores, nothing that a get of the plan can
  still return is newer than what it will get (`LibsUpTo`).
- `BoundedPolicyAgeHolds`, for loads that do not fail and answer in the tick they are called in, as the
  property says; they may panic. `AgeInv` has for each place where a revision can be (source,
  load, entry, flight, result) how long ago it may have been replaced (`Recent`, `RecentLibs`), and
  the sum over the nested caches is two TTLs.

**RunnerProofs**, from `RunnerConstantsOK` (the kinds of keys do not overlap, decisions are among
those the code distinguishes).

- `RunnerInvHolds`: the inductive invariant `RunnerInv`. A step of the Runner moves one call from
  one place to another, so the invariant is a predicate `Good(at, r)` of a place and of a call's
  locals: before `Run` strips and checks, the caller's keys are as sent; from `Secrets` on scopes
  are held and inputs are clean; from `Inbound` on there is a policy; and so on to the reply.
  `MovesKeep` reduces preservation to `Moves(c)`, one lemma per action; replacing a policy keeps
  `Good` because revisions that a call holds do not change.
- `RunnerTypeCorrect`, `GatedHolds`, `InputOriginsHolds`, `NothingDroppedHolds`,
  `RefusedWithoutEffectHolds`, `OutputsVettedHolds`, `HeadersCompleteHolds`: what follows from it.

**HttpServerProofs**, for any set of requests.

- `ServerTypeCorrect`, `NilMeansDrainedHolds`, `StreamsLastHolds`: from `ServerInv`, which adds the order of the
  shutdown (`ClosedInOrder`: `ErrServerClosed` is reported only after `BeginShutdown`, and nothing
  is closed while `ListenAndServe` is in its select), that nothing becomes active again after
  `Shutdown` has returned (`DrainedStays`), and that until the server gives up only clients cut
  connections (`CutByClients`). Without the first, a nil result could come from the select,
  before anything was drained. `RequestStep` covers all four steps of a request at once.
  `StreamsLast` is about steps; it also needs `ActiveLives`, that no active request's context has
  been cancelled.

**FilePolicyProofs**, from `FilePolicyConstantsOK` (releases are sequences of file contents): any
files, libraries and releases, any number of loads and deployments.

- `FileInvHolds`: `FileInv`. A step changes the disk or moves the load, never both, so the invariant
  says of the load only what stays true whatever the disk does next: each value it has read is in
  `during`, and is a module if every release has one and files are renamed (`Witnessed`). What has
  been read depends on the point the load is at (`GoodLoad`), and with renames each file is a
  whole file of some release (`WholeFiles`). `DiskStep` and `LoadStep` reduce the actions to these.
- `EachFileWasThereHolds`, `NeverUnpolicedHolds`: what follows from it.

**AsyncOrderProofs**, from `OrderConstantsOK` (finitely many purchases, a restart takes at least a
millisecond for each of them): any correlation ids, deadlines and numbers of restarts.

- `OrderInvHolds`: `OrderInv`. Three processes share the adapter's memory, so the invariant has a
  predicate for each place where an order's result can be: `RunGood` and `HandlerGood` for a purchase
  and its handler, `MemoryGood` for what the adapter remembers; all say that it comes from an order
  that Petstore accepted, under the correlation id it is filed under. `IdsCounted` says that the
  counter is above every id given out since the last restart. `HandlerStep` and `RunStep` reduce the
  actions to these.
- `ConfirmsOwnOrderHolds`, `NotReadyMeansRestartHolds`: what follows from it. `GivesUpAtDeadlineHolds`
  is about steps.
- `OrderIdsUniqueHolds`: from `IdsCounted`. That ids do not repeat after a restart is a matter of
  counting: no more ids were given out than there are purchases (a cardinality), so the counter is
  not that far above the clock it was seeded from, and the restart takes longer.

**ToolListsProofs**, from `ToolListsConstantsOK` (finitely many tools, the embedder's are others):
any number of lists, any published help.

- `ListInvHolds`: `ListInv`. The server's tools stay as they were registered (`ServerKept`), each entry
  of a list has an `Origin`, the server's text or a template rendered for the list, and a tool behind
  the loop shows the help it was last given (`Helped`). `GET /tools` rewrites an MCP list again, so
  `Origin` and `Helped` depend on the surface that the list is at, and `AllListed` is needed: the
  second round visits every tool that is in the decoded list.
- `EntriesAreOwnHolds`, `HelpReachesItsToolHolds`: what follows from it when the list is done.

**EngineProofs**, about `Catalog`, from `CatalogConstantsOK`: any documents, versions, ranks and name
templates.

- `CatalogInvHolds`: `CatalogInv`. `engine.New` is a sequence of loops, so the invariant says of each
  loop what holds of the elements before `next` (`Entered` for documents, `Tooled` for entries) and
  that it holds of all once the next loop has begun. `KeysLeadToEntries` is the converse of
  `Entered`: the index has no keys of its own.
- `PickedIsNewest`: what `computeLatest` and `pickLatest` compute. Both are loops inside of one step,
  written as recursive functions, so this needs induction over the list of entries, and that the
  functions exist at all. The library's induction theorems have an operator as a parameter, which
  the provers cannot instantiate. `FromFirst` (induction, for a set of numbers) and `LoopRuns` (a loop
  has a result, for a function from rounds to functions) have none: they are proved from the
  well-foundedness of `<`, and cited like any lemma.
- `ServesWhatItLoadedHolds`: an engine that serves has every document it was given, none of them
  faulty. `LatestIsNewestHolds`: from `Newest`, `PickedIsNewest` as a part of the invariant.
  `SurfacesReachEntriesHolds`: each entry has its tool and each tool its entry; each versioned
  document's paths run its entry, and what the index refers to runs the latest one.

**EngineProofs**, about `RestContract`, from `CasesOK`: any number of cases, with schemas of any shape
and any finite depth, any names, options, requirements, outputs and pointers. `CasesOK` says only that
schemas and documents are trees (each place has the ones on the way to it, and a leaf has nothing
inside), that a document is an object, that a pointer has tokens, and that a mask is a leaf, a
string or null.

- `RestInvHolds`: `RestInv`. Each stage of `engine.New` adds what its check left true of the case
  (`OptionsPassed`, `DocumentLoaded`, `CommonParamsPassed`, `SecurityPassed`), which no later step changes; a call that
  was refused, runs or was answered is so because of `refusal` and `replyTo` of its request. What
  remains to be shown for each property is about these operators, for one case.
- `FieldsMeanOneThingHolds`: the checks are spread over three functions of `New`; together they
  compare every two kinds of fields.
- `PublishedCleanHolds`: each walk is looked at place by place. Stripping takes the sources at the
  places it comes by and leaves those inside of other keywords, so what is shown is that nothing is
  left where a walk comes by. The operation's schemas are made from places of the decoded schema
  (`InputsClean`, `OutputsClean`), and a place that a walk reaches through a property it reaches in
  the property's own schema (`ThroughTop`), so taking apart and putting together hides none. Where
  inputs are described there are no reserved names (`StripsReserved`), and none comes back
  (`NothingComesBack`).
- `PublishedRequestsAdmittedHolds` and `TransportsAgreeHolds`: `ContractRoot` relates the roots of the
  tool's schema and of the body, which declares and requires what the tool does without what was
  lifted. From that follow what a call that follows the publication sends (`FollowsBody`,
  `FollowsParams`, `FollowsScopes`), and that it passes the checks of `Run`. That `Valid` is
  well defined needs that schemas have a finite depth: `ValidAtRoot` is an induction over it.
- `RedactsAsPointedHolds`: the loops `walk` and `applyRedact` have closed forms. The tokens of a
  pointer lead to at most one place of each length (`OneWay`), so after n tokens `walk` is there, or
  nowhere, or stuck at an array (`WalkAt`, `WalkEnds`). After n pointers `applyRedact` has what all of
  them denote in the original outputs masked (`RedactedTo`, `RedactEnds`), although each walks what the
  ones before it left: where a place is left, tokens lead to it as before (`LeadSame`), and where it
  is gone, a mask is around it already (`ReplaceNoMore`). `OutputsRemain` and `SplitShows` take
  that to the reply. A corollary is `PointerOrderIsFree`: what a decision masks does not depend on the
  order of its pointers, only whether it fails does.
- `KeysApartHolds`: `Runner` takes a workflow's keys as constants, and assumes that those of the body,
  the lifted and the reserved ones do not overlap, and that headers are made of outputs. Of the keys
  that `RestContract` derives from a document that was loaded, this is a theorem.

The functions that the loops define are introduced by a `CHOOSE`, so each proof first shows that
one exists; the closed form is the witness.

TLC evaluated each inductive invariant on the runs' instances before it was proved.
Modules that are proved about write the update of several fields of one record as
`[f EXCEPT ![p] = [@ EXCEPT !.a = .., !.b = ..]]`: tlapm's SMT encoding loses all but one of
several updates `![p].a`, `![p].b` in the same EXCEPT.

**Only model-checked:** all liveness (`GetReturns`, `CancelEnds`, `NothingLeaks`, `RESTAnswered`,
`EveryPurchaseEnds`), which needs fairness and `ENABLED`, out of TLAPS's reach here. Every other
property of a passing run is a theorem.

## 6. What is not modelled

- Parsing, validation and rendering (Arazzo, YAML, JSON, templates): outcomes only. Titles,
  descriptions and servers of the OpenAPI documents are wording.
- Rego evaluation and libopenapi's workflow engine: a decision, a set of outputs, or an error.
- The values of inputs: `Valid` takes them to be what the schemas of the properties ask for. Nor does
  it read the keywords of `other`, which may say more about an object's properties.
- `net.Listen`'s error (`httpserver/server.go:64-67`), with which `ListenAndServe` returns before it
  has a goroutine; the model begins at its `select`. An `x-outputs` that is not an object
  (`schema.go:786-789`), which fails the load like the other faults of `outputFault`.
- That `os.ReadFile` is several reads: `FilePolicy` reads a file in one step. With renames nothing is
  lost by that, an open file being one version; with writes in place `Half` stands for what such a
  read may return.
- Two help lookups that end in another order than the cache answered: `newest` of `ToolLists` never
  goes back, the promise of the cache is about answers given before a lookup began.
- Plan ids that contain a slash: the routes have them as one URL segment.
- The MCP SDK's sessions and streams, JWTs and the login form of the examples, flags and wiring of
  the commands: libraries and I/O.
- The mapping of the example executor from operation ids and parameters to URLs, and its JSON.
- Context cancellation inside `Run`: the code passes the context on and looks at it nowhere
  itself, so a cancelled call is one whose callback returned an error.
- `stripPolicyHints` copies the inputs one level deep (`policy.go:408`): nested maps of the caller's
  body are shared with the copy, which nobody writes to afterwards.

## 7. What remains

The components with a state of their own are modelled, and every safety property, action property
and refinement that a run checks is proved. If the code grows, these are the places to go on:

1. `engine.go` beyond `New` (accessors and wiring) and the MCP gateway, once they keep state.
2. `TransportsAgree` for roots with combinators, if `closeConsumerInputSchema` is changed to leave
   them open: the hypothesis about combinators then has to go, from the property and from
   `PlainObjectValid`.
3. Inputs by their values: `Valid` would need the types of properties, and `restValue` its parsing.

Theorems about one component, or about components that are published together, stay in one
module.
