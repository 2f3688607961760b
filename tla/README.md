# A verification project for rust-code-mcp

rust-code-mcp is an MCP server that indexes Rust workspaces (a vector store, a
BM25 index and a hypergraph of the code) and answers searches and code queries
of many sessions through one long-lived daemon. What is hard about it is not
one algorithm but the state the parts share: indexes on disk that background
syncs, tool calls and maintenance passes write side by side, records of what is
indexed that must not contradict each other after a failure, one GPU that all
daemons of a user embed on, rust-analyzer contexts that are refreshed while
questions run on them, and sessions that outlive the daemon they talk to.

This directory holds TLA+ modules for these parts, TLC configurations that
check them on small instances, and TLAPS proofs for instances of any size.
`PROJECT.json` maps every definition to the lines it models, and lists the runs,
mutants, hazards and theorems. Paths below are relative to `src/crates/`.

## 1. Inventory

| Part | State | Operations | Module |
|---|---|---|---|
| workspace locks (`rmc-server/src/mcp/workspace_locks.rs`) | a global read/write lock; per workspace a graph cache mutex, a maintenance mutex, an operation read/write lock | `lock_shared`, `lock_index_writer`, `lock_store_writer`, `lock_graph_cache_writer`, `lock_all`, `into_maintenance`, `finish_index_writer` | `WorkspaceLocks`, `WorkspaceAccess` |
| endpoints (`tools/endpoints/*.rs`) | none of their own | `search`, `get_similar_code`, `index_codebase`, `clear_cache`, `build_codemap`, `semantic_overlaps` | `WorkspaceLocks`, `SearchRuntime` |
| background sync, runtime, search cache (`mcp/{sync,runtime,search_cache}.rs`) | tracked directories, cached search runtimes, task handles, shutdown channel | track, untrack, a cycle over a copy of the list, get, insert, invalidate, clear by scope, shutdown | `SearchRuntime` |
| incremental indexing (`rmc-indexing/src/indexing/{incremental,incremental_service,merkle}.rs`) | Merkle snapshot on disk | compare, prepare, write in batches, commit, retry list, save; force, repair | `IndexSync` |
| unified indexer (`unified.rs`, `indexer_core.rs`, `file_processor.rs`, `tantivy_adapter.rs`, `metadata_cache.rs`) | metadata cache, BM25 index and its uncommitted writes, vector store | prepare, delete, insert, record, forget, commit, drop what is outside the walk | `IndexSync` |
| health (`rmc-indexing/src/monitoring/health.rs`) | none | one probe over four stores and the tree | `IndexHealth` |
| vector store (`rmc-engine/src/vector_store/`) | versions, fragments, indices, metadata | open, insert, delete, extend, compact, build the ANN index, prune | `VectorTable` |
| hybrid search (`rmc-engine/src/search/`) | the BM25 writer and its reader | search, fuse, fall back, attach chunks | `HybridSearch` |
| GPU broker (`rmc-engine/src/embeddings/{gpu_broker,gpu_lock,vram_ledger}.rs`) | a slot per backend, waiting counts, condition variable, lock file, meters and prices | grant, ensure, create, return, discard, release idle | `GpuBroker` |
| embedding calls (`embeddings/`, `embeddings/openrouter/`, `embedding_batcher.rs`) | the requests in flight | plan batches, request, retry, split, reassemble | `EmbeddingPlans`, `EmbeddingRequests` |
| analysis gate, semantic service (`rmc-server/src/deep_stack.rs`, `semantic/`) | a gate, the retired flag, project slots, contexts | shared analysis, exclusive collection, retire, refresh, evict, unload | `SemanticService` |
| graph snapshots (`rmc-graph/src/graph/{snapshot,storage,incremental}.rs`) | snapshot directories, manifests, CURRENT, build lock | build, publish, prune, reuse, open, query | `GraphSnapshots` |
| graph contents (`extract.rs`, `usages.rs`, `query/`, `rmc-server/src/tools/graph/`) | the tables of a snapshot | extract by crate, about sixty queries and tools, paged export | `GraphExtraction`, `GraphQueries`, `GraphTools` |
| codemaps and overlaps (`codemap/`, `embedding_cache.rs`, `query/similarity.rs`) | the snapshot's vectors | seeds, expansion, budget, clusters, cached vectors | `Codemap`, `SemanticOverlaps` |
| audits, skeletons (`graph/*_audit.rs`, `graph/skeleton/`) | none; the `.skeleton` directory | walks over syntax trees; render, prune, write | `GraphAudits`, `Skeleton` |
| daemon and relay (`rust-code-mcp/src/{daemon.rs,daemon/relay.rs,main.rs}`) | socket files, spawn lock, sessions, retirement | start, accept, relay, replay, move, retire | `DaemonRelay` |
| memory watchdog (`daemon.rs`, `mcp/memory.rs`) | ages of its last actions, a baseline | trim, unload, sweep, release, retire, leave | `Watchdog` |

`PROJECT.json` has the complete list of components, with the reason for every
part that is not modelled.

What makes each part correct, and what is hard about it:

* **Locks.** No conflicting operations on a workspace; a reader waits for
  nothing but a writer's writes; no deadlock, no starvation, also when requests
  are dropped while they wait. Hard because a lock changes hands in the middle
  of an operation (a writer's guard becomes its maintenance pass's) and because
  a search may turn from reader to writer.
* **Indexing.** The snapshot, the metadata cache, the BM25 index and the vector
  store are four records without a common transaction. What the snapshot
  or the cache takes for indexed must be indexed, after any failure at any
  step; what failed must be tried again; in the end everything is indexed.
* **GPU.** A session is with one run at a time; no waiter is forgotten; a query
  does not wait for the index or the graph cache batch after batch; a creation
  does not take the card past its memory, where the runtime aborts the process.
* **Runtime.** A runtime that was cached under its workspace's lock does not outlive
  the index it was opened on; a cleared directory comes back by a call only; an
  index left empty fills; a shutdown ends the process.
* **Semantic service.** A collection is alone and never holds up an analysis; an
  answer is not older than its call though files change while they are loaded; a
  question that others keep cancelling is answered; a context a panic interrupted
  is not asked again. Hard because questions run on snapshots with no lock held,
  and whoever changes the context waits for them.
* **Graph.** CURRENT names a complete snapshot at all times; a prune removes none
  that somebody builds on or reads; an incremental build leaves what a full one
  would; the tools agree with each other about one graph.
* **Daemon.** A call that changes something runs once although daemons die,
  retire and are replaced under it; a host sees one conversation; the socket of
  a daemon that serves is there; an idle or bloated daemon leaves, a busy one
  does not.
* **Vectors.** Every text gets its own vector in its own place, however a batch is
  cut, retried or recomputed; a search names no chunk that was never written, and
  a reader loses the version it reads only when that is outdated.

## 2. How the project is built

Each component has a module with its state, one action per operation and its
properties. Four rules hold throughout: an action is the whole handler between
two points where another actor can get in; what a library does is taken from how
the code uses it and marked external in the map; every counter that would grow
for ever has a named bound in a guard; and mutants, operators named
`<Definition>_<What>` before the definition they vary, are plausible bugs that a
property must catch.

The map names a helper only where its lines are not already those of another
definition it names.

`MC*` modules instantiate the components. Components that share no state are
checked in one run: its behaviours begin by choosing a component (`component`),
whose Init and Next they then follow while the variables of the others are `{}`.
A property of such a run is an implication `component = "x" => P`, which is
checked on exactly the behaviours the component has alone. Where such a module
extends two components with a variable of one name (`call`, `graph`, `disk`), the
variable stands for different things in the behaviours of each.
`MCSemanticService` and `MCGpuBroker` combine two instances of one component in
the same way (`wide`; `away`).

Composition proper: `SearchRuntime` uses the rights of `WorkspaceAccess`, which
`WorkspaceLocks` implements; `HybridSearch` extends `VectorTable`;
`EmbeddingRequests` extends `EmbeddingPlans`; `IndexHealth` extends `IndexSync`;
`GraphTools`, `GraphAudits`, `Skeleton` and `SemanticOverlaps`/`Codemap` extend
`GraphQueries`. Beyond that, components meet in assumptions that another module
shows: `IndexSync` has one run at a time because writers exclude each other
(`WorkspaceLocks`), `VectorTable` one writer for the same reason.

### Runs

| Run | Instance | Shows |
|---|---|---|
| `locks` | 3 tasks, 1 workspace, all nine kinds of call, one publish per sync | exclusion, lock order, readers wait for writers only, refinement of `WorkspaceAccess` |
| `sync` | 2 files, 4 contents (with code, without chunks, oversize), 5 kinds of run, one failure anywhere | the cache vouches for nothing that is not there, the stores agree, failed paths are presented again |
| `sync_catches_up` | 2 files, 3 contents, two failures; fair | the snapshot vouches for nothing that is not there; in the end every file is indexed |
| `gpu` | 2 daemons, 3 of 4 users on one backend, a card of 4, a crash; fair | exclusive sessions, no lost wake-up, a query waits one turn, memory, every call returns |
| `semantic` | 2 calls; 1 project with 2 edits and 2 attempts, or 3 projects under a cap of 1 | a collection is alone, answers are current, the last attempt is undisturbed, interrupted contexts go, the cap |
| `relay` | 2 clients, 3 daemons, a change of the binary or a forced retirement, one fault | calls that change something run once, one conversation, servers are found |
| `relay_answers` | 1 client, 3 daemons, the same troubles; fair | every call is answered; sessions leave a retired daemon |
| `live` | `WorkspaceLocks`: 3 tasks; search, codemap, sync, clear of everything; `SemanticService`: 2 calls, 1 project; fair | a call under the locks answers; a semantic call comes back |
| `runtime` | `SearchRuntime`: 2 callers, 1 directory, 7 tools, one fault; fair | runtimes cached under the lock are fresh, the sync brings nothing back, what was left empty fills, the process ends |
| `graph` | programs with up to 2 of 5 features and their edits; `GraphTools` over its catalogue of snapshots; `Codemap` over two workspaces; the audits; 2 calls for skeletons | incremental extraction is full extraction; tools agree with their definitions; codemaps and vectors; findings and skeletons are right |
| `snapshots` | 3 crates in 2 packages, 2 builders in 2 processes, 1 reader, 2 edits, a clear at any moment, a crash | whole snapshots are full builds, CURRENT is whole, a query sees one tree, a build's answer is current |
| `server` | watchdog over 2 clients and a machine of 12 units; searches over 2 files; 46 calls for vectors; health over 2 files | the watchdog's decisions, searches, vectors and their base64, health |

Deadlock is checked in `locks`, `live`, `sync`, `sync_catches_up`, `semantic`,
`relay`, `relay_answers` and `runtime`. The tasks of `WorkspaceLocks` are
interchangeable, and so are the callers of `SemanticService`, so `live` states its
properties of one of each (`Watched`). In the others the calls are bounded, so
that behaviours end; their liveness properties cover being stuck.


## 3. WorkspaceLocks and WorkspaceAccess

`WorkspaceLocks` models the registry and its users. `queue` and `held` are the
tokio locks: a FIFO queue of waiters and the guards that are out, per lock. A
tool call or sync is a task; `pc`, `op` and `ws` say where it is, what it was
called for, and in which workspace. `Request` and `Acquire` are the awaits of
every `lock_*`, in the order `WantedLock` takes from the code; dropping a guard
is `Release`. `Begin` starts any call; `AnswerRead`, `TurnWriter`, `Wipe`,
`Refill`, `SkipBuild`, `AnswerUnlocked` are the paths of `search`; `StartPublish`
and `EndPublish` the exclusion of readers around an ordinary run's writes;
`FinishIndexing` and `HandToPass` the hand-over to the background maintenance
pass; `EndPass` its end; `Abandon` an error, a panic or a dropped future at any
point. `index` abstracts the stores: absent, partial or ready.

`WorkspaceAccess` says what all this is for without a lock: rights per actor and
workspace, which of them conflict, who may change an index, and the hand-over of
a store without a gap. `ImplementsAccess` is the refinement, with the rights
computed from the program counters.

Bounds: a conflict is between two actors; the third task is for what a queue
adds (a waiter behind a waiter). One workspace is enough for a conflict, and the
proofs are for any number. Each task makes any number of calls. Fairness
is weak, on each task's own steps and on the maintenance passes: the tokio
scheduler runs ready tasks, the locks are FIFO, and every wait inside a
critical section is for embeddings or disk, which end or fail (`Abandon`).

## 4. IndexSync and IndexHealth

One workspace, one run at a time (that is the store writer's right of
`WorkspaceAccess`). The stores are functions from paths to what they hold for
the path. A path is a number, since the order of paths is what the Merkle leaves
are sorted in; a content stands for its hash, its stat and its chunks, with
contents that have no chunks or are above the size limit apart.

A run is `StartRun`, then the clearing of a force run (`ClearCache`, `ClearBm25`,
`ClearVectors`), of a search's build (`CleanSnapshot`, `CleanCache`) or of a
repair (`RepairCache`, `RepairTree`, `RepairCommit`, `RepairSnapshot`), then
`Load` (walk, snapshot, changes) or `FullWalk`, `Prepare` per file, the write
(`StartWrite`, `DeleteChunks`, `InsertChunks`, `Record`, `EndWrite`, `Forget`),
`Commit`, `Drop`, `DropCommit` and `Save`. Every store write of the code that can
fail on its own is a step of its own; `Faults` says which of them may fail, and
`Crash` ends a run anywhere, with what BM25 has not committed. `Edit` is the user,
during a run too.

What the snapshot and the cache vouch for holds in the environment `Careful`
describes: contents do not come back, no file changes between its reading and
its recording, and `clear_cache` is not called. Section 12 has what the code does
outside of it. `StoresAgree` needs the second condition only.

`IndexHealth` puts one `health_check` beside the runs: the opening of the two
search stores (whatever the outcome), the reading of the cache and of the
snapshot, the comparison with the tree and the listing of the vector store's
files are steps between which runs and edits go on. What the report says of
coverage and freshness is compared with the stores (`HealthIsSound`).

Bounds: two files are enough for one to succeed and one to fail in the same
batch, and for a file to take another's place in the order. Without `Reuse` each
content is written once, which bounds the edits. Fairness: a run goes on
(`RunStep`) and the tick of `run_until_shutdown` comes round (`StartRun("sync")`);
the loop of `sync.rs` does both until shutdown, and catches panics.

## 5. GpuBroker

A user is a blocking-pool thread that embeds for an owner; a slot is a process
and a backend. `Grant` and `Wake` are the loop of `Broker::grant` under its mutex
(`TakeSession`, `SetOut`, `Sleep`); `asleep` and `awake` are the condition
variable. `Ensure` builds a session if there is none. `TakeLock` and
`LockTimeout` are the lock file, `Admit`, `Refuse`, `LoadFails`, `WarmedUp` and
`HandOver` the creation under it, `RunEnds` and `RunPanics` the run, `GiveBack`,
`Discard`, `CreationFails` and `NotifyAll` the drops. The slot is written under
the mutex and the notification comes after it, so these are two steps.
`TakeIdle` and `DropSession` are the idle release, whose memory is freed later,
outside every lock. `Crash` is the kernel's part of a daemon's death. `overtaken`
is a history variable: the turns of lower rank that ended during a wait.

Memory is counted in units per backend: what a session takes when it is loaded
and what its first run adds. Prices are constants, known or not: how a price is
measured, and the higher price of a process's first session, are left out.

Bounds: the run has two instances. In one, a query, an index pass and the graph
cache share a slot: one user of each rank is the least in which a middle rank
can be overtaken and overtake. In the other (`away`) users of two processes
compete for the card. `MaxCalls` lets each come back after a turn. Behaviours end,
so deadlock is not checked; `EveryCallReturns` covers being stuck. Fairness: a
thread in a call goes on. The wait for the lock file is bounded by
`GPU_LOCK_WAIT`, so it ends either way. The watchdog and new callers get no
fairness.

## 6. SemanticService

A caller is a tool call on a thread of its own. `RunAdmitted` is the check of the
retired flag and the start of the thread, `EnterShared` and `TryExclusive` are the
gate of `deep_stack.rs`. The registry is `projects`, from directories to slots, and
`older`, the order of the use counts. A slot has its mutex (`held`), its context
and the two marks a panic leaves: `poisoned` by the mutex, `spoiled` by
`SpoilOnPanic`. `Release` is the drop of the last `Arc` of a slot.

A question is `SlotFor`, `Lock`, then one of `Fresh`, `Edited` with `ReadEdits` and
`ApplyEdits`, or `BeginLoad` with `EndLoad` or `LoadFails`; then `TakeSnapshot`,
which also touches the entry and evicts, and `Answer` or `AskAgain`. A write to a
database cancels its snapshots and waits until they are gone, which is how salsa
behaves: `Cancelled` is the first part, the guard `Readers(my[c]) = {}` the second.
`ListLoaded`, `Weigh`, `Weighed` and `Portrait` are `memory_breakdown`;
`PanicOutside`, `PanicHolding`, `PanicInQuery`, `PanicWeighing`, `FindInterrupted`
and `UnloadInterrupted` a panic and its cleanup; `SweepSlot` and `SweepEnds` the
collection; `ClearProject`, `ClearAll`, `Retire` and `UnloadRetired` the rest.

The files of a project are one version number. A context has the version of its
stamps and that of its text, which differ when files change during a load.

Bounds: a conflict on a slot is between two calls. With one project, a call that
needs a new slot finds at most one other alive. Three projects under a cap of one
give an eviction a choice; there a call that weighs keeps slots alive that have
left the registry, and with three slots in all `SlotFor` then waits for one, which
leaves out states with more slots than that. The attempts are 2 instead of 3: one
that can be cancelled and the last. An edit before and one during a load are two.
Calls are unbounded. Fairness (run `live`): weak on a call's own steps, since a
thread runs; strong on the slot's lock, on weighing and on the gate, whose `std`
locks are not fair: a waiter gets a lock that is free again and again, which an
operating system's scheduler gives in practice and no text guarantees. Collections
end; nothing else is fair, and a panic need never happen.

## 7. DaemonRelay

A client is a host with its relay process; `client` is the relay's program,
`link` its connection and the daemon's session at the other end, `host` what
the host sent and was answered, `ran` how often a daemon ran a call. `Dial`,
`SpawnLock`, `Recheck`, `ClearStale`, `SpawnDaemon`, `WaitForDaemon` and `Attach`
are the way to a daemon; `FromHost`, `Initialized`, `Cancel`, `CloseInput`,
`HalfClose` and `FromDaemon` the pump; `Lost`, `Move`, `RetryDue` and
`DrainExpires` the end of a connection and what is replayed on the next one
(`Replayed`, `Refused`, `Swallowed`). A daemon has `Bind`, `Accept`, `Answer`,
`EndOfInput`, `Retire`, `Exit`, `Leave` and `Deadline`. `RemoveBinary` and
`InstallBinary` are a rebuild of the program, with a moment without a binary;
`Terminate` is SIGTERM; `Die` and `ClientDies` are faults.

A build stands for its socket path, which carries the mtime of the binary in the
code; while there is no binary, a relay goes to the socket it was started with
(`startup`). Two assumptions have a name, since the code does not enforce them:
`WaitersDie = FALSE` (no client dies while the daemon it started is on its way,
which would free the spawn lock too early) and `HandshakesOverlap = FALSE` (a
move does not begin while a repeated handshake is unanswered). Section 12 says
what happens otherwise. `ChangesRunOnce` needs neither.

Bounds: two clients are the least for a race about the socket; three daemons
let one be lost and one be replaced; of the calls one changes something and one
does not, since the replay treats them apart; `QUICK_LOSSES_BEFORE_GIVING_UP`
is 1 instead of 3; one fault, one upheaval (a rebuild or a forced retirement).
Fairness: a relay and a session go on, a daemon that starts binds or dies, the
grace of a retired daemon ends, and a rebuild that removed the binary installs
the new one. Hosts, retirements and faults get none.

`Watchdog` is the other half of the daemon: the loop in `daemon.rs` with its idle
exit and, each tick, what the readings of memory lead to (trim, unload, sweep,
release of an idle GPU session, retirement), the accept branch beside it, and the
clients whose calls are what it measures. Time is counted in ticks of the loop,
memory in units of a machine of 12; ages are capped where nothing depends on
more. Left out: the format of /proc, RSS logging, who sends a signal.

## 8. SearchRuntime

What `RuntimeState` and `search_cache.rs` keep, the tracked directories and the
cached runtimes, and what decides whether a run writes: per directory the
generation of the BM25 index (`bm25`, with a torn flag), what is in the vector table
(`store`), what says that files are indexed (`known`: the Merkle snapshot, the
metadata cache), and whose `profile` the index is. Calls are sequences of steps
under the rights of `WorkspaceAccess`: `LockShared`, `Look`, `Rebuild`, `Run`,
`Reopen`, `Open`, `Opened`, `Query` for searches; `ForceRun`, `IndexStart`,
`IndexUnchanged`, `IndexPublish`, `IndexWrite`, `Track` for `index_codebase`;
`ClearCache`, `DeleteFiles`, `Clear`. `Cycle`, `SyncDirectory`, `Profiles`,
`SyncUnchanged`, `SyncPublish`, `SyncMaintain`, `CycleEnds` and `SyncStops` are the
background sync over its copy of the list; `RequestShutdown`, `ShutDown`,
`WaitForTasks`, `ClearAndExit` the end of the process; `Corrupt` a store on disk that
no longer opens. A run that finds the tree as the Merkle snapshot has it writes
nothing (`FindsNoChange`); one that writes passes over what the snapshot or the
metadata cache takes for indexed, so it may leave the table short of rows (`Filled`).

A search that built its index has no lock while it opens the stores, caches what it
opened and queries: a clear or a force run may fall anywhere in between, and the
runtime it caches then may be of a directory that is gone. `CachedRuntimeFresh` is
therefore about runtimes that were put in under the lock of the workspace (the
history field `guarded`); `NoRuntimeOutlivesAClear` states the comment of
`index_codebase` without the exception, and TLC finds it violated (section 12). An
empty table is filled by the sync unless a Merkle snapshot or a metadata cache
outlived its rows: `EmptyIndexesFill` has the exception in `Unfilled`, and holds
without it for a missing BM25 index.

Bounds: two callers and one directory for a race, all seven tools, two calls, one
fault. A workspace has a file to index, and one profile. Fairness: a call goes on
while the process is not ending, maintenance ends, the sync loop goes on (the
interval of `sync.rs`), and the exit goes on.

## 9. The graph

`GraphSnapshots` is the directory of snapshots: `manifest` and `rows` per id,
`current`, the lock file, and the jobs of builders. A tree is a version of the
global inputs (toolchain, lock file, configuration) and one per package; the rows
of a crate are the tree cut to the packages in which its dependency closure lies,
so that two sets of rows are equal exactly when extraction read the same. `Start`,
`OpenLock`, `TakeLock`, `Capture`, `Reuse`, `Load`, `Incremental`, `Stage`,
`WriteCrate`, `EndWrite`, `WriteManifest`, `Publish` and `Return` are a build;
`InputChanged` its retry; `Abort` and `Crash` its failures; `ReadCurrent`,
`OpenSnapshot` and `Close` a query. `DependencyClosure` and the set of dirty crates
are the least sets closed under a relation. `clear_cache` deletes the directory at
any moment: it takes the index writer lock, a build the lock file in that directory.
Two history variables name what this does: `strayed`, a clear fell into a build;
`mixed`, the directories that two builds had staged at once, of which the clear took
the first (a build may still write through its handle on the one that is gone). Contents are right but for `mixed`; that CURRENT names a whole
snapshot, and that a build answers with what CURRENT names, is claimed until a clear
falls into a build. Bounds: the library changes, or the program that uses it, or the
target is gone; two builders in two processes and one reader, since a conflict is
between two; `MaxTroubles` bounds edits, clears and faults together, and a clear is
not combined with a retry (`NoRetryWithClear`; the proofs have no such bound).

`GraphExtraction` writes the rows of a program, whole or one group of crates
at a time, and compares the outcomes (`IncrementalIsFull`, `TargetsAreNodes`).
Ids are tuples of what the code hashes. A program has up to two of five features
that make rows of one crate depend on another. Left open is the order of the
groups; `UsagesPass::FromTargets` is not modelled; that a written row has its
navigation target is assumed.

`GraphQueries` has the queries as operators on a graph, `GraphTools` the tools
with what they refuse, and the export page by page under one snapshot id.
Results that are sorted for display are sets; labels are sequences of tokens,
ratios counts. The catalogue of snapshots has the shapes the queries tell apart
(re-export chains, globs, cycles, namesakes) and all call graphs over three
functions that lack one edge.

`SemanticOverlaps` and `Codemap` add vectors: a text is a number, which is also
its hash; scores are whole tenths. `Ask`, `Embed`, `WriteBack` and `Finish` are the
steps between which files and the snapshot may change. `newest_source_mtime` and
the cap of a snippet are left out.

`GraphAudits` walks syntax trees given as preorder nodes, over texts that are
read while it walks; `Skeleton` renders places of a source and writes them to
`.skeleton`, with two calls that nothing keeps apart. The audits' programs have
methods and nested functions with the name of a free one: what a finding is then
attributed to is what the lookup by name finds, which `EnclosingIsRight` and
`LoopsAndRecursionsAreReal` say (section 12). `hir_trim.rs`, symbolic
links and collisions of aggregate file names are not modelled.

## 10. VectorTable, HybridSearch, EmbeddingRequests

`VectorTable` is a log of versions, each a list of fragments and what each index
covers. A sync opens, deletes and inserts; the pass drops indices, extends,
compacts, builds the ANN index and prunes, as steps between which it may die and
readers hold versions. What LanceDB does in one call is external; one chunk per
file and sync; compaction has one bin. The knobs are constants, and `Bounds`
is a set of small workloads, one per question, each exhausted.

`HybridSearch` adds the BM25 writer with its commits and a search in steps. What
matches and in which order is left open; a prune may fall into a search, and takes a
version by its age, so a search may lose the one it reads once that is outdated, and
before then not (`ReadersAreCutLate`); scores are ranks, and fused scores exact
fractions: the code adds `f32`s, whose rounding cannot turn the order of two chunks
one of which is ahead on both sides. The BM25 reader may lag by one commit.

`EmbeddingPlans` has the arithmetic of batches, limits and settings,
`EmbeddingRequests` a call over several requests in flight, with what a service
may answer (`flaws`), retries, halved batches and the recomputation of vectors
that are not finite. A text is its tokens and characters, a vector says whose it
is. How long a retry sleeps and how long a request took are left out.

## 11. What is proved

TLAPS checks every proof; there is no axiom and no omitted step. The assumptions
are the named ASSUMEs of the modules (types of the constants, and what is said of
them below), which TLC evaluates in the runs. Each theorem is for any value of the
constants: any number of tasks, files, daemons, directories, crates, faults.

* `WorkspaceLocksProofs`: `TypeCorrect`, `InductiveInvariant`, `AccessIsExclusive`,
  `LocksOrdered`, `QueuesAreTrue`, `ReadersWaitForWriters` and
  `LocksImplementAccess`, the refinement of `WorkspaceAccess`. Exclusion alone is
  not inductive: that two rights never conflict follows from the guards only if
  the guards that are out are exactly those the programs call for
  (`GuardsMatchPrograms`), each operation passes only through its own points
  (`PointsOfOps`), and a write guard is alone (`GuardsExclude`). Each action moves
  guard and program counter together. For the waits the queues have to be exact
  too: a task is in one exactly if its program stands at that request.
* `IndexingProofs`, of the sync of an index: `TypeCorrect`, `InductiveInvariant`,
  `SnapshotIsTrustworthy`, `CacheIsTrustworthy`, `RetriesAreVisible`,
  `StoresStayTogether`.
  `SnapshotVouches` needs to know what the run is about to do: the
  invariant says per file what waits for it (`ToBePrepared`, `ToBeWritten`,
  `ToBeRecorded`, `ToLoseChunks`, `OutsideWalk`) and that as long as vectors may
  go, nothing vouches for the file (`Unvouched`). `OwnContents` and `OnceHeld`
  carry the assumption `Careful`.
  `VerdictIsTrustworthy` is about `IndexHealth`: a health check that says HEALTHY
  saw a walk, a snapshot and stores of different moments, but nothing between them
  may have changed the tree, since then it is not fresh; so what the snapshot
  vouched for when it was read was in the stores, and the invariant of the runs
  says it still is (`ReadingsStand`). A ghost is a path outside the tree, and no
  alarm about coverage is false because a file the cache knows has its vectors
  (`CachedHaveVectors`). `HealthIsTrustworthy` says the same of the composition
  `PartsSpec`.
* `IndexingProofs`, of a call for vectors: `CallInvariant`, `EmbeddingsInvariant`, and
  `EmbeddingsAreTrustworthy` of the composition `PartsSpec`, for any texts, lengths,
  settings, answers, retries and number of requests in flight. `EmbeddingsHold` is not
  inductive: that a call answers each text with its own vector needs to know where
  each text is while batches are asked for, halved, put off and answered in any order.
  The invariant `CallInv` says that the call, its settings and its lengths are what
  they were (`Known`), that the batches have each text once and are as full as the
  settings allow (`Batched`), that each worker shares the texts of its batch between
  what it still asks for and what it received (`Worked`), that what is gathered is of
  the workers that are done (`Collected`), and that the vectors counted are those of
  the workers, and the requests no more than retries and halvings account for, worker
  by worker (`Metered`).
  The lemmas before it are about the model's data: the plans are cut as the texts are
  taken one by one (`Planned`), so plans that are joined stay joined and the first
  one that does not fit ends its batch; the inputs are sorted by rank, each place
  having exactly one; halving a batch divides its texts; padding covers what it was
  counted as; sums over finite sets change by what one summand does. Where the
  operators are folds, the lemmas show that a sequence of partial results exists and
  is the one the fold takes, by a smallest place where it would fail. Assumed of the
  constants: the model's length and the session's rows are positive, numbers are
  numbers, and a search asks with a text (`RequestsAssumption`).
* `GpuBrokerProofs`: `TypeCorrect`, `InductiveInvariant`, `SessionsAreExclusive`,
  `NoWakeupIsLost`, `QueriesWaitOneTurn`, `NothingLeaks`, `MemoryIsEnough`. A
  sleeper is safe because the waiting count holds exactly the users in
  the loop (`WaitersCounted`), and the state of a slot tells what the user that
  has its turn is doing (`TurnShown`). The bound on waits needs
  `NotOvertakenBefore`: while a lower rank has the turn, none had one before. The
  memory theorems are about sums over all sessions, which the model takes with a
  fold. Its first lemmas are what they need of such sums (a sum changes by what one
  summand changes by, a part is at most the whole) from the uniqueness of the
  recursive function behind the fold on finite sets, by looking at a smallest
  set for which it fails.
* `SemanticServiceProofs`: `TypeCorrect`, `InductiveInvariant`,
  `CollectionsAreAlone`, `LastAttemptsEnd`, `AnswersAreCurrent`, `RegistryIsKept`.
  Who holds a slot
  is at work under its lock and the other way round, and a snapshot is in use in
  a question only (`LocksMatchCalls`): so a collection, which finds nobody inside,
  finds no lock and no snapshot, and the last attempt, which holds its slot, meets
  nobody who could cancel it. Answers are current because stamps are never ahead
  of the text they stand for (`VersionsInOrder`): stamps that match the disk at a
  moment after the call was made mean text that is as new. The cap is counted: the
  entries are ranked by age (`EntriesAged`), an eviction keeps the newest that fit
  and those in use, and each spoiled entry has a call of its own that is about to
  take it out, so there are no more of them than calls (`RegistryInv`). This needs
  that there are finitely many callers, which is an assumption of the module.
* `DaemonRelayProofs`: `TypeCorrect`, `ChangesAreRunOnce`, `HostsSeeOneConversation`,
  `CallsGetOneAnswer`, `ServersCanBeFound`, `OneServer`. A session is described by
  what its connection carries (`SessionsHold`): a call that changes something is in
  one place only, at the host, on the way, running, or in an answer, and once it
  was sent it is not repeated. For the fleet (`FleetHolds`) the spawn lock is held
  by who clears and starts, a daemon that starts is waited for by the holder, and
  a path that somebody is about to clear has no server. `ServersCanBeFound` and
  `OneServer` are under `~WaitersDie`, `HostsSeeOneConversation` under
  `~HandshakesOverlap`; without the latter `CallsGetOneAnswer` says that only
  the handshake can be answered twice.
* `SearchRuntimeProofs`: `TypeCorrect`, `InductiveInvariant`, `CachedRuntimesAreFresh`,
  `SyncResurrectsNothing`. Everybody has the rights of
  the step it is at (`RightsMatchSteps`), so whoever deletes is alone but for
  searches without the lock (`DeletesAreAlone`), and what a search with the lock is
  about to cache is of the directory that is there (`HandlesAreFresh`); the sync
  writes what it saw an index of, under a right that no clear is compatible with
  (`SyncSawIndex`). No condition is assumed of the environment.
* `GraphSnapshotsProofs`: `TypeCorrect`, `InductiveInvariant`,
  `PublishedSnapshotsAreWhole`, `QueriesReadOneTree`, `WholeSnapshotsAreImmutable`.
  One build is under way, its stamps vouch for what it read (`OneBuilds`,
  `StampsVouch`), and what it has staged is what a full build would hold but for
  the crates still to be written (`StagedIsOnTheWay`). That the incremental plan
  leaves the right rows in a copy of another snapshot is two lemmas about
  closures: a crate that is not dirty depends on no package that changed, so its
  rows are those of either tree (`UntouchedRowsAgree`), and every crate that depends
  on a changed one is found going the other way (`DependentsAreFound`). None
  assumes that clears and builds keep apart: a build whose directory was cleared
  goes on, and fails where it needs the directory; that it writes into another's
  takes a directory in `mixed` (`StagedApart`).

* `ServerProofs` has what is proved of two more components of the run `server`. Of the loop:
  `LoopTypes`, `LoopInvariant`, `LoopIsSound`, for any clients and limits. A decision
  and the action it leads to are different steps, and clients call and leave in between: the invariant keeps with a decision the reading
  it was made on (`DecisionStands`). An idle exit is right because the counter counts
  the connections, and while nobody is served the recorded history is no shorter
  than the time since the last one (`ServiceIsMeasured`); a daemon retired over the
  limit admits nobody any more (`RefusalHolds`) and sleeps only ahead of its deadline
  (`DeadlineAhead`). Assumed of the limits: they are numbers, and the cooldown of
  the growth trim is not shorter than that of the ordinary one, which a test of the
  daemon asserts (`daemon.rs:2610`). `LoopIsSound` is proved of the composition
  `PartsSpec`.

  Of the table and its searches: `SearchInvariant` and `SearchIsTrustworthy`, for any
  files, embedders, batches, settings, searches and faults. `SearchHolds` is not
  inductive. That the newest version has the written chunks (`NothingLost`) needs that no two fragments of a version
  have one id (`DistinctIds`) and that ids are never given out twice, or a
  compaction could take an index for one of a fragment it does not know
  (`VersionsHold`); that a pass ends with every row under every index needs, step
  by step, what it has done so far (`PassGoesOn`: dropped, covered, merged,
  compacted); that a prune leaves no file behind needs that the disk is exactly
  what the kept versions name (`DiskIsNamed`). The keyword index is compared with
  the table through what its writer has staged (`DocumentsHold`): a document is of a
  chunk that was in some version, because rows are written before the commit. A
  search keeps the version it pinned, or the documents it read, until it uses them,
  and has tried each side as often as it says (`SidesHold`); the files of the version
  it pinned go only once that version is outdated, and once outdated it stays so
  (`PinHolds`); between fusion and
  answer the ranking has each chunk once and does not contradict what both sides
  agree on (`FusedHolds`). The lemmas on operators say what compaction does to a
  list of fragments (each lies in at most one bin, bins are maximal runs, the rows
  and the ids covered are kept, and when one delta covers all no two small
  neighbours are left) and what reciprocal rank fusion does to two rankings: with
  1 / (K + rank) as exact fractions, a chunk that is ahead on both sides scores
  strictly more. Assumed of the constants: numbers are numbers, there are finitely
  many files, and a search asks for a number of results.

### What is only model-checked, and why

* Liveness (`LockCallsAnswer`, `EventuallyIndexed`, `EveryCallReturns`,
  `EveryCallIsAnswered`, `SessionsLeaveRetired`, `EmptyIndexesFill`, `ExitIsBounded`,
  `CallsComeBack`): ENABLED and fairness are outside of the provers' reach.
* The run `graph`: its operators recurse over graphs and trees, and what a recursive
  definition computes for every input would be an induction over data.
* `CodingIsSound` of the run `server`: what the base64 decoder makes of a text is a
  recursion over its characters, which for every text would again be an induction
  over data. It depends on no state, so the run evaluates it in full over all
  sequences of up to four bytes of three values, with a blank at every place, a cut, a
  wrong character and more text behind the padding.

## 12. Where the code and its comments disagree

None of these has a run of its own; the modules have the steps that lead to them,
and where a constant is named, changing it in the .cfg shows the case. Some modules
state what a comment promises beside the properties that are checked:
`RunCatchesUp`, `KeywordsCatchUp` (`IndexSync`), `NoneOutlivesItsGrace`
(`Watchdog`), `NoReaderIsCut` (`HybridSearch`), `NoRuntimeOutlivesAClear` (`SearchRuntime`), `CycleMeansExpanded` (`GraphTools`),
`ByCrateIsWhole` (`GraphExtraction`). TLC finds each of them violated.

Locks and indexing

* `get_similar_code` and `similar_to_item` open the vector store under the read
  lock with a call that creates it (`tools/endpoints/query.rs:523`,
  `tools/graph/similarity.rs:40`), though the holder of that lock "must not write
  the workspace's index or caches" (`workspace_locks.rs:149`): `AnswerRead`.
* A search that built the index drops its guard and queries with no lock
  (`query.rs:455`), so it may see the gap of a force run (`workspace_locks.rs:72`):
  `AnswerUnlocked`. It also caches the runtime it opened without the lock, so that a
  runtime can outlive a clear (`query.rs:297` against `index.rs:285`):
  `NoRuntimeOutlivesAClear`.
* `clear_cache` keeps the Merkle snapshot (`endpoints/cache.rs:104`); the next
  ordinary run finds no changes and rebuilds nothing (`TOOLS.md:477`): `ClearStores`,
  and the table that a read then creates stays empty (`incremental.rs:433`):
  `FindsNoChange`.
* A file edited between its reading and its recording is skipped from then on
  (`file_processor.rs:103` against `incremental.rs:511`): `EditTimes = "any"`.
* A run that dies between its records and the BM25 commit leaves BM25 behind
  (`unified.rs:627` against `incremental.rs:511`): `Crash`.
* Merkle leaves are hashes of contents alone (`merkle.rs:95`): a file moved to a
  path with the same place in the order leaves the root as it was.
* A failed modification keeps the old hash (`incremental.rs:403`), which vouches for
  chunks that are gone when the edit is taken back before the retry.
* A file edited down to no chunks keeps the old ones (`indexer_core.rs:279` against
  `unified.rs:501`).
* A full pass over no files returns before it drops what is outside the walk
  (`unified.rs:660` against `unified.rs:867`).
* A coverage repair that is cut off has forgotten the cache entries and not the
  snapshot, so no later repair finds those files (`incremental_service.rs:160`).
* Health: a walk of the tree that fails counts as healthy (`health.rs:152`); stale
  skips can be false positives (`:112`) and end without a forced reindex (`:131`);
  after `clear_cache` one edited file and a sync make an index healthy that lacks the
  others; freshness is compared by path and a run by root hash, so a rename that
  keeps the root is stale for ever; content without chunks keeps its old vectors and
  is healthy.

GPU and semantic service

* An idle session that is being dropped still counts against the budget, so a grant
  in between is refused (`gpu_broker.rs:561` against `gpu_broker.rs:33`).
* An analysis admitted just before the retirement loads its project after the unload
  (`deep_stack.rs:203` against `mcp/runtime.rs:275`).
* `memory_breakdown` measures a context under the questions on its snapshots, and
  cancels them (`semantic/mod.rs:442` against `:440`).
* A panic whose slot has left the registry unloads every project
  (`semantic/mod.rs:1085` against `:1042`).

Daemon

* A move that begins while a repeated handshake is unanswered gives the host two
  answers to it (`HandshakesOverlap = TRUE`, `OneAnswerEach`).
* A client that dies while its daemon starts frees the spawn lock too early, and the
  next one removes the socket file of a daemon that serves (`WaitersDie = TRUE`,
  `ServersAreFound`).
* A retired daemon may outlive its grace: the unload in its accept loop waits for
  `lock_all` (`daemon.rs:465` against `runtime.rs:294`).
* An idle GPU session is kept by a retired daemon between the files of a long run.

Graph

* `clear_cache` takes no build lock, and removes the one there is with the directory
  (`snapshot.rs:138`, `cache.rs:123`), so it can delete a snapshot that a build is
  copying, staging or publishing: CURRENT may be left without its snapshot, and two
  builds may stage one directory (`snapshot.rs:850` ff.: `strayed`, `mixed`). The
  manifest is written in place, not renamed.
* A nested function and one at the top with the same name share an id, and the audits
  attribute findings to the wrong one (`unsafe_audit.rs:40` against
  `audit_util.rs:12`; `EnclosingIsRight` says to which); `fn_body_audit` visits a nested function
  twice, filters crates by name, and `skip_test_fns` reports functions nested under
  `#[cfg(test)]`; methods get the id of a free namesake.
* `match_transmute` and `channel` audits compare the path of the defining module.
* A call tree says "already expanded elsewhere" of a function whose other visit the
  depth had cut (`query/calls.rs:145` against `:109`).
* A chain of re-exports is followed last in, first out, not breadth first
  (`query/surface.rs:207`, `router.rs:556`); public aliases never count in
  `crate_dependency_metric` (`query/model.rs:631`); forbidden rules match the label,
  not the crate name (`query/model.rs:313`);
  `dead_pub_report` merges items of one name; ties between pages have no fixed order
  (`ARCHITECTURE.md:448`).
* `UseCachedOnly` compares the version of the embedder alone (`codemap/build.rs:224` against
  `embedding_cache.rs:146`); `run_semantic_overlaps` writes its vectors into whatever
  snapshot is current by then.
* Two calls for a skeleton write the same files with nothing between them.

Search and embeddings

* A prune by the age of the creation cuts off a reader that opened the version late
  (`unified.rs:68`, `traits.rs:100`): `NoReaderIsCut` is violated; that a reader loses
  only a version which is outdated (`ReadersAreCutLate`) is checked and proved.
* A search cuts to the limit before the chunks are attached, so it may return fewer;
  a resilient search adds both sides and may return twice the limit, and
  `is_fallback_mode` is false when one of the two failed.
* A crash between the creation of the table and its indices leaves it without the
  scalar ones; one before the metadata lets another embedder adopt the empty table.
* A blank primary API key hides the fallback (`config.rs:360` against
  `.docs/logic/embeddings.md:54`).
* `ResilientHybridSearch`, `rrf_tuner`, `EmbeddingPipeline`, `rmc-indexing`'s
  `retry.rs`, `backup.rs` and `consistency.rs` have no caller.

## 13. What is not modelled

Embedding models, LanceDB, tantivy, sled, heed, tokio and rust-analyzer are
external: they appear as what the code relies on (fair locks, atomic commits, a
store that is created when it is opened, versions that do not change). In the
semantic service the fast kind of load, the search for a crate's root and what the
questions themselves compute are left out, and every edit changes a stamp. The time
resolution of the stat, ignored failures of deletions, sled's durability, and the
measurement of prices are listed as hazards without a property. The parser and
chunker, secret and file filters, configuration, the tool router and its latency
log have no state worth a model; `PROJECT.json` lists them with the reason.

## 14. What the plan has left

The graph's extraction, questions, codemaps and readers, and base64, are what has
safety properties and no theorem; every safety property of a module with proofs has
one. `NothingForgotten` of the relay (a pending call is on the connection) is part of
what liveness rests on and can be added to its invariant. The proofs of a component
are in one module, those of related components in one together.
