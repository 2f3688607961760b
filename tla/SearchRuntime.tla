---------------------------- MODULE SearchRuntime ----------------------------
(***************************************************************************)
(* The process-wide state behind the search tools: the index of every      *)
(* workspace on disk, the cache of opened search runtimes, the set of      *)
(* tracked directories, the background sync that works from a copy of it,  *)
(* and the shutdown of all of these.                                       *)
(*                                                                         *)
(* Locks are the rights of WorkspaceAccess, which WorkspaceLocks is shown  *)
(* to implement. What an indexing run writes file by file is IndexSync's   *)
(* subject: here it is told apart what a run writes over what it finds, an *)
(* index, nothing, or a store that was emptied under the memory of earlier *)
(* runs. A vector store's handle opens its table by name for every query,  *)
(* so only a BM25 handle, known by the directory it was opened in, can be  *)
(* out of date. A workspace has a file to index, and one profile.          *)
(***************************************************************************)
EXTENDS Naturals, FiniteSets

CONSTANTS Callers, Dirs, Sync, Nobody,
          Ops,              \* the calls that are made
          MaxCalls,         \* bound: calls
          MaxFaults         \* bound: failed runs, failed deletions, corruptions

Operations == {"search", "similar", "index", "force", "clear_cache", "clear_all", "clear"}

ASSUME RuntimeAssumption ==
    /\ MaxCalls \in Nat /\ MaxFaults \in Nat
    /\ Ops \subseteq Operations
    /\ IsFiniteSet(Callers) /\ Callers \cap Dirs = {}
    /\ Sync \notin Callers \cup Dirs /\ Nobody \notin Dirs

VARIABLES
    store,    \* [Dirs -> {"none", "empty", "part", "full"}]: the vector table
    bm25,     \* [Dirs -> [gen : Nat, torn : BOOLEAN]]: the BM25 directory; 0 is none
    known,    \* [Dirs -> SUBSET {"merkle", "cache"}]: the Merkle snapshot and the
              \* metadata cache, which say what runs have indexed
    profile,  \* [Dirs -> ...]: whose index it is: the automatic profile's, another
              \* one's that may run in the background, or a local model's
    cache,    \* [Dirs -> [held : BOOLEAN, bm25 : Nat, guarded : BOOLEAN]]:
              \* SearchRuntimeCache; "guarded" is history that no step reads: was the
              \* entry put in under the lock of its workspace?
    tracked,  \* SUBSET Dirs: SyncManager::tracked_dirs
    rights,   \* [Actors -> SUBSET Rights]
    caller,   \* [Callers -> ...]
    sync,     \* the background sync's task
    running,  \* background_sync_running
    shutdown, \* the watch channel of ServerRuntime
    exit,     \* how far the process is with its end
    calls, faults

index == <<store, bm25, known, profile>>
life == <<running, shutdown, exit>>
vars == <<store, bm25, known, profile, cache, tracked, rights, caller, sync, running, shutdown, exit, calls, faults>>

\* A maintenance pass that runs on after its writer returned is an actor of its
\* own: the workspace it is for.
Actors == Callers \cup {Sync} \cup Dirs

\* The rights and their conflicts.
Access == INSTANCE WorkspaceAccess
             WITH Workspaces <- Dirs, index <- [d \in Dirs |-> "absent"]

Idle == [pc |-> "idle", op |-> "search", dir |-> Nobody, bm25 |-> 0]

CallerStates ==
    {x \in [pc : {"idle", "lock", "look", "build", "run", "reopen", "open", "opening", "query",
                  "publish", "write", "track", "delete"},
            op : Operations, dir : Dirs \cup {Nobody}, bm25 : Nat] :
        /\ x.pc # "idle" => x.dir \in Dirs
        /\ x.pc = "lock" => x.bm25 = 0
        /\ x.pc \in {"look", "build", "run", "reopen"} => x.op = "search"
        /\ x.pc \in {"open", "opening", "query"} => x.op \in {"search", "similar"}
        /\ x.pc = "publish" => x.op = "index"
        /\ x.pc \in {"write", "track"} => x.op \in {"index", "force"}
        /\ x.pc = "delete" => x.op \in {"clear_cache", "clear_all"}}

SyncStates ==
    {x \in [pc : {"wait", "next", "profiles", "publish", "maintain", "off"},
            todo : SUBSET Dirs, dir : Dirs \cup {Nobody}] :
        x.pc \in {"profiles", "publish", "maintain"} => x.dir \in Dirs}

NoEntry == [held |-> FALSE, bm25 |-> 0, guarded |-> FALSE]

NoBm25 == [gen |-> 0, torn |-> FALSE]

\* What an earlier process may have left of a workspace: nothing, its index, or
\* what clear_cache leaves of an index.
Left ==
    {[store |-> "none", gen |-> 0, known |-> {}],
     [store |-> "full", gen |-> 1, known |-> {"merkle", "cache"}],
     [store |-> "none", gen |-> 0, known |-> {"merkle"}]}

Init ==
    /\ \E disk \in [Dirs -> Left] :
          /\ store = [d \in Dirs |-> disk[d].store]
          /\ bm25 = [d \in Dirs |-> [gen |-> disk[d].gen, torn |-> FALSE]]
          /\ known = [d \in Dirs |-> disk[d].known]
    /\ profile \in [Dirs -> {"automatic", "background", "local"}]
    /\ cache = [d \in Dirs |-> NoEntry]
    /\ tracked = {} /\ rights = [a \in Actors |-> {}]
    /\ caller = [c \in Callers |-> Idle]
    /\ sync = [pc |-> "wait", todo |-> {}, dir |-> Nobody]
    /\ running = TRUE /\ shutdown = FALSE /\ exit = "no"
    /\ calls = 0 /\ faults = 0

Fault == faults < MaxFaults /\ faults' = faults + 1

\* An actor gets rights that nobody else's are in conflict with.
Acquire(a, new) ==
    /\ \A b \in Actors \ {a} : \A p \in new, q \in rights[b] : ~Access!Conflict(p, q)
    /\ rights' = [rights EXCEPT ![a] = @ \cup new]

Release(a) == rights' = [rights EXCEPT ![a] = {}]

\* lock_shared, lock_store_writer, lock_index_writer, lock_all
Read(d) == {<<"read", d>>}
StoreWriter(d) == {<<"store", d>>}
Publish(d) == {<<"write", d>>}
IndexWriter(d) == StoreWriter(d) \cup Publish(d)
All == {<<"all", d>> : d \in Dirs}

\* finish_index_writer: the store stays with the maintenance pass.
HandOver(c, d) == rights' = [rights EXCEPT ![c] = {}, ![d] = StoreWriter(d)]

MaintenanceEnds(d) ==
    /\ rights[d] # {} /\ Release(d)
    /\ UNCHANGED <<index, cache, tracked, caller, sync, life, calls, faults>>

Goto(c, pc) == caller' = [caller EXCEPT ![c].pc = pc]

\* The directory a caller is about, and whether a BM25 index can be opened.
At(c, op, pc) == caller[c].op \in op /\ caller[c].pc = pc
Opens(d) == bm25[d].gen # 0 /\ ~bm25[d].torn

\* A BM25 directory that is created is another one than those that handles
\* are still open on.
Fresh(d) ==
    CHOOSE g \in 1 .. Cardinality(Callers) + 2 :
       g # cache[d].bm25 /\ \A c \in Callers : caller[c].bm25 # g

Created(d) == [gen |-> IF bm25[d].gen = 0 THEN Fresh(d) ELSE bm25[d].gen, torn |-> FALSE]

\* track_directory_for_backend: a local model's directory is not tracked.
Tracking(d) == tracked \cup (IF profile[d] = "local" THEN {} ELSE {d})

\* What a run makes of the table: it passes over the files it takes for
\* indexed, and if there are such files it stores those that changed.
Filled(d, remembered) ==
    IF store[d] = "full" \/ remembered = {} THEN {"full"}
    ELSE {"part", IF store[d] = "none" THEN "empty" ELSE store[d]}

\* A run that writes and saves what it has indexed.
Writes(d, remembered, learned) ==
    /\ ~bm25[d].torn
    /\ \E s \in Filled(d, remembered) : store' = [store EXCEPT ![d] = s]
    /\ bm25' = [bm25 EXCEPT ![d] = Created(d)]
    /\ known' = [known EXCEPT ![d] = @ \cup learned]

\* A run that fails leaves what it had opened. A directory that cannot be opened
\* makes it fail.
Fails(d) ==
    /\ IF bm25[d].torn THEN UNCHANGED faults ELSE Fault
    /\ \/ UNCHANGED <<store, bm25>>
       \/ /\ ~bm25[d].torn /\ bm25' = [bm25 EXCEPT ![d] = Created(d)]
          /\ store' = [store EXCEPT ![d] = IF @ = "none" THEN "empty" ELSE @]
    /\ UNCHANGED known

\* A run that finds the tree as the Merkle snapshot has it writes nothing; a BM25
\* directory that is not there is refilled first, from a table that is.
FindsNoChange(d) ==
    /\ "merkle" \in known[d] /\ ~bm25[d].torn
    /\ bm25' = [bm25 EXCEPT ![d] = IF store[d] = "none" THEN @ ELSE Created(d)]

Call(c, op, d) ==
    /\ caller[c].pc = "idle" /\ exit = "no" /\ calls < MaxCalls
    /\ calls' = calls + 1
    /\ caller' = [caller EXCEPT ![c] = [pc |-> "lock", op |-> op, dir |-> d, bm25 |-> 0]]
    /\ UNCHANGED <<index, cache, tracked, rights, sync, life, faults>>

Return(c) == caller' = [caller EXCEPT ![c] = Idle]

(***************************************************************************)
(* search and get_similar_code                                             *)
(***************************************************************************)

LockShared(c) ==
    /\ At(c, {"search", "similar"}, "lock")
    /\ Acquire(c, Read(caller[c].dir))
    /\ Goto(c, IF caller[c].op = "search" THEN "look" ELSE "open")
    /\ UNCHANGED <<index, cache, tracked, sync, life, calls, faults>>

\* rebuild_bm25_from_existing_store creates the directory and fills it from
\* the table; another writer of the index makes it fail.
Refill(d) ==
    \/ /\ \A a \in Actors : <<"store", d>> \notin rights[a]
       /\ bm25' = [bm25 EXCEPT ![d] = Created(d)] /\ UNCHANGED faults
    \/ /\ \E a \in Actors : <<"store", d>> \in rights[a]
       /\ UNCHANGED <<bm25, faults>>
    \/ Fault /\ UNCHANGED bm25

\* The read side of search: an index that is there, or whose BM25 half is
\* merely missing, is searched under the shared lock.
Look(c) ==
    /\ At(c, {"search"}, "look")
    /\ LET d == caller[c].dir
           missing == bm25[d].gen = 0
           exists == store[d] # "none" IN
       /\ IF exists /\ missing THEN Refill(d) ELSE UNCHANGED <<bm25, faults>>
       /\ IF exists /\ (Opens(d) \/ missing)
          THEN /\ tracked' = Tracking(d)
               /\ caller' = [caller EXCEPT ![c].pc = "open", ![c].bm25 = bm25'[d].gen]
               /\ UNCHANGED rights
          ELSE /\ Goto(c, "build") /\ Release(c) /\ UNCHANGED tracked
    /\ UNCHANGED <<store, known, profile, cache, sync, life, calls>>

\* Mutant: what the search saw before it waited for the lock is not looked at
\* again, and the cached runtime stays.
Rebuild_Trusting(c) ==
    /\ At(c, {"search"}, "build")
    /\ Acquire(c, IndexWriter(caller[c].dir))
    /\ bm25' = [bm25 EXCEPT ![caller[c].dir] = NoBm25] /\ Goto(c, "run")
    /\ UNCHANGED <<store, known, profile, cache, tracked, sync, life, calls, faults>>

\* The write side: look again under the writer's lock, and clear what is there
\* and what is known of it. clean_stale_index ignores a deletion that fails.
Rebuild(c) ==
    /\ At(c, {"search"}, "build")
    /\ LET d == caller[c].dir IN
       \/ /\ store[d] # "none" /\ Opens(d)
          /\ \A b \in Actors \ {c} : \A p \in IndexWriter(d), q \in rights[b] : ~Access!Conflict(p, q)
          /\ caller' = [caller EXCEPT ![c].pc = "open", ![c].bm25 = bm25[d].gen]
          /\ UNCHANGED <<bm25, known, cache, rights, faults>>
       \/ /\ ~(store[d] # "none" /\ Opens(d))
          /\ Acquire(c, IndexWriter(d))
          /\ cache' = [cache EXCEPT ![d] = NoEntry]
          /\ \E left \in SUBSET {"bm25", "merkle", "cache"} :
                /\ IF left = {} THEN UNCHANGED faults ELSE Fault
                /\ bm25' = [bm25 EXCEPT ![d] = IF "bm25" \in left THEN @ ELSE NoBm25]
                /\ known' = [known EXCEPT ![d] = @ \cap left]
          /\ Goto(c, "run")
    /\ UNCHANGED <<store, profile, tracked, sync, life, calls>>

\* ensure_indexed: a pass over all files that asks the metadata cache, not the
\* Merkle snapshot, and saves none.
Run(c) ==
    /\ At(c, {"search"}, "run")
    /\ LET d == caller[c].dir IN
       \/ /\ Writes(d, known[d] \ {"merkle"}, {"cache"})
          /\ tracked' = Tracking(d)
          /\ HandOver(c, d) /\ Goto(c, "reopen") /\ UNCHANGED faults
       \/ Fails(d) /\ Return(c) /\ Release(c) /\ UNCHANGED tracked
    /\ UNCHANGED <<profile, cache, sync, life, calls>>

\* What was built is opened when the lock is given up.
Reopen(c) ==
    /\ At(c, {"search"}, "reopen")
    /\ LET d == caller[c].dir IN
       caller' = [caller EXCEPT ![c].pc = "open", ![c].bm25 = IF Opens(d) THEN bm25[d].gen ELSE 0]
    /\ UNCHANGED <<index, cache, tracked, rights, sync, life, calls, faults>>

\* create_hybrid_search: a cached runtime lends its BM25 handle to a search
\* that has none.
Open(c) ==
    /\ At(c, {"search", "similar"}, "open")
    /\ LET e == cache[caller[c].dir] IN
       IF e.held
       THEN caller' = [caller EXCEPT ![c].pc = "query", ![c].bm25 = IF @ = 0 THEN e.bm25 ELSE @]
       ELSE Goto(c, "opening")
    /\ UNCHANGED <<index, cache, tracked, rights, sync, life, calls, faults>>

\* The embedder and the store are opened, which creates a store that is not
\* there, and the runtime is put into the cache.
Opened(c) ==
    /\ At(c, {"search", "similar"}, "opening")
    /\ LET d == caller[c].dir IN
       /\ store' = [store EXCEPT ![d] = IF @ = "none" THEN "empty" ELSE @]
       /\ cache' = [cache EXCEPT ![d] = [held |-> TRUE, bm25 |-> caller[c].bm25,
                                         guarded |-> rights[c] # {}]]
    /\ Goto(c, "query")
    /\ UNCHANGED <<bm25, known, profile, tracked, rights, sync, life, calls, faults>>

\* The results, or the error of a table that is gone.
Query(c) ==
    /\ At(c, {"search", "similar"}, "query")
    /\ Return(c) /\ Release(c)
    /\ UNCHANGED <<index, cache, tracked, sync, life, calls, faults>>

(***************************************************************************)
(* index_codebase                                                          *)
(***************************************************************************)

\* A forced run keeps the readers out, forgets the opened runtime, removes the
\* Merkle snapshot and clears the stores before it writes; a BM25 directory that
\* cannot be opened keeps it from clearing.
ForceRun(c) ==
    /\ At(c, {"force"}, "lock")
    /\ LET d == caller[c].dir IN
       /\ Acquire(c, IndexWriter(d))
       /\ cache' = [cache EXCEPT ![d] = NoEntry]
       /\ IF bm25[d].torn
          THEN known' = [known EXCEPT ![d] = @ \ {"merkle"}] /\ UNCHANGED <<store, bm25>>
          ELSE /\ known' = [known EXCEPT ![d] = {}]
               /\ store' = [store EXCEPT ![d] = "empty"]
               /\ bm25' = [bm25 EXCEPT ![d] = Created(d)]
    /\ Goto(c, "write")
    /\ UNCHANGED <<profile, tracked, sync, life, calls, faults>>

\* An ordinary run is a store writer that keeps readers out while it writes.
IndexStart(c) ==
    /\ At(c, {"index"}, "lock")
    /\ Acquire(c, StoreWriter(caller[c].dir))
    /\ Goto(c, "publish")
    /\ UNCHANGED <<index, cache, tracked, sync, life, calls, faults>>

\* The fast path: no write, and no maintenance pass to hand the lock to.
IndexUnchanged(c) ==
    /\ At(c, {"index"}, "publish")
    /\ FindsNoChange(caller[c].dir)
    /\ Release(c) /\ Goto(c, "track")
    /\ UNCHANGED <<store, known, profile, cache, tracked, sync, life, calls, faults>>

IndexPublish(c) ==
    /\ At(c, {"index"}, "publish")
    /\ Acquire(c, Publish(caller[c].dir))
    /\ Goto(c, "write")
    /\ UNCHANGED <<index, cache, tracked, sync, life, calls, faults>>

\* A run that only removed files indexed none, and its directory is not tracked.
IndexWrite(c) ==
    /\ At(c, {"index", "force"}, "write")
    /\ LET d == caller[c].dir IN
       \/ /\ Writes(d, known[d], {"merkle", "cache"}) /\ HandOver(c, d)
          /\ \/ Goto(c, "track")
             \/ "merkle" \in known[d] /\ Return(c)
          /\ UNCHANGED faults
       \/ Fails(d) /\ Release(c) /\ Return(c)
    /\ UNCHANGED <<profile, cache, tracked, sync, life, calls>>

\* The lock is with the maintenance pass by then, or nobody's.
Track(c) ==
    /\ At(c, {"index", "force"}, "track")
    /\ tracked' = Tracking(caller[c].dir)
    /\ Return(c)
    /\ UNCHANGED <<index, cache, rights, sync, life, calls, faults>>

(***************************************************************************)
(* clear_cache and clear                                                   *)
(***************************************************************************)

\* The directories a call clears.
Scope(c) == IF caller[c].op = "clear_all" THEN Dirs ELSE {caller[c].dir}

\* Untrack and invalidate come first, then the files.
ClearCache(c) ==
    /\ At(c, {"clear_cache", "clear_all"}, "lock")
    /\ Acquire(c, IF caller[c].op = "clear_all" THEN All ELSE IndexWriter(caller[c].dir))
    /\ tracked' = tracked \ Scope(c)
    /\ cache' = [d \in Dirs |-> IF d \in Scope(c) THEN NoEntry ELSE cache[d]]
    /\ Goto(c, "delete")
    /\ UNCHANGED <<index, sync, life, calls, faults>>

\* Each directory is removed or, with an error in the report, stays. The Merkle
\* snapshots are in none of them.
DeleteFiles(c) ==
    /\ At(c, {"clear_cache", "clear_all"}, "delete")
    /\ \E left \in SUBSET {"bm25", "vectors", "cache"} :
          /\ IF left = {} THEN UNCHANGED faults ELSE Fault
          /\ bm25' = [d \in Dirs |-> IF d \in Scope(c) /\ "bm25" \notin left THEN NoBm25 ELSE bm25[d]]
          /\ store' = [d \in Dirs |-> IF d \in Scope(c) /\ "vectors" \notin left
                                      THEN "none" ELSE store[d]]
          /\ known' = [d \in Dirs |-> IF d \in Scope(c) /\ "cache" \notin left
                                      THEN known[d] \ {"cache"} ELSE known[d]]
    /\ Return(c) /\ Release(c)
    /\ UNCHANGED <<profile, cache, tracked, sync, life, calls>>

\* RuntimeState::clear of a workspace takes no lock: a reader keeps what it has.
Clear(c) ==
    /\ At(c, {"clear"}, "lock")
    /\ cache' = [cache EXCEPT ![caller[c].dir] = NoEntry]
    /\ tracked' = tracked \ {caller[c].dir}
    /\ Return(c)
    /\ UNCHANGED <<index, rights, sync, life, calls, faults>>

(***************************************************************************)
(* run_until_shutdown                                                      *)
(***************************************************************************)

\* handle_sync_all works from a copy of the tracked directories.
Cycle ==
    /\ sync.pc = "wait" /\ exit # "exited" /\ tracked # {}
    /\ sync' = [sync EXCEPT !.pc = "next", !.todo = tracked]
    /\ UNCHANGED <<index, cache, tracked, rights, caller, life, calls, faults>>

SyncDirectory(d) ==
    /\ sync.pc = "next" /\ d \in sync.todo
    /\ Acquire(Sync, StoreWriter(d))
    /\ sync' = [sync EXCEPT !.pc = "profiles", !.dir = d, !.todo = @ \ {d}]
    /\ UNCHANGED <<index, cache, tracked, caller, life, calls, faults>>

\* Mutant: a tracked directory is taken to have an index.
Profiles_AsTracked ==
    /\ sync.pc = "profiles"
    /\ sync' = [sync EXCEPT !.pc = "publish"] /\ UNCHANGED rights
    /\ UNCHANGED <<index, cache, tracked, caller, life, calls, faults>>

\* Mutant: an index without a row is taken for none.
Profiles_FullOnly ==
    /\ sync.pc = "profiles"
    /\ IF store[sync.dir] # "full" \/ profile[sync.dir] # "automatic"
       THEN sync' = [sync EXCEPT !.pc = "next", !.dir = Nobody] /\ Release(Sync)
       ELSE sync' = [sync EXCEPT !.pc = "publish"] /\ UNCHANGED rights
    /\ UNCHANGED <<index, cache, tracked, caller, life, calls, faults>>

\* indexed_profiles: a directory without an index is passed over, and so is an
\* index that is not the automatic profile's or needs a local model.
Profiles ==
    /\ sync.pc = "profiles"
    /\ IF store[sync.dir] = "none" \/ profile[sync.dir] # "automatic"
       THEN sync' = [sync EXCEPT !.pc = "next", !.dir = Nobody] /\ Release(Sync)
       ELSE sync' = [sync EXCEPT !.pc = "publish"] /\ UNCHANGED rights
    /\ UNCHANGED <<index, cache, tracked, caller, life, calls, faults>>

\* A run that finds no change is over.
SyncUnchanged ==
    /\ sync.pc = "publish"
    /\ FindsNoChange(sync.dir)
    /\ sync' = [sync EXCEPT !.pc = "next", !.dir = Nobody] /\ Release(Sync)
    /\ UNCHANGED <<store, known, profile, cache, tracked, caller, life, calls, faults>>

\* The run writes, or fails or panics and is left to the next cycle.
SyncPublish ==
    /\ sync.pc = "publish"
    /\ LET d == sync.dir IN
       \/ /\ Writes(d, known[d], {"merkle", "cache"}) /\ Acquire(Sync, Publish(d))
          /\ sync' = [sync EXCEPT !.pc = "maintain"] /\ UNCHANGED faults
       \/ /\ Fails(d)
          /\ sync' = [sync EXCEPT !.pc = "next", !.dir = Nobody] /\ Release(Sync)
    /\ UNCHANGED <<profile, cache, tracked, caller, life, calls>>

\* The maintenance runs inline, outside the operation lock.
SyncMaintain ==
    /\ sync.pc = "maintain"
    /\ \/ /\ rights[Sync] \cap Publish(sync.dir) # {}
          /\ rights' = [rights EXCEPT ![Sync] = StoreWriter(sync.dir)] /\ UNCHANGED sync
       \/ /\ rights[Sync] \cap Publish(sync.dir) = {}
          /\ Release(Sync) /\ sync' = [sync EXCEPT !.pc = "next", !.dir = Nobody]
    /\ UNCHANGED <<index, cache, tracked, caller, life, calls, faults>>

CycleEnds ==
    /\ sync.pc = "next" /\ sync.todo = {}
    /\ sync' = [sync EXCEPT !.pc = "wait"]
    /\ UNCHANGED <<index, cache, tracked, rights, caller, life, calls, faults>>

\* The channel is looked at between cycles only; the flag falls last.
SyncStops ==
    /\ sync.pc = "wait" /\ shutdown
    /\ sync' = [sync EXCEPT !.pc = "off"]
    /\ running' = FALSE
    /\ UNCHANGED <<index, cache, tracked, rights, caller, shutdown, exit, calls, faults>>

(***************************************************************************)
(* The end of the process                                                  *)
(***************************************************************************)

\* A daemon that retires stops its sync and goes on serving.
RequestShutdown ==
    /\ exit = "no" /\ ~shutdown
    /\ shutdown' = TRUE
    /\ UNCHANGED <<index, cache, tracked, rights, caller, sync, running, exit, calls, faults>>

\* shutdown_gracefully
ShutDown ==
    /\ exit = "no"
    /\ exit' = "tasks" /\ shutdown' = TRUE
    /\ UNCHANGED <<index, cache, tracked, rights, caller, sync, running, calls, faults>>

\* Mutant: the task is waited for without a limit.
WaitForTasks_Forever ==
    /\ exit = "tasks" /\ sync.pc = "off"
    /\ exit' = "clear"
    /\ UNCHANGED <<index, cache, tracked, rights, caller, sync, running, shutdown, calls, faults>>

\* The task ends, or time is up and it is aborted where it waits.
WaitForTasks ==
    /\ exit = "tasks"
    /\ exit' = "clear"
    /\ \/ sync.pc = "off" /\ UNCHANGED <<sync, rights, running>>
       \/ /\ sync.pc # "off"
          /\ sync' = [pc |-> "off", todo |-> {}, dir |-> Nobody]
          /\ Release(Sync) /\ running' = FALSE
    /\ UNCHANGED <<index, cache, tracked, caller, shutdown, calls, faults>>

\* Everything is cleared under every lock, or the budget of the exit is spent
\* waiting for one.
ClearAndExit ==
    /\ exit = "clear"
    /\ exit' = "exited"
    /\ \/ /\ \A a \in Actors : rights[a] = {}
          /\ cache' = [d \in Dirs |-> NoEntry] /\ tracked' = {}
       \/ /\ \E a \in Actors : rights[a] # {}
          /\ UNCHANGED <<cache, tracked>>
    /\ UNCHANGED <<index, rights, caller, sync, running, shutdown, calls, faults>>

\* A crash of some process, or a disk, leaves a BM25 index nobody can open.
Corrupt(d) ==
    /\ Opens(d) /\ Fault
    /\ bm25' = [bm25 EXCEPT ![d].torn = TRUE]
    /\ UNCHANGED <<store, known, profile, cache, tracked, rights, caller, sync, life, calls>>

CallerStep(c) ==
    \/ LockShared(c) \/ Look(c) \/ Rebuild(c) \/ Run(c) \/ Reopen(c) \/ Open(c) \/ Opened(c)
    \/ Query(c) \/ ForceRun(c) \/ IndexStart(c) \/ IndexUnchanged(c) \/ IndexPublish(c) \/ IndexWrite(c) \/ Track(c)
    \/ ClearCache(c) \/ DeleteFiles(c) \/ Clear(c)

SyncStep ==
    \/ Cycle \/ Profiles \/ SyncUnchanged \/ SyncPublish \/ SyncMaintain \/ CycleEnds \/ SyncStops
    \/ \E d \in Dirs : SyncDirectory(d)

ExitStep == WaitForTasks \/ ClearAndExit

Finished == exit = "exited" /\ UNCHANGED vars

Next ==
    \/ /\ exit # "exited"
       /\ \/ \E c \in Callers : CallerStep(c) \/ \E op \in Ops, d \in Dirs : Call(c, op, d)
          \/ \E d \in Dirs : MaintenanceEnds(d) \/ Corrupt(d)
          \/ SyncStep \/ RequestShutdown \/ ShutDown \/ ExitStep
    \/ Finished

\* Calls run while the process serves: once it is ending, a call may hold its
\* locks for as long as it likes.
Fairness ==
    /\ \A c \in Callers : WF_vars(CallerStep(c) /\ exit = "no")
    /\ \A d \in Dirs : WF_vars(MaintenanceEnds(d) /\ exit # "exited")
    /\ WF_vars(SyncStep /\ exit # "exited") /\ WF_vars(ExitStep)

Spec == Init /\ [][Next]_vars /\ Fairness

-----------------------------------------------------------------------------

\* The types of the process-wide state, of the calls and of the background sync.
RuntimeTypeOK ==
    /\ store \in [Dirs -> {"none", "empty", "part", "full"}]
    /\ bm25 \in [Dirs -> [gen : Nat, torn : BOOLEAN]]
    /\ known \in [Dirs -> SUBSET {"merkle", "cache"}]
    /\ profile \in [Dirs -> {"automatic", "background", "local"}]
    /\ cache \in [Dirs -> [held : BOOLEAN, bm25 : Nat, guarded : BOOLEAN]]
    /\ tracked \subseteq Dirs
    /\ rights \in [Actors -> SUBSET Access!Rights]
    /\ caller \in [Callers -> CallerStates] /\ sync \in SyncStates
    /\ running \in BOOLEAN /\ shutdown \in BOOLEAN
    /\ exit \in {"no", "tasks", "clear", "exited"}
    /\ calls \in 0 .. MaxCalls /\ faults \in 0 .. MaxFaults

\* The rights a caller may have where it is: a search that built the index, or
\* found it built, goes on without any.
CallerMayHold(c) ==
    LET d == caller[c].dir IN
    CASE caller[c].pc = "look" -> {Read(d)}
      [] caller[c].pc \in {"open", "opening", "query"} -> {Read(d), {}}
      [] caller[c].pc = "publish" -> {StoreWriter(d)}
      [] caller[c].pc \in {"run", "write"} -> {IndexWriter(d)}
      [] caller[c].pc = "delete" -> {IF caller[c].op = "clear_all" THEN All ELSE IndexWriter(d)}
      [] OTHER -> {{}}

SyncMayHold ==
    CASE sync.pc \in {"profiles", "publish"} -> {StoreWriter(sync.dir)}
      [] sync.pc = "maintain" -> {StoreWriter(sync.dir), IndexWriter(sync.dir)}
      [] OTHER -> {{}}

\* Everybody has the rights of the step it is at.
RightsMatchSteps ==
    /\ \A c \in Callers : rights[c] \in CallerMayHold(c)
    /\ rights[Sync] \in SyncMayHold
    /\ \A d \in Dirs : rights[d] \in {{}, StoreWriter(d)}

\* While the files of a workspace are deleted, no entry of it is cached but one
\* that a search without the lock has put in meanwhile.
DeletesAreAlone ==
    \A c \in Callers : caller[c].pc = "delete" =>
        \A d \in Scope(c) : cache[d].held => ~cache[d].guarded

\* What a search with the lock is about to put into the cache is of the
\* directory that is there.
HandlesAreFresh ==
    \A c \in Callers : caller[c].pc \in {"open", "opening"} /\ rights[c] # {} =>
        caller[c].bm25 \in {0, bm25[caller[c].dir].gen}

\* The sync writes only where it saw an index under its lock.
SyncSawIndex == sync.pc = "publish" => store[sync.dir] # "none"

FlagFallsLast == ~running => sync.pc = "off"

\* What clear_cache deleted comes back through a call of a client only: the
\* background sync, which works from an older copy of the tracked directories,
\* looks for the index under the lock that a clear needs (indexed_profiles).
BackByACall == \A d \in Dirs : store[d] = "none" /\ store'[d] # "none" => UNCHANGED sync

NoResurrection == [][BackByACall]_vars

\* "A cached search runtime opened before the clear must not outlive it"
\* (index_codebase): the BM25 handle of a cached runtime is one of the directory
\* that is there, if the runtime was put in under the workspace's lock. A search
\* that built the index itself has given its lock up by then
\* (create_hybrid_search), and the runtime it puts in is the one exception.
CachedRuntimeFresh ==
    \A d \in Dirs : cache[d].held /\ cache[d].guarded => cache[d].bm25 \in {0, bm25[d].gen}

\* The inductive invariant.
IInv ==
    /\ RuntimeTypeOK /\ RightsMatchSteps /\ Access!Compatible(rights)
    /\ DeletesAreAlone /\ HandlesAreFresh /\ CachedRuntimeFresh
    /\ SyncSawIndex /\ FlagFallsLast

\* The comment of index_codebase without the exception: no cached runtime is of
\* a BM25 directory that is gone.
NoRuntimeOutlivesAClear ==
    \A d \in Dirs : cache[d].held => cache[d].bm25 \in {0, bm25[d].gen}

\* While the daemon serves, a flag that says the sync is over can be believed:
\* no lock is the sync's any more, and a retired daemon may release its GPU
\* sessions (gpu_session_max_idle).
FlagIsHonest == exit = "no" /\ ~running => sync.pc = "off" /\ rights[Sync] = {}

\* What a search takes from the cache, and what a retiring daemon reads, can be
\* believed: the cached runtimes and the flag of the sync.
RuntimesAreFresh == CachedRuntimeFresh /\ FlagIsHonest

\* A tracked index of the automatic profile that nothing keeps the sync from.
Synced(d) == d \in tracked /\ profile[d] = "automatic" /\ ~shutdown /\ ~bm25[d].torn

\* A store without all rows of which no snapshot and no metadata cache says
\* that they were written, and a table without a BM25 index.
Unfilled(d) == store[d] \in {"empty", "part"} /\ known[d] = {}
Unindexed(d) == store[d] # "none" /\ bm25[d].gen = 0

\* What a reader, a failed or a half-deleted run left behind does not hide a
\* project for good: a search tracks it, and the sync fills the table, unless a
\* Merkle snapshot or a metadata cache that survived the rows says there is
\* nothing to do, and gives it its BM25 index, whether or not a file changed.
EmptyIndexesFill ==
    \A d \in Dirs :
        /\ (Synced(d) /\ Unfilled(d)) ~> (store[d] \in {"none", "full"} \/ ~Synced(d))
        /\ (Synced(d) /\ Unindexed(d)) ~> (~Unindexed(d) \/ ~Synced(d))

\* The process ends in bounded time, whoever holds a workspace.
ExitIsBounded == exit = "tasks" ~> exit = "exited"
=============================================================================
