--------------------------- MODULE WorkspaceLocks ---------------------------
(***************************************************************************)
(* The workspace locks of the daemon (mcp/workspace_locks.rs) and the tool *)
(* calls, background syncs and maintenance passes that take them.          *)
(*                                                                         *)
(* Four levels, taken in this order: one global read/write lock, and per   *)
(* workspace a graph cache mutex, a maintenance mutex and an operation     *)
(* read/write lock. All are tokio locks: one FIFO queue each, so a queued  *)
(* writer holds up the readers that arrive after it. A task's program      *)
(* counter names what it waits for or what it is doing; dropping a guard   *)
(* is the release of its locks in one step.                                *)
(***************************************************************************)
EXTENDS Integers, Sequences, FiniteSets

CONSTANTS Tasks,        \* tool calls and the background sync
          Workspaces,   \* canonical workspace directories
          Calls,        \* the operations that are asked for
          MaxRuns       \* indexes of a directory that one sync writes, at most

\* The background maintenance pass of a workspace: at most one, because it
\* owns the workspace's maintenance guard.
Pass(w) == [pass |-> w]

Passes == {Pass(w) : w \in Workspaces}

Actors == Tasks \cup Passes

ASSUME TasksAssumption == Tasks \cap Passes = {}

ASSUME RunsAssumption == MaxRuns \in Nat

\* What a task was called for. "build" is a `search` that found no index, "none"
\* a task between two calls.
Ops == {"search", "similar", "overlaps", "codemap", "index", "reindex",
        "sync", "clear", "clearAll", "build", "none"}

ASSUME CallsAssumption == Calls \subseteq Ops \ {"build", "none"}

IndexWriterOps == {"reindex", "clear", "build"}   \* lock_index_writer

StoreWriterOps == {"index", "sync"}               \* lock_store_writer

GraphCacheOps == {"overlaps", "codemap"}          \* lock_graph_cache_writer

Global == <<"global", "all">>

GraphCache(w) == <<"graph_cache", w>>

Maintenance(w) == <<"maintenance", w>>

Operation(w) == <<"operation", w>>

WorkspaceSlot(w) == {GraphCache(w), Maintenance(w), Operation(w)}

Locks == {Global} \cup UNION {WorkspaceSlot(w) : w \in Workspaces}

Modes == {"r", "w"}

WaitPCs == {"wantGlobal", "wantGraphCache", "wantMaintenance", "wantRead",
            "wantWrite", "wantPublish"}

PCs == WaitPCs \cup
       {"idle", "reading", "embedding", "preparing", "publishing", "writing",
        "refilling", "maintaining", "clearingAll", "unlockedRead"}

\* No vector store on disk; stores on disk that hold nothing, or only part of
\* the tree; an index a run completed.
IndexStates == {"absent", "partial", "ready"}

VARIABLES queue,     \* [Locks -> Seq(Tasks \X Modes)]: the waiters, in order
          held,      \* [Locks -> SUBSET (Actors \X Modes)]: the guards
          pc,        \* [Tasks -> PCs]
          op,        \* [Tasks -> Ops]
          ws,        \* [Tasks -> Workspaces]
          runs,      \* [Tasks -> 0..MaxRuns]: indexing runs with changes to
                     \*   publish that a store writer has left
          passes,    \* workspaces with a background maintenance pass
          index      \* [Workspaces -> IndexStates]

vars == <<queue, held, pc, op, ws, runs, passes, index>>

Init ==
    /\ queue = [l \in Locks |-> <<>>]
    /\ held = [l \in Locks |-> {}]
    /\ pc = [t \in Tasks |-> "idle"]
    /\ op = [t \in Tasks |-> "none"]
    /\ ws \in [Tasks -> Workspaces]
    /\ runs = [t \in Tasks |-> 0]
    /\ passes = {}
    /\ index \in [Workspaces -> IndexStates]

-----------------------------------------------------------------------------
(* The locks *)

\* The lock a waiting task waits for, and how it wants it.
WantedLock(t) ==
    CASE pc[t] = "wantGlobal"      -> Global
      [] pc[t] = "wantGraphCache"  -> GraphCache(ws[t])
      [] pc[t] = "wantMaintenance" -> Maintenance(ws[t])
      [] OTHER                     -> Operation(ws[t])

WantedMode(t) ==
    IF \/ pc[t] = "wantRead"
       \/ pc[t] = "wantGlobal" /\ op[t] # "clearAll"
    THEN "r" ELSE "w"

Queued(t, l) == \E i \in DOMAIN queue[l] : queue[l][i][1] = t

\* Mutant: a dropped request stays in the queue.
StayQueued(q, t) == q

\* A dropped request leaves the queue; a task has one request in it at most.
Leave(q, t) ==
    IF \E i \in DOMAIN q : q[i][1] = t
    THEN LET i == CHOOSE i \in DOMAIN q : q[i][1] = t
         IN  SubSeq(q, 1, i - 1) \o SubSeq(q, i + 1, Len(q))
    ELSE q

\* tokio grants a request when it is compatible with the guards that are out.
Grantable(l, mode) ==
    IF mode = "w" THEN held[l] = {} ELSE \A h \in held[l] : h[2] = "r"

Release(a, S) ==
    held' = [l \in Locks |-> IF l \in S THEN {h \in held[l] : h[1] # a}
                                        ELSE held[l]]

ReleaseAll(a) == Release(a, Locks)

\* Mutant: the pass gets the global guard only.
HandOverGlobalOnly(t) ==
    /\ held' = [l \in Locks |->
                   {h \in held[l] : h[1] # t} \cup
                   (IF l = Global THEN {<<Pass(ws[t]), "r">>} ELSE {})]
    /\ passes' = passes \cup {ws[t]}

\* Mutant: the pass keeps the operation lock too.
HandOverAll(t) ==
    /\ held' = [l \in Locks |->
                   {h \in held[l] : h[1] # t} \cup
                   {<<Pass(ws[t]), h[2]>> : h \in {g \in held[l] : g[1] = t}}]
    /\ passes' = passes \cup {ws[t]}

\* `into_maintenance` and the spawn of `finish_index_writer`: the guards of the
\* global and the maintenance lock move to the workspace's pass, the operation
\* lock is let go.
HandToPass(t) ==
    LET kept == {Global, Maintenance(ws[t])}
        others(l) == {h \in held[l] : h[1] # t}
    IN  /\ held' = [l \in Locks |->
                       IF l \in kept
                       THEN others(l) \cup
                            {<<Pass(ws[t]), h[2]>> : h \in held[l] \ others(l)}
                       ELSE others(l)]
        /\ passes' = passes \cup {ws[t]}

\* Where a task goes with the lock it waited for.
AfterGlobal(t) ==
    CASE op[t] = "clearAll"                           -> "clearingAll"
      [] op[t] \in GraphCacheOps                      -> "wantGraphCache"
      [] op[t] \in IndexWriterOps \cup StoreWriterOps -> "wantMaintenance"
      [] OTHER                                        -> "wantRead"

AfterAcquire(t) ==
    CASE pc[t] = "wantGlobal"      -> AfterGlobal(t)
      [] pc[t] = "wantGraphCache"  ->
            (IF op[t] = "codemap" THEN "wantRead" ELSE "embedding")
      [] pc[t] = "wantMaintenance" ->
            (IF op[t] \in IndexWriterOps THEN "wantWrite" ELSE "preparing")
      [] pc[t] = "wantRead"        -> "reading"
      [] pc[t] = "wantWrite"       -> "writing"
      [] OTHER                     -> "publishing"

\* The task asks for its next lock: it joins the lock's queue.
Request(t) ==
    /\ pc[t] \in WaitPCs
    /\ ~Queued(t, WantedLock(t))
    /\ queue' = [queue EXCEPT ![WantedLock(t)] = Append(@, <<t, WantedMode(t)>>)]
    /\ UNCHANGED <<held, pc, op, ws, runs, passes, index>>

\* The first waiter of a lock gets it when the guards that are out allow.
Acquire(t) ==
    LET l == WantedLock(t)
        m == WantedMode(t)
    IN  /\ pc[t] \in WaitPCs
        /\ queue[l] # <<>>
        /\ Head(queue[l]) = <<t, m>>
        /\ Grantable(l, m)
        /\ queue' = [queue EXCEPT ![l] = Tail(@)]
        /\ held' = [held EXCEPT ![l] = @ \cup {<<t, m>>}]
        /\ pc' = [pc EXCEPT ![t] = AfterAcquire(t)]
        /\ UNCHANGED <<op, ws, runs, passes, index>>

-----------------------------------------------------------------------------
(* The operations *)

\* A tool call arrives, or the background sync turns to a directory.
Begin(t) ==
    /\ pc[t] = "idle"
    /\ \E o \in Calls, w \in Workspaces, n \in 0..MaxRuns :
          /\ o \notin StoreWriterOps => n = 0
          /\ o = "index" => n <= 1
          /\ op' = [op EXCEPT ![t] = o]
          /\ ws' = [ws EXCEPT ![t] = w]
          /\ runs' = [runs EXCEPT ![t] = n]
    /\ pc' = [pc EXCEPT ![t] = "wantGlobal"]
    /\ UNCHANGED <<queue, held, passes, index>>

\* The task is free for another call.
Idle(t) ==
    /\ pc' = [pc EXCEPT ![t] = "idle"]
    /\ op' = [op EXCEPT ![t] = "none"]
    /\ runs' = [runs EXCEPT ![t] = 0]

\* The task answers: every guard it has is dropped.
Done(t) ==
    /\ ReleaseAll(t)
    /\ Idle(t)
    /\ UNCHANGED <<queue, ws, passes>>

\* Opening the vector store of a workspace creates it when it is not there.
OpenStores(w) ==
    index' = IF index[w] = "absent" THEN [index EXCEPT ![w] = "partial"] ELSE index

\* `search` with an index, and the readers that do not build one: the latter
\* open the vector store as it is. A search that finds a BM25 index missing beside the
\* vector store refills it with its read guard in hand (query.rs:412-432): this writes
\* the BM25 directory only, under tantivy's own writer lock, and takes no lock of the
\* workspace. SearchRuntime has that step (Refill); `index` here is the vector store.
AnswerRead(t) ==
    /\ pc[t] = "reading"
    /\ op[t] = "search" => index[ws[t]] # "absent"
    /\ Done(t)
    /\ IF op[t] = "similar" THEN OpenStores(ws[t]) ELSE UNCHANGED index

\* Mutant: the search asks for the writer's locks with its read guard in hand.
UpgradeRead(t) ==
    /\ pc[t] = "reading" /\ op[t] = "search" /\ index[ws[t]] # "ready"
    /\ op' = [op EXCEPT ![t] = "build"]
    /\ pc' = [pc EXCEPT ![t] = "wantGlobal"]
    /\ UNCHANGED <<queue, held, ws, runs, passes, index>>

\* `search` without an index, or with one whose BM25 side does not open: a read
\* lock does not upgrade, so it is let go and
\* the writer's lock is asked for.
TurnWriter(t) ==
    /\ pc[t] = "reading" /\ op[t] = "search" /\ index[ws[t]] # "ready"
    /\ ReleaseAll(t)
    /\ op' = [op EXCEPT ![t] = "build"]
    /\ pc' = [pc EXCEPT ![t] = "wantGlobal"]
    /\ UNCHANGED <<queue, ws, runs, passes, index>>

AnswerOverlaps(t) == pc[t] = "embedding" /\ Done(t) /\ UNCHANGED index

\* The second look under the writer's lock: another search built the index
\* while this one waited. Stores that exist but were never completed pass it
\* when their BM25 side can be opened.
SkipBuild(t) ==
    /\ pc[t] = "writing" /\ op[t] = "build"
    /\ index[ws[t]] # "absent"
    /\ ReleaseAll(t)
    /\ pc' = [pc EXCEPT ![t] = "unlockedRead"]
    /\ UNCHANGED <<queue, op, ws, runs, passes, index>>

\* The condition under which a search that holds the writer's lock rebuilds.
MustBuild(w) == index[w] # "ready"

\* What an index writer deletes before it writes: `clean_stale_index` and the
\* stores a build opens, or `clear_all_data` of a force run.
Wipe(t) ==
    /\ pc[t] = "writing" /\ op[t] \in {"build", "reindex"}
    /\ op[t] = "build" => MustBuild(ws[t])
    /\ index' = [index EXCEPT ![ws[t]] = "partial"]
    /\ pc' = [pc EXCEPT ![t] = "refilling"]
    /\ UNCHANGED <<queue, held, op, ws, runs, passes>>

\* The index is complete: the operation lock is let go and either the pass the
\* run calls for takes the other guards, or none is needed and they are dropped.
\* A search that built the index then reads it with no lock.
FinishIndexing(t) ==
    /\ \/ HandToPass(t)
       \/ ReleaseAll(t) /\ UNCHANGED passes
    /\ IF op[t] = "build"
       THEN pc' = [pc EXCEPT ![t] = "unlockedRead"] /\ UNCHANGED <<op, runs>>
       ELSE Idle(t)
    /\ UNCHANGED <<queue, ws>>

Refill(t) ==
    /\ pc[t] = "refilling"
    /\ index' = [index EXCEPT ![ws[t]] = "ready"]
    /\ FinishIndexing(t)

AnswerUnlocked(t) == pc[t] = "unlockedRead" /\ Done(t) /\ UNCHANGED index

\* `clear_cache` of one workspace.
ClearWorkspace(t) ==
    /\ pc[t] = "writing" /\ op[t] = "clear"
    /\ index' = [index EXCEPT ![ws[t]] = "absent"]
    /\ Done(t)

\* `clear_cache` without a directory, under `lock_all`; a `clear_runtime` without
\* one and the shutdown take the same lock and leave the stores alone.
ClearAll(t) ==
    /\ pc[t] = "clearingAll"
    /\ index' \in {index, [w \in Workspaces |-> "absent"]}
    /\ Done(t)

\* Mutant: the run starts to write before it has the operation lock.
PublishEarly(t) ==
    /\ pc[t] = "preparing" /\ runs[t] > 0
    /\ op[t] = "sync" => index[ws[t]] # "absent"
    /\ index' = [index EXCEPT ![ws[t]] = "partial"]
    /\ pc' = [pc EXCEPT ![t] = "wantPublish"]
    /\ UNCHANGED <<queue, held, op, ws, runs, passes>>

\* A store writer has changes to publish. An ordinary `index_codebase` opens
\* its stores, and so creates them, before it takes the operation lock; a sync
\* of a directory without an index does nothing.
StartPublish(t) ==
    /\ pc[t] = "preparing" /\ runs[t] > 0
    /\ op[t] = "sync" => index[ws[t]] # "absent"
    /\ OpenStores(ws[t])
    /\ pc' = [pc EXCEPT ![t] = "wantPublish"]
    /\ UNCHANGED <<queue, held, op, ws, runs, passes>>

\* The run's writes are committed: the operation lock it took for them
\* (`ReaderExclusion::AroundPublish`) is dropped.
EndPublish(t) ==
    /\ pc[t] = "publishing"
    /\ runs' = [runs EXCEPT ![t] = @ - 1]
    /\ index' = [index EXCEPT ![ws[t]] = "ready"]
    /\ Release(t, {Operation(ws[t])})
    /\ pc' = [pc EXCEPT ![t] = "preparing"]
    /\ UNCHANGED <<queue, op, ws, passes>>

\* `index_codebase` has nothing more to write: as `FinishIndexing`.
EndIndexRun(t) ==
    /\ pc[t] = "preparing" /\ op[t] = "index" /\ runs[t] = 0
    /\ OpenStores(ws[t])
    /\ FinishIndexing(t)

\* A sync runs its maintenance passes inline, under the maintenance lock alone.
EndSyncRun(t) ==
    /\ pc[t] = "preparing" /\ op[t] = "sync"
    /\ runs[t] = 0 \/ index[ws[t]] = "absent"
    /\ \/ /\ pc' = [pc EXCEPT ![t] = "maintaining"]
          /\ UNCHANGED <<queue, held, op, ws, runs, passes>>
       \/ Done(t)
    /\ UNCHANGED index

EndSyncMaintenance(t) == pc[t] = "maintaining" /\ Done(t) /\ UNCHANGED index

\* The background pass ends (a panic in it is caught and ends it too).
EndPass(w) ==
    /\ w \in passes
    /\ ReleaseAll(Pass(w))
    /\ passes' = passes \ {w}
    /\ UNCHANGED <<queue, pc, op, ws, runs, index>>

\* An operation fails, panics, or has its future dropped (the shutdown aborts a
\* sync that does not end in time): its guards are dropped and its place in a
\* queue is given up, whatever it was doing.
Abandon(t) ==
    /\ pc[t] # "idle"
    /\ queue' = [l \in Locks |-> Leave(queue[l], t)]
    /\ ReleaseAll(t)
    /\ Idle(t)
    /\ UNCHANGED <<ws, passes, index>>

Progress(t) ==
    \/ Request(t) \/ Acquire(t)
    \/ AnswerRead(t) \/ TurnWriter(t) \/ AnswerOverlaps(t) \/ AnswerUnlocked(t)
    \/ SkipBuild(t) \/ Wipe(t) \/ Refill(t)
    \/ ClearWorkspace(t) \/ ClearAll(t)
    \/ StartPublish(t) \/ EndPublish(t)
    \/ EndIndexRun(t) \/ EndSyncRun(t) \/ EndSyncMaintenance(t)

Next ==
    \/ \E t \in Tasks : Begin(t) \/ Progress(t) \/ Abandon(t)
    \/ \E w \in Workspaces : EndPass(w)

Fairness ==
    /\ \A t \in Tasks : WF_vars(Progress(t))
    /\ \A w \in Workspaces : WF_vars(EndPass(w))

Spec == Init /\ [][Next]_vars

FairSpec == Spec /\ Fairness

-----------------------------------------------------------------------------
(* Properties *)

\* Type invariant: every waiter in a queue is a task, every guard an actor's, and
\* a task never owes more publishing runs than its call started with.
TypeOK ==
    /\ queue \in [Locks -> Seq(Tasks \X Modes)]
    /\ held \in [Locks -> SUBSET (Actors \X Modes)]
    /\ pc \in [Tasks -> PCs]
    /\ op \in [Tasks -> Ops]
    /\ ws \in [Tasks -> Workspaces]
    /\ runs \in [Tasks -> 0..MaxRuns]
    /\ passes \in SUBSET Workspaces
    /\ index \in [Workspaces -> IndexStates]

\* What a task may do to its workspace at its point of the program, whatever
\* the state of the locks.
TaskRights(t) ==
    LET w == ws[t] IN
    CASE pc[t] = "reading" ->
           {<<"read", w>>} \cup (IF op[t] = "codemap" THEN {<<"cache", w>>} ELSE {})
      [] pc[t] = "embedding" -> {<<"cache", w>>}
      [] pc[t] \in {"preparing", "wantPublish", "maintaining"} -> {<<"store", w>>}
      [] pc[t] \in {"publishing", "writing", "refilling"} ->
           {<<"store", w>>, <<"write", w>>}
      [] pc[t] = "clearingAll" -> {<<"all", v>> : v \in Workspaces}
      [] OTHER -> {}

ActorRights ==
    [a \in Actors |->
        IF a \in Tasks THEN TaskRights(a)
        ELSE {<<"store", w>> : w \in {v \in passes : Pass(v) = a}}]

Access == INSTANCE WorkspaceAccess WITH rights <- ActorRights

\* The locks deliver what the workspace operations rely on: rights never
\* conflict, an index changes only under the rights for it, and a writer's
\* store passes to its maintenance pass without a gap.
ImplementsAccess == Access!ASpec

\* No two operations ever hold conflicting rights: no reader looks at an index
\* a writer has half done, one writer at a time has a workspace's stores
\* (maintenance passes included), one writer its graph cache, and a whole-cache
\* operation is alone.
NoConflictingAccess == Access!Compatible(ActorRights)

\* The levels of the lock order.
Level(l) ==
    CASE l[1] = "global" -> 1
      [] l[1] = "graph_cache" -> 2
      [] l[1] = "maintenance" -> 3
      [] OTHER -> 4

\* A task that waits for a lock holds locks of earlier levels only, all of its
\* own workspace, so no circle of waits can close.
LockOrder ==
    \A t \in Tasks : pc[t] \in WaitPCs =>
       \A l \in Locks, m \in Modes :
          <<t, m>> \in held[l] =>
             /\ Level(l) < Level(WantedLock(t))
             /\ l = Global \/ l[2] = ws[t]

\* The guards a task has at its point of the program: lock and mode.
Guards(t) ==
    (IF pc[t] \in {"idle", "wantGlobal", "unlockedRead"} THEN {}
     ELSE {<<Global, IF op[t] = "clearAll" THEN "w" ELSE "r">>})
    \cup
    (IF pc[t] = "embedding" \/ (op[t] = "codemap" /\ pc[t] \in {"wantRead", "reading"})
     THEN {<<GraphCache(ws[t]), "w">>} ELSE {})
    \cup
    (IF pc[t] \in {"wantWrite", "wantPublish", "preparing", "publishing", "writing",
                   "refilling", "maintaining"}
     THEN {<<Maintenance(ws[t]), "w">>} ELSE {})
    \cup
    (IF pc[t] = "reading" THEN {<<Operation(ws[t]), "r">>} ELSE {})
    \cup
    (IF pc[t] \in {"publishing", "writing", "refilling"}
     THEN {<<Operation(ws[t]), "w">>} ELSE {})

PassGuards(w) ==
    IF w \in passes THEN {<<Global, "r">>, <<Maintenance(w), "w">>} ELSE {}

\* Every guard that is out belongs to the program point of its owner: nothing
\* is leaked by an answer, an error or a hand-over, and nothing is missing.
GuardsMatchPrograms ==
    /\ \A t \in Tasks, l \in Locks, m \in Modes :
          <<t, m>> \in held[l] <=> <<l, m>> \in Guards(t)
    /\ \A w \in Workspaces, l \in Locks, m \in Modes :
          <<Pass(w), m>> \in held[l] <=> <<l, m>> \in PassGuards(w)

\* A write guard is the only guard of its lock.
GuardsExclude ==
    \A l \in Locks : \A g, h \in held[l] : g # h => g[2] = "r" /\ h[2] = "r"

\* The program points each operation goes through.
PointsOfOps ==
    \A t \in Tasks :
       /\ pc[t] = "idle" => op[t] = "none"
       /\ pc[t] # "idle" => op[t] # "none"
       /\ pc[t] \in {"wantGraphCache", "embedding"} => op[t] \in GraphCacheOps
       /\ pc[t] = "wantMaintenance" => op[t] \in IndexWriterOps \cup StoreWriterOps
       /\ pc[t] \in {"wantRead", "reading"} => op[t] \in {"search", "similar", "codemap"}
       /\ pc[t] \in {"wantWrite", "writing", "refilling"} => op[t] \in IndexWriterOps
       /\ pc[t] \in {"preparing", "wantPublish", "publishing", "maintaining"} =>
             op[t] \in StoreWriterOps
       /\ pc[t] \in {"wantPublish", "publishing"} => runs[t] > 0
       /\ pc[t] = "clearingAll" <=> op[t] = "clearAll" /\ pc[t] # "wantGlobal"
       /\ pc[t] = "unlockedRead" => op[t] = "build"

\* A place in a queue is that of a task that waits for the lock, in the mode it
\* waits for, and a task has one place at most.
QueuesMatchPrograms ==
    \A l \in Locks :
       /\ \A i \in DOMAIN queue[l] :
             LET t == queue[l][i][1] IN
             pc[t] \in WaitPCs /\ l = WantedLock(t) /\ queue[l][i][2] = WantedMode(t)
       /\ \A i, j \in DOMAIN queue[l] : queue[l][i][1] = queue[l][j][1] => i = j

\* The inductive invariant: types, the points each operation passes through,
\* exclusive write guards, and the guards out are those the programs call for.
IInv == TypeOK /\ PointsOfOps /\ GuardsExclude /\ GuardsMatchPrograms

\* A reader at the operation lock waits for an index writer or a publish of its
\* workspace, never for a maintenance pass or for a graph cache writer's
\* embedding.
ReadersWaitOnlyForWriters ==
    \A t \in Tasks : pc[t] = "wantRead" =>
       LET q == queue[Operation(ws[t])] IN
       \A i \in DOMAIN q :
          /\ q[i][1] = t
          /\ \/ \E h \in held[Operation(ws[t])] : h[2] = "w"
             \/ \E j \in 1..(i - 1) : q[j][2] = "w"
          => \E u \in Tasks :
                /\ ws[u] = ws[t]
                /\ pc[u] \in {"wantWrite", "wantPublish", "publishing",
                              "writing", "refilling"}

\* A search that came to build a missing index never wipes one that another
\* search completed while it waited for the writer's lock.
NoNeedlessRebuild ==
    [][\A t \in Tasks :
          op[t] = "build" /\ op'[t] = "build" /\ index[ws[t]] = "ready"
          /\ pc[t] = "writing" => index'[ws[t]] = "ready"]_vars

\* Every call answers: no deadlock and no starvation, whatever else is asked of
\* the workspace meanwhile.
EveryCallAnswers == \A t \in Tasks : pc[t] # "idle" ~> pc[t] = "idle"

=============================================================================
