----------------------------- MODULE IndexSync -----------------------------
(***************************************************************************)
(* The indexing runs of one workspace: how the Merkle snapshot, the        *)
(* metadata cache, the vector store and the BM25 index follow the files of *)
(* the tree through edits, failed writes and crashes.                      *)
(*                                                                         *)
(* The four stores are functions from paths to the content they hold for   *)
(* the path, or Absent. Paths are numbers: their order is the path order   *)
(* the Merkle leaves are sorted in. One run at a time is in progress: that *)
(* is what the maintenance lock of WorkspaceLocks gives it.                *)
(***************************************************************************)
EXTENDS Naturals, FiniteSets

CONSTANTS Paths,       \* the paths a Rust file of the workspace may have
          Contents,    \* what a file may hold
          Chunkless,   \* contents without chunks, or with secrets in them
          Oversize,    \* contents above the size limit
          Calls,       \* the runs that are asked for
          Faults,      \* what may go wrong in a run
          MaxFaults,   \* ... and how often
          Reuse,       \* may an edit bring back a content seen before?
          EditTimes    \* when may a file change?

\* "sync": a background sync or an ordinary index_codebase. "force" and
\* "repair": index_codebase with that flag. "build": a search that found no
\* usable index. "clear": clear_cache.
Runs == {"sync", "force", "repair", "build"}

FaultKinds == {"prepare", "delete", "insert", "record", "forget", "walk", "crash"}

\* Edits between two runs only; also during a run, except to a file that the
\* run has read and not yet recorded; at any time.
EditTimesKinds == {"idle", "unread", "any"}

ASSUME PathsAssumption == Paths \subseteq Nat /\ IsFiniteSet(Paths)

ASSUME ContentsAssumption ==
    /\ Chunkless \subseteq Contents /\ Oversize \subseteq Contents
    /\ Chunkless \cap Oversize = {}
    /\ "absent" \notin Contents

ASSUME CallsAssumption ==
    /\ Calls \subseteq Runs \cup {"clear"} /\ Faults \subseteq FaultKinds
    /\ MaxFaults \in Nat /\ Reuse \in BOOLEAN /\ EditTimes \in EditTimesKinds

Absent == "absent"

Held == Contents \cup {Absent}

Code == Contents \ (Chunkless \cup Oversize)   \* contents that have chunks

Nothing == [p \in Paths |-> Absent]

NoEntries == [p \in Paths |-> <<Absent, Absent>>]

VARIABLES tree,      \* [Paths -> Held]: the files
          written,   \* which content a file ever had: SUBSET (Paths \X Contents)
          saved,     \* is there a snapshot?
          snapshot,  \* [Paths -> Held]: its hashes
          cache,     \* [Paths -> Held \X Held]: content hash and stat recorded
          vectors,   \* [Paths -> Held]: the vector store
          bm25,      \* [Paths -> Held]: the committed BM25 index
          buffer,    \* [Paths -> Held]: what a commit of BM25 would make of it
          pc, kind,  \* where the run is, and which kind it is
          merkle,    \* [Paths -> Held]: the hashes of the run's walk
          walked,    \* the files of a full pass
          todo,      \* files to prepare
          prepared,  \* [Paths -> Held]: contents read and embedded, not written
          gone,      \* files whose chunks and cache entry go
          cleared,   \* files whose chunks go
          recorded,  \* files of the write that the cache has recorded
          retry,     \* retry_files; in a repair, first the files it forgot
          faults     \* how often something went wrong

treeVars  == <<tree, written>>
snapVars  == <<saved, snapshot>>
storeVars == <<cache, vectors, bm25, buffer>>
pending   == <<prepared, gone, cleared, recorded>>
runVars   == <<kind, merkle, walked>>

vars == <<treeVars, snapVars, storeVars, pc, runVars, todo, pending, retry, faults>>

PCs == {"idle", "clearCache", "clearBm25", "clearVectors", "cleanSnapshot",
        "cleanCache", "repairCache", "repairTree", "repairCommit",
        "repairSnapshot", "load", "full", "prepare", "delete", "insert", "record", "forget", "commit", "drop", "dropCommit",
        "save"}

Init ==
    /\ tree \in [Paths -> Held]
    /\ written = {w \in Paths \X Contents : tree[w[1]] = w[2]}
    /\ Reuse \/ \A p, q \in Paths : p # q /\ tree[p] # Absent => tree[p] # tree[q]
    /\ saved = FALSE /\ snapshot = Nothing
    /\ cache = NoEntries /\ vectors = Nothing /\ bm25 = Nothing /\ buffer = Nothing
    /\ pc = "idle" /\ kind = "sync"
    /\ merkle = Nothing /\ walked = {} /\ todo = {}
    /\ prepared = Nothing /\ gone = {} /\ cleared = {} /\ recorded = {}
    /\ retry = {}
    /\ faults = 0

-----------------------------------------------------------------------------
(* The Merkle tree *)

Present(t) == {p \in Paths : t[p] # Absent}

\* A leaf is the hash of a file's bytes at the file's place among the sorted
\* paths: the path itself is not hashed. Equal leaves, equal root.
Leaves(t) ==
    {<<Cardinality({q \in Present(t) : q < p}), t[p]>> : p \in Present(t)}

HasChanges(new, old) == Leaves(new) # Leaves(old)

Added(new, old) == Present(new) \ Present(old)

Modified(new, old) == {p \in Present(new) \cap Present(old) : new[p] # old[p]}

Deleted(new, old) == Present(old) \ Present(new)

\* detect_changes.
Changes(new, old) ==
    IF HasChanges(new, old)
    THEN Added(new, old) \cup Modified(new, old) \cup Deleted(new, old)
    ELSE {}

\* Mutant: the new tree is saved as it is, failed paths included.
KeepNew(new, old, paths) == new

\* A path to retry keeps its old node, or stays absent if it had none.
SnapshotWithRetries(new, old, paths) ==
    [p \in Paths |-> IF p \in paths THEN old[p] ELSE new[p]]

-----------------------------------------------------------------------------
(* The stores *)

\* The cache waves a file through on its stat alone, or on its hash.
Unchanged(p) == tree[p] \in {cache[p][1], cache[p][2]}

Without(f, S) == [p \in Paths |-> IF p \in S THEN Absent ELSE f[p]]

Forgotten(S) == [p \in Paths |-> IF p \in S THEN <<Absent, Absent>> ELSE cache[p]]

\* rebuild_bm25_if_empty, committed once.
Refilled == IF Present(bm25) = {} THEN vectors ELSE bm25

Fails(f) == f \in Faults /\ faults < MaxFaults /\ faults' = faults + 1

Pending == Present(prepared) \cup gone \cup cleared

NothingPending ==
    prepared' = Nothing /\ gone' = {} /\ cleared' = {} /\ recorded' = {}

\* The run is over.
Stop ==
    /\ pc' = "idle" /\ kind' = "sync"
    /\ merkle' = Nothing /\ walked' = {}
    /\ todo' = {} /\ retry' = {}
    /\ NothingPending

\* A pass over the whole tree, with the snapshot or (in a search) without.
FullPass == kind = "build" \/ ~saved

-----------------------------------------------------------------------------
(* The user *)

\* A file is created, changed or deleted. Its new content is one no file had
\* before unless Reuse, and its time is one of EditTimes.
Edit(p, c) ==
    /\ c # tree[p]
    /\ Reuse \/ c = Absent \/ \A q \in Paths : <<q, c>> \notin written
    /\ EditTimes = "idle" => pc = "idle"
    /\ EditTimes = "unread" => prepared[p] = Absent
    /\ tree' = [tree EXCEPT ![p] = c]
    /\ written' = written \cup ({<<p, c>>} \cap (Paths \X Contents))
    /\ UNCHANGED <<snapVars, storeVars, pc, runVars, todo, pending, retry, faults>>

-----------------------------------------------------------------------------
(* A run, step by step *)

\* A force run first deletes the snapshot; a search that builds, the BM25
\* directory.
StartRun(k) ==
    /\ pc = "idle"
    /\ kind' = k
    /\ pc' = CASE k = "force"  -> "clearCache"
               [] k = "repair" -> "repairCache"
               [] k = "build"  -> "cleanSnapshot"
               [] OTHER        -> "load"
    /\ IF k = "force" THEN saved' = FALSE /\ snapshot' = Nothing
                      ELSE UNCHANGED snapVars
    /\ IF k = "build" THEN bm25' = Nothing /\ buffer' = Nothing
                      ELSE UNCHANGED <<bm25, buffer>>
    /\ UNCHANGED <<treeVars, cache, vectors, merkle, walked, todo, pending, retry, faults>>

\* clear_all_data: the cache, then BM25 (with a commit), then the vectors.
ClearCache ==
    /\ pc = "clearCache"
    /\ cache' = NoEntries
    /\ bm25' = Refilled /\ buffer' = Refilled
    /\ pc' = "clearBm25"
    /\ UNCHANGED <<treeVars, snapVars, vectors, runVars, todo, pending, retry, faults>>

ClearBm25 ==
    /\ pc = "clearBm25"
    /\ bm25' = Nothing /\ buffer' = Nothing
    /\ pc' = "clearVectors"
    /\ UNCHANGED <<treeVars, snapVars, cache, vectors, runVars, todo, pending, retry, faults>>

ClearVectors ==
    /\ pc = "clearVectors"
    /\ vectors' = Nothing
    /\ pc' = "load"
    /\ UNCHANGED <<treeVars, snapVars, cache, bm25, buffer, runVars, todo, pending, retry,
                   faults>>

\* clean_stale_index, after the BM25 directory: the snapshot, the cache.
CleanSnapshot ==
    /\ pc = "cleanSnapshot"
    /\ saved' = FALSE /\ snapshot' = Nothing
    /\ pc' = "cleanCache"
    /\ UNCHANGED <<treeVars, storeVars, runVars, todo, pending, retry, faults>>

CleanCache ==
    /\ pc = "cleanCache"
    /\ cache' = NoEntries
    /\ bm25' = Refilled /\ buffer' = Refilled
    /\ pc' = "full"
    /\ UNCHANGED <<treeVars, snapVars, vectors, runVars, todo, pending, retry, faults>>

\* A coverage repair forgets the cached files without vectors, drops the files
\* the tree does not have, and deletes the snapshot if it forgot any.
StaleSkips == {p \in Paths : cache[p] # <<Absent, Absent>> /\ vectors[p] = Absent}

RepairCache ==
    /\ pc = "repairCache"
    /\ cache' = Forgotten(StaleSkips)
    /\ retry' = StaleSkips
    /\ bm25' = Refilled /\ buffer' = Refilled
    /\ pc' = "repairTree"
    /\ UNCHANGED <<treeVars, snapVars, vectors, runVars, todo, pending, faults>>

RepairTree ==
    /\ pc = "repairTree"
    /\ \/ /\ gone' = Present(vectors) \ Present(tree)
          /\ vectors' = Without(vectors, gone')
          /\ buffer' = Without(buffer, gone')
          /\ pc' = "repairCommit"
          /\ UNCHANGED faults
       \/ Fails("walk") /\ pc' = "repairSnapshot" /\ UNCHANGED <<gone, vectors, buffer>>
    /\ UNCHANGED <<treeVars, snapVars, cache, bm25, runVars, todo, prepared, cleared, recorded,
                   retry>>

RepairCommit ==
    /\ pc = "repairCommit"
    /\ bm25' = buffer
    /\ cache' = Forgotten(gone)
    /\ gone' = {}
    /\ pc' = "repairSnapshot"
    /\ UNCHANGED <<treeVars, snapVars, vectors, buffer, runVars, todo, prepared, cleared,
                   recorded, retry, faults>>

RepairSnapshot ==
    /\ pc = "repairSnapshot"
    /\ IF retry # {} THEN saved' = FALSE /\ snapshot' = Nothing
                     ELSE UNCHANGED snapVars
    /\ retry' = {}
    /\ pc' = "load"
    /\ UNCHANGED <<treeVars, storeVars, runVars, todo, pending, faults>>

\* index_with_change_detection: the tree is walked and hashed, an empty BM25
\* index refilled, and the strategy chosen. The loaded snapshot is the one on
\* disk until the run saves its own.
Load ==
    /\ pc = "load"
    /\ merkle' = tree
    /\ bm25' = Refilled /\ buffer' = Refilled
    /\ IF ~saved
       THEN pc' = "full" /\ UNCHANGED <<todo, gone>>
       ELSE IF Changes(tree, snapshot) = {}
       THEN pc' = "save" /\ UNCHANGED <<todo, gone>>
       ELSE /\ pc' = "prepare"
            /\ todo' = Added(tree, snapshot) \cup Modified(tree, snapshot)
            /\ gone' = Deleted(tree, snapshot)
    /\ UNCHANGED <<treeVars, snapVars, cache, vectors, kind, walked, prepared, cleared,
                   recorded, retry, faults>>

\* A full pass walks again; an empty walk ends it at once.
FullWalk ==
    /\ pc = "full"
    /\ walked' = Present(tree)
    /\ todo' = Present(tree)
    /\ pc' = IF Present(tree) = {} THEN "save" ELSE "prepare"
    /\ UNCHANGED <<treeVars, snapVars, storeVars, kind, merkle, pending, retry, faults>>

\* One file is read, chunked and embedded. Settled outcomes (nothing changed
\* since the cache entry, no chunks, secrets) leave the file as it is in the
\* stores; other errors put it on the retry list.
Prepare(p) ==
    /\ pc = "prepare" /\ p \in todo
    /\ kind = "build" => Pending = {}
    /\ todo' = todo \ {p}
    /\ \/ /\ tree[p] \in Oversize
          /\ cleared' = IF FullPass \/ snapshot[p] = Absent THEN cleared ELSE cleared \cup {p}
          /\ UNCHANGED <<prepared, retry, faults>>
       \/ /\ tree[p] \in Chunkless \/ (tree[p] \in Code /\ Unchanged(p))
          /\ UNCHANGED <<prepared, cleared, retry, faults>>
       \/ /\ tree[p] \in Code /\ ~Unchanged(p)
          /\ prepared' = [prepared EXCEPT ![p] = tree[p]]
          /\ UNCHANGED <<cleared, retry, faults>>
       \/ /\ (tree[p] = Absent /\ UNCHANGED faults) \/ Fails("prepare")
          /\ retry' = retry \cup {p}
          /\ UNCHANGED <<prepared, cleared>>
    /\ UNCHANGED <<treeVars, snapVars, storeVars, pc, runVars, gone, recorded>>

\* Mutant: the cache records the files before they are written.
RecordFirst ==
    /\ pc = "prepare"
    /\ todo = {} \/ Present(prepared) # {}
    /\ pc' = IF Pending = {} THEN "commit" ELSE "delete"
    /\ cache' = [p \in Paths |-> IF prepared[p] # Absent THEN <<prepared[p], tree[p]>>
                                                       ELSE cache[p]]
    /\ UNCHANGED <<treeVars, snapVars, vectors, bm25, buffer, runVars, todo, pending, retry,
                   faults>>

\* The pending files are written when enough rows are waiting, or at the end.
StartWrite ==
    /\ pc = "prepare"
    /\ todo = {} \/ Present(prepared) # {}
    /\ pc' = IF Pending = {} THEN "commit" ELSE "delete"
    /\ UNCHANGED <<treeVars, snapVars, storeVars, runVars, todo, pending, retry, faults>>

AfterWrite == IF todo = {} \/ (FullPass /\ kind # "build") THEN "commit" ELSE "prepare"

\* Mutant: a failed write is not put on the retry list.
FailSilently ==
    IF FullPass /\ kind # "build"
    THEN Stop
    ELSE pc' = AfterWrite /\ NothingPending /\ UNCHANGED <<runVars, todo, retry>>

\* A failed write: an update and a search's build put every file of it on the
\* retry list and go on, a parallel full pass ends.
FailWrite ==
    IF FullPass /\ kind # "build"
    THEN Stop
    ELSE /\ pc' = AfterWrite
         /\ retry' = retry \cup Pending \cup recorded
         /\ NothingPending
         /\ UNCHANGED <<runVars, todo>>

\* write_files: the chunks of every file of the write go from both stores ...
DeleteChunks ==
    /\ pc = "delete"
    /\ \/ /\ buffer' = Without(buffer, Pending)
          /\ vectors' = Without(vectors, Pending)
          /\ pc' = "insert"
          /\ UNCHANGED <<pending, todo, retry, runVars, faults>>
       \/ /\ Fails("delete")
          /\ FailWrite
          /\ buffer' = IF pc' = "idle" THEN bm25 ELSE Without(buffer, Pending)
          /\ UNCHANGED vectors
    /\ UNCHANGED <<treeVars, snapVars, cache, bm25>>

\* ... the new ones are added to the BM25 buffer and to the vector store ...
Put(f) == [p \in Paths |-> IF prepared[p] # Absent THEN prepared[p] ELSE f[p]]

InsertChunks ==
    /\ pc = "insert"
    /\ \/ /\ buffer' = Put(buffer)
          /\ vectors' = Put(vectors)
          /\ pc' = "record"
          /\ UNCHANGED <<pending, todo, retry, runVars, faults>>
       \/ /\ Fails("insert")
          /\ FailWrite
          /\ buffer' = IF pc' = "idle" THEN bm25 ELSE Put(buffer)
          /\ UNCHANGED vectors
    /\ UNCHANGED <<treeVars, snapVars, cache, bm25>>

\* ... and the cache records the files one by one: the hash of the text that
\* was read, the stat of the file as it is now.
Record(p) ==
    /\ pc = "record" /\ prepared[p] # Absent
    /\ \/ /\ tree[p] # Absent
          /\ cache' = [cache EXCEPT ![p] = <<prepared[p], tree[p]>>]
          /\ prepared' = [prepared EXCEPT ![p] = Absent]
          /\ recorded' = recorded \cup {p}
          /\ UNCHANGED <<pc, gone, cleared, todo, retry, runVars, faults, buffer>>
       \/ /\ (tree[p] = Absent /\ UNCHANGED faults) \/ Fails("record")
          /\ FailWrite
          /\ buffer' = IF pc' = "idle" THEN bm25 ELSE buffer
          /\ UNCHANGED cache
    /\ UNCHANGED <<treeVars, snapVars, vectors, bm25>>

\* The write is done.
EndWrite ==
    /\ pc = "record" /\ Present(prepared) = {}
    /\ pc' = IF gone = {} THEN AfterWrite ELSE "forget"
    /\ cleared' = {} /\ recorded' = {}
    /\ UNCHANGED <<treeVars, snapVars, storeVars, runVars, todo, prepared, gone, retry,
                   faults>>

\* The cache forgets the files that are gone.
Forget(p) ==
    /\ pc = "forget" /\ p \in gone
    /\ \/ /\ cache' = [cache EXCEPT ![p] = <<Absent, Absent>>]
          /\ UNCHANGED <<retry, faults>>
       \/ /\ Fails("forget")
          /\ retry' = retry \cup {p}
          /\ UNCHANGED cache
    /\ gone' = gone \ {p}
    /\ pc' = IF gone' = {} THEN AfterWrite ELSE "forget"
    /\ UNCHANGED <<treeVars, snapVars, vectors, bm25, buffer, runVars, todo, prepared,
                   cleared, recorded>>

Commit ==
    /\ pc = "commit"
    /\ bm25' = buffer
    /\ pc' = IF ~FullPass THEN "save" ELSE IF todo = {} THEN "drop" ELSE "prepare"
    /\ UNCHANGED <<treeVars, snapVars, cache, vectors, buffer, runVars, todo, pending,
                   retry, faults>>

\* Mutant: the BM25 index keeps the files outside the walk.
DropVectorsOnly ==
    /\ pc = "drop"
    /\ gone' = Present(vectors) \ walked
    /\ vectors' = Without(vectors, gone')
    /\ pc' = "dropCommit"
    /\ UNCHANGED <<treeVars, snapVars, cache, bm25, buffer, runVars, todo, prepared, cleared,
                   recorded, retry, faults>>

\* drop_files_outside_walk: what the vector store holds and the walk did not
\* find goes from both stores, unless the walk had errors.
Drop ==
    /\ pc = "drop"
    /\ \/ /\ gone' = Present(vectors) \ walked
          /\ vectors' = Without(vectors, gone')
          /\ buffer' = Without(buffer, gone')
          /\ pc' = "dropCommit"
          /\ UNCHANGED faults
       \/ Fails("walk") /\ pc' = "save" /\ UNCHANGED <<gone, vectors, buffer>>
    /\ UNCHANGED <<treeVars, snapVars, cache, bm25, runVars, todo, prepared, cleared, recorded,
                   retry>>

DropCommit ==
    /\ pc = "dropCommit"
    /\ bm25' = buffer
    /\ cache' = Forgotten(gone)
    /\ gone' = {}
    /\ pc' = "save"
    /\ UNCHANGED <<treeVars, snapVars, vectors, buffer, runVars, todo, prepared, cleared,
                   recorded, retry, faults>>

\* The end of a run: the snapshot that is safe to keep replaces the old one in
\* one rename. A search that built the index saves none.
Save ==
    /\ pc = "save"
    /\ IF kind = "build"
       THEN UNCHANGED snapVars
       ELSE /\ snapshot' = SnapshotWithRetries(merkle, snapshot, retry)
            /\ saved' = TRUE
    /\ Stop
    /\ UNCHANGED <<treeVars, storeVars, faults>>

\* An error that ends the run, or the end of the process: what BM25 has not
\* committed is lost, the rest stays as it is.
Crash ==
    /\ pc # "idle"
    /\ Fails("crash")
    /\ buffer' = bm25
    /\ Stop
    /\ UNCHANGED <<treeVars, snapVars, cache, vectors, bm25>>

\* clear_cache deletes the three stores.
ClearStores ==
    /\ pc = "idle" /\ "clear" \in Calls
    /\ cache' = NoEntries /\ vectors' = Nothing /\ bm25' = Nothing /\ buffer' = Nothing
    /\ UNCHANGED <<treeVars, snapVars, pc, runVars, todo, pending, retry, faults>>

RunStep ==
    \/ ClearCache \/ ClearBm25 \/ ClearVectors \/ CleanSnapshot \/ CleanCache
    \/ RepairCache \/ RepairTree \/ RepairCommit \/ RepairSnapshot \/ Load \/ FullWalk \/ StartWrite
    \/ DeleteChunks \/ InsertChunks \/ EndWrite \/ Commit \/ Drop \/ DropCommit \/ Save
    \/ \E p \in Paths : Prepare(p) \/ Record(p) \/ Forget(p)

Next ==
    \/ \E p \in Paths, c \in Held : Edit(p, c)
    \/ \E k \in Calls \cap Runs : StartRun(k)
    \/ RunStep
    \/ Crash
    \/ ClearStores

Spec == Init /\ [][Next]_vars

\* The tick comes round again and a run goes on: fair scheduling of both.
Fairness == WF_vars(RunStep) /\ WF_vars(StartRun("sync"))

FairSpec == Spec /\ Fairness

-----------------------------------------------------------------------------
(* Properties *)

\* Type invariant of a run and the stores.
TypeOK ==
    /\ tree \in [Paths -> Held] /\ written \subseteq Paths \X Contents
    /\ saved \in BOOLEAN /\ snapshot \in [Paths -> Held]
    /\ cache \in [Paths -> Held \X Held]
    /\ vectors \in [Paths -> Held]
    /\ bm25 \in [Paths -> Held] /\ buffer \in [Paths -> Held]
    /\ pc \in PCs /\ kind \in Runs
    /\ merkle \in [Paths -> Held] /\ walked \subseteq Paths
    /\ todo \subseteq Paths /\ prepared \in [Paths -> Held]
    /\ gone \subseteq Paths /\ cleared \subseteq Paths /\ recorded \subseteq Paths
    /\ retry \subseteq Paths
    /\ faults \in 0..MaxFaults

SnapshotVouchesFor(p) ==
    saved /\ snapshot[p] = tree[p] /\ tree[p] \in Code => vectors[p] = tree[p]

CacheVouchesFor(p) ==
    tree[p] \in Code /\ Unchanged(p) => vectors[p] = tree[p]

\* What change detection takes for indexed is indexed: a file whose hash the
\* snapshot has, and that has chunks, is in the vector store as it is on disk,
\* whatever failed or crashed before.
SnapshotVouches == \A p \in Paths : SnapshotVouchesFor(p)

\* What the metadata cache waves through is indexed: the skip never hides a
\* file the vector store does not have.
CacheVouches == \A p \in Paths : CacheVouchesFor(p)

\* The environment in which the stores can be trusted: no content comes back, no
\* file changes between its reading and its recording, and clear_cache is not
\* called.
Careful == Reuse = FALSE /\ EditTimes # "any" /\ "clear" \notin Calls

\* The phases of a run: before its walk, over the pending files, to its end.
BeforeWalk == {"clearCache", "clearBm25", "clearVectors", "cleanSnapshot", "cleanCache",
               "repairCache", "repairTree", "repairCommit", "repairSnapshot", "load", "full"}

Writing == {"prepare", "delete", "insert", "record"}

Walked == Writing \cup {"forget", "commit", "drop", "dropCommit", "save"}

\* What a store says of a file is something the file once held.
Seen(p, c) == c # Absent => <<p, c>> \in written

OnceHeld(p) ==
    /\ Seen(p, tree[p]) /\ Seen(p, snapshot[p]) /\ Seen(p, vectors[p])
    /\ Seen(p, merkle[p]) /\ Seen(p, cache[p][1]) /\ Seen(p, cache[p][2])

\* No content is found in two files.
OwnContents ==
    \A p, q \in Paths, c \in Contents : <<p, c>> \in written /\ <<q, c>> \in written => p = q

\* A file that change detection, the cache or the run's walk would not pass for
\* indexed: the vectors it has may go.
Unvouched(p) ==
    tree[p] \in Code => /\ ~(saved /\ snapshot[p] = tree[p])
                        /\ ~Unchanged(p)

Differs(p) == Unvouched(p) /\ (tree[p] \in Code => merkle[p] # tree[p])

\* Once the run has walked the tree, its hash of a file vouches for the file, if
\* the file is neither waiting nor to be retried.
WalkVouchesFor(p) ==
    pc \in Walked /\ kind # "build" /\ p \notin todo \cup retry /\ prepared[p] = Absent
    /\ merkle[p] = tree[p] /\ tree[p] \in Code => vectors[p] = tree[p]

\* Files wait to be prepared, to lose their chunks, to be written, to be recorded.
ToBePrepared(p) == p \in todo /\ saved => ~(tree[p] \in Code /\ snapshot[p] = tree[p])

ToLoseChunks(p) ==
    pc \in Writing /\ p \in gone \cup cleared =>
       Differs(p) /\ p \notin todo /\ prepared[p] = Absent

OutsideWalk(p) ==
    pc \in Walked /\ FullPass /\ p \notin walked =>
       Differs(p) /\ p \notin todo /\ prepared[p] = Absent

ToBeWritten(p) ==
    prepared[p] # Absent =>
       pc \in Writing /\ prepared[p] = tree[p] /\ tree[p] \in Code /\ Unvouched(p)

ToBeRecorded(p) == pc = "record" /\ prepared[p] # Absent => vectors[p] = prepared[p]

\* The invariant of a run for one file.
FileInv(p) ==
    /\ OnceHeld(p)
    /\ SnapshotVouchesFor(p) /\ CacheVouchesFor(p) /\ WalkVouchesFor(p)
    /\ ToBePrepared(p) /\ ToLoseChunks(p) /\ OutsideWalk(p)
    /\ ToBeWritten(p) /\ ToBeRecorded(p)

\* The invariant of a run as a whole.
RunInv ==
    /\ OwnContents
    /\ ~saved => snapshot = Nothing
    /\ pc \in {"clearCache", "clearBm25", "clearVectors", "cleanCache"} => ~saved
    /\ pc \in {"clearBm25", "clearVectors"} => cache = NoEntries
    /\ pc \in Walked \cup {"cleanCache", "full"} /\ kind = "build" => ~saved
    /\ pc \in {"full", "drop", "dropCommit"} => FullPass
    /\ pc \in BeforeWalk \cup {"idle", "drop", "dropCommit", "save"} => todo = {}
    /\ pc = "commit" /\ ~FullPass => todo = {}
    /\ pc \in {"forget", "commit"} => cleared = {} /\ (gone = {} \/ pc = "forget")
    /\ pc \in BeforeWalk \cup {"idle"} => cleared = {} /\ (gone = {} \/ pc = "repairCommit")
    /\ pc \in BeforeWalk \cup {"idle"} =>
          retry = {} \/ pc \in {"repairTree", "repairCommit", "repairSnapshot"}
    /\ pc \in BeforeWalk \ {"load", "full"} => kind # "sync"
    /\ kind = "build" => pc \in {"cleanSnapshot", "cleanCache", "full"} \cup Walked

\* What makes the snapshot and the cache trustworthy, as an inductive invariant.
IInv == TypeOK /\ (Careful => RunInv /\ \A p \in Paths : FileInv(p))

\* A file whose chunks wait to be written is still on disk.
PreparedIsThere ==
    \A p \in Paths : prepared[p] # Absent => pc \in Writing /\ tree[p] # Absent

\* As long as nothing fails, what BM25 would commit is what the vector store has,
\* but where a run clears one before the other; and it is committed where no run
\* or no write is under way.
StoresInStep ==
    faults = 0 =>
       /\ IF pc \in {"clearVectors", "cleanSnapshot", "cleanCache"}
          THEN bm25 = Nothing /\ buffer = Nothing
          ELSE buffer = vectors
       /\ pc \in {"idle", "clearCache", "clearBm25", "repairCache", "repairTree",
                 "repairSnapshot", "load", "full", "drop", "save"} => bm25 = vectors

\* Both stores show the same files between two runs, as long as nothing fails.
StoresAgree == pc = "idle" /\ faults = 0 => bm25 = vectors

\* The step that ends a run without a failure, and leaves a snapshot.
EndsWell == pc = "save" /\ pc' = "idle" /\ faults' = faults

SavesSnapshot == EndsWell /\ kind # "build"

\* The next comparison of the walked tree with the snapshot a run leaves presents
\* exactly the paths on the retry list (those that differ from what the last
\* snapshot had), instead of declaring a failed write up to date.
RetriesStayVisible ==
    [][SavesSnapshot =>
          Changes(merkle, snapshot') = {p \in retry : snapshot[p] # merkle[p]}]_vars

\* A run that saves its snapshot has caught up: every file whose hash it keeps
\* is in the vector store as it is on disk.
RunCatchesUp ==
    [][SavesSnapshot => \A p \in Paths :
          snapshot'[p] = tree[p] /\ tree[p] \in Code => vectors[p] = tree[p]]_vars

\* The same of the BM25 index.
KeywordsCatchUp ==
    [][SavesSnapshot => \A p \in Paths :
          snapshot'[p] = tree[p] /\ tree[p] \in Code => bm25[p] = tree[p]]_vars

\* When the user stops editing and nothing fails any more, every file with chunks
\* gets into the vector store as it is (again after every force run or build):
\* what failed is retried, what was cut off is taken up.
EventuallyIndexed ==
    []<>(\A p \in Paths : tree[p] \in Code => vectors[p] = tree[p])
=============================================================================
