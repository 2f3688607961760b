--------------------------- MODULE GraphSnapshots ---------------------------
(***************************************************************************)
(* The persisted hypergraph of one workspace: builders stage a snapshot    *)
(* under the build lock, write its manifest, point CURRENT at it and prune *)
(* the others, while files are edited, readers open what CURRENT names,    *)
(* clear_cache removes everything and processes die.                       *)
(*                                                                         *)
(* A tree is what the build inputs tell apart: the global inputs (every    *)
(* Cargo.toml, the lock file, the tool chain) and a version per package.   *)
(* The rows of a crate stand for the tree restricted to what the crate is  *)
(* computed from: the packages its files lie in and those of the crates it *)
(* depends on. A graph id is <<t, 0>>, the hash of tree t, or <<t, n>>, the *)
(* fresh id taken when the directory of the first exists already.          *)
(***************************************************************************)
EXTENDS Naturals, FiniteSets

CONSTANTS Builders, Readers,  \* calls of build_hypergraph and of the queries
          Proc,               \* the process a call runs in
          Packages, Versions, Globals,
          Crates,
          CratesAt,           \* the crates a version of a package has
          Deps,               \* the crates a crate depends on directly
          crate_packages,     \* the packages the module files of a crate lie in
          Attempts,           \* how often a build is tried (3 in the code)
          FirstTree,          \* the files when the first call comes
          MaxCalls, MaxEdits, MaxClears, MaxFaults, MaxTroubles, MaxInstances  \* bounds

None == <<>>

Trees == [global : Globals, pkgs : [Packages -> Versions]]

Ids == Trees \X (0 .. MaxInstances)

CratesOf(t) == UNION {CratesAt[<<p, t.pkgs[p]>>] : p \in Packages}

ASSUME SnapshotsAssumption ==
    /\ Attempts \in Nat \ {0} /\ MaxInstances \in Nat
    /\ MaxCalls \in Nat /\ MaxEdits \in Nat /\ MaxClears \in Nat /\ MaxFaults \in Nat
    /\ MaxTroubles \in Nat /\ FirstTree \in Trees
    /\ CratesAt \in [Packages \X Versions -> SUBSET Crates]
    /\ Deps \in [Crates -> SUBSET Crates]
    /\ crate_packages \in [Crates -> SUBSET Packages]
    /\ \A t \in Trees : \A c \in CratesOf(t) : Deps[c] \subseteq CratesOf(t)

(***************************************************************************)
(* What a crate is computed from, and what depends on it.                  *)
(***************************************************************************)

\* The least set that holds the seeds and is closed under step.
Least(seeds, step) ==
    {c \in Crates : \A S \in SUBSET Crates :
        (seeds \subseteq S /\ \A d \in S : step[d] \subseteq S) => c \in S}

DependencyClosure(c) == Least({c}, Deps)

\* Mutant: only the crates that changed are rebuilt.
with_dependents_DirectOnly(seeds) == seeds

\* The seeds and every crate that depends on one of them, transitively.
with_dependents(seeds) ==
    Least(seeds, [d \in Crates |-> {c \in Crates : d \in Deps[c]}])

ReadBy == [c \in Crates |-> UNION {crate_packages[d] : d \in DependencyClosure(c)}]

\* The rows extraction emits for crate c of tree t.
RowsOf(c, t) == <<t.global, [p \in ReadBy[c] |-> t.pkgs[p]]>>

RowSets == {None} \cup UNION {{RowsOf(c, t) : t \in Trees} : c \in Crates}

NoRows == [c \in Crates |-> None]

\* What a full build of tree t holds.
FullRows(t) == [c \in Crates |-> IF c \in CratesOf(t) THEN RowsOf(c, t) ELSE None]

changed_packages(t, u) == {p \in Packages : t.pkgs[p] # u.pkgs[p]}

VARIABLES
    tree, stamp,     \* the files, and their stamps: a count of the edits
    root, lockfile,  \* is the graph directory there; which lock file is in it
    current,         \* the id CURRENT names, or None
    manifest,        \* [Ids -> "absent", "none", "torn" or "whole"]
    rows,            \* [Ids -> [Crates -> RowSets]]: the tables
    calls, faults,   \* builds asked for, crashes and errors so far
    job,             \* [Builders -> Jobs]
    query,           \* [Readers -> Queries]
    strayed,         \* history: a clear fell into a build
    mixed            \* history: the ids that two builds had staged at once, and
                     \* those copied from one of them

disk == <<root, lockfile, current, manifest, rows>>
history == <<strayed, mixed>>
vars == <<tree, stamp, disk, calls, faults, job, query, history>>

Steps == {"idle", "start", "open", "stamped", "reuse", "load", "loaded", "write",
          "torn", "publish", "prune", "done"}

\* A call of build_hypergraph: its step, its attempt, the lock file it has
\* open, the stamps and inputs of its InputSlice, what rust-analyzer read, the
\* id it builds or reuses and the crates it has still to write.
Jobs == [pc : Steps, mode : {"force", "reuse"}, attempt : 1 .. Attempts,
         lock : 0 .. MaxClears, seen : 0 .. MaxEdits, inputs : Trees, loaded : Trees,
         graph_id : Ids, dirty : SUBSET Crates]

NoJob == [pc |-> "idle", mode |-> "reuse", attempt |-> 1, lock |-> 0, seen |-> 0,
          inputs |-> FirstTree, loaded |-> FirstTree, graph_id |-> <<FirstTree, 0>>,
          dirty |-> {}]

\* A query: the id it read from CURRENT and the tables it has open.
Queries == {x \in [pc : {"idle", "named", "open"}, id : Ids \cup {None},
                   rows : [Crates -> RowSets]] : x.pc # "idle" => x.id # None}

NoQuery == [pc |-> "idle", id |-> None, rows |-> NoRows]

\* Holds the build lock: from TakeLock to the end of the attempt.
Locked(b) == job[b].pc \notin {"idle", "start", "open"}

\* Owns a StagedSnapshot: it is removed when the attempt fails.
Staged(b) == job[b].pc \in {"write", "torn", "publish"}

Exists(g) == manifest[g] # "absent"

\* The inputs a manifest records are those the id was made from.
inputs_of(g) == g[1]

\* The queries of process p that hold an environment of snapshot g.
OpenIn(p, g) == {r \in Readers : Proc[r] = p /\ query[r].pc = "open" /\ query[r].id = g}

Init ==
    /\ tree = FirstTree /\ stamp = 0
    /\ root = FALSE /\ lockfile = 0 /\ current = None
    /\ manifest = [g \in Ids |-> "absent"]
    /\ rows = [g \in Ids |-> NoRows]
    /\ calls = 0 /\ faults = 0
    /\ job = [b \in Builders |-> NoJob]
    /\ query = [r \in Readers |-> NoQuery]
    /\ strayed = FALSE /\ mixed = {}

(***************************************************************************)
(* One file changes: an editor, or cargo writing Cargo.lock. An edit and   *)
(* its reversal leave the contents and change the stamps.                  *)
(***************************************************************************)
Edit ==
    /\ stamp < MaxEdits /\ stamp' = stamp + 1
    /\ \/ \E p \in Packages, v \in Versions : tree' = [tree EXCEPT !.pkgs[p] = v]
       \/ \E v \in Globals : tree' = [tree EXCEPT !.global = v]
    /\ UNCHANGED <<disk, calls, faults, job, query, history>>

(***************************************************************************)
(* build_and_persist                                                       *)
(***************************************************************************)

Start(b, mode) ==
    /\ job[b].pc = "idle" /\ calls < MaxCalls /\ calls' = calls + 1
    /\ job' = [job EXCEPT ![b] = [NoJob EXCEPT !.pc = "start", !.mode = mode]]
    /\ UNCHANGED <<tree, stamp, disk, faults, query, history>>

\* A failed attempt drops its staged directory and its lock. A build whose
\* inputs changed, or that a failed query cancelled, is tried again.
Fail(b, retry) ==
    /\ job' = [job EXCEPT ![b] =
          IF retry /\ @.attempt < Attempts
          THEN [NoJob EXCEPT !.pc = "start", !.mode = job[b].mode,
                             !.attempt = job[b].attempt + 1]
          ELSE NoJob]
    /\ IF Staged(b)
       THEN /\ manifest' = [manifest EXCEPT ![job[b].graph_id] = "absent"]
            /\ rows' = [rows EXCEPT ![job[b].graph_id] = NoRows]
       ELSE UNCHANGED <<manifest, rows>>
    /\ UNCHANGED <<root, lockfile, current>>

\* InputSlice::validate: the stamps of the tree are those of the slice.
Valid(b) == job[b].seen = stamp

InputChanged(b) == ~Valid(b) /\ Fail(b, TRUE)

\* ensure_dirs, and the lock file opened or created.
OpenLock(b) ==
    /\ job[b].pc = "start"
    /\ root' = TRUE
    /\ job' = [job EXCEPT ![b].pc = "open", ![b].lock = lockfile]
    /\ UNCHANGED <<tree, stamp, lockfile, current, manifest, rows, calls, faults, query, history>>

\* The lock is on the file that was opened. The stamps are taken next.
TakeLock(b) ==
    /\ job[b].pc = "open"
    /\ \A a \in Builders : Locked(a) => job[a].lock # job[b].lock
    /\ job' = [job EXCEPT ![b].pc = "stamped", ![b].seen = stamp]
    /\ UNCHANGED <<tree, stamp, disk, calls, faults, query, history>>

\* The id a build without force may reuse: the one CURRENT names when its
\* manifest has today's inputs, else the hash of today's tree.
reuse_identity ==
    IF current # None /\ manifest[current] = "whole" /\ inputs_of(current) = tree
    THEN current
    ELSE <<tree, 0>>

\* The inputs are hashed and the stamps compared; a build without force looks
\* for a snapshot to reuse. A manifest that cannot be parsed fails the build.
Capture(b) ==
    /\ job[b].pc = "stamped"
    /\ LET g == reuse_identity IN
       \/ InputChanged(b)
       \/ /\ Valid(b)
          /\ job[b].mode = "force" \/ manifest[g] \in {"absent", "none"}
          /\ job' = [job EXCEPT ![b].pc = "load", ![b].inputs = tree,
                                ![b].graph_id = <<tree, 0>>]
          /\ UNCHANGED disk
       \/ /\ Valid(b) /\ job[b].mode = "reuse" /\ manifest[g] = "torn"
          /\ Fail(b, FALSE)
       \/ /\ Valid(b) /\ job[b].mode = "reuse" /\ manifest[g] = "whole"
          /\ job' = [job EXCEPT ![b].pc = "reuse", ![b].inputs = tree, ![b].graph_id = g]
          /\ UNCHANGED disk
    /\ UNCHANGED <<tree, stamp, calls, faults, query, history>>

\* A temporary file is written and renamed.
publish_current(g) ==
    /\ root
    /\ current' = g
    /\ UNCHANGED <<root, lockfile, manifest, rows>>

Reuse(b) ==
    /\ job[b].pc = "reuse"
    /\ \/ InputChanged(b)
       \/ /\ Valid(b)
          /\ publish_current(job[b].graph_id)
          /\ job' = [job EXCEPT ![b].pc = "done"]
    /\ UNCHANGED <<tree, stamp, calls, faults, query, history>>

Load(b) ==
    /\ job[b].pc = "load"
    /\ job' = [job EXCEPT ![b].pc = "loaded", ![b].loaded = tree]
    /\ UNCHANGED <<tree, stamp, disk, calls, faults, query, history>>

\* May the build of id g start from a copy of the published snapshot?
Incremental(b, g) ==
    /\ job[b].mode = "reuse" /\ current # None /\ current # g
    /\ manifest[current] = "whole"
    /\ inputs_of(current).global = job[b].inputs.global
    /\ {c \in Crates : rows[current][c] # None} = CratesOf(job[b].loaded)

\* The crates to write: all of them into an empty snapshot, or over a copy
\* those whose packages changed and their dependents.
plan_build(b, g) ==
    IF Incremental(b, g)
    THEN CratesOf(job[b].loaded) \cap with_dependents(
           {c \in CratesOf(job[b].loaded) :
              crate_packages[c] \cap changed_packages(job[b].inputs, inputs_of(current)) # {}})
    ELSE CratesOf(job[b].loaded)

\* New ids of the same tree, not on disk and in nobody's hands (the code hashes
\* process, time and a counter into them).
new_ids(g) == {h \in Ids : /\ h[1] = g[1] /\ h[2] > 0 /\ ~Exists(h)
                           /\ \A r \in Readers : query[r].id # h
                           /\ \A b \in Builders : job[b].graph_id # h}

\* The id itself if it is free, else a new one.
FreshId(g) == IF ~Exists(g) THEN g ELSE CHOOSE h \in new_ids(g) : TRUE

\* Another build has staged g and a clear took its directory, or the snapshot
\* that CURRENT names, which is copied, was written so.
Mixes(b, g) ==
    \/ \E a \in Builders \ {b} : Staged(a) /\ job[a].graph_id = g
    \/ Incremental(b, g) /\ current \in mixed

\* The directory is created under an id that is not taken, the base copied.
\* MaxInstances bounds the new ids.
Stage(b) ==
    /\ job[b].pc = "loaded"
    /\ \/ InputChanged(b) /\ UNCHANGED mixed
       \/ /\ Valid(b) /\ root
          /\ Exists(job[b].graph_id) => new_ids(job[b].graph_id) # {}
          /\ LET g == FreshId(job[b].graph_id) IN
             /\ manifest' = [manifest EXCEPT ![g] = "none"]
             /\ rows' = [rows EXCEPT ![g] = IF Incremental(b, g) THEN rows[current] ELSE NoRows]
             /\ job' = [job EXCEPT ![b].pc = "write", ![b].graph_id = g,
                                   ![b].dirty = plan_build(b, g)]
             /\ mixed' = IF Mixes(b, g) THEN mixed \cup {g} ELSE mixed
          /\ UNCHANGED <<root, lockfile, current>>
    /\ UNCHANGED <<tree, stamp, calls, faults, query, strayed>>

\* One crate of write_by_crate: its old rows deleted, the new ones written, in
\* one transaction. Dependencies come before their dependents. The environment
\* may be that of a directory which was cleared: then nothing is written to the
\* one another build created under the same id.
WriteCrate(b, c) ==
    /\ job[b].pc = "write"
    /\ c \in job[b].dirty /\ Deps[c] \cap job[b].dirty = {}
    /\ \/ /\ Exists(job[b].graph_id)
          /\ rows' = [rows EXCEPT ![job[b].graph_id][c] = RowsOf(c, job[b].loaded)]
       \/ /\ Exists(job[b].graph_id) => job[b].graph_id \in mixed
          /\ UNCHANGED rows
    /\ job' = [job EXCEPT ![b].dirty = job[b].dirty \ {c}]
    /\ UNCHANGED <<tree, stamp, root, lockfile, current, manifest, calls, faults, query, history>>

\* Mutant: the manifest is written while crates are still missing.
EndWrite_Early(b) ==
    /\ job[b].pc = "write"
    /\ \/ InputChanged(b)
       \/ /\ Valid(b) /\ Exists(job[b].graph_id)
          /\ manifest' = [manifest EXCEPT ![job[b].graph_id] = "torn"]
          /\ job' = [job EXCEPT ![b].pc = "torn"]
          /\ UNCHANGED <<root, lockfile, current, rows>>
    /\ UNCHANGED <<tree, stamp, calls, faults, query, history>>

\* The last look at the tree, and the manifest created. fs::write is not
\* atomic: the file is there before it is whole.
EndWrite(b) ==
    /\ job[b].pc = "write" /\ job[b].dirty = {}
    /\ \/ InputChanged(b)
       \/ /\ Valid(b) /\ Exists(job[b].graph_id)
          /\ manifest' = [manifest EXCEPT ![job[b].graph_id] = "torn"]
          /\ job' = [job EXCEPT ![b].pc = "torn"]
          /\ UNCHANGED <<root, lockfile, current, rows>>
    /\ UNCHANGED <<tree, stamp, calls, faults, query, history>>

WriteManifest(b) ==
    /\ job[b].pc = "torn" /\ Exists(job[b].graph_id)
    /\ manifest' = [manifest EXCEPT ![job[b].graph_id] = "whole"]
    /\ job' = [job EXCEPT ![b].pc = "publish"]
    /\ UNCHANGED <<tree, stamp, root, lockfile, current, rows, calls, faults, query, history>>

Publish(b) ==
    /\ job[b].pc = "publish"
    /\ publish_current(job[b].graph_id)
    /\ job' = [job EXCEPT ![b].pc = "prune"]
    /\ UNCHANGED <<tree, stamp, calls, faults, query, history>>

\* Every snapshot but the one just published and those this process has open;
\* a directory that cannot be removed stays. The build returns.
prune_superseded_snapshots(b) ==
    /\ job[b].pc = "prune"
    /\ \E stuck \in SUBSET {g \in Ids : Exists(g)} :
       LET gone == {g \in Ids : /\ Exists(g) /\ g \notin stuck /\ g # job[b].graph_id
                                /\ OpenIn(Proc[b], g) = {}} IN
       /\ faults' = faults + Cardinality(stuck) /\ faults' <= MaxFaults
       /\ manifest' = [g \in Ids |-> IF g \in gone THEN "absent" ELSE manifest[g]]
       /\ rows' = [g \in Ids |-> IF g \in gone THEN NoRows ELSE rows[g]]
    /\ job' = [job EXCEPT ![b] = NoJob]
    /\ UNCHANGED <<tree, stamp, root, lockfile, current, calls, query, history>>

\* A reused snapshot is returned and the lock released.
Return(b) ==
    /\ job[b].pc = "done"
    /\ job' = [job EXCEPT ![b] = NoJob]
    /\ UNCHANGED <<tree, stamp, disk, calls, faults, query, history>>

\* What the step needs was cleared: the directory, or the snapshot in it.
Gone(b) ==
    \/ job[b].pc \in {"reuse", "loaded", "publish"} /\ ~root
    \/ Staged(b) /\ job[b].dirty = {} /\ ~Exists(job[b].graph_id)

\* Any other error, and a query cancelled by a failed one.
Abort(b, retry) ==
    /\ Locked(b) /\ job[b].pc \notin {"prune", "done"}
    /\ retry => job[b].pc \in {"load", "loaded", "write"}
    /\ IF Gone(b) THEN UNCHANGED faults ELSE faults < MaxFaults /\ faults' = faults + 1
    /\ Fail(b, retry)
    /\ UNCHANGED <<tree, stamp, calls, query, history>>

(***************************************************************************)
(* Queries                                                                 *)
(***************************************************************************)
ReadCurrent(r) ==
    /\ query[r].pc = "idle" /\ current # None
    /\ query' = [query EXCEPT ![r].pc = "named", ![r].id = current]
    /\ UNCHANGED <<tree, stamp, disk, calls, faults, job, history>>

\* open_specific: an environment this process has open already is shared.
OpenSnapshot(r) ==
    /\ query[r].pc = "named"
    /\ LET g == query[r].id
           sharing == OpenIn(Proc[r], g) IN
       query' = [query EXCEPT ![r] =
          IF manifest[g] # "whole" THEN NoQuery
          ELSE [pc |-> "open", id |-> g,
                rows |-> IF sharing = {} THEN rows[g]
                         ELSE query[CHOOSE x \in sharing : TRUE].rows]]
    /\ UNCHANGED <<tree, stamp, disk, calls, faults, job, history>>

Close(r) ==
    /\ query[r].pc = "open"
    /\ query' = [query EXCEPT ![r] = NoQuery]
    /\ UNCHANGED <<tree, stamp, disk, calls, faults, job, history>>

(***************************************************************************)
(* clear_cache with include_hypergraph removes the directory, the lock     *)
(* file with it. It takes the index writer lock and a build takes no       *)
(* workspace lock: nothing keeps them apart.                               *)
(***************************************************************************)
clear_workspace_snapshots ==
    /\ root /\ lockfile < MaxClears
    /\ root' = FALSE /\ lockfile' = lockfile + 1 /\ current' = None
    /\ manifest' = [g \in Ids |-> "absent"]
    /\ rows' = [g \in Ids |-> NoRows]
    /\ strayed' = (strayed \/ \E b \in Builders : job[b].pc \notin {"idle", "start"})
    /\ UNCHANGED <<tree, stamp, calls, faults, job, query, mixed>>

\* A process dies: its locks go with it, what it staged stays.
Crash(p) ==
    /\ \E b \in Builders : Proc[b] = p /\ job[b].pc # "idle"
    /\ job' = [b \in Builders |-> IF Proc[b] = p THEN NoJob ELSE job[b]]
    /\ query' = [r \in Readers |-> IF Proc[r] = p THEN NoQuery ELSE query[r]]
    /\ faults < MaxFaults /\ faults' = faults + 1
    /\ UNCHANGED <<tree, stamp, disk, calls, history>>

BuildStep(b) ==
    \/ OpenLock(b) \/ TakeLock(b) \/ Capture(b) \/ Reuse(b) \/ Load(b)
    \/ Stage(b) \/ EndWrite(b) \/ WriteManifest(b) \/ Publish(b)
    \/ prune_superseded_snapshots(b) \/ Return(b)
    \/ \E c \in Crates : WriteCrate(b, c)
    \/ \E retry \in BOOLEAN : Abort(b, retry)

Step ==
    \/ Edit
    \/ \E b \in Builders :
         \/ \E mode \in {"force", "reuse"} : Start(b, mode)
         \/ BuildStep(b)
    \/ \E r \in Readers : ReadCurrent(r) \/ OpenSnapshot(r) \/ Close(r)
    \/ clear_workspace_snapshots
    \/ \E p \in {Proc[b] : b \in Builders} : Crash(p)

\* What disturbs the builds is bounded together as well.
Next == Step /\ stamp' + lockfile' + faults' <= MaxTroubles

Spec == Init /\ [][Next]_vars

-----------------------------------------------------------------------------

TypeOK ==
    /\ tree \in Trees /\ stamp \in 0 .. MaxEdits
    /\ root \in BOOLEAN /\ lockfile \in 0 .. MaxClears /\ calls \in 0 .. MaxCalls
    /\ faults \in 0 .. MaxFaults
    /\ current \in Ids \cup {None}
    /\ manifest \in [Ids -> {"absent", "none", "torn", "whole"}]
    /\ rows \in [Ids -> [Crates -> RowSets]]
    /\ job \in [Builders -> Jobs]
    /\ query \in [Readers -> Queries]
    /\ strayed \in BOOLEAN /\ mixed \in SUBSET Ids

\* A snapshot with a whole manifest holds what a full build of the tree its
\* manifest records would hold, however it was built: over a copy of another
\* snapshot, after retries, during edits and clears, beside a builder that died
\* (the incremental plan of plan_build and the stamps of InputSlice). The one
\* exception is a directory that two builds wrote at once, for which a clear has
\* to take it from the first while it is being written.
WholeIsFull ==
    \A g \in Ids \ mixed : manifest[g] = "whole" => rows[g] = FullRows(inputs_of(g))

\* CURRENT names a snapshot that is whole: neither the prune of another
\* builder nor a crash between two steps of publication takes it away.
CurrentIsWhole == current # None => manifest[current] = "whole"

\* What a query has open is the graph of one tree, also after the snapshot was
\* pruned, cleared or rebuilt under it.
QueriesSeeOneTree ==
    \A r \in Readers : query[r].pc = "open" /\ query[r].id \notin mixed =>
        query[r].rows = FullRows(inputs_of(query[r].id))

\* When a build returns, CURRENT names the snapshot it answers with, whether it
\* was built or reused (publish_current_if_changed in the reuse path).
AnswerIsCurrent ==
    \A b \in Builders : job[b].pc \in {"prune", "done"} => current = job[b].graph_id

\* Until a clear falls into a build, no directory is in the hands of two.
NothingIsMixed == mixed = {}

\* The two about the directory, and the two about those who use it. A clear during
\* a build leaves the contents right, and may leave CURRENT without its snapshot.
SnapshotsAreWhole == WholeIsFull /\ (~strayed => CurrentIsWhole /\ NothingIsMixed)
QueriesHold == QueriesSeeOneTree /\ (~strayed => AnswerIsCurrent)

\* A snapshot that is whole is never written again: it stays or it goes, also
\* where a clear runs during a build.
WholeIsImmutable ==
    [][\A g \in Ids \ mixed : manifest[g] = "whole" =>
          \/ manifest'[g] = "whole" /\ rows'[g] = rows[g]
          \/ manifest'[g] = "absent"]_vars

-----------------------------------------------------------------------------
(* The inductive invariant.                                                *)

\* What is on disk can be counted.
DiskIsFinite == IsFiniteSet({g \in Ids : Exists(g)})

\* As long as the stamps are those it took, a build has seen the tree that is there.
StampsVouch ==
    \A b \in Builders : Locked(b) =>
        /\ job[b].seen <= stamp
        /\ Valid(b) /\ job[b].pc # "stamped" => job[b].inputs = tree
        /\ Valid(b) /\ job[b].pc \notin {"stamped", "reuse", "load", "done"} =>
             job[b].loaded = tree

\* The id of a build is made from its inputs.
IdsNameInputs ==
    \A b \in Builders :
        Locked(b) /\ job[b].pc # "stamped" => inputs_of(job[b].graph_id) = job[b].inputs

\* What is staged is of the tree that was hashed and, where it is still there,
\* lacks the crates that are still to be written.
StagedIsOnTheWay ==
    \A b \in Builders : Staged(b) =>
        /\ job[b].loaded = job[b].inputs
        /\ job[b].dirty \subseteq CratesOf(job[b].inputs)
        /\ job[b].pc # "write" => job[b].dirty = {}
        /\ Exists(job[b].graph_id) /\ job[b].graph_id \notin mixed =>
             /\ manifest[job[b].graph_id] =
                  CASE job[b].pc = "write" -> "none" [] job[b].pc = "torn" -> "torn"
                    [] OTHER -> "whole"
             /\ \A c \in Crates \ job[b].dirty :
                  rows[job[b].graph_id][c] = FullRows(job[b].inputs)[c]

\* Two builds of one id have mixed it.
StagedApart ==
    \A a, b \in Builders : Staged(a) /\ Staged(b) /\ job[a].graph_id = job[b].graph_id =>
        a = b \/ job[a].graph_id \in mixed

\* Until a clear falls into a build, one build at a time is under way, and what
\* it staged or reuses is there.
OneBuilds ==
    /\ \A b \in Builders : job[b].pc \notin {"idle", "start"} => job[b].lock = lockfile
    /\ \A a, b \in Builders : Locked(a) /\ Locked(b) => a = b
    /\ \A b \in Builders : Staged(b) => Exists(job[b].graph_id) /\ current # job[b].graph_id
    /\ \A b \in Builders : job[b].pc = "reuse" => manifest[job[b].graph_id] = "whole"

BuildsHold ==
    /\ StampsVouch /\ IdsNameInputs /\ StagedIsOnTheWay /\ StagedApart
    /\ WholeIsFull /\ QueriesSeeOneTree
    /\ ~strayed => OneBuilds /\ NothingIsMixed /\ CurrentIsWhole /\ AnswerIsCurrent

IInv == TypeOK /\ DiskIsFinite /\ BuildsHold
=============================================================================
