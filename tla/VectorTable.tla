----------------------------- MODULE VectorTable ----------------------------
(***************************************************************************)
(* The LanceDB table of chunks and its maintenance (rmc-engine,            *)
(* vector_store/lancedb.rs).  Every write appends a version, a list of     *)
(* fragments and what each index covers; a reader keeps the version it     *)
(* opened.  Maintenance extends the indices, merges small fragments, may   *)
(* build the ANN index, and drops the versions that are older than Keep    *)
(* together with the fragments only they name.  One writer works at a time *)
(* (WorkspaceLocks); it may die between any two of its writes.             *)
(*                                                                         *)
(* What LanceDB does inside one call is taken from how this code uses it   *)
(* and from its comments.  A chunk is [n, file, by]: the sync that wrote   *)
(* it, its file (one chunk of each file; the two are its id) and the       *)
(* embedder its vector is from.                                            *)
(***************************************************************************)
EXTENDS Integers, Sequences, FiniteSets, SequencesExt

CONSTANTS
  Files, Embedders,
  Dim,           \* the vector dimension of each embedder
  TargetRows,    \* COMPACT_TARGET_ROWS
  MinSmall,      \* COMPACT_MIN_SMALL_FRAGMENTS
  MaxDeltas,     \* RMC_ANN_MAX_DELTAS
  AnnMinRows,    \* RMC_VECTOR_ANN_MIN_ROWS
  Keep,          \* RMC_VECTOR_PRUNE_KEEP_SECS, in ticks
  WithOldIndex,  \* the table was made when symbol_kind had an index
  Bounds         \* how much happens: [chunks, syncs, passes, time, deaths, searches, embedders]

VARIABLES
  store,    \* [table, dim, meta]: the directory
  log,      \* the versions ever committed: [frags, scalar, ann, old, made]
  kept,     \* the versions whose manifest is on disk
  disk,     \* the fragments whose file is on disk
  content,  \* the chunks that were written and not deleted
  made,     \* how many chunks, fragments, syncs, passes and deaths there were
  limits,    \* the bounds of this behaviour
  job,      \* what the writer is doing
  now

ASSUME TableAssumption ==
  /\ IsFiniteSet(Files) /\ Dim \in [Embedders -> Nat]
  /\ {TargetRows, MinSmall, MaxDeltas, AnnMinRows, Keep} \subseteq Nat /\ WithOldIndex \in BOOLEAN
  /\ \A b \in Bounds : b.embedders \subseteq Embedders

vtVars == <<store, log, kept, disk, content, made, limits, job, now>>

SCALAR_INDEX_COLUMNS == <<"id", "file_path">>
NoJob == [op |-> "none", at |-> "none", by |-> "none", files |-> {},
         deltas |-> 0, merged |-> FALSE]
NoStore == [table |-> FALSE, dim |-> 0, meta |-> {}]

\* The elements of s at the places in P, in their order.
Nth(P, k) == CHOOSE p \in P : Cardinality({o \in P : o <= p}) = k
Picked(s, P) == [k \in 1..Cardinality(P) |-> s[Nth(P, k)]]

-----------------------------------------------------------------------------
(* Versions. *)

Latest == log[Len(log)]
Live(frag) == frag.rows \ frag.dead
Rows(version) == UNION {Live(f) : f \in ToSet(version.frags)}
FragIds(version) == {f.id : f \in ToSet(version.frags)}
Small(frag) == Cardinality(Live(frag)) < TargetRows
SmallOnes(version) == {f \in ToSet(version.frags) : Small(f)}

\* A write publishes the version after the one it read.
Publish(version) ==
  /\ log' = Append(log, [version EXCEPT !.made = now])
  /\ kept' = kept \cup {Len(log) + 1}

\* Every call opens the newest version.
get_table == Len(log)

\* Deletes mark rows; a fragment without rows goes.
WithoutFiles(version, files) ==
  LET marked == [i \in DOMAIN version.frags |->
                   [version.frags[i] EXCEPT
                      !.dead = @ \cup {c \in version.frags[i].rows : c.file \in files}]]
  IN [version EXCEPT !.frags = Picked(marked, {i \in DOMAIN marked : Live(marked[i]) # {}})]

\* The neighbours that compaction puts together: small, or with deleted
\* rows, and covered by the same deltas of the ANN index.
DeltasOf(version, frag) == {d \in DOMAIN version.ann : frag.id \in version.ann[d]}
Binned(version, i, j) ==
  /\ \A k \in i..j : Small(version.frags[k]) \/ version.frags[k].dead # {}
  /\ \A k \in i..j : DeltasOf(version, version.frags[k]) = DeltasOf(version, version.frags[i])
Bins(version) ==
  LET n == Len(version.frags)
      whole(i, j) == /\ Binned(version, i, j)
                     /\ i = 1 \/ ~Binned(version, i - 1, j)
                     /\ j = n \/ ~Binned(version, i, j + 1)
  IN {b \in (1..n) \X (1..n) :
        b[1] <= b[2] /\ whole(b[1], b[2])
        /\ (b[1] < b[2] \/ version.frags[b[1]].dead # {})}

BinOf(version, i) == {b \in Bins(version) : b[1] <= i /\ i <= b[2]}
MyBin(version, i) == CHOOSE b \in BinOf(version, i) : TRUE

\* Each bin becomes one fragment, in the place of its first.
Merged(version, first, i) ==
  IF BinOf(version, i) = {} THEN version.frags[i]
  ELSE [id |-> first + MyBin(version, i)[1], dead |-> {},
        rows |-> UNION {Live(version.frags[k]) : k \in MyBin(version, i)[1]..MyBin(version, i)[2]}]
Firsts(version) ==
  {i \in DOMAIN version.frags : BinOf(version, i) = {} \/ i = MyBin(version, i)[1]}

\* The indices follow the rows.
Moved(version, first, ids) ==
  LET idsOf(b) == {version.frags[k].id : k \in b[1]..b[2]} IN
  (ids \ UNION {idsOf(b) : b \in Bins(version)})
  \cup {first + b[1] : b \in {b \in Bins(version) : idsOf(b) \subseteq ids}}

Compacted(version, first) ==
  [version EXCEPT
     !.frags = Picked([i \in DOMAIN version.frags |-> Merged(version, first, i)], Firsts(version)),
     !.scalar = [c \in DOMAIN @ |-> Moved(version, first, @[c])],
     !.ann = [d \in DOMAIN @ |-> Moved(version, first, @[d])]]

-----------------------------------------------------------------------------
(* Opening. *)

VTInit ==
  /\ store = NoStore /\ log = <<>> /\ kept = {} /\ disk = {} /\ content = {}
  /\ made = [chunks |-> 0, frags |-> 0, syncs |-> 0, passes |-> 0, deaths |-> 0]
  /\ limits \in Bounds
  /\ job = NoJob /\ now = 0

Opening(at) == job.op = "new" /\ job.at = at

new == /\ job.op = "none"
       /\ \E e \in limits.embedders :
            job' = [NoJob EXCEPT !.op = "new", !.at = "table", !.by = e]
       /\ UNCHANGED <<store, log, kept, disk, content, made, now, limits>>

Empty == [frags |-> <<>>, scalar |-> <<>>, ann |-> <<>>, old |-> WithOldIndex, made |-> 0]

create_table ==
  /\ Opening("table") /\ ~store.table
  /\ store' = [store EXCEPT !.table = TRUE, !.dim = Dim[job.by]]
  /\ Publish(Empty)
  /\ job' = [job EXCEPT !.at = "indices"]
  /\ UNCHANGED <<disk, content, made, now, limits>>

\* One commit per column.
create_indices ==
  /\ Opening("indices")
  /\ LET k == Cardinality(DOMAIN Latest.scalar) + 1 IN
       /\ Publish([Latest EXCEPT !.scalar =
            [c \in {SCALAR_INDEX_COLUMNS[i] : i \in 1..k} |-> {}]])
       /\ job' = [job EXCEPT !.at = IF k = Len(SCALAR_INDEX_COLUMNS) THEN "identity" ELSE "indices"]
  /\ UNCHANGED <<store, disk, content, made, now, limits>>

table_exists == /\ Opening("table") /\ store.table
                /\ job' = [job EXCEPT !.at = "identity"]
                /\ UNCHANGED <<store, log, kept, disk, content, made, now, limits>>

\* The identity is recorded once; another embedder is refused.
check_identity ==
  /\ Opening("identity")
  /\ store' = [store EXCEPT !.meta = IF @ = {} THEN {job.by} ELSE @]
  /\ job' = IF store'.meta = {job.by} THEN [job EXCEPT !.op = "open", !.at = "open"] ELSE NoJob
  /\ UNCHANGED <<log, kept, disk, content, made, now, limits>>

\* A probe opens only what is complete, and makes nothing.
open_existing(e) ==
  IF store.meta = {} THEN "not found"
  ELSE IF store.meta # {e} THEN "mismatch"
  ELSE IF ~store.table THEN "not found" ELSE "open"

-----------------------------------------------------------------------------
(* Writes of a sync: the chunks of the files go, new ones come. *)

Ready == job.op = "open" /\ job.at = "open"

delete_by_file_paths(files) ==
  /\ Publish(WithoutFiles(Latest, files))
  /\ content' = {c \in content : c.file \notin files}

chunks_to_batch(files) == {[n |-> made.syncs, file |-> f, by |-> job.by] : f \in files}

\* A batch is one fragment.  Vectors of another dimension are refused.
insert_chunks(files) ==
  LET rows == chunks_to_batch(files)
      id == made.frags + 1
  IN /\ store.dim = Dim[job.by]
     /\ Publish([Latest EXCEPT !.frags = Append(@, [id |-> id, rows |-> rows, dead |-> {}])])
     /\ disk' = disk \cup {id}
     /\ content' = content \cup rows
     /\ made' = [made EXCEPT !.chunks = @ + Cardinality(files), !.frags = id]

-----------------------------------------------------------------------------
(* Maintenance, one write after the other. *)

Doing(step) == job.op = "maintain" /\ job.at = step
Goes(step) == job' = [job EXCEPT !.at = step]

maintain ==
  /\ Ready /\ made.passes < limits.passes
  /\ made' = [made EXCEPT !.passes = @ + 1]
  /\ job' = [job EXCEPT !.op = "maintain", !.at = "drop",
                        !.deltas = Len(Latest.ann), !.merged = Len(Latest.ann) > MaxDeltas]
  /\ UNCHANGED <<store, log, kept, disk, content, now, limits>>

drop_unused ==
  /\ Doing("drop") /\ Goes("index")
  /\ IF Latest.old THEN Publish([Latest EXCEPT !.old = FALSE]) ELSE UNCHANGED <<log, kept>>
  /\ UNCHANGED <<store, disk, content, made, now, limits>>

\* The rows written since the last pass become a delta of their own, or all
\* deltas one; a scalar index is extended in place.
Extended(version) ==
  LET ids == FragIds(version)
      unseen == ids \ UNION ToSet(version.ann)
  IN [version EXCEPT
        !.scalar = [c \in DOMAIN @ |-> ids],
        !.ann = IF @ = <<>> THEN @
                ELSE IF job.deltas > MaxDeltas THEN <<ids>>
                ELSE IF unseen = {} THEN @ ELSE Append(@, unseen)]

extend_indices ==
  /\ Doing("index") /\ Goes("compact")
  /\ IF Extended(Latest) # Latest THEN Publish(Extended(Latest)) ELSE UNCHANGED <<log, kept>>
  /\ UNCHANGED <<store, disk, content, made, now, limits>>

compact ==
  /\ Doing("compact") /\ Goes("ann")
  /\ IF Cardinality(SmallOnes(Latest)) >= MinSmall /\ Bins(Latest) # {}
     THEN LET after == Compacted(Latest, made.frags) IN
          /\ Publish(after)
          /\ disk' = disk \cup FragIds(after)
          /\ made' = [made EXCEPT !.frags = @ + Len(Latest.frags)]
     ELSE UNCHANGED <<log, kept, disk, made, limits>>
  /\ UNCHANGED <<store, content, now, limits>>

\* Only a table the pass found without the index gets one.
ensure_ann_index ==
  /\ Doing("ann") /\ Goes("prune")
  /\ IF /\ job.deltas = 0 /\ AnnMinRows # 0
        /\ Latest.ann = <<>> /\ Cardinality(Rows(Latest)) >= AnnMinRows
     THEN Publish([Latest EXCEPT !.ann = <<FragIds(Latest)>>])
     ELSE UNCHANGED <<log, kept>>
  /\ UNCHANGED <<store, disk, content, made, now, limits>>

Pruned == {v \in kept : v # Len(log) /\ now - log[v].made > Keep}

prune ==
  /\ Doing("prune") /\ job' = [job EXCEPT !.op = "open", !.at = "pruned"]
  /\ kept' = kept \ Pruned
  /\ disk' = disk \ ((UNION {FragIds(log[v]) : v \in Pruned})
                     \ (UNION {FragIds(log[v]) : v \in kept \ Pruned}))
  /\ UNCHANGED <<store, log, content, made, now, limits>>

-----------------------------------------------------------------------------

\* The stores are closed after the write, or after the pass.
closes == /\ job.op = "open" /\ job.at \in {"open", "pruned"}
          /\ job' = NoJob
          /\ UNCHANGED <<store, log, kept, disk, content, made, now, limits>>

Dies == /\ job.op # "none" /\ made.deaths < limits.deaths
        /\ job' = NoJob
        /\ made' = [made EXCEPT !.deaths = @ + 1]
        /\ UNCHANGED <<store, log, kept, disk, content, now, limits>>

\* Time passes between the jobs.
Tick == /\ job.op = "none" /\ now < limits.time /\ now' = now + 1
        /\ UNCHANGED <<store, log, kept, disk, content, made, job, limits>>

-----------------------------------------------------------------------------
(* What an index and a layout say. *)

layout ==
  [version |-> Len(log), fragments |-> Len(Latest.frags), rows |-> Cardinality(Rows(Latest)),
   indices |-> {[name |-> c, deltas |-> 1, indexed |-> FragIds(Latest) \cap Latest.scalar[c]] :
                  c \in DOMAIN Latest.scalar}
               \cup (IF Latest.ann = <<>> THEN {}
                     ELSE {[name |-> "vector_idx", deltas |-> Len(Latest.ann),
                            indexed |-> FragIds(Latest) \cap UNION ToSet(Latest.ann)]})]
count == Cardinality(Rows(Latest))
indexed_file_paths == {c.file : c \in Rows(Latest)}
Id(c) == [n |-> c.n, file |-> c.file]
chunks_by_ids(version, ids) == {c \in Rows(log[version]) : Id(c) \in ids}

\* How many candidates are read again with their exact distance.
refine_factor(budget, limit) ==
  LET n == IF limit = 0 THEN 1 ELSE limit
      f == (budget + n - 1) \div n
  IN IF f = 0 THEN 1 ELSE f
ann_sub_vectors(dim) == IF dim % 8 = 0 THEN {dim \div 8} ELSE {}

-----------------------------------------------------------------------------
(* Properties. *)

Chunk == [n : Nat, file : Files, by : Embedders]
Fragment == [id : Nat, rows : SUBSET Chunk, dead : SUBSET Chunk]
Scalars ==
  [{} -> SUBSET Nat] \cup [{"id"} -> SUBSET Nat] \cup [{"id", "file_path"} -> SUBSET Nat]
Version == [frags : Seq(Fragment), scalar : Scalars, ann : Seq(SUBSET Nat), old : BOOLEAN, made : Nat]
Directories == [table : BOOLEAN, dim : Nat, meta : SUBSET Embedders]
Counts == [chunks : Nat, frags : Nat, syncs : Nat, passes : Nat, deaths : Nat]
Ops == {"none", "new", "open", "sync", "maintain"}
Steps == {"none", "table", "indices", "identity", "open", "insert", "commit",
          "drop", "index", "compact", "ann", "prune", "pruned"}
Jobs == [op : Ops, at : Steps, by : Embedders \cup {"none"},
         files : SUBSET Files, deltas : Nat, merged : BOOLEAN]
TableTypes ==
  /\ store \in Directories /\ made \in Counts /\ job \in Jobs
  /\ log \in Seq(Version) /\ kept \subseteq DOMAIN log /\ disk \subseteq Nat /\ content \subseteq Chunk
  /\ limits \in Bounds /\ now \in Nat

\* Through deletes, merges, index passes, prunes and deaths the newest
\* version holds exactly the chunks that were written and not deleted.
NothingLost == log # <<>> => Rows(Latest) = content /\ count = Cardinality(content)

\* Whatever a prune leaves can be read whole: the newest version always, and
\* no version that is younger than Keep goes.
KeptAreWhole ==
  /\ log # <<>> => Len(log) \in kept
  /\ \A v \in kept : FragIds(log[v]) \subseteq disk
  /\ \A v \in DOMAIN log : now - log[v].made <= Keep => v \in kept

\* A pass that ran to its end has covered every row by every index, has left
\* no file that only an old version names, and did not let deltas pile up.
PassesHold ==
  job.at = "pruned" =>
    /\ \A i \in layout.indices : i.indexed = FragIds(Latest)
    /\ disk = UNION {FragIds(log[v]) : v \in kept}
    /\ ~Latest.old

DeltasBounded == log # <<>> => Len(Latest.ann) <= MaxDeltas + 1

\* A pass that merged the deltas leaves no two neighbours to merge.
MergedPassesCompact ==
  (job.at = "pruned" /\ job.merged /\ Cardinality(SmallOnes(Latest)) >= MinSmall) =>
     \A i \in 1..(Len(Latest.frags) - 1) : ~(Small(Latest.frags[i]) /\ Small(Latest.frags[i + 1]))

\* All vectors of a table are from the embedder its metadata names, and a
\* probe that opens it reads no other.
OneEmbedder ==
  /\ \A c \in content : store.meta = {c.by}
  /\ \A e \in Embedders : open_existing(e) = "open" => \A c \in content : c.by = e

\* What the proofs add.  No fragment has another's id, in any version; the
\* ids are ones that were given out, and the vectors one embedder's.
DistinctIds(version) ==
  \A i, j \in DOMAIN version.frags : version.frags[i].id = version.frags[j].id => i = j
VersionsHold ==
  \A v \in DOMAIN log : /\ DistinctIds(log[v])
                        /\ \A id \in FragIds(log[v]) : id <= made.frags
                        /\ \A c \in Rows(log[v]) : store.meta = {c.by}

\* Who has the table open is the embedder it is for.
OpenedByOne ==
  /\ store.table <=> log # <<>>
  /\ log = <<>> => content = {} /\ store.meta = {}
  /\ job.op # "none" => job.by \in Embedders
  /\ job.op \in {"open", "sync", "maintain"} => log # <<>> /\ store.meta = {job.by}
  /\ job.op = "new" => /\ job.at \in {"table", "indices", "identity"}
                       /\ job.at # "table" => log # <<>>
                       /\ job.at = "indices" => DOMAIN Latest.scalar \in {{}, {"id"}}
  /\ job.op = "open" => job.at \in {"open", "pruned"}

\* Nothing is on disk that no version names.
DiskIsNamed == disk = UNION {FragIds(log[v]) : v \in kept}

\* How far a pass is.
Covered(version) ==
  /\ \A c \in DOMAIN version.scalar : FragIds(version) \subseteq version.scalar[c]
  /\ version.ann # <<>> => FragIds(version) \subseteq UNION ToSet(version.ann)
NoSmallNeighbours(version) ==
  \A i \in 1..(Len(version.frags) - 1) : ~(Small(version.frags[i]) /\ Small(version.frags[i + 1]))
PassGoesOn ==
  /\ job.op = "maintain" => job.at \in {"drop", "index", "compact", "ann", "prune"}
  /\ job.at \in {"drop", "index"} => job.deltas = Len(Latest.ann) /\ job.merged = (job.deltas > MaxDeltas)
  /\ job.at \in {"index", "compact", "ann", "prune", "pruned"} => ~Latest.old
  /\ job.at \in {"compact", "ann", "prune", "pruned"} => Covered(Latest)
  /\ job.at = "compact" /\ job.merged => Latest.ann = <<FragIds(Latest)>>
  /\ job.at \in {"ann", "prune", "pruned"} /\ job.merged /\ Cardinality(SmallOnes(Latest)) >= MinSmall
       => NoSmallNeighbours(Latest)

TableInv ==
  /\ TableTypes /\ VersionsHold /\ OpenedByOne /\ DiskIsNamed /\ PassGoesOn
  /\ NothingLost /\ KeptAreWhole /\ DeltasBounded

RefineCovers ==
  \A budget \in 0..6, limit \in 0..6 :
    LET f == refine_factor(budget, limit) IN
    f >= 1 /\ f * (IF limit = 0 THEN 1 ELSE limit) >= budget
    /\ (f > 1 => (f - 1) * (IF limit = 0 THEN 1 ELSE limit) < budget)
=============================================================================
