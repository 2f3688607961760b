---------------------------- MODULE IndexHealth -----------------------------
(***************************************************************************)
(* health_check beside the indexing runs of IndexSync: what a probe reads  *)
(* of the four stores and of the tree, at which moments, and the verdict   *)
(* it returns.                                                             *)
(*                                                                         *)
(* A probe opens the two search stores, reads the cache and the snapshot,  *)
(* compares the snapshot with the tree, and lists the files of the vector  *)
(* store last: runs and edits go on between these readings.                *)
(***************************************************************************)
EXTENDS IndexSync

VARIABLE probe   \* the health_check in progress, or its answer

healthVars == <<vars, probe>>

\* at: where the probe is. project: was a directory given? cached, merkle, fresh:
\* what it has read so far. stale, outside: the examples of its coverage report.
\* looked: did its walk of the tree go through? quiet: has nothing else happened
\* since it opened the stores? vouched: was every file with chunks in the vector
\* store when the tree was compared?
NoProbe ==
    [at |-> "none", project |-> TRUE, cached |-> {}, merkle |-> "degraded",
     fresh |-> "degraded", stale |-> {}, outside |-> {}, overall |-> "degraded",
     looked |-> FALSE, quiet |-> TRUE, vouched |-> TRUE]

HealthInit == Init /\ probe = NoProbe

-----------------------------------------------------------------------------
(* The components *)

\* A search store that cannot be opened is not configured, hence degraded; one
\* that opens and cannot be read is unhealthy.
Statuses == {"healthy", "degraded", "unhealthy"}

\* Without a directory the snapshot's path is one that does not exist.
check_merkle(project) == IF project /\ saved THEN "healthy" ELSE "degraded"

\* detect_disk_changes compares path by path, not root by root.
DiskChanges == Added(tree, snapshot) \cup Modified(tree, snapshot) \cup Deleted(tree, snapshot)

check_freshness(project) ==
    IF project /\ saved /\ DiskChanges = {} THEN "healthy" ELSE "degraded"

\* The paths the cache has under this profile. A run holds the cache for as
\* long as it lasts, and a cache that is missing or held is not read.
CachedPaths == {p \in Paths : cache[p] # <<Absent, Absent>>}

read_cached_paths(project) ==
    IF project /\ pc = "idle" THEN {{}, CachedPaths} ELSE {{}}

\* A file is outside if neither the walk nor the snapshot has it.
OutsideTree(walked_) == Present(vectors) \ (walked_ \cup Present(snapshot))

\* Mutant: files that are gone are only examples in the report.
check_coverage_CachedOnly(cached, outside) ==
    IF cached # {} /\ cached \subseteq Present(vectors) THEN "healthy" ELSE "degraded"

\* The verdict of check_coverage; an empty comparison is not a pass, and a
\* failed walk proves nothing about the files it did not see.
check_coverage(cached, outside) ==
    IF cached # {} /\ cached \subseteq Present(vectors) /\ outside = {} THEN "healthy"
    ELSE "degraded"

calculate_overall_status(bm25_, vector, others) ==
    IF bm25_ = "unhealthy" /\ vector = "unhealthy" THEN "unhealthy"
    ELSE IF {bm25_, vector} \cup others = {"healthy"} THEN "healthy" ELSE "degraded"

-----------------------------------------------------------------------------
(* A health_check, reading by reading *)

\* The embedder and the paths are resolved, and the search stores opened.
OpenStores ==
    /\ probe.at = "none"
    /\ \E project \in BOOLEAN :
          probe' = [probe EXCEPT !.at = IF project THEN "opened" ELSE "compared",
                                 !.project = project]
    /\ UNCHANGED vars

\* check_merkle, and check_coverage up to the listing of the vector store.
ReadCache ==
    /\ probe.at = "opened"
    /\ \E paths \in read_cached_paths(probe.project) :
          probe' = [probe EXCEPT !.at = "cached", !.cached = paths,
                                 !.merkle = check_merkle(probe.project)]
    /\ UNCHANGED vars

Indexed == \A p \in Paths : tree[p] \in Code => vectors[p] = tree[p]

CompareTree ==
    /\ probe.at = "cached"
    /\ probe' = [probe EXCEPT !.at = "compared", !.fresh = check_freshness(probe.project),
                              !.vouched = Indexed]
    /\ UNCHANGED vars

\* The rest of check_coverage: the files of the vector store, if it can be
\* opened and listed, the snapshot, and a walk of the tree that may have errors.
ListStore ==
    /\ probe.at = "compared"
    /\ \E bm25_, vector \in Statuses, looked \in BOOLEAN :
          LET outside == IF looked THEN OutsideTree(Present(tree)) ELSE {}
              listed == vector = "healthy" /\ probe.cached # {}
              coverage == IF listed THEN check_coverage(probe.cached, outside)
                          ELSE "degraded"
          IN  probe' = [probe EXCEPT
                 !.at = "answered",
                 !.stale = IF listed THEN @ \cup (probe.cached \ Present(vectors)) ELSE @,
                 !.outside = IF listed THEN outside ELSE @,
                 !.looked = looked,
                 !.overall = calculate_overall_status(bm25_, vector,
                                 {probe.merkle, probe.fresh, coverage})]
    /\ UNCHANGED vars

health_check == OpenStores \/ ReadCache \/ CompareTree \/ ListStore

\* Runs, edits and clear_cache go on during a probe.
WhileProbed ==
    /\ probe.at # "answered"
    /\ Next
    /\ probe' = IF probe.at = "none" THEN probe ELSE [probe EXCEPT !.quiet = FALSE]

HealthNext == health_check \/ WhileProbed

HealthSpec == HealthInit /\ [][HealthNext]_healthVars

-----------------------------------------------------------------------------
(* Properties *)

Answered == probe.at = "answered"

\* "HEALTHY" means indexed: when the probe compared the tree with the snapshot,
\* every file with chunks was in the vector store as it was on disk, whatever
\* runs, failures and crashes came before or in between.
HealthyIsIndexed == Answered /\ probe.overall = "healthy" => probe.vouched

NoGhosts == Present(vectors) \subseteq Present(tree)

\* ... and, if nothing moved during the probe and its walk had no errors, the
\* vector store holds no file that is gone and that a search could answer with.
HealthyHasNoGhosts ==
    Answered /\ probe.overall = "healthy" /\ probe.quiet /\ probe.looked => NoGhosts

\* No false alarm: after runs without a failure, and whatever the
\* user did to the files, no cached file is reported to be without its vectors.
NoFalseAlarm ==
    Answered /\ probe.quiet /\ faults = 0 /\ Oversize = {} => probe.stale = {}

HealthHolds == HealthyIsIndexed /\ HealthyHasNoGhosts /\ NoFalseAlarm

\* As long as nothing fails, a cached file has vectors, or the run that took them
\* away is about to forget it or to write them anew.
CachedHaveVectors ==
    faults = 0 /\ Oversize = {} =>
       /\ cleared = {}
       /\ \A p \in CachedPaths :
             \/ vectors[p] # Absent
             \/ p \in gone /\ pc \in {"insert", "record", "forget", "dropCommit", "repairCommit"}
             \/ pc = "insert" /\ prepared[p] # Absent

\* Type invariant of a probe.
Probes ==
    [at : {"none", "opened", "cached", "compared", "answered"}, project : BOOLEAN,
     cached : SUBSET Paths, merkle : Statuses, fresh : Statuses, stale : SUBSET Paths,
     outside : SUBSET Paths, overall : Statuses, looked : BOOLEAN, quiet : BOOLEAN,
     vouched : BOOLEAN]

\* What a probe has read stands for what it read it for, as long as it is quiet.
ReadingsStand ==
    /\ probe.at = "none" => probe = NoProbe
    /\ probe.at # "answered" => probe.stale = {}
    /\ probe.fresh = "healthy" => probe.vouched
    /\ probe.at = "compared" /\ probe.quiet /\ probe.fresh = "healthy" => DiskChanges = {}
    /\ probe.at \in {"cached", "compared"} /\ probe.quiet =>
          probe.cached = {} \/ (pc = "idle" /\ probe.cached = CachedPaths)

\* What makes the verdict trustworthy, as an inductive invariant.
HealthInv ==
    /\ IInv /\ probe \in Probes
    /\ Careful => PreparedIsThere /\ CachedHaveVectors /\ ReadingsStand /\ HealthHolds

\* "We did not look" does not read as "we looked and it is fine": the same of a
\* probe whose walk had errors.
NotLookedIsNotHealthy ==
    Answered /\ probe.overall = "healthy" /\ probe.quiet => NoGhosts

\* A cached file without vectors is one the indexer would skip although there is
\* something to index.
StaleSkipsAreSkips ==
    Answered /\ probe.quiet => \A p \in probe.stale : tree[p] \in Code /\ Unchanged(p)
=============================================================================
