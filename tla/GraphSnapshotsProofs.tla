------------------------ MODULE GraphSnapshotsProofs ------------------------
(***************************************************************************)
(* Proofs about the snapshots of the graph: what the incremental plan      *)
(* leaves untouched, and what a published snapshot holds.                  *)
(***************************************************************************)
EXTENDS GraphSnapshots, FiniteSetTheorems, TLAPS

-----------------------------------------------------------------------------
(* Dependents and dependencies.                                            *)

LEMMA LeastIsLeast ==
  ASSUME NEW seeds, NEW step, NEW T \in SUBSET Crates,
         seeds \subseteq T, \A d \in T : step[d] \subseteq T
  PROVE  Least(seeds, step) \subseteq T
  BY DEF Least

LEMMA LeastIsClosed ==
  ASSUME NEW seeds \in SUBSET Crates, NEW step \in [Crates -> SUBSET Crates]
  PROVE  /\ Least(seeds, step) \subseteq Crates /\ seeds \subseteq Least(seeds, step)
         /\ \A d \in Least(seeds, step) : step[d] \subseteq Least(seeds, step)
<1>1. Least(seeds, step) \subseteq Crates /\ seeds \subseteq Least(seeds, step)
  BY DEF Least
<1>2. ASSUME NEW d \in Least(seeds, step), NEW c \in step[d]
      PROVE  c \in Least(seeds, step)
  <2>1. c \in Crates
    BY <1>1
  <2>2. ASSUME NEW S \in SUBSET Crates, seeds \subseteq S, \A x \in S : step[x] \subseteq S
        PROVE  c \in S
    BY <2>2 DEF Least
  <2> QED
    BY <2>1, <2>2 DEF Least
<1> QED
  BY <1>1, <1>2

\* Whoever depends on a crate that changed, over any number of crates between
\* them, is among its dependents (with_dependents).
LEMMA DependentsAreFound ==
  ASSUME NEW S \in SUBSET Crates, NEW c \in Crates, NEW d \in DependencyClosure(c), d \in S
  PROVE  c \in with_dependents(S)
<1> DEFINE dependents == [x \in Crates |-> {y \in Crates : x \in Deps[y]}]
           W == with_dependents(S)
<1>1. dependents \in [Crates -> SUBSET Crates]
  OBVIOUS
<1>2. W \subseteq Crates /\ S \subseteq W /\ \A x \in W : dependents[x] \subseteq W
  BY <1>1, LeastIsClosed DEF with_dependents
<1>3. SUFFICES ASSUME c \notin W
               PROVE  FALSE
  OBVIOUS
<1> HIDE DEF W
<1>4. ASSUME NEW x \in Crates \ W
      PROVE  Deps[x] \subseteq Crates \ W
  <2>1. Deps[x] \subseteq Crates
    BY SnapshotsAssumption
  <2>2. ASSUME NEW y \in Deps[x], y \in W
        PROVE  FALSE
    <3>1. x \in dependents[y]
      BY <2>1, <2>2
    <3> QED
      BY <3>1, <2>2, <1>2
  <2> QED
    BY <2>1, <2>2
<1>5. DependencyClosure(c) \subseteq Crates \ W
  <2>1. {c} \subseteq Crates \ W /\ Crates \ W \in SUBSET Crates
    BY <1>3
  <2> QED
    BY <2>1, <1>4, LeastIsLeast DEF DependencyClosure
<1> QED
  BY <1>5, <1>2

LEMMA CratesOfType ==
  ASSUME NEW t \in Trees
  PROVE  CratesOf(t) \subseteq Crates
<1>1. ASSUME NEW p \in Packages
      PROVE  CratesAt[<<p, t.pkgs[p]>>] \subseteq Crates
  <2>1. <<p, t.pkgs[p]>> \in Packages \X Versions
    BY DEF Trees
  <2> HIDE DEF Trees
  <2>2. CratesAt \in [Packages \X Versions -> SUBSET Crates]
    BY SnapshotsAssumption
  <2> QED
    BY <2>1, <2>2
<1> QED
  BY <1>1 DEF CratesOf

\* What a crate of a tree depends on is in the tree.
LEMMA ClosureIsThere ==
  ASSUME NEW t \in Trees, NEW c \in CratesOf(t)
  PROVE  DependencyClosure(c) \subseteq CratesOf(t)
<1>1. CratesOf(t) \in SUBSET Crates /\ {c} \subseteq CratesOf(t)
  BY CratesOfType
<1>2. \A d \in CratesOf(t) : Deps[d] \subseteq CratesOf(t)
  BY SnapshotsAssumption
<1> QED
  BY <1>1, <1>2, LeastIsLeast DEF DependencyClosure

\* The rows of a crate that the incremental plan leaves alone are the same in
\* both trees (plan_build).
LEMMA UntouchedRowsAgree ==
  ASSUME NEW t \in Trees, NEW u \in Trees, t.global = u.global, NEW c \in CratesOf(t),
         c \notin with_dependents(
                    {x \in CratesOf(t) : crate_packages[x] \cap changed_packages(t, u) # {}})
  PROVE  RowsOf(c, u) = RowsOf(c, t)
<1> DEFINE S == {x \in CratesOf(t) : crate_packages[x] \cap changed_packages(t, u) # {}}
<1>1. S \in SUBSET Crates /\ c \in Crates
  BY CratesOfType
<1>2. ASSUME NEW p \in ReadBy[c]
      PROVE  t.pkgs[p] = u.pkgs[p]
  <2>1. PICK d \in DependencyClosure(c) : p \in crate_packages[d]
    BY <1>1 DEF ReadBy
  <2>2. d \in CratesOf(t) /\ d \in Crates
    BY ClosureIsThere, CratesOfType
  <2>3. p \in Packages
    BY <2>1, <2>2, SnapshotsAssumption
  <2>4. d \notin S
    BY <1>1, DependentsAreFound
  <2>5. crate_packages[d] \cap changed_packages(t, u) = {}
    BY <2>2, <2>4
  <2> QED
    BY <2>1, <2>3, <2>5 DEF changed_packages
<1>3. [p \in ReadBy[c] |-> u.pkgs[p]] = [p \in ReadBy[c] |-> t.pkgs[p]]
  BY <1>2
<1> QED
  BY <1>3 DEF RowsOf

-----------------------------------------------------------------------------
(* Types.                                                                  *)

LEMMA RowsOfType ==
  ASSUME NEW c \in Crates, NEW t \in Trees
  PROVE  RowsOf(c, t) \in RowSets /\ RowsOf(c, t) # None
<1>1. RowsOf(c, t) \in RowSets
  BY DEF RowSets
<1>2. RowsOf(c, t) # None
  BY DEF RowsOf, None
<1> QED
  BY <1>1, <1>2

LEMMA FullRowsType ==
  ASSUME NEW t \in Trees
  PROVE  FullRows(t) \in [Crates -> RowSets]
<1>1. None \in RowSets
  BY DEF RowSets
<1> QED
  BY <1>1, RowsOfType DEF FullRows

LEMMA NoRowsType == NoRows \in [Crates -> RowSets]
  BY DEF NoRows, RowSets

LEMMA NoneIsNoId == None \notin Ids
  BY DEF None, Ids

LEMMA NoJobType == NoJob \in Jobs /\ NoJob.pc = "idle" /\ NoJob.mode = "reuse"
<1>1. <<FirstTree, 0>> \in Ids
  BY SnapshotsAssumption DEF Ids
<1> QED
  BY <1>1, SnapshotsAssumption DEF NoJob, Jobs, Steps

LEMMA NoQueryType == NoQuery \in Queries /\ NoQuery.pc = "idle"
  BY NoRowsType DEF NoQuery, Queries

LEMMA FreshIdIsFree ==
  ASSUME TypeOK, NEW g \in Ids, Exists(g) => new_ids(g) # {}
  PROVE  FreshId(g) \in Ids /\ FreshId(g)[1] = g[1] /\ ~Exists(FreshId(g))
<1>1. CASE ~Exists(g)
  BY <1>1 DEF FreshId
<1>2. CASE Exists(g)
  <2>1. FreshId(g) \in new_ids(g)
    BY <1>2 DEF FreshId
  <2> QED
    BY <2>1 DEF new_ids
<1> QED
  BY <1>1, <1>2

LEMMA JobType ==
  ASSUME TypeOK, NEW b \in Builders
  PROVE  /\ job[b] \in Jobs /\ job[b].graph_id \in Ids /\ job[b].inputs \in Trees
         /\ job[b].loaded \in Trees /\ job[b].dirty \subseteq Crates
         /\ job[b].seen \in 0 .. MaxEdits /\ job[b].pc \in Steps
<1>1. job[b] \in Jobs
  BY DEF TypeOK
<1> QED
  BY <1>1 DEF Jobs

\* A failed attempt leaves the build idle or at its start, and every snapshot as
\* it is but the one it staged, which is gone (Fail).
LEMMA FailEffect ==
  ASSUME TypeOK, NEW b \in Builders, NEW retry \in BOOLEAN, Fail(b, retry)
  PROVE  /\ \E y \in Jobs : y.pc \in {"idle", "start"} /\ job' = [job EXCEPT ![b] = y]
         /\ UNCHANGED <<root, lockfile, current>>
         /\ manifest' \in [Ids -> {"absent", "none", "torn", "whole"}]
         /\ rows' \in [Ids -> [Crates -> RowSets]]
         /\ \A g \in Ids :
              \/ manifest'[g] = manifest[g] /\ rows'[g] = rows[g]
              \/ Staged(b) /\ g = job[b].graph_id /\ manifest'[g] = "absent"
<1>1. \E y \in Jobs : y.pc \in {"idle", "start"} /\ job' = [job EXCEPT ![b] = y]
  <2>1. CASE retry /\ job[b].attempt < Attempts
    <3> DEFINE y == [NoJob EXCEPT !.pc = "start", !.mode = job[b].mode,
                                  !.attempt = job[b].attempt + 1]
    <3>1. job[b].attempt + 1 \in 1 .. Attempts /\ job[b].mode \in {"force", "reuse"}
      BY <2>1, JobType, SnapshotsAssumption DEF Jobs
    <3>2. y \in Jobs /\ y.pc = "start"
      BY <3>1, NoJobType DEF Jobs, Steps
    <3>3. job' = [job EXCEPT ![b] = y]
      BY <2>1 DEF Fail, TypeOK
    <3> QED
      BY <3>2, <3>3
  <2>2. CASE ~(retry /\ job[b].attempt < Attempts)
    <3>1. job' = [job EXCEPT ![b] = NoJob]
      BY <2>2 DEF Fail
    <3> QED
      BY <3>1, NoJobType
  <2> QED
    BY <2>1, <2>2
<1>2. UNCHANGED <<root, lockfile, current>>
  BY DEF Fail
<1>3. CASE ~Staged(b)
  BY <1>1, <1>2, <1>3 DEF Fail, TypeOK
<1>4. CASE Staged(b)
  <2>1. /\ manifest' = [manifest EXCEPT ![job[b].graph_id] = "absent"]
        /\ rows' = [rows EXCEPT ![job[b].graph_id] = NoRows]
    BY <1>4 DEF Fail
  <2> QED
    BY <1>1, <1>2, <1>4, <2>1, NoRowsType DEF TypeOK
<1> QED
  BY <1>3, <1>4

\* Only a build stages a snapshot, one at a time: what is on disk stays countable.
LEMMA DiskStaysFinite ==
  ASSUME DiskIsFinite, NEW new, \A g \in Ids : manifest'[g] # "absent" => Exists(g) \/ g = new
  PROVE  DiskIsFinite'
<1>1. IsFiniteSet({g \in Ids : Exists(g)} \cup {new})
  BY FS_AddElement DEF DiskIsFinite
<1>2. {g \in Ids : Exists(g)'} \subseteq {g \in Ids : Exists(g)} \cup {new}
  BY DEF Exists
<1> QED
  BY <1>1, <1>2, FS_Subset DEF DiskIsFinite

Types == TypeOK /\ DiskIsFinite

LEMMA TypesHoldAtFirst == Init => Types
<1> SUFFICES ASSUME Init PROVE Types
  OBVIOUS
<1>1. TypeOK
  <2>1. /\ FirstTree \in Trees
        /\ 0 \in 0 .. MaxEdits /\ 0 \in 0 .. MaxClears /\ 0 \in 0 .. MaxCalls /\ 0 \in 0 .. MaxFaults
    BY SnapshotsAssumption
  <2>2. job \in [Builders -> Jobs] /\ query \in [Readers -> Queries]
    BY NoJobType, NoQueryType DEF Init
  <2>3. /\ manifest \in [Ids -> {"absent", "none", "torn", "whole"}]
        /\ rows \in [Ids -> [Crates -> RowSets]]
    BY NoRowsType DEF Init
  <2> QED
    BY <2>1, <2>2, <2>3 DEF Init, TypeOK
<1>2. {g \in Ids : Exists(g)} = {}
  BY DEF Init, Exists
<1> QED
  BY <1>1, <1>2, FS_EmptySet DEF Types, DiskIsFinite

LEMMA FailKeepsTypes ==
  ASSUME Types, NEW b \in Builders, NEW retry \in BOOLEAN, Fail(b, retry),
         UNCHANGED <<tree, stamp, calls, query, strayed, mixed>>, faults' \in 0 .. MaxFaults
  PROVE  Types'
<1>1. TypeOK' /\ \A g \in Ids : manifest'[g] # "absent" => Exists(g) \/ g = job[b].graph_id
  BY FailEffect DEF Types, TypeOK, Exists
<1> QED
  BY <1>1, DiskStaysFinite DEF Types

\* A step that changes no snapshot.
LEMMA KeepsDisk ==
  ASSUME Types, TypeOK', UNCHANGED manifest
  PROVE  Types'
  BY DiskStaysFinite DEF Types, Exists

LEMMA TypesOfSetup ==
  ASSUME Types, NEW b \in Builders,
         Start(b, "force") \/ Start(b, "reuse") \/ OpenLock(b) \/ TakeLock(b)
  PROVE  Types'
<1>0. TypeOK /\ job[b] \in Jobs
  BY JobType DEF Types
<1>1. ASSUME NEW mode \in {"force", "reuse"}, Start(b, mode)
      PROVE  Types'
  <2>1. [NoJob EXCEPT !.pc = "start", !.mode = mode] \in Jobs
    BY NoJobType DEF Jobs, Steps
  <2>2. calls' \in 0 .. MaxCalls
    BY <1>0, <1>1, SnapshotsAssumption DEF TypeOK, Start
  <2>3. TypeOK'
    BY <1>0, <1>1, <2>1, <2>2 DEF TypeOK, Start, disk, history
  <2> QED
    BY <1>1, <2>3, KeepsDisk DEF Start, disk
<1>2. CASE OpenLock(b)
  <2>1. [job[b] EXCEPT !.pc = "open", !.lock = lockfile] \in Jobs
    BY <1>0 DEF TypeOK, Jobs, Steps
  <2>2. job' = [job EXCEPT ![b] = [job[b] EXCEPT !.pc = "open", !.lock = lockfile]]
    BY <1>0, <1>2 DEF OpenLock, TypeOK
  <2>3. TypeOK'
    BY <1>0, <1>2, <2>1, <2>2 DEF TypeOK, OpenLock, history
  <2> QED
    BY <1>2, <2>3, KeepsDisk DEF OpenLock
<1>3. CASE TakeLock(b)
  <2>1. [job[b] EXCEPT !.pc = "stamped", !.seen = stamp] \in Jobs
    BY <1>0 DEF TypeOK, Jobs, Steps
  <2>2. job' = [job EXCEPT ![b] = [job[b] EXCEPT !.pc = "stamped", !.seen = stamp]]
    BY <1>0, <1>3 DEF TakeLock, TypeOK
  <2>3. TypeOK'
    BY <1>0, <1>3, <2>1, <2>2 DEF TypeOK, TakeLock, disk, history
  <2> QED
    BY <1>3, <2>3, KeepsDisk DEF TakeLock, disk
<1> QED
  BY <1>1, <1>2, <1>3

LEMMA CaptureKeepsTypes ==
  ASSUME Types, NEW b \in Builders, Capture(b)
  PROVE  Types'
<1>0. TypeOK /\ job[b] \in Jobs /\ tree \in Trees /\ faults \in 0 .. MaxFaults
  BY JobType DEF Types, TypeOK
<1>1. UNCHANGED <<tree, stamp, calls, faults, query, strayed, mixed>>
  BY DEF Capture, history
<1>2. CASE \E retry \in BOOLEAN : Fail(b, retry)
  BY <1>0, <1>1, <1>2, FailKeepsTypes
<1>3. ASSUME ~\E retry \in BOOLEAN : Fail(b, retry)
      PROVE  Types'
  <2> DEFINE g == reuse_identity
             load == [job[b] EXCEPT !.pc = "load", !.inputs = tree, !.graph_id = <<tree, 0>>]
             reuse == [job[b] EXCEPT !.pc = "reuse", !.inputs = tree, !.graph_id = g]
  <2>1. <<tree, 0>> \in Ids
    BY <1>0, SnapshotsAssumption DEF Ids
  <2>2. g \in Ids
    BY <1>0, <2>1 DEF reuse_identity, TypeOK
  <2> HIDE DEF g
  <2>3. load \in Jobs /\ reuse \in Jobs
    BY <1>0, <2>1, <2>2 DEF Jobs, Steps
  <2>4. /\ UNCHANGED disk
        /\ job' = [job EXCEPT ![b] = load] \/ job' = [job EXCEPT ![b] = reuse]
    BY <1>0, <1>3 DEF Capture, InputChanged, g, TypeOK
  <2>5. job' \in [Builders -> Jobs]
    BY <1>0, <2>3, <2>4 DEF TypeOK
  <2>6. TypeOK'
    BY <1>0, <1>1, <2>4, <2>5 DEF TypeOK, disk
  <2> QED
    BY <2>4, <2>6, KeepsDisk DEF disk
<1> QED
  BY <1>2, <1>3

LEMMA ReuseKeepsTypes ==
  ASSUME Types, NEW b \in Builders, Reuse(b) \/ Publish(b) \/ Load(b) \/ Return(b)
  PROVE  Types'
<1>0. TypeOK /\ job[b] \in Jobs /\ tree \in Trees /\ faults \in 0 .. MaxFaults /\ job[b].graph_id \in Ids
  BY JobType DEF Types, TypeOK
<1>1. UNCHANGED <<tree, stamp, calls, faults, query, strayed, mixed>>
  BY DEF Reuse, Publish, Load, Return, history
<1>2. CASE InputChanged(b)
  BY <1>0, <1>1, <1>2, FailKeepsTypes DEF InputChanged
<1>3. ASSUME ~InputChanged(b)
      PROVE  Types'
  <2>1. /\ UNCHANGED <<root, lockfile, manifest, rows>>
        /\ current' = current \/ current' = job[b].graph_id
    BY <1>0, <1>3 DEF Reuse, Publish, Load, Return, publish_current, disk
  <2>2. /\ [job[b] EXCEPT !.pc = "done"] \in Jobs
        /\ [job[b] EXCEPT !.pc = "prune"] \in Jobs
        /\ [job[b] EXCEPT !.pc = "loaded", !.loaded = tree] \in Jobs
    BY <1>0 DEF Jobs, Steps
  <2>3. \/ job' = [job EXCEPT ![b] = NoJob]
        \/ job' = [job EXCEPT ![b] = [job[b] EXCEPT !.pc = "done"]]
        \/ job' = [job EXCEPT ![b] = [job[b] EXCEPT !.pc = "prune"]]
        \/ job' = [job EXCEPT ![b] = [job[b] EXCEPT !.pc = "loaded", !.loaded = tree]]
    BY <1>0, <1>3 DEF Reuse, Publish, Load, Return, TypeOK
  <2>4. job' \in [Builders -> Jobs]
    BY <1>0, <2>2, <2>3, NoJobType DEF TypeOK
  <2>5. TypeOK'
    BY <1>0, <1>1, <2>1, <2>4 DEF TypeOK
  <2> QED
    BY <2>1, <2>5, KeepsDisk
<1> QED
  BY <1>2, <1>3

LEMMA StageKeepsTypes ==
  ASSUME Types, NEW b \in Builders, Stage(b)
  PROVE  Types'
<1>0. /\ TypeOK /\ job[b] \in Jobs /\ job[b].graph_id \in Ids /\ job[b].loaded \in Trees
      /\ faults \in 0 .. MaxFaults
  BY JobType DEF Types, TypeOK
<1>1. UNCHANGED <<tree, stamp, calls, faults, query, strayed>>
  BY DEF Stage
<1>2. CASE InputChanged(b) /\ UNCHANGED mixed
  BY <1>0, <1>1, <1>2, FailKeepsTypes DEF InputChanged
<1>3. ASSUME ~(InputChanged(b) /\ UNCHANGED mixed)
      PROVE  Types'
  <2> DEFINE g == FreshId(job[b].graph_id)
             base == IF Incremental(b, g) THEN rows[current] ELSE NoRows
             plan == plan_build(b, g)
             y == [job[b] EXCEPT !.pc = "write", !.graph_id = g, !.dirty = plan]
  <2>1. g \in Ids
    BY <1>0, <1>3, FreshIdIsFree DEF Stage
  <2>2. base \in [Crates -> RowSets]
    BY <1>0, NoRowsType DEF Incremental, TypeOK
  <2>3. plan \subseteq Crates
    BY <1>0, CratesOfType DEF plan_build
  <2>4. /\ manifest' = [manifest EXCEPT ![g] = "none"] /\ rows' = [rows EXCEPT ![g] = base]
        /\ job' = [job EXCEPT ![b] = y] /\ UNCHANGED <<root, lockfile, current>>
        /\ mixed' = mixed \/ mixed' = mixed \cup {g}
    BY <1>0, <1>3 DEF Stage, TypeOK
  <2> HIDE DEF g, base, plan
  <2>5. y \in Jobs
    BY <1>0, <2>1, <2>3 DEF Jobs, Steps
  <2> HIDE DEF y
  <2>6. job' \in [Builders -> Jobs] /\ rows' \in [Ids -> [Crates -> RowSets]]
    BY <1>0, <2>1, <2>2, <2>4, <2>5 DEF TypeOK
  <2>7. /\ manifest' \in [Ids -> {"absent", "none", "torn", "whole"}]
        /\ \A h \in Ids : manifest'[h] # "absent" => Exists(h) \/ h = g
    BY <1>0, <2>1, <2>4 DEF TypeOK, Exists
  <2>8. TypeOK'
    BY <1>0, <1>1, <2>1, <2>4, <2>6, <2>7 DEF TypeOK
  <2> QED
    BY <2>7, <2>8, DiskStaysFinite DEF Types
<1> QED
  BY <1>2, <1>3

LEMMA WriteKeepsTypes ==
  ASSUME Types, NEW b \in Builders,
         (\E c \in Crates : WriteCrate(b, c)) \/ EndWrite(b) \/ WriteManifest(b)
  PROVE  Types'
<1>0. /\ TypeOK /\ job[b] \in Jobs /\ job[b].graph_id \in Ids /\ job[b].loaded \in Trees
      /\ faults \in 0 .. MaxFaults /\ job[b].dirty \subseteq Crates
  BY JobType DEF Types, TypeOK
<1>1. UNCHANGED <<tree, stamp, calls, faults, query, strayed, mixed>>
  BY DEF WriteCrate, EndWrite, WriteManifest, history
<1>2. CASE InputChanged(b)
  BY <1>0, <1>1, <1>2, FailKeepsTypes DEF InputChanged
<1>3. ASSUME NEW c \in Crates, WriteCrate(b, c)
      PROVE  Types'
  <2> DEFINE y == [job[b] EXCEPT !.dirty = job[b].dirty \ {c}]
  <2>1. y \in Jobs
    BY <1>0 DEF Jobs
  <2>2. job' = [job EXCEPT ![b] = y] /\ UNCHANGED <<root, lockfile, current, manifest>>
    BY <1>0, <1>3 DEF WriteCrate, TypeOK
  <2> HIDE DEF y
  <2>3. rows' \in [Ids -> [Crates -> RowSets]]
    <3>1. RowsOf(c, job[b].loaded) \in RowSets /\ rows \in [Ids -> [Crates -> RowSets]]
      BY <1>0, RowsOfType DEF TypeOK
    <3>2. \/ rows' = rows
          \/ rows' = [rows EXCEPT ![job[b].graph_id][c] = RowsOf(c, job[b].loaded)]
      BY <1>3 DEF WriteCrate
    <3> QED
      BY <1>0, <3>1, <3>2
  <2>4. TypeOK'
    BY <1>0, <1>1, <2>1, <2>2, <2>3 DEF TypeOK
  <2> QED
    BY <2>2, <2>4, KeepsDisk
<1>4. ASSUME (EndWrite(b) /\ ~InputChanged(b)) \/ WriteManifest(b)
      PROVE  Types'
  <2>1. [job[b] EXCEPT !.pc = "torn"] \in Jobs /\ [job[b] EXCEPT !.pc = "publish"] \in Jobs
    BY <1>0 DEF Jobs, Steps
  <2>2. /\ UNCHANGED <<root, lockfile, current, rows>>
        /\ \/ job' = [job EXCEPT ![b] = [job[b] EXCEPT !.pc = "torn"]]
           \/ job' = [job EXCEPT ![b] = [job[b] EXCEPT !.pc = "publish"]]
    BY <1>0, <1>4 DEF EndWrite, WriteManifest, TypeOK
  <2>3. job' \in [Builders -> Jobs]
    BY <1>0, <2>1, <2>2 DEF TypeOK
  <2>4. \/ manifest' = [manifest EXCEPT ![job[b].graph_id] = "torn"]
        \/ manifest' = [manifest EXCEPT ![job[b].graph_id] = "whole"]
    BY <1>4 DEF EndWrite, WriteManifest
  <2>5. /\ manifest' \in [Ids -> {"absent", "none", "torn", "whole"}]
        /\ \A g \in Ids : manifest'[g] # "absent" => Exists(g) \/ g = job[b].graph_id
    BY <1>0, <2>4 DEF TypeOK, Exists
  <2>6. TypeOK'
    BY <1>0, <1>1, <2>2, <2>3, <2>5 DEF TypeOK
  <2> QED
    BY <2>5, <2>6, DiskStaysFinite DEF Types
<1> QED
  BY <1>2, <1>3, <1>4

LEMMA PruneKeepsTypes ==
  ASSUME Types, NEW b \in Builders, prune_superseded_snapshots(b)
  PROVE  Types'
<1>0. TypeOK /\ faults \in Nat
  BY SnapshotsAssumption DEF Types, TypeOK
<1>1. PICK stuck \in SUBSET {g \in Ids : Exists(g)} :
        LET gone == {g \in Ids : /\ Exists(g) /\ g \notin stuck /\ g # job[b].graph_id
                                 /\ OpenIn(Proc[b], g) = {}} IN
        /\ faults' = faults + Cardinality(stuck) /\ faults' <= MaxFaults
        /\ manifest' = [g \in Ids |-> IF g \in gone THEN "absent" ELSE manifest[g]]
        /\ rows' = [g \in Ids |-> IF g \in gone THEN NoRows ELSE rows[g]]
  BY DEF prune_superseded_snapshots
<1>2. /\ job' = [job EXCEPT ![b] = NoJob]
      /\ UNCHANGED <<tree, stamp, root, lockfile, current, calls, query, strayed, mixed>>
  BY DEF prune_superseded_snapshots, history
<1>3. Cardinality(stuck) \in Nat
  BY FS_Subset, FS_CardinalityType DEF Types, DiskIsFinite
<1>4. faults' \in 0 .. MaxFaults
  BY <1>0, <1>1, <1>3, SnapshotsAssumption
<1>5. /\ manifest' \in [Ids -> {"absent", "none", "torn", "whole"}]
      /\ \A g \in Ids : manifest'[g] # "absent" => Exists(g)
  BY <1>0, <1>1 DEF TypeOK, Exists
<1>6. rows' \in [Ids -> [Crates -> RowSets]]
  BY <1>0, <1>1, NoRowsType DEF TypeOK
<1>7. job' \in [Builders -> Jobs]
  BY <1>0, <1>2, NoJobType DEF TypeOK
<1>8. TypeOK'
  BY <1>0, <1>2, <1>4, <1>5, <1>6, <1>7 DEF TypeOK
<1> QED
  BY <1>5, <1>8, DiskStaysFinite DEF Types

LEMMA AbortKeepsTypes ==
  ASSUME Types, NEW b \in Builders, NEW retry \in BOOLEAN, Abort(b, retry)
  PROVE  Types'
<1>1. faults \in 0 .. MaxFaults /\ MaxFaults \in Nat
  BY SnapshotsAssumption DEF Types, TypeOK
<1>2. faults' \in 0 .. MaxFaults
  BY <1>1 DEF Abort
<1>3. Fail(b, retry) /\ UNCHANGED <<tree, stamp, calls, query, strayed, mixed>>
  BY DEF Abort, history
<1> QED
  BY <1>2, <1>3, FailKeepsTypes

LEMMA OpenedRows ==
  ASSUME TypeOK, NEW r \in Readers, OpenSnapshot(r)
  PROVE  \/ query' = [query EXCEPT ![r] = NoQuery]
         \/ \E open \in [Crates -> RowSets] :
              /\ query' = [query EXCEPT ![r] = [pc |-> "open", id |-> query[r].id, rows |-> open]]
              /\ manifest[query[r].id] = "whole" /\ query[r].pc = "named"
              /\ \/ open = rows[query[r].id]
                 \/ \E x \in Readers : /\ query[x].pc = "open" /\ query[x].id = query[r].id
                                       /\ open = query[x].rows
<1> DEFINE g == query[r].id
           sharing == OpenIn(Proc[r], g)
           open == IF sharing = {} THEN rows[g] ELSE query[CHOOSE x \in sharing : TRUE].rows
<1>1. CASE manifest[g] # "whole"
  BY <1>1 DEF OpenSnapshot
<1>2. CASE manifest[g] = "whole"
  <2>1. g \in Ids
    <3>1. query[r] \in Queries /\ query[r].pc = "named"
      BY DEF TypeOK, OpenSnapshot
    <3> QED
      BY <3>1 DEF Queries
  <2>2. query' = [query EXCEPT ![r] = [pc |-> "open", id |-> g, rows |-> open]] /\ query[r].pc = "named"
    BY <1>2 DEF OpenSnapshot
  <2>3. CASE sharing # {}
    <3> DEFINE x == CHOOSE x \in sharing : TRUE
    <3>1. x \in sharing
      BY <2>3
    <3>2. x \in Readers /\ query[x].pc = "open" /\ query[x].id = g /\ open = query[x].rows
      BY <2>3, <3>1 DEF OpenIn
    <3>3. open \in [Crates -> RowSets]
      BY <3>2 DEF TypeOK, Queries
    <3> HIDE DEF x, open
    <3> QED
      BY <1>2, <2>2, <3>2, <3>3
  <2>4. CASE sharing = {}
    <3>1. open \in [Crates -> RowSets]
      BY <2>1, <2>4 DEF TypeOK
    <3> QED
      BY <1>2, <2>1, <2>2, <2>4, <3>1
  <2> QED
    BY <2>3, <2>4
<1> QED
  BY <1>1, <1>2

LEMMA QueriesKeepTypes ==
  ASSUME Types, NEW r \in Readers, ReadCurrent(r) \/ OpenSnapshot(r) \/ Close(r)
  PROVE  Types'
<1>0. TypeOK /\ query[r] \in Queries
  BY DEF Types, TypeOK
<1>1. UNCHANGED <<tree, stamp, disk, calls, faults, job, strayed, mixed>>
  BY DEF ReadCurrent, OpenSnapshot, Close, history
<1>2. query' \in [Readers -> Queries]
  <2>1. CASE ReadCurrent(r)
    <3>1. [query[r] EXCEPT !.pc = "named", !.id = current] \in Queries
      BY <1>0, <2>1 DEF ReadCurrent, Queries, TypeOK
    <3>2. query' = [query EXCEPT ![r] = [query[r] EXCEPT !.pc = "named", !.id = current]]
      BY <1>0, <2>1 DEF ReadCurrent, TypeOK
    <3> QED
      BY <1>0, <3>1, <3>2 DEF TypeOK
  <2>2. CASE OpenSnapshot(r)
    <3>1. CASE query' = [query EXCEPT ![r] = NoQuery]
      BY <1>0, <3>1, NoQueryType DEF TypeOK
    <3>2. ASSUME NEW open \in [Crates -> RowSets], query[r].pc = "named",
                 query' = [query EXCEPT ![r] = [pc |-> "open", id |-> query[r].id, rows |-> open]]
          PROVE  query' \in [Readers -> Queries]
      <4>1. [pc |-> "open", id |-> query[r].id, rows |-> open] \in Queries
        BY <1>0, <3>2 DEF Queries
      <4> QED
        BY <1>0, <3>2, <4>1 DEF TypeOK
    <3> QED
      BY <1>0, <2>2, <3>1, <3>2, OpenedRows
  <2>3. CASE Close(r)
    BY <1>0, <2>3, NoQueryType DEF Close, TypeOK
  <2> QED
    BY <2>1, <2>2, <2>3
<1>3. TypeOK'
  BY <1>0, <1>1, <1>2 DEF TypeOK, disk
<1> QED
  BY <1>1, <1>3, KeepsDisk DEF disk

LEMMA WorldKeepsTypes ==
  ASSUME Types, Edit \/ clear_workspace_snapshots \/ \E p \in {Proc[b] : b \in Builders} : Crash(p)
  PROVE  Types'
<1>0. TypeOK /\ MaxEdits \in Nat /\ MaxClears \in Nat /\ MaxFaults \in Nat
  BY SnapshotsAssumption DEF Types
<1>1. CASE Edit
  <2>1. stamp' \in 0 .. MaxEdits
    BY <1>0, <1>1 DEF Edit, TypeOK
  <2>2. tree' \in Trees
    <3>1. tree \in Trees /\ tree.pkgs \in [Packages -> Versions] /\ tree.global \in Globals
      BY <1>0 DEF TypeOK, Trees
    <3>2. ASSUME NEW p \in Packages, NEW v \in Versions, tree' = [tree EXCEPT !.pkgs[p] = v]
          PROVE  tree' \in Trees
      BY <3>1, <3>2 DEF Trees
    <3>3. ASSUME NEW v \in Globals, tree' = [tree EXCEPT !.global = v]
          PROVE  tree' \in Trees
      BY <3>1, <3>3 DEF Trees
    <3> QED
      BY <1>1, <3>2, <3>3 DEF Edit
  <2>3. UNCHANGED <<disk, calls, faults, job, query, strayed, mixed>>
    BY <1>1 DEF Edit, history
  <2>4. TypeOK'
    BY <1>0, <2>1, <2>2, <2>3 DEF TypeOK, disk
  <2> QED
    BY <2>3, <2>4, KeepsDisk DEF disk
<1>2. CASE clear_workspace_snapshots
  <2>1. lockfile' \in 0 .. MaxClears
    BY <1>0, <1>2 DEF clear_workspace_snapshots, TypeOK
  <2>2. /\ manifest' \in [Ids -> {"absent", "none", "torn", "whole"}]
        /\ \A g \in Ids : manifest'[g] # "absent" => Exists(g)
    BY <1>2 DEF clear_workspace_snapshots
  <2>3. rows' \in [Ids -> [Crates -> RowSets]]
    BY <1>2, NoRowsType DEF clear_workspace_snapshots
  <2>4. TypeOK'
    BY <1>0, <1>2, <2>1, <2>2, <2>3 DEF clear_workspace_snapshots, TypeOK
  <2> QED
    BY <2>2, <2>4, DiskStaysFinite DEF Types
<1>3. ASSUME NEW p, Crash(p)
      PROVE  Types'
  <2>1. faults' \in 0 .. MaxFaults
    BY <1>0, <1>3 DEF Crash, TypeOK
  <2>2. job' \in [Builders -> Jobs] /\ query' \in [Readers -> Queries]
    BY <1>0, <1>3, NoJobType, NoQueryType DEF Crash, TypeOK
  <2>3. TypeOK'
    BY <1>0, <1>3, <2>1, <2>2 DEF Crash, TypeOK, disk, history
  <2> QED
    BY <1>3, <2>3, KeepsDisk DEF Crash, disk
<1> QED
  BY <1>1, <1>2, <1>3

LEMMA TypesHold == Types /\ [Next]_vars => Types'
<1> SUFFICES ASSUME Types, [Next]_vars
             PROVE  Types'
  OBVIOUS
<1>1. ASSUME NEW b \in Builders, BuildStep(b)
      PROVE  Types'
  BY <1>1, TypesOfSetup, CaptureKeepsTypes, ReuseKeepsTypes, StageKeepsTypes, WriteKeepsTypes,
     PruneKeepsTypes, AbortKeepsTypes DEF BuildStep
<1>2. CASE UNCHANGED vars
  <2>1. TypeOK'
    BY <1>2 DEF vars, disk, history, Types, TypeOK
  <2> QED
    BY <1>2, <2>1, KeepsDisk DEF vars, disk
<1> QED
  BY <1>1, <1>2, TypesOfSetup, QueriesKeepTypes, WorldKeepsTypes DEF Next, Step

-----------------------------------------------------------------------------
(* What holds of the contents, whoever clears the directory, and of builds *)
(* one at a time, as long as no clear fell into one.                       *)

\* What is in the directory that a build staged.
Made(b) ==
    /\ manifest[job[b].graph_id] =
         CASE job[b].pc = "write" -> "none" [] job[b].pc = "torn" -> "torn" [] OTHER -> "whole"
    /\ \A c \in Crates \ job[b].dirty :
         rows[job[b].graph_id][c] = FullRows(job[b].inputs)[c]

\* What the contents of snapshots rest on, of one build.
JobHolds(b) ==
    /\ Locked(b) =>
        /\ job[b].seen <= stamp
        /\ Valid(b) /\ job[b].pc # "stamped" => job[b].inputs = tree
        /\ Valid(b) /\ job[b].pc \notin {"stamped", "reuse", "load", "done"} =>
             job[b].loaded = tree
        /\ job[b].pc # "stamped" => inputs_of(job[b].graph_id) = job[b].inputs
    /\ Staged(b) =>
        /\ job[b].loaded = job[b].inputs
        /\ job[b].dirty \subseteq CratesOf(job[b].inputs)
        /\ job[b].pc # "write" => job[b].dirty = {}
        /\ Exists(job[b].graph_id) /\ job[b].graph_id \notin mixed => Made(b)

Contents == (\A b \in Builders : JobHolds(b)) /\ StagedApart /\ WholeIsFull /\ QueriesSeeOneTree

\* What the builds rest on that have the directory for themselves, of one build.
LockHolds(b) ==
    /\ job[b].pc \notin {"idle", "start"} => job[b].lock = lockfile
    /\ Staged(b) => Exists(job[b].graph_id) /\ current # job[b].graph_id
    /\ job[b].pc = "reuse" => manifest[job[b].graph_id] = "whole"
    /\ job[b].pc \in {"prune", "done"} => current = job[b].graph_id

Exclusive == \A a, b \in Builders : Locked(a) /\ Locked(b) => a = b

Alone == Exclusive /\ (\A b \in Builders : LockHolds(b)) /\ NothingIsMixed /\ CurrentIsWhole

Holds == Types /\ Contents /\ (~strayed => Alone)

LEMMA BuildByBuild == Contents /\ (~strayed => Alone) => BuildsHold
<1> SUFFICES ASSUME Contents, ~strayed => Alone
             PROVE  BuildsHold
  OBVIOUS
<1>1. StampsVouch /\ IdsNameInputs
  BY DEF Contents, JobHolds, StampsVouch, IdsNameInputs
<1>2. StagedIsOnTheWay
  BY DEF Contents, JobHolds, Made, StagedIsOnTheWay
<1>3. Alone => OneBuilds /\ NothingIsMixed /\ CurrentIsWhole /\ AnswerIsCurrent
  BY DEF Alone, Exclusive, LockHolds, OneBuilds, AnswerIsCurrent
<1> QED
  BY <1>1, <1>2, <1>3 DEF BuildsHold, Contents

LEMMA HoldsAtFirst == Init => Holds
<1> SUFFICES ASSUME Init PROVE Holds
  OBVIOUS
<1>1. \A b \in Builders : job[b].pc = "idle"
  BY NoJobType DEF Init
<1>2. \A b \in Builders : JobHolds(b) /\ LockHolds(b) /\ ~Locked(b) /\ ~Staged(b)
  BY <1>1 DEF JobHolds, LockHolds, Locked, Staged
<1>3. \A r \in Readers : query[r].pc = "idle"
  BY NoQueryType DEF Init
<1>4. WholeIsFull /\ CurrentIsWhole /\ QueriesSeeOneTree /\ NothingIsMixed
  BY <1>3 DEF Init, WholeIsFull, CurrentIsWhole, QueriesSeeOneTree, NothingIsMixed
<1> QED
  BY <1>2, <1>4, TypesHoldAtFirst DEF Holds, Contents, Alone, StagedApart, Exclusive

\* A snapshot stays as it is or goes.
Kept(g) == (manifest'[g] = manifest[g] /\ rows'[g] = rows[g]) \/ manifest'[g] = "absent"

\* What two builds staged at once stays so named, and a step of build b changes
\* at most snapshot new, which no other has staged unless it is mixed.
LEMMA Beside ==
  ASSUME Types, Types', Contents, NEW b \in Builders, NEW y, job' = [job EXCEPT ![b] = y],
         UNCHANGED <<tree, stamp, query>>, mixed \subseteq mixed', NEW new \in Ids,
         \A g \in Ids \ {new} : Kept(g),
         Kept(new) \/ \A a \in Builders \ {b} : Staged(a) /\ job[a].graph_id = new => new \in mixed',
         \/ Kept(new)
         \/ manifest'[new] = "whole" /\ new \notin mixed' => rows'[new] = FullRows(inputs_of(new)),
         JobHolds(b)',
         Staged(b)' => \A a \in Builders \ {b} :
                         Staged(a) /\ job[a].graph_id = y.graph_id => y.graph_id \in mixed'
  PROVE  Contents'
<1>0. job'[b] = y /\ \A a \in Builders \ {b} : job'[a] = job[a] /\ job[a].graph_id \in Ids
  BY JobType DEF Types, TypeOK
<1>1. ASSUME NEW a \in Builders \ {b}
      PROVE  JobHolds(a)'
  <2>1. JobHolds(a)
    BY DEF Contents
  <2> DEFINE g == job[a].graph_id
  <2>2. /\ Locked(a)' = Locked(a) /\ Staged(a)' = Staged(a) /\ Valid(a)' = Valid(a)
        /\ job'[a] = job[a] /\ g \in Ids
    BY <1>0 DEF Locked, Staged, Valid
  <2>3. ASSUME Staged(a), Exists(g)', g \notin mixed'
        PROVE  Made(a)'
    <3>1. manifest'[g] = manifest[g] /\ rows'[g] = rows[g]
      BY <2>2, <2>3 DEF Kept, Exists
    <3>2. Exists(g) /\ g \notin mixed
      BY <2>2, <2>3, <3>1 DEF Exists
    <3>3. Made(a)
      BY <2>1, <2>3, <3>2 DEF JobHolds
    <3> QED
      BY <2>2, <3>1, <3>3 DEF Made
  <2> QED
    BY <2>1, <2>2, <2>3 DEF JobHolds, inputs_of
<1>2. StagedApart'
  <2>1. ASSUME NEW a \in Builders \ {b}, Staged(a)', Staged(b)', job'[a].graph_id = job'[b].graph_id
        PROVE  job'[a].graph_id \in mixed'
    BY <1>0, <2>1 DEF Staged
  <2>2. ASSUME NEW a \in Builders \ {b}, NEW c \in Builders \ {b}, Staged(a)', Staged(c)',
               job'[a].graph_id = job'[c].graph_id, a # c
        PROVE  job'[a].graph_id \in mixed'
    BY <1>0, <2>2 DEF Staged, Contents, StagedApart
  <2> QED
    BY <2>1, <2>2 DEF StagedApart
<1>3. WholeIsFull'
  <2>1. ASSUME NEW g \in Ids, g \notin mixed', manifest'[g] = "whole"
        PROVE  rows'[g] = FullRows(inputs_of(g))
    <3>1. CASE Kept(g)
      BY <2>1, <3>1 DEF Kept, Contents, WholeIsFull
    <3>2. CASE ~Kept(g)
      BY <2>1, <3>2
    <3> QED
      BY <3>1, <3>2
  <2> QED
    BY <2>1 DEF WholeIsFull, inputs_of
<1>4. QueriesSeeOneTree'
  BY DEF Contents, QueriesSeeOneTree, inputs_of
<1>5. \A a \in Builders : JobHolds(a)'
  BY <1>1
<1> QED
  BY <1>2, <1>3, <1>4, <1>5 DEF Contents

\* A step of build b that changes no snapshot and stages none.
LEMMA BesideTheDisk ==
  ASSUME Types, Types', Contents, NEW b \in Builders, NEW y, job' = [job EXCEPT ![b] = y],
         UNCHANGED <<tree, stamp, query, manifest, rows, mixed>>, JobHolds(b)', ~Staged(b)'
  PROVE  Contents'
<1>1. job[b].graph_id \in Ids /\ \A g \in Ids : Kept(g)
  BY JobType DEF Types, Kept
<1> QED
  BY <1>1, Beside

\* The step of a build when no other has the lock.
LEMMA OthersWait ==
  ASSUME Types, Alone, NEW b \in Builders, NEW y, job' = [job EXCEPT ![b] = y],
         UNCHANGED lockfile, \A a \in Builders \ {b} : ~Locked(a), LockHolds(b)'
  PROVE  Exclusive' /\ \A a \in Builders : LockHolds(a)'
<1>1. ASSUME NEW a \in Builders \ {b}
      PROVE  LockHolds(a)' /\ ~Locked(a)'
  <2>1. job'[a] = job[a]
    BY DEF Types, TypeOK
  <2> QED
    BY <2>1 DEF Alone, LockHolds, Locked, Staged
<1>2. Exclusive'
  BY <1>1 DEF Exclusive
<1> QED
  BY <1>1, <1>2

\* The step of a build that has no lock, before and after it.
LEMMA Undisturbed ==
  ASSUME Types, Alone, NEW b \in Builders, NEW y, job' = [job EXCEPT ![b] = y],
         y.pc \in {"idle", "start", "open"}, y.pc = "open" => y.lock = lockfile,
         UNCHANGED <<lockfile, current, manifest, mixed>>
  PROVE  Alone'
<1>1. ASSUME NEW a \in Builders \ {b}
      PROVE  LockHolds(a)' /\ (Locked(a)' => Locked(a))
  <2>1. job'[a] = job[a]
    BY DEF Types, TypeOK
  <2> QED
    BY <2>1 DEF Alone, LockHolds, Locked, Staged, Exists
<1>2. LockHolds(b)' /\ ~Locked(b)'
  <2>1. job'[b] = y
    BY DEF Types, TypeOK
  <2> QED
    BY <2>1 DEF LockHolds, Locked, Staged
<1>3. Exclusive'
  BY <1>1, <1>2 DEF Alone, Exclusive
<1>4. NothingIsMixed' /\ CurrentIsWhole'
  BY DEF Alone, NothingIsMixed, CurrentIsWhole
<1> QED
  BY <1>1, <1>2, <1>3, <1>4 DEF Alone

LEMMA OthersAreOut ==
  ASSUME Alone, NEW b \in Builders, Locked(b)
  PROVE  \A a \in Builders \ {b} : ~Locked(a)
  BY DEF Alone, Exclusive

LEMMA FailHolds ==
  ASSUME Holds, Types', NEW b \in Builders, Locked(b), NEW retry \in BOOLEAN, Fail(b, retry),
         UNCHANGED <<tree, stamp, query, strayed, mixed>>
  PROVE  Holds'
<1> DEFINE new == job[b].graph_id
<1>0. TypeOK /\ new \in Ids
  BY JobType DEF Holds, Types
<1>1. PICK y \in Jobs : y.pc \in {"idle", "start"} /\ job' = [job EXCEPT ![b] = y]
  BY <1>0, FailEffect
<1>2. JobHolds(b)' /\ LockHolds(b)' /\ ~Staged(b)'
  <2>1. job'[b] = y
    BY <1>0, <1>1 DEF TypeOK
  <2> QED
    BY <1>1, <2>1 DEF JobHolds, LockHolds, Locked, Staged
<1>3. UNCHANGED <<lockfile, current>>
  BY <1>0, FailEffect
<1>4. \A g \in Ids : Kept(g) /\ (manifest'[g] = manifest[g] \/ (Staged(b) /\ g = new))
  BY <1>0, FailEffect DEF Kept
<1>5. Contents'
  <2>1. /\ Types /\ Contents /\ mixed \subseteq mixed' /\ UNCHANGED <<tree, stamp, query>>
        /\ \A g \in Ids \ {new} : Kept(g)
        /\ Kept(new)
    BY <1>0, <1>4 DEF Holds
  <2> HIDE DEF new
  <2> QED
    BY <1>0, <1>1, <1>2, <2>1, Beside
<1>6. ASSUME ~strayed
      PROVE  Alone'
  <2>1. Alone
    BY <1>6 DEF Holds
  <2>2. Exclusive' /\ \A a \in Builders : LockHolds(a)'
    BY <1>1, <1>2, <1>3, <2>1, OthersWait, OthersAreOut DEF Holds
  <2>3. Staged(b) => current # new
    BY <2>1 DEF Alone, LockHolds
  <2>4. CurrentIsWhole'
    BY <1>0, <1>3, <1>4, <2>1, <2>3 DEF Alone, CurrentIsWhole, TypeOK
  <2> QED
    BY <2>1, <2>2, <2>4 DEF Alone, NothingIsMixed
<1> QED
  BY <1>5, <1>6 DEF Holds

-----------------------------------------------------------------------------
(* The steps.                                                              *)

LEMMA SetupHolds ==
  ASSUME Holds, Types', NEW b \in Builders,
         Start(b, "force") \/ Start(b, "reuse") \/ OpenLock(b) \/ Return(b)
  PROVE  Holds'
<1>0. TypeOK /\ job[b] \in Jobs
  BY JobType DEF Holds, Types
<1>1. UNCHANGED <<tree, stamp, lockfile, current, manifest, rows, query, strayed, mixed>>
  BY DEF Start, OpenLock, Return, disk, history
<1>2. \E y : /\ job' = [job EXCEPT ![b] = y] /\ y.pc \in {"idle", "start", "open"}
             /\ y.pc = "open" => y.lock = lockfile
  <2>1. ASSUME NEW mode \in {"force", "reuse"}, Start(b, mode)
        PROVE  \E y : job' = [job EXCEPT ![b] = y] /\ y.pc = "start"
    <3>1. [NoJob EXCEPT !.pc = "start", !.mode = mode].pc = "start"
      BY NoJobType DEF Jobs
    <3> QED
      BY <2>1, <3>1 DEF Start
  <2>2. CASE OpenLock(b)
    <3> DEFINE y == [job[b] EXCEPT !.pc = "open", !.lock = lockfile]
    <3>1. y.pc = "open" /\ y.lock = lockfile
      BY <1>0 DEF Jobs
    <3>2. job' = [job EXCEPT ![b] = y]
      BY <1>0, <2>2 DEF OpenLock, TypeOK
    <3> HIDE DEF y
    <3> QED
      BY <3>1, <3>2
  <2>3. CASE Return(b)
    BY <2>3, NoJobType DEF Return
  <2> QED
    BY <2>1, <2>2, <2>3
<1>3. PICK y : /\ job' = [job EXCEPT ![b] = y] /\ y.pc \in {"idle", "start", "open"}
               /\ y.pc = "open" => y.lock = lockfile
  BY <1>2
<1>4. JobHolds(b)' /\ ~Staged(b)'
  <2>1. job'[b] = y
    BY <1>0, <1>3 DEF TypeOK
  <2> QED
    BY <1>3, <2>1 DEF JobHolds, Locked, Staged
<1>5. Contents'
  BY <1>1, <1>3, <1>4, BesideTheDisk DEF Holds
<1>6. ~strayed => Alone'
  BY <1>1, <1>3, Undisturbed DEF Holds
<1> QED
  BY <1>1, <1>5, <1>6 DEF Holds

LEMMA TakeLockHolds ==
  ASSUME Holds, Types', NEW b \in Builders, TakeLock(b)
  PROVE  Holds'
<1> DEFINE y == [job[b] EXCEPT !.pc = "stamped", !.seen = stamp]
<1>0. TypeOK /\ job[b] \in Jobs /\ job[b].pc = "open" /\ stamp \in Nat
  BY JobType, SnapshotsAssumption DEF Holds, Types, TypeOK, TakeLock
<1>1. UNCHANGED <<tree, stamp, root, lockfile, current, manifest, rows, query, strayed, mixed>>
  BY DEF TakeLock, disk, history
<1>2. job' = [job EXCEPT ![b] = y]
  BY <1>0 DEF TakeLock, TypeOK
<1>3. y.pc = "stamped" /\ y.seen = stamp /\ y.lock = job[b].lock
  BY <1>0 DEF Jobs
<1> HIDE DEF y
<1>4. job'[b] = y
  BY <1>0, <1>2 DEF TypeOK
<1>5. JobHolds(b)' /\ ~Staged(b)'
  BY <1>0, <1>1, <1>3, <1>4 DEF JobHolds, Locked, Staged
<1>6. Contents'
  BY <1>1, <1>2, <1>5, BesideTheDisk DEF Holds
<1>7. ASSUME ~strayed
      PROVE  Alone'
  <2>1. Alone /\ job[b].lock = lockfile
    BY <1>0, <1>7 DEF Holds, Alone, LockHolds
  <2>2. \A a \in Builders : Locked(a) => job[a].lock # job[b].lock
    BY DEF TakeLock
  <2>3. \A a \in Builders : Locked(a) => job[a].lock = lockfile
    BY <2>1 DEF Alone, LockHolds, Locked
  <2>4. \A a \in Builders \ {b} : ~Locked(a)
    BY <2>1, <2>2, <2>3
  <2>5. LockHolds(b)'
    BY <1>1, <1>3, <1>4, <2>1 DEF LockHolds, Staged
  <2>6. Exclusive' /\ \A a \in Builders : LockHolds(a)'
    BY <1>1, <1>2, <2>1, <2>4, <2>5, OthersWait DEF Holds
  <2> QED
    BY <1>1, <2>1, <2>6 DEF Alone, NothingIsMixed, CurrentIsWhole
<1> QED
  BY <1>1, <1>6, <1>7 DEF Holds

LEMMA ReuseIdentityIsOfTheTree ==
  ASSUME TypeOK
  PROVE  reuse_identity \in Ids /\ inputs_of(reuse_identity) = tree
<1>1. <<tree, 0>> \in Ids /\ <<tree, 0>>[1] = tree
  BY SnapshotsAssumption DEF TypeOK, Ids
<1> QED
  BY <1>1 DEF reuse_identity, inputs_of, TypeOK

LEMMA CaptureHolds ==
  ASSUME Holds, Types', NEW b \in Builders, Capture(b)
  PROVE  Holds'
<1>0. TypeOK /\ job[b] \in Jobs /\ job[b].pc = "stamped" /\ Locked(b)
  BY JobType DEF Holds, Types, Capture, Locked
<1>1. UNCHANGED <<tree, stamp, query, strayed, mixed>>
  BY DEF Capture, history
<1>2. CASE \E retry \in BOOLEAN : Fail(b, retry)
  BY <1>0, <1>1, <1>2, FailHolds
<1>3. ASSUME ~\E retry \in BOOLEAN : Fail(b, retry)
      PROVE  Holds'
  <2> DEFINE g == reuse_identity
             load == [job[b] EXCEPT !.pc = "load", !.inputs = tree, !.graph_id = <<tree, 0>>]
             reuse == [job[b] EXCEPT !.pc = "reuse", !.inputs = tree, !.graph_id = g]
  <2>1. /\ UNCHANGED <<root, lockfile, current, manifest, rows>>
        /\ \/ job' = [job EXCEPT ![b] = load]
           \/ job' = [job EXCEPT ![b] = reuse] /\ manifest[g] = "whole"
    <3>1. ~InputChanged(b) /\ ~Fail(b, FALSE)
      BY <1>3 DEF InputChanged
    <3> QED
      BY <1>0, <3>1 DEF Capture, TypeOK, disk
  <2>2. inputs_of(g) = tree
    BY <1>0, ReuseIdentityIsOfTheTree
  <2> HIDE DEF g
  <2>3. /\ load.pc = "load" /\ load.inputs = tree /\ inputs_of(load.graph_id) = tree
        /\ load.lock = job[b].lock /\ load.seen = job[b].seen
    BY <1>0 DEF Jobs, inputs_of
  <2>4. /\ reuse.pc = "reuse" /\ reuse.inputs = tree /\ reuse.graph_id = g
        /\ reuse.lock = job[b].lock /\ reuse.seen = job[b].seen
    BY <1>0 DEF Jobs
  <2> HIDE DEF load, reuse
  <2>5. PICK y : /\ job' = [job EXCEPT ![b] = y] /\ y.inputs = tree /\ inputs_of(y.graph_id) = tree
                 /\ y.lock = job[b].lock /\ y.seen = job[b].seen /\ y.pc \in {"load", "reuse"}
                 /\ y.pc = "reuse" => manifest[y.graph_id] = "whole"
    BY <2>1, <2>2, <2>3, <2>4
  <2>6. job'[b] = y
    BY <1>0, <2>5 DEF TypeOK
  <2>7. JobHolds(b) /\ job[b].seen <= stamp
    BY <1>0 DEF Holds, Contents, JobHolds
  <2>8. JobHolds(b)' /\ ~Staged(b)'
    BY <1>1, <2>5, <2>6, <2>7 DEF JobHolds, Locked, Staged, inputs_of
  <2>9. Contents'
    BY <1>1, <2>1, <2>5, <2>8, BesideTheDisk DEF Holds
  <2>10. ASSUME ~strayed
         PROVE  Alone'
    <3>1. Alone /\ job[b].lock = lockfile
      BY <1>0, <2>10 DEF Holds, Alone, LockHolds
    <3>2. LockHolds(b)'
      BY <2>1, <2>5, <2>6, <3>1 DEF LockHolds, Staged
    <3>3. Exclusive' /\ \A a \in Builders : LockHolds(a)'
      BY <1>0, <2>1, <2>5, <3>1, <3>2, OthersWait, OthersAreOut DEF Holds
    <3> QED
      BY <1>1, <2>1, <3>1, <3>3 DEF Alone, NothingIsMixed, CurrentIsWhole
  <2> QED
    BY <1>1, <2>9, <2>10 DEF Holds
<1> QED
  BY <1>2, <1>3

LEMMA LoadHolds ==
  ASSUME Holds, Types', NEW b \in Builders, Load(b)
  PROVE  Holds'
<1> DEFINE y == [job[b] EXCEPT !.pc = "loaded", !.loaded = tree]
<1>0. TypeOK /\ job[b] \in Jobs /\ job[b].pc = "load" /\ Locked(b)
  BY JobType DEF Holds, Types, Load, Locked
<1>1. UNCHANGED <<tree, stamp, root, lockfile, current, manifest, rows, query, strayed, mixed>>
  BY DEF Load, disk, history
<1>2. job' = [job EXCEPT ![b] = y]
  BY <1>0 DEF Load, TypeOK
<1>3. /\ y.pc = "loaded" /\ y.loaded = tree /\ y.lock = job[b].lock /\ y.seen = job[b].seen
      /\ y.inputs = job[b].inputs /\ y.graph_id = job[b].graph_id
  BY <1>0 DEF Jobs
<1> HIDE DEF y
<1>4. job'[b] = y
  BY <1>0, <1>2 DEF TypeOK
<1>5. JobHolds(b)
  BY DEF Holds, Contents
<1>6. JobHolds(b)' /\ ~Staged(b)'
  BY <1>0, <1>1, <1>3, <1>4, <1>5 DEF JobHolds, Locked, Staged, Valid, inputs_of
<1>7. Contents'
  BY <1>1, <1>2, <1>6, BesideTheDisk DEF Holds
<1>8. ASSUME ~strayed
      PROVE  Alone'
  <2>1. Alone /\ job[b].lock = lockfile
    BY <1>0, <1>8 DEF Holds, Alone, LockHolds
  <2>2. LockHolds(b)'
    BY <1>1, <1>3, <1>4, <2>1 DEF LockHolds, Staged
  <2>3. Exclusive' /\ \A a \in Builders : LockHolds(a)'
    BY <1>0, <1>1, <1>2, <2>1, <2>2, OthersWait, OthersAreOut DEF Holds
  <2> QED
    BY <1>1, <2>1, <2>3 DEF Alone, NothingIsMixed, CurrentIsWhole
<1> QED
  BY <1>1, <1>7, <1>8 DEF Holds

\* Both ways CURRENT comes to name a snapshot: it is whole, if no clear took it.
LEMMA PublishHolds ==
  ASSUME Holds, Types', NEW b \in Builders, Reuse(b) \/ Publish(b)
  PROVE  Holds'
<1>0. /\ TypeOK /\ job[b] \in Jobs /\ job[b].pc \in {"reuse", "publish"} /\ Locked(b)
      /\ job[b].graph_id \in Ids
  BY JobType DEF Holds, Types, Reuse, Publish, Locked
<1>1. UNCHANGED <<tree, stamp, query, strayed, mixed>>
  BY DEF Reuse, Publish, history
<1>2. CASE InputChanged(b)
  BY <1>0, <1>1, <1>2, FailHolds DEF InputChanged
<1>3. ASSUME ~InputChanged(b)
      PROVE  Holds'
  <2> DEFINE new == job[b].graph_id
             end == IF job[b].pc = "reuse" THEN "done" ELSE "prune"
             y == [job[b] EXCEPT !.pc = end]
  <2>1. current' = new /\ UNCHANGED <<root, lockfile, manifest, rows>>
    BY <1>3 DEF Reuse, Publish, publish_current
  <2>2. job' = [job EXCEPT ![b] = y]
    BY <1>0, <1>3 DEF Reuse, Publish, TypeOK
  <2>3. /\ y.pc = end /\ y.lock = job[b].lock /\ y.seen = job[b].seen /\ y.loaded = job[b].loaded
        /\ y.inputs = job[b].inputs /\ y.graph_id = job[b].graph_id
    BY <1>0 DEF Jobs
  <2> HIDE DEF y
  <2>4. job'[b] = y
    BY <1>0, <2>2 DEF TypeOK
  <2>5. JobHolds(b)
    BY DEF Holds, Contents
  <2>6. JobHolds(b)' /\ ~Staged(b)'
    BY <1>0, <1>1, <2>1, <2>3, <2>4, <2>5 DEF JobHolds, Locked, Staged, Valid, inputs_of
  <2>7. Contents'
    BY <1>1, <2>1, <2>2, <2>6, BesideTheDisk DEF Holds
  <2>8. ASSUME ~strayed
        PROVE  Alone'
    <3>1. Alone /\ LockHolds(b) /\ mixed = {}
      BY <2>8 DEF Holds, Alone, NothingIsMixed
    <3>2. manifest[new] = "whole"
      BY <1>0, <2>5, <3>1 DEF LockHolds, JobHolds, Made, Staged
    <3>3. LockHolds(b)'
      BY <1>0, <2>1, <2>3, <2>4, <3>1 DEF LockHolds, Staged
    <3>4. Exclusive' /\ \A a \in Builders : LockHolds(a)'
      BY <1>0, <2>1, <2>2, <3>1, <3>3, OthersWait, OthersAreOut DEF Holds
    <3>5. CurrentIsWhole'
      BY <2>1, <3>2 DEF CurrentIsWhole
    <3> QED
      BY <1>1, <3>1, <3>4, <3>5 DEF Alone, NothingIsMixed
  <2> QED
    BY <1>1, <2>7, <2>8 DEF Holds
<1> QED
  BY <1>2, <1>3

\* The crates a plan leaves out are in the base as a full build would have them
\* (plan_build, with_dependents).
LEMMA PlanIsComplete ==
  ASSUME TypeOK, WholeIsFull, NEW b \in Builders, job[b].loaded = job[b].inputs, NEW g,
         Incremental(b, g) => current \notin mixed,
         NEW c \in Crates \ plan_build(b, g)
  PROVE  (IF Incremental(b, g) THEN rows[current] ELSE NoRows)[c] = FullRows(job[b].inputs)[c]
<1> DEFINE t == job[b].inputs
<1>0. t \in Trees /\ job[b].loaded = t
  BY JobType
<1>1. CASE ~Incremental(b, g)
  <2>1. c \notin CratesOf(t)
    BY <1>0, <1>1 DEF plan_build
  <2> QED
    BY <1>1, <2>1 DEF NoRows, FullRows
<1>2. CASE Incremental(b, g)
  <2> DEFINE u == inputs_of(current)
             S == {x \in CratesOf(t) : crate_packages[x] \cap changed_packages(t, u) # {}}
  <2>1. current \in Ids /\ manifest[current] = "whole" /\ u.global = t.global
    BY <1>0, <1>2 DEF Incremental, TypeOK
  <2>2. u \in Trees
    BY <2>1 DEF inputs_of, Ids
  <2>3. rows[current] = FullRows(u)
    BY <1>2, <2>1 DEF WholeIsFull
  <2>4. {x \in Crates : FullRows(u)[x] # None} = CratesOf(t)
    BY <1>0, <1>2, <2>3 DEF Incremental
  <2>5. \A x \in Crates : FullRows(u)[x] # None <=> x \in CratesOf(u)
    BY <2>2, RowsOfType DEF FullRows
  <2>6. c \in CratesOf(t) <=> c \in CratesOf(u)
    BY <2>4, <2>5
  <2>7. c \notin CratesOf(t) \cap with_dependents(S)
    BY <1>0, <1>2 DEF plan_build
  <2> HIDE DEF t, u
  <2>8. CASE c \in CratesOf(t)
    <3>1. RowsOf(c, u) = RowsOf(c, t)
      BY <1>0, <2>1, <2>2, <2>7, <2>8, UntouchedRowsAgree
    <3>2. FullRows(u)[c] = FullRows(t)[c]
      BY <2>6, <2>8, <3>1 DEF FullRows
    <3> QED
      BY <1>2, <2>3, <3>2 DEF t
  <2>9. CASE c \notin CratesOf(t)
    <3>1. FullRows(u)[c] = FullRows(t)[c]
      BY <2>6, <2>9 DEF FullRows
    <3> QED
      BY <1>2, <2>3, <3>1 DEF t
  <2> QED
    BY <2>8, <2>9
<1> QED
  BY <1>1, <1>2

\* The snapshot a build stages is its own, or mixed with that of another.
LEMMA StageHolds ==
  ASSUME Holds, Types', NEW b \in Builders, Stage(b)
  PROVE  Holds'
<1>0. /\ TypeOK /\ job[b] \in Jobs /\ job[b].pc = "loaded" /\ Locked(b)
      /\ job[b].graph_id \in Ids /\ job[b].inputs \in Trees
  BY JobType DEF Holds, Types, Stage, Locked
<1>1. UNCHANGED <<tree, stamp, query, strayed>>
  BY DEF Stage
<1>2. CASE InputChanged(b) /\ UNCHANGED mixed
  BY <1>0, <1>1, <1>2, FailHolds DEF InputChanged
<1>3. ASSUME ~(InputChanged(b) /\ UNCHANGED mixed)
      PROVE  Holds'
  <2> DEFINE g == FreshId(job[b].graph_id)
             base == IF Incremental(b, g) THEN rows[current] ELSE NoRows
             plan == plan_build(b, g)
             y == [job[b] EXCEPT !.pc = "write", !.graph_id = g, !.dirty = plan]
  <2>1. /\ Valid(b) /\ (Exists(job[b].graph_id) => new_ids(job[b].graph_id) # {})
        /\ manifest' = [manifest EXCEPT ![g] = "none"] /\ rows' = [rows EXCEPT ![g] = base]
        /\ job' = [job EXCEPT ![b] = y] /\ UNCHANGED <<root, lockfile, current>>
        /\ mixed' = IF Mixes(b, g) THEN mixed \cup {g} ELSE mixed
    BY <1>0, <1>3 DEF Stage, TypeOK
  <2>2. JobHolds(b) /\ WholeIsFull
    BY DEF Holds, Contents
  <2>3. /\ job[b].inputs = tree /\ job[b].loaded = tree
        /\ job[b].seen <= stamp /\ inputs_of(job[b].graph_id) = job[b].inputs
    BY <1>0, <2>1, <2>2 DEF JobHolds
  <2>4. g \in Ids /\ g[1] = job[b].graph_id[1] /\ ~Exists(g)
    BY <1>0, <2>1, FreshIdIsFree
  <2>5. plan \subseteq CratesOf(job[b].inputs)
    BY <2>3 DEF plan_build
  <2>6. ASSUME g \notin mixed'
        PROVE  \A c \in Crates \ plan : base[c] = FullRows(job[b].inputs)[c]
    <3>1. Incremental(b, g) => current \notin mixed
      BY <2>1, <2>6 DEF Mixes
    <3> QED
      BY <1>0, <2>2, <2>3, <3>1, PlanIsComplete
  <2>7. ASSUME NEW a \in Builders \ {b}, Staged(a), job[a].graph_id = g
        PROVE  g \in mixed'
    BY <2>1, <2>7 DEF Mixes
  <2> HIDE DEF g, base, plan
  <2>8. /\ y.pc = "write" /\ y.graph_id = g /\ y.dirty = plan /\ y.lock = job[b].lock
        /\ y.seen = job[b].seen /\ y.loaded = job[b].loaded /\ y.inputs = job[b].inputs
    BY <1>0 DEF Jobs
  <2> HIDE DEF y
  <2>9. job'[b] = y
    BY <1>0, <2>1 DEF TypeOK
  <2>10. manifest'[g] = "none" /\ rows'[g] = base
    BY <1>0, <2>1, <2>4 DEF TypeOK
  <2>11. Staged(b)' /\ Locked(b)' /\ Valid(b)' /\ inputs_of(g) = job[b].inputs
    BY <1>1, <2>1, <2>3, <2>4, <2>8, <2>9 DEF Staged, Locked, Valid, inputs_of
  <2>12. g \notin mixed' => Made(b)'
    BY <2>6, <2>8, <2>9, <2>10 DEF Made
  <2>13. JobHolds(b)'
    BY <1>1, <2>1, <2>3, <2>5, <2>8, <2>9, <2>11, <2>12 DEF JobHolds, inputs_of
  <2>14. \A h \in Ids \ {g} : Kept(h)
    BY <1>0, <2>1 DEF TypeOK, Kept
  <2>15. Contents'
    <3>1. Types /\ Contents /\ UNCHANGED <<tree, stamp, query>> /\ mixed \subseteq mixed'
      BY <1>1, <2>1 DEF Holds
    <3>2. manifest'[g] # "whole" /\ job' = [job EXCEPT ![b] = y]
      BY <2>1, <2>10
    <3> QED
      BY <2>4, <2>7, <2>8, <2>13, <2>14, <3>1, <3>2, Beside
  <2>16. ASSUME ~strayed
         PROVE  Alone'
    <3>1. Alone /\ mixed = {} /\ job[b].lock = lockfile /\ \A a \in Builders \ {b} : ~Locked(a)
      BY <1>0, <2>16, OthersAreOut DEF Holds, Alone, LockHolds, NothingIsMixed
    <3>2. current # g
      BY <1>0, <2>4, <3>1, NoneIsNoId DEF Alone, CurrentIsWhole, Exists
    <3>3. LockHolds(b)'
      BY <2>1, <2>8, <2>9, <2>10, <3>1, <3>2 DEF LockHolds, Exists
    <3>4. Exclusive' /\ \A a \in Builders : LockHolds(a)'
      BY <2>1, <3>1, <3>3, OthersWait DEF Holds
    <3>5. mixed' = {}
      <4>1. \A a \in Builders \ {b} : ~Staged(a)
        BY <3>1 DEF Locked, Staged
      <4> QED
        BY <2>1, <3>1, <4>1 DEF Mixes
    <3>6. CurrentIsWhole'
      BY <1>0, <2>1, <2>14, <3>1, <3>2 DEF Alone, CurrentIsWhole, TypeOK
    <3> QED
      BY <3>4, <3>5, <3>6 DEF Alone, NothingIsMixed
  <2> QED
    BY <1>1, <2>15, <2>16 DEF Holds
<1> QED
  BY <1>2, <1>3

LEMMA WriteCrateHolds ==
  ASSUME Holds, Types', NEW b \in Builders, NEW c \in Crates, WriteCrate(b, c)
  PROVE  Holds'
<1> DEFINE g == job[b].graph_id
           y == [job[b] EXCEPT !.dirty = job[b].dirty \ {c}]
<1>0. /\ TypeOK /\ job[b] \in Jobs /\ job[b].pc = "write" /\ Locked(b) /\ Staged(b) /\ g \in Ids
      /\ job[b].loaded \in Trees /\ c \in job[b].dirty
  BY JobType DEF Holds, Types, WriteCrate, Locked, Staged
<1>1. UNCHANGED <<tree, stamp, root, lockfile, current, manifest, query, strayed, mixed>>
  BY DEF WriteCrate, history
<1>2. JobHolds(b) /\ StagedApart
  BY DEF Holds, Contents
<1>3. job[b].loaded = job[b].inputs /\ job[b].dirty \subseteq CratesOf(job[b].inputs)
  BY <1>0, <1>2 DEF JobHolds
<1>4. \/ rows' = [rows EXCEPT ![g][c] = RowsOf(c, job[b].loaded)]
      \/ (Exists(g) => g \in mixed) /\ UNCHANGED rows
  BY DEF WriteCrate
<1>5. job' = [job EXCEPT ![b] = y]
  BY <1>0 DEF WriteCrate, TypeOK
<1>6. /\ y.pc = "write" /\ y.graph_id = g /\ y.dirty = job[b].dirty \ {c} /\ y.lock = job[b].lock
      /\ y.seen = job[b].seen /\ y.loaded = job[b].loaded /\ y.inputs = job[b].inputs
  BY <1>0 DEF Jobs
<1> HIDE DEF y
<1>7. job'[b] = y
  BY <1>0, <1>5 DEF TypeOK
<1>8. ASSUME Exists(g), g \notin mixed
      PROVE  Made(b)' /\ manifest'[g] = "none"
  <2>1. Made(b)
    BY <1>0, <1>2, <1>8 DEF JobHolds
  <2>2. rows'[g][c] = RowsOf(c, job[b].loaded) /\ \A d \in Crates \ {c} : rows'[g][d] = rows[g][d]
    BY <1>0, <1>4, <1>8 DEF TypeOK
  <2>3. FullRows(job[b].inputs)[c] = RowsOf(c, job[b].inputs)
    BY <1>0, <1>3 DEF FullRows
  <2>4. manifest[g] = "none" /\ \A d \in Crates \ job[b].dirty : rows[g][d] = FullRows(job[b].inputs)[d]
    BY <1>0, <2>1 DEF Made
  <2>5. \A d \in Crates \ y.dirty : rows'[g][d] = FullRows(job[b].inputs)[d]
    BY <1>3, <1>6, <2>2, <2>3, <2>4
  <2> QED
    BY <1>1, <1>6, <1>7, <2>4, <2>5 DEF Made
<1>9. JobHolds(b)'
  BY <1>0, <1>1, <1>2, <1>3, <1>6, <1>7, <1>8 DEF JobHolds, Locked, Staged, Valid, inputs_of, Exists
<1>10. \A h \in Ids \ {g} : Kept(h)
  BY <1>0, <1>1, <1>4 DEF TypeOK, Kept
<1>11. Contents'
  <2>1. Types /\ Contents /\ UNCHANGED <<tree, stamp, query>> /\ mixed \subseteq mixed'
    BY <1>1 DEF Holds
  <2>2. \A a \in Builders \ {b} : Staged(a) /\ job[a].graph_id = g => g \in mixed'
    BY <1>0, <1>1, <1>2 DEF StagedApart
  <2>3. Kept(g) \/ (manifest'[g] = "whole" /\ g \notin mixed' => rows'[g] = FullRows(inputs_of(g)))
    BY <1>1, <1>8 DEF Exists
  <2> HIDE DEF g
  <2> QED
    BY <1>0, <1>5, <1>6, <1>9, <1>10, <2>1, <2>2, <2>3, Beside
<1>12. ASSUME ~strayed
       PROVE  Alone'
  <2>1. Alone /\ LockHolds(b)
    BY <1>12 DEF Holds, Alone
  <2>2. LockHolds(b)'
    BY <1>0, <1>1, <1>6, <1>7, <2>1 DEF LockHolds, Staged, Exists
  <2>3. Exclusive' /\ \A a \in Builders : LockHolds(a)'
    BY <1>0, <1>1, <1>5, <2>1, <2>2, OthersWait, OthersAreOut DEF Holds
  <2> QED
    BY <1>1, <2>1, <2>3 DEF Alone, NothingIsMixed, CurrentIsWhole
<1> QED
  BY <1>1, <1>11, <1>12 DEF Holds

LEMMA ManifestHolds ==
  ASSUME Holds, Types', NEW b \in Builders, EndWrite(b) \/ WriteManifest(b)
  PROVE  Holds'
<1>0. /\ TypeOK /\ job[b] \in Jobs /\ job[b].pc \in {"write", "torn"} /\ Locked(b) /\ Staged(b)
      /\ job[b].graph_id \in Ids /\ job[b].inputs \in Trees
  BY JobType DEF Holds, Types, EndWrite, WriteManifest, Locked, Staged
<1>1. UNCHANGED <<tree, stamp, query, strayed, mixed>>
  BY DEF EndWrite, WriteManifest, history
<1>2. CASE InputChanged(b)
  BY <1>0, <1>1, <1>2, FailHolds DEF InputChanged
<1>3. ASSUME ~InputChanged(b)
      PROVE  Holds'
  <2> DEFINE g == job[b].graph_id
             to == IF job[b].pc = "write" THEN "torn" ELSE "publish"
             is == IF job[b].pc = "write" THEN "torn" ELSE "whole"
             y == [job[b] EXCEPT !.pc = to]
  <2>1. /\ manifest' = [manifest EXCEPT ![g] = is] /\ UNCHANGED <<root, lockfile, current, rows>>
        /\ job[b].pc = "write" => job[b].dirty = {}
        /\ Exists(g)
    BY <1>3 DEF EndWrite, WriteManifest
  <2>2. job' = [job EXCEPT ![b] = y]
    BY <1>0, <1>3 DEF EndWrite, WriteManifest, TypeOK
  <2>3. JobHolds(b) /\ StagedApart
    BY DEF Holds, Contents
  <2>4. /\ y.pc = to /\ y.graph_id = g /\ y.dirty = job[b].dirty /\ y.lock = job[b].lock
        /\ y.seen = job[b].seen /\ y.loaded = job[b].loaded /\ y.inputs = job[b].inputs
    BY <1>0 DEF Jobs
  <2> HIDE DEF y
  <2>5. job'[b] = y
    BY <1>0, <2>2 DEF TypeOK
  <2>6. manifest'[g] = is /\ \A h \in Ids \ {g} : Kept(h)
    BY <1>0, <2>1 DEF TypeOK, Kept
  <2>7. job[b].dirty = {} /\ inputs_of(g) = job[b].inputs
    BY <1>0, <2>1, <2>3 DEF JobHolds
  <2>8. ASSUME g \notin mixed
        PROVE  Made(b)' /\ rows'[g] = FullRows(inputs_of(g))
    <3>1. Made(b)
      BY <1>0, <2>1, <2>3, <2>8 DEF JobHolds
    <3>2. \A c \in Crates : rows[g][c] = FullRows(job[b].inputs)[c]
      BY <2>7, <3>1 DEF Made
    <3>3. rows[g] \in [Crates -> RowSets] /\ FullRows(job[b].inputs) \in [Crates -> RowSets]
      BY <1>0, FullRowsType DEF TypeOK
    <3>4. rows[g] = FullRows(job[b].inputs)
      BY <3>2, <3>3
    <3> QED
      BY <1>0, <2>1, <2>4, <2>5, <2>6, <2>7, <3>2, <3>4 DEF Made
  <2>9. JobHolds(b)'
    BY <1>0, <1>1, <2>1, <2>3, <2>4, <2>5, <2>7, <2>8
    DEF JobHolds, Locked, Staged, Valid, inputs_of
  <2>10. Contents'
    <3>1. /\ Types /\ Contents /\ UNCHANGED <<tree, stamp, query>> /\ mixed \subseteq mixed'
          /\ g \in Ids
      BY <1>0, <1>1 DEF Holds
    <3>2. \A a \in Builders \ {b} : Staged(a) /\ job[a].graph_id = g => g \in mixed'
      BY <1>0, <1>1, <2>3 DEF StagedApart
    <3>3. manifest'[g] = "whole" /\ g \notin mixed' => rows'[g] = FullRows(inputs_of(g))
      BY <1>1, <2>8
    <3>4. y.graph_id = g /\ \A h \in Ids \ {g} : Kept(h)
      BY <2>4, <2>6
    <3> HIDE DEF g, to, is
    <3> QED
      BY <2>2, <2>9, <3>1, <3>2, <3>3, <3>4, Beside
  <2>11. ASSUME ~strayed
         PROVE  Alone'
    <3>1. Alone /\ LockHolds(b)
      BY <2>11 DEF Holds, Alone
    <3>2. manifest'[g] # "absent" /\ current # g
      BY <1>0, <2>6, <3>1 DEF LockHolds
    <3>3. LockHolds(b)'
      BY <1>0, <2>1, <2>4, <2>5, <3>1, <3>2 DEF LockHolds, Exists
    <3>4. Exclusive' /\ \A a \in Builders : LockHolds(a)'
      BY <1>0, <2>1, <2>2, <3>1, <3>3, OthersWait, OthersAreOut DEF Holds
    <3>5. CurrentIsWhole'
      BY <1>0, <2>1, <3>1, <3>2 DEF Alone, CurrentIsWhole, TypeOK
    <3> QED
      BY <1>1, <3>1, <3>4, <3>5 DEF Alone, NothingIsMixed
  <2> QED
    BY <1>1, <2>10, <2>11 DEF Holds
<1> QED
  BY <1>2, <1>3

\* The prune leaves the snapshot of the build that prunes, which CURRENT names if
\* no clear came between.
LEMMA PruneHolds ==
  ASSUME Holds, Types', NEW b \in Builders, prune_superseded_snapshots(b)
  PROVE  Holds'
<1>0. TypeOK /\ job[b].pc = "prune" /\ Locked(b) /\ job[b].graph_id \in Ids
  BY JobType DEF Holds, Types, prune_superseded_snapshots, Locked
<1>1. /\ UNCHANGED <<tree, stamp, root, lockfile, current, query, strayed, mixed>>
      /\ job' = [job EXCEPT ![b] = NoJob]
  BY DEF prune_superseded_snapshots, history
<1>2. \A g \in Ids : Kept(g) /\ (g = job[b].graph_id => manifest'[g] = manifest[g])
  BY DEF prune_superseded_snapshots, Kept
<1>3. JobHolds(b)' /\ LockHolds(b)' /\ ~Staged(b)'
  <2>1. job'[b] = NoJob
    BY <1>0, <1>1 DEF TypeOK
  <2> QED
    BY <2>1, NoJobType DEF JobHolds, LockHolds, Locked, Staged
<1>4. Contents'
  <2>1. /\ Types /\ Contents /\ UNCHANGED <<tree, stamp, query>> /\ mixed \subseteq mixed'
        /\ \A g \in Ids : Kept(g)
    BY <1>1, <1>2 DEF Holds
  <2> QED
    BY <1>0, <1>1, <1>3, <2>1, Beside
<1>5. ASSUME ~strayed
      PROVE  Alone'
  <2>1. Alone /\ current = job[b].graph_id
    BY <1>0, <1>5 DEF Holds, Alone, LockHolds
  <2>2. Exclusive' /\ \A a \in Builders : LockHolds(a)'
    BY <1>0, <1>1, <1>3, <2>1, OthersWait, OthersAreOut DEF Holds
  <2>3. CurrentIsWhole'
    BY <1>0, <1>1, <1>2, <2>1 DEF Alone, CurrentIsWhole
  <2> QED
    BY <1>1, <2>1, <2>2, <2>3 DEF Alone, NothingIsMixed
<1> QED
  BY <1>1, <1>4, <1>5 DEF Holds

LEMMA QueryHolds ==
  ASSUME Holds, Types', NEW r \in Readers, ReadCurrent(r) \/ OpenSnapshot(r) \/ Close(r)
  PROVE  Holds'
<1>0. TypeOK /\ query[r] \in Queries
  BY DEF Holds, Types, TypeOK
<1>1. UNCHANGED <<tree, stamp, root, lockfile, current, manifest, rows, job, strayed, mixed>>
  BY DEF ReadCurrent, OpenSnapshot, Close, disk, history
<1>2. ~strayed => Alone'
  BY <1>1 DEF Holds, Alone, Exclusive, LockHolds, Locked, Staged, Exists, NothingIsMixed, CurrentIsWhole
<1>3. (\A b \in Builders : JobHolds(b)') /\ StagedApart' /\ WholeIsFull'
  BY <1>1 DEF Holds, Contents, JobHolds, Made, Locked, Staged, Valid, Exists, StagedApart, WholeIsFull
<1>4. ASSUME NEW x \in Readers, query'[x].pc = "open", query'[x].id \notin mixed
      PROVE  query'[x].rows = FullRows(inputs_of(query'[x].id))
  <2>1. \A z \in Readers : query[z].pc = "open" /\ query[z].id \notin mixed =>
            query[z].rows = FullRows(inputs_of(query[z].id))
    BY DEF Holds, Contents, QueriesSeeOneTree
  <2>2. CASE x # r \/ UNCHANGED query
    BY <1>0, <1>4, <2>1, <2>2 DEF ReadCurrent, OpenSnapshot, Close, TypeOK
  <2>3. CASE x = r /\ (ReadCurrent(r) \/ Close(r))
    <3>1. query'[r].pc # "open"
      <4>1. CASE Close(r)
        BY <1>0, <4>1, NoQueryType DEF Close, TypeOK
      <4>2. CASE ReadCurrent(r)
        <5>1. query'[r] = [query[r] EXCEPT !.pc = "named", !.id = current]
          BY <1>0, <4>2 DEF ReadCurrent, TypeOK
        <5> QED
          BY <1>0, <5>1 DEF Queries
      <4> QED
        BY <2>3, <4>1, <4>2
    <3> QED
      BY <1>4, <2>3, <3>1
  <2>4. CASE x = r /\ OpenSnapshot(r)
    <3>1. ASSUME query' = [query EXCEPT ![r] = NoQuery]
          PROVE  FALSE
      BY <1>0, <1>4, <2>4, <3>1, NoQueryType DEF TypeOK
    <3>2. ASSUME NEW open \in [Crates -> RowSets], manifest[query[r].id] = "whole", query[r].pc = "named",
                 query' = [query EXCEPT ![r] = [pc |-> "open", id |-> query[r].id, rows |-> open]],
                 \/ open = rows[query[r].id]
                 \/ \E z \in Readers : /\ query[z].pc = "open" /\ query[z].id = query[r].id
                                       /\ open = query[z].rows
          PROVE  query'[r].rows = FullRows(inputs_of(query'[r].id))
      <4>1. query'[r] = [pc |-> "open", id |-> query[r].id, rows |-> open]
        BY <1>0, <3>2 DEF TypeOK
      <4>2. query[r].id \in Ids /\ query[r].id \notin mixed
        BY <1>0, <1>4, <2>4, <3>2, <4>1 DEF Queries
      <4>3. open = FullRows(inputs_of(query[r].id))
        BY <2>1, <3>2, <4>2 DEF Holds, Contents, WholeIsFull
      <4> QED
        BY <4>1, <4>3
    <3> QED
      BY <1>0, <2>4, <3>1, <3>2, OpenedRows
  <2> QED
    BY <2>2, <2>3, <2>4
<1>5. Contents'
  BY <1>1, <1>3, <1>4 DEF Contents, QueriesSeeOneTree, inputs_of
<1> QED
  BY <1>1, <1>2, <1>5 DEF Holds

LEMMA EditHolds ==
  ASSUME Holds, Types', Edit
  PROVE  Holds'
<1>1. /\ stamp' = stamp + 1 /\ stamp \in Nat
      /\ UNCHANGED <<root, lockfile, current, manifest, rows, job, query, strayed, mixed>>
  BY SnapshotsAssumption DEF Edit, disk, history, Holds, Types, TypeOK
<1>2. ASSUME NEW b \in Builders
      PROVE  JobHolds(b)'
  <2>1. JobHolds(b) /\ job[b].seen \in Nat
    BY JobType, SnapshotsAssumption DEF Holds, Contents, Types
  <2>2. Locked(b) => ~Valid(b)'
    BY <1>1, <2>1 DEF JobHolds, Valid
  <2> QED
    BY <1>1, <2>1, <2>2 DEF JobHolds, Made, Locked, Staged, Valid, Exists
<1>3. StagedApart' /\ WholeIsFull' /\ QueriesSeeOneTree'
  BY <1>1 DEF Holds, Contents, StagedApart, Staged, WholeIsFull, QueriesSeeOneTree
<1>4. ~strayed => Alone'
  BY <1>1 DEF Holds, Alone, Exclusive, LockHolds, Locked, Staged, Exists, NothingIsMixed, CurrentIsWhole
<1> QED
  BY <1>1, <1>2, <1>3, <1>4 DEF Holds, Contents

\* A clear takes what builds have staged, and what is there no longer says nothing.
LEMMA ClearHolds ==
  ASSUME Holds, Types', clear_workspace_snapshots
  PROVE  Holds'
<1>1. /\ current' = None /\ \A g \in Ids : manifest'[g] = "absent"
      /\ strayed' = (strayed \/ \E b \in Builders : job[b].pc \notin {"idle", "start"})
      /\ UNCHANGED <<tree, stamp, job, query, mixed>>
  BY DEF clear_workspace_snapshots
<1>2. ASSUME NEW b \in Builders
      PROVE  JobHolds(b)'
  <2>1. JobHolds(b) /\ job[b].graph_id \in Ids
    BY JobType DEF Holds, Contents, Types
  <2>2. ~Exists(job[b].graph_id)'
    BY <1>1, <2>1 DEF Exists
  <2> QED
    BY <1>1, <2>1, <2>2 DEF JobHolds, Locked, Staged, Valid
<1>3. StagedApart' /\ WholeIsFull' /\ QueriesSeeOneTree'
  BY <1>1 DEF Holds, Contents, StagedApart, Staged, WholeIsFull, QueriesSeeOneTree
<1>4. ASSUME ~strayed'
      PROVE  Alone'
  <2>1. NothingIsMixed /\ \A b \in Builders : job'[b].pc \in {"idle", "start"}
    <3>1. ~strayed
      BY <1>1, <1>4
    <3>2. NothingIsMixed
      BY <3>1 DEF Holds, Alone
    <3>3. ~\E b \in Builders : job[b].pc \notin {"idle", "start"}
      BY <1>1, <1>4
    <3> QED
      BY <1>1, <3>2, <3>3
  <2>2. \A b \in Builders : LockHolds(b)' /\ ~Locked(b)'
    BY <2>1 DEF LockHolds, Locked, Staged
  <2>3. CurrentIsWhole' /\ NothingIsMixed'
    BY <1>1, <2>1 DEF CurrentIsWhole, NothingIsMixed
  <2> QED
    BY <2>2, <2>3 DEF Alone, Exclusive
<1> QED
  BY <1>2, <1>3, <1>4 DEF Holds, Contents

LEMMA CrashHolds ==
  ASSUME Holds, Types', NEW p, Crash(p)
  PROVE  Holds'
<1>1. /\ UNCHANGED <<tree, stamp, root, lockfile, current, manifest, rows, strayed, mixed>>
      /\ \A b \in Builders : job'[b] = NoJob \/ job'[b] = job[b]
      /\ \A r \in Readers : query'[r] = NoQuery \/ query'[r] = query[r]
  BY DEF Crash, disk, history
<1>2. ASSUME NEW b \in Builders
      PROVE  /\ JobHolds(b)' /\ (Locked(b)' => Locked(b)) /\ (LockHolds(b) => LockHolds(b)')
             /\ Staged(b)' => Staged(b) /\ job'[b] = job[b]
  <2>1. CASE job'[b] = NoJob
    BY <2>1, NoJobType DEF JobHolds, LockHolds, Locked, Staged
  <2>2. CASE job'[b] = job[b]
    BY <1>1, <2>2 DEF Holds, Contents, JobHolds, Made, LockHolds, Locked, Staged, Valid, Exists
  <2> QED
    BY <1>1, <2>1, <2>2
<1>3. StagedApart' /\ WholeIsFull'
  BY <1>1, <1>2 DEF Holds, Contents, StagedApart, WholeIsFull
<1>4. QueriesSeeOneTree'
  BY <1>1, NoQueryType DEF Holds, Contents, QueriesSeeOneTree
<1>5. Contents'
  BY <1>2, <1>3, <1>4 DEF Contents
<1>6. ~strayed => Alone'
  BY <1>1, <1>2 DEF Holds, Alone, Exclusive, NothingIsMixed, CurrentIsWhole
<1> QED
  BY <1>1, <1>5, <1>6 DEF Holds

LEMMA HoldsOn == Holds /\ [Next]_vars => Holds'
<1> SUFFICES ASSUME Holds, [Next]_vars
             PROVE  Holds'
  OBVIOUS
<1>1. Types'
  BY TypesHold DEF Holds
<1>2. ASSUME NEW b \in Builders, BuildStep(b)
      PROVE  Holds'
  <2>1. ASSUME NEW retry \in BOOLEAN, Abort(b, retry)
        PROVE  Holds'
    <3>1. Locked(b) /\ Fail(b, retry) /\ UNCHANGED <<tree, stamp, query, strayed, mixed>>
      BY <2>1 DEF Abort, history
    <3> QED
      BY <1>1, <3>1, FailHolds
  <2> QED
    BY <1>1, <1>2, <2>1, SetupHolds, TakeLockHolds, CaptureHolds, LoadHolds, PublishHolds,
       StageHolds, WriteCrateHolds, ManifestHolds, PruneHolds DEF BuildStep
<1>3. CASE UNCHANGED vars
  <2>1. /\ UNCHANGED <<tree, stamp, lockfile, current, manifest, rows, job, query, strayed, mixed>>
    BY <1>3 DEF vars, disk, history
  <2>2. Contents'
    BY <2>1 DEF Holds, Contents, JobHolds, Made, Locked, Staged, Valid, Exists, StagedApart,
       WholeIsFull, QueriesSeeOneTree
  <2>3. ~strayed => Alone'
    BY <2>1 DEF Holds, Alone, Exclusive, LockHolds, Locked, Staged, Exists, NothingIsMixed,
       CurrentIsWhole
  <2> QED
    BY <1>1, <2>1, <2>2, <2>3 DEF Holds
<1> QED
  BY <1>1, <1>2, <1>3, SetupHolds, QueryHolds, EditHolds, ClearHolds, CrashHolds DEF Next, Step

-----------------------------------------------------------------------------
(* The theorems.                                                           *)

\* The types of the directory, of the builds and of the queries
\* (build_and_persist, open_specific, clear_workspace_snapshots).
THEOREM TypeCorrect == Spec => []TypeOK
<1>1. Types => TypeOK
  BY DEF Types
<1> QED
  BY <1>1, TypesHoldAtFirst, TypesHold, PTL DEF Spec

\* The stamps of a build vouch for what it read, what it staged lacks the crates
\* it has still to write wherever it is still there, and no two write one directory
\* unless it is mixed; until a clear falls into a build one builds at a time: the
\* inductive invariant (build_and_persist, clear_workspace_snapshots).
THEOREM InductiveInvariant == Spec => []IInv
<1>1. Holds => IInv
  BY BuildByBuild DEF Holds, IInv, Types
<1> QED
  BY <1>1, HoldsAtFirst, HoldsOn, PTL DEF Spec

\* A snapshot whose manifest is whole holds what a full build of its inputs would,
\* however it was built, whoever died and whenever the directory was cleared, unless
\* two builds wrote it at once; and until a clear falls into a build none is so mixed
\* and CURRENT names a whole one (plan_build, write_by_crate, publish_current).
THEOREM PublishedSnapshotsAreWhole == Spec => []SnapshotsAreWhole
<1>1. IInv => SnapshotsAreWhole
  BY DEF IInv, BuildsHold, SnapshotsAreWhole
<1> QED
  BY <1>1, InductiveInvariant, PTL

\* A query reads the graph of one tree, also after the snapshot was pruned or
\* cleared under it; and until a clear falls into a build, a build answers with
\* what CURRENT names (open_current, open_specific, publish_current_if_changed).
THEOREM QueriesReadOneTree == Spec => []QueriesHold
<1>1. IInv => QueriesHold
  BY DEF IInv, BuildsHold, QueriesHold
<1> QED
  BY <1>1, InductiveInvariant, PTL

\* A snapshot that is whole is never written again, a clear during a build or not:
\* it stays as it is or it goes (create_dir, staged directories, the prune).
THEOREM WholeSnapshotsAreImmutable == Spec => WholeIsImmutable
<1>1. ASSUME Holds, [Next]_vars, NEW g \in Ids, g \notin mixed, manifest[g] = "whole"
      PROVE  Kept(g)
  <2>0. TypeOK
    BY <1>1 DEF Holds, Types
  <2>1. ASSUME NEW b \in Builders, BuildStep(b)
        PROVE  Kept(g)
    <3>0. JobHolds(b) /\ job[b].graph_id \in Ids /\ job[b].loaded \in Trees
      BY <1>1, <2>0, JobType DEF Holds, Contents
    <3>1. ASSUME NEW retry \in BOOLEAN, Fail(b, retry)
          PROVE  Kept(g)
      BY <1>1, <2>0, <3>1, FailEffect DEF Kept
    <3>2. CASE Abort(b, TRUE) \/ Abort(b, FALSE) \/ InputChanged(b)
      BY <3>1, <3>2 DEF Abort, InputChanged
    <3>3. CASE UNCHANGED <<manifest, rows>>
      BY <3>3 DEF Kept
    <3>4. CASE Capture(b)
      BY <3>1, <3>2, <3>3, <3>4 DEF Capture, disk
    <3>5. CASE OpenLock(b) \/ TakeLock(b) \/ Reuse(b) \/ Load(b) \/ Publish(b) \/ Return(b)
      BY <3>2, <3>3, <3>5 DEF OpenLock, TakeLock, Reuse, Load, Publish, Return, publish_current, disk
    <3>6. CASE Stage(b) /\ ~InputChanged(b)
      <4> DEFINE new == FreshId(job[b].graph_id)
      <4>1. new \in Ids /\ ~Exists(new)
        BY <2>0, <3>0, <3>6, FreshIdIsFree DEF Stage
      <4>2. \E base : manifest' = [manifest EXCEPT ![new] = "none"] /\ rows' = [rows EXCEPT ![new] = base]
        BY <3>6 DEF Stage
      <4>3. g # new
        BY <1>1, <4>1 DEF Exists
      <4> QED
        BY <1>1, <2>0, <4>1, <4>2, <4>3 DEF TypeOK, Kept
    <3>7. Staged(b) /\ job[b].pc \in {"write", "torn"} => g # job[b].graph_id
      BY <1>1, <3>0 DEF JobHolds, Made, Exists
    <3>8. CASE \E c \in Crates : WriteCrate(b, c)
      <4>1. UNCHANGED manifest /\ g # job[b].graph_id
        BY <3>7, <3>8 DEF WriteCrate, Staged
      <4>2. rows'[g] = rows[g]
        BY <1>1, <2>0, <3>8, <4>1 DEF WriteCrate, TypeOK
      <4> QED
        BY <4>1, <4>2 DEF Kept
    <3>9. CASE (EndWrite(b) /\ ~InputChanged(b)) \/ WriteManifest(b)
      <4>1. UNCHANGED rows /\ g # job[b].graph_id
        BY <3>7, <3>9 DEF EndWrite, WriteManifest, Staged
      <4>2. manifest'[g] = manifest[g]
        BY <1>1, <2>0, <3>9, <4>1 DEF EndWrite, WriteManifest, TypeOK
      <4> QED
        BY <4>1, <4>2 DEF Kept
    <3>10. CASE prune_superseded_snapshots(b)
      BY <1>1, <3>10 DEF prune_superseded_snapshots, Kept
    <3> QED
      BY <2>1, <3>2, <3>4, <3>5, <3>6, <3>8, <3>9, <3>10 DEF BuildStep
  <2>2. CASE UNCHANGED <<manifest, rows>>
    BY <2>2 DEF Kept
  <2>3. CASE Edit \/ \E p \in {Proc[b] : b \in Builders} : Crash(p)
    BY <2>2, <2>3 DEF Edit, Crash, disk
  <2>4. ASSUME NEW r \in Readers, ReadCurrent(r) \/ OpenSnapshot(r) \/ Close(r)
        PROVE  Kept(g)
    BY <2>2, <2>4 DEF ReadCurrent, OpenSnapshot, Close, disk
  <2>5. CASE clear_workspace_snapshots
    BY <1>1, <2>5 DEF clear_workspace_snapshots, Kept
  <2>6. ASSUME NEW b \in Builders, NEW mode \in {"force", "reuse"}, Start(b, mode)
        PROVE  Kept(g)
    BY <2>2, <2>6 DEF Start, disk
  <2>7. CASE UNCHANGED vars
    BY <2>2, <2>7 DEF vars, disk
  <2> QED
    BY <1>1, <2>1, <2>3, <2>4, <2>5, <2>6, <2>7 DEF Next, Step
<1>2. Holds /\ [Next]_vars => [\A g \in Ids \ mixed : manifest[g] = "whole" =>
                                  \/ manifest'[g] = "whole" /\ rows'[g] = rows[g]
                                  \/ manifest'[g] = "absent"]_vars
  BY <1>1 DEF Kept
<1> QED
  BY <1>2, HoldsOn, HoldsAtFirst, PTL DEF Spec, WholeIsImmutable
=============================================================================
