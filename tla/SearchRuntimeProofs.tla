------------------------- MODULE SearchRuntimeProofs -------------------------
(***************************************************************************)
(* Proofs about the cache of search runtimes, the background sync and the  *)
(* calls that clear them.                                                  *)
(***************************************************************************)
EXTENDS SearchRuntime, FiniteSetTheorems, TLAPS

-----------------------------------------------------------------------------
(* Rights.                                                                 *)

\* Actors are distinct: a caller is neither the sync nor a maintenance pass.
LEMMA ActorsDiffer ==
  /\ Callers \subseteq Actors /\ Sync \in Actors /\ Dirs \subseteq Actors
  /\ Sync \notin Callers /\ Sync \notin Dirs /\ \A c \in Callers, d \in Dirs : c # d
  BY RuntimeAssumption DEF Actors

LEMMA RightsTypes ==
  ASSUME NEW d \in Dirs
  PROVE  /\ Read(d) \subseteq Access!Rights /\ StoreWriter(d) \subseteq Access!Rights
         /\ Publish(d) \subseteq Access!Rights /\ IndexWriter(d) \subseteq Access!Rights
         /\ All \subseteq Access!Rights
  BY DEF Read, StoreWriter, Publish, IndexWriter, All, Access!Rights, Access!Kinds

\* A directory for handles to be told by can be found among that many.
LEMMA FreshExists ==
  ASSUME NEW d \in Dirs, RuntimeTypeOK
  PROVE  Fresh(d) \in Nat \ {0}
<1> DEFINE N == Cardinality(Callers)
           Used == {caller[c].bm25 : c \in Callers}
<1>1. IsFiniteSet(Callers) /\ N \in Nat
  BY RuntimeAssumption, FS_CardinalityType
<1>2. IsFiniteSet(Used) /\ Cardinality(Used) <= N
  <2> DEFINE f == [c \in Callers |-> caller[c].bm25]
  <2>1. f \in Surjection(Callers, Used)
    BY Zenon DEF Surjection
  <2> QED
    BY <1>1, <2>1, FS_Surjection
<1>3. IsFiniteSet(Used \cup {cache[d].bm25}) /\ Cardinality(Used \cup {cache[d].bm25}) <= N + 1
  <2>1. Cardinality(Used) \in Nat
    BY <1>2, FS_CardinalityType
  <2>2. Cardinality(Used \cup {cache[d].bm25}) \in {Cardinality(Used), Cardinality(Used) + 1}
    BY <1>2, FS_AddElement
  <2>3. IsFiniteSet(Used \cup {cache[d].bm25})
    BY <1>2, FS_AddElement
  <2> QED
    BY <1>1, <1>2, <2>1, <2>2, <2>3
<1>4. Cardinality(1 .. N + 2) = N + 2
  BY <1>1, FS_Interval
<1>5. PICK g \in 1 .. N + 2 : g \notin Used \cup {cache[d].bm25}
  <2>1. CASE 1 .. N + 2 \subseteq Used \cup {cache[d].bm25}
    BY <2>1, <1>1, <1>3, <1>4, FS_Subset, FS_CardinalityType
  <2> QED
    BY <2>1
<1>6. g # cache[d].bm25 /\ \A c \in Callers : caller[c].bm25 # g
  BY <1>5
<1>7. Fresh(d) \in 1 .. N + 2
  BY <1>6 DEF Fresh
<1> QED
  BY <1>1, <1>7

-----------------------------------------------------------------------------
(* Types.                                                                  *)

LEMMA CreatedType ==
  ASSUME NEW d \in Dirs, RuntimeTypeOK
  PROVE  Created(d) \in [gen : Nat, torn : BOOLEAN]
  BY FreshExists DEF Created, RuntimeTypeOK

LEMMA FaultType ==
  ASSUME RuntimeTypeOK, Fault \/ UNCHANGED faults
  PROVE  faults' \in 0 .. MaxFaults
  BY RuntimeAssumption DEF Fault, RuntimeTypeOK

\* One workspace's BM25 directory is created or removed, or none.
LEMMA OneBm25 ==
  ASSUME RuntimeTypeOK, NEW d \in Dirs,
         \/ UNCHANGED bm25
         \/ bm25' = [bm25 EXCEPT ![d] = Created(d)]
         \/ bm25' = [bm25 EXCEPT ![d] = NoBm25]
  PROVE  bm25' \in [Dirs -> [gen : Nat, torn : BOOLEAN]]
<1>1. Created(d) \in [gen : Nat, torn : BOOLEAN]
  BY CreatedType
<1>2. NoBm25 \in [gen : Nat, torn : BOOLEAN]
  BY DEF NoBm25
<1>3. \A y \in [gen : Nat, torn : BOOLEAN] :
        bm25' = [bm25 EXCEPT ![d] = y] => bm25' \in [Dirs -> [gen : Nat, torn : BOOLEAN]]
  BY DEF RuntimeTypeOK
<1> QED
  BY <1>1, <1>2, <1>3 DEF RuntimeTypeOK

\* What a run makes of the index of its workspace.
LEMMA WritesTypes ==
  ASSUME RuntimeTypeOK, NEW d \in Dirs, NEW r, NEW l \in SUBSET {"merkle", "cache"}, Writes(d, r, l)
  PROVE  /\ store' \in [Dirs -> {"none", "empty", "part", "full"}]
         /\ bm25' \in [Dirs -> [gen : Nat, torn : BOOLEAN]]
         /\ known' \in [Dirs -> SUBSET {"merkle", "cache"}]
<1> USE DEF RuntimeTypeOK
<1>1. bm25' \in [Dirs -> [gen : Nat, torn : BOOLEAN]]
  BY OneBm25 DEF Writes
<1>2. known' \in [Dirs -> SUBSET {"merkle", "cache"}]
  BY DEF Writes
<1>3. PICK s \in Filled(d, r) : store' = [store EXCEPT ![d] = s]
  BY DEF Writes
<1>4. s \in {"none", "empty", "part", "full"}
  BY DEF Filled
<1> QED
  BY <1>1, <1>2, <1>3, <1>4

LEMMA FailsTypes ==
  ASSUME RuntimeTypeOK, NEW d \in Dirs, Fails(d)
  PROVE  /\ store' \in [Dirs -> {"none", "empty", "part", "full"}]
         /\ bm25' \in [Dirs -> [gen : Nat, torn : BOOLEAN]]
         /\ known' \in [Dirs -> SUBSET {"merkle", "cache"}]
         /\ faults' \in 0 .. MaxFaults
<1> USE DEF RuntimeTypeOK
<1>1. bm25' \in [Dirs -> [gen : Nat, torn : BOOLEAN]]
  BY OneBm25 DEF Fails
<1>2. store' \in [Dirs -> {"none", "empty", "part", "full"}] /\ UNCHANGED known
  BY DEF Fails
<1>3. faults' \in 0 .. MaxFaults
  BY FaultType DEF Fails
<1> QED
  BY <1>1, <1>2, <1>3

LEMMA FindsType ==
  ASSUME RuntimeTypeOK, NEW d \in Dirs, FindsNoChange(d)
  PROVE  bm25' \in [Dirs -> [gen : Nat, torn : BOOLEAN]]
<1>1. UNCHANGED bm25 \/ bm25' = [bm25 EXCEPT ![d] = Created(d)]
  BY DEF FindsNoChange, RuntimeTypeOK
<1> QED
  BY <1>1, OneBm25

LEMMA TrackingType ==
  ASSUME RuntimeTypeOK, NEW d \in Dirs
  PROVE  Tracking(d) \subseteq Dirs
  BY DEF Tracking, RuntimeTypeOK

LEMMA IdleType == Idle \in CallerStates
  BY DEF Idle, CallerStates, Operations

LEMMA CallerTypes ==
  ASSUME RuntimeTypeOK, RightsMatchSteps, NEW c \in Callers, CallerStep(c)
  PROVE  RuntimeTypeOK'
<1> USE DEF RuntimeTypeOK
<1>a. \A a \in Actors : rights[a] \subseteq Access!Rights
  OBVIOUS
<1>1. CASE LockShared(c)
  <2> DEFINE y == [caller[c] EXCEPT !.pc = IF caller[c].op = "search" THEN "look" ELSE "open"]
  <2>1. caller[c].dir \in Dirs /\ c \in Actors /\ y \in CallerStates
    BY <1>1, ActorsDiffer DEF LockShared, At, CallerStates
  <2>2. caller' = [caller EXCEPT ![c] = y]
    BY <1>1 DEF LockShared, Goto
  <2>3. rights' \in [Actors -> SUBSET Access!Rights]
    BY <1>1, <2>1, RightsTypes DEF LockShared, Acquire
  <2> QED
    BY <1>1, <2>1, <2>2, <2>3 DEF LockShared, index, life
<1>2. CASE Look(c)
  <2> DEFINE d == caller[c].dir
             y == [caller[c] EXCEPT !.pc = "open", !.bm25 = bm25'[d].gen]
             z == [caller[c] EXCEPT !.pc = "build"]
  <2>1. c \in Actors /\ d \in Dirs /\ caller[c] \in CallerStates
        /\ caller[c].pc = "look" /\ caller[c].op = "search"
    BY <1>2, ActorsDiffer DEF Look, At, CallerStates
  <2>2. bm25' \in [Dirs -> [gen : Nat, torn : BOOLEAN]] /\ faults' \in 0 .. MaxFaults
    BY <1>2, <2>1, OneBm25, FaultType DEF Look, Refill
  <2>3. y \in CallerStates /\ z \in CallerStates
    BY <2>1, <2>2 DEF CallerStates
  <2>4. CASE caller' = [caller EXCEPT ![c] = y] /\ tracked' = Tracking(d) /\ UNCHANGED rights
    BY <1>2, <2>1, <2>2, <2>3, <2>4, TrackingType DEF Look, life
  <2>5. CASE caller' = [caller EXCEPT ![c] = z] /\ Release(c) /\ UNCHANGED tracked
    BY <1>2, <2>1, <2>2, <2>3, <2>5 DEF Look, life, Release
  <2>6. \/ caller' = [caller EXCEPT ![c] = y] /\ tracked' = Tracking(d) /\ UNCHANGED rights
        \/ caller' = [caller EXCEPT ![c] = z] /\ Release(c) /\ UNCHANGED tracked
    BY <1>2 DEF Look, Goto
  <2> QED
    BY <2>4, <2>5, <2>6
<1>3. CASE Rebuild(c)
  <2> DEFINE d == caller[c].dir
             y == [caller[c] EXCEPT !.pc = "open", !.bm25 = bm25[d].gen]
             z == [caller[c] EXCEPT !.pc = "run"]
  <2>1. c \in Actors /\ d \in Dirs /\ caller[c] \in CallerStates
        /\ caller[c].pc = "build" /\ caller[c].op = "search"
    BY <1>3, ActorsDiffer DEF Rebuild, At, CallerStates
  <2>2. y \in CallerStates /\ z \in CallerStates
    BY <2>1 DEF CallerStates
  <2>3. CASE caller' = [caller EXCEPT ![c] = y] /\ UNCHANGED <<bm25, known, cache, rights, faults>>
    BY <1>3, <2>1, <2>2, <2>3 DEF Rebuild, life
  <2>4. ASSUME NEW left \in SUBSET {"bm25", "merkle", "cache"},
               Acquire(c, IndexWriter(d)), cache' = [cache EXCEPT ![d] = NoEntry],
               IF left = {} THEN UNCHANGED faults ELSE Fault,
               bm25' = [bm25 EXCEPT ![d] = IF "bm25" \in left THEN @ ELSE NoBm25],
               known' = [known EXCEPT ![d] = @ \cap left],
               caller' = [caller EXCEPT ![c] = z]
        PROVE  RuntimeTypeOK'
    <3>1. rights' \in [Actors -> SUBSET Access!Rights]
      BY <2>1, <2>4, RightsTypes DEF Acquire
    <3>2. cache' \in [Dirs -> [held : BOOLEAN, bm25 : Nat, guarded : BOOLEAN]]
      BY <2>1, <2>4 DEF NoEntry
    <3>3. bm25' \in [Dirs -> [gen : Nat, torn : BOOLEAN]]
      BY <2>1, <2>4, OneBm25
    <3>4. faults' \in 0 .. MaxFaults
      BY <2>4, FaultType
    <3>5. known' \in [Dirs -> SUBSET {"merkle", "cache"}]
      BY <2>1, <2>4
    <3> QED
      BY <1>3, <2>1, <2>2, <2>4, <3>1, <3>2, <3>3, <3>4, <3>5 DEF Rebuild, life
  <2> QED
    BY <1>3, <2>3, <2>4 DEF Rebuild, Goto
<1>4. CASE Run(c)
  <2> DEFINE d == caller[c].dir
             y == [caller[c] EXCEPT !.pc = "reopen"]
  <2>1. c \in Actors /\ d \in Dirs /\ d \in Actors /\ caller[c] \in CallerStates
        /\ caller[c].pc = "run" /\ caller[c].op = "search"
    BY <1>4, ActorsDiffer DEF Run, At, CallerStates
  <2>2. y \in CallerStates
    BY <2>1 DEF CallerStates
  <2>3. CASE /\ Writes(d, known[d] \ {"merkle"}, {"cache"}) /\ tracked' = Tracking(d)
             /\ HandOver(c, d) /\ Goto(c, "reopen") /\ UNCHANGED faults
    <3>1. rights' \in [Actors -> SUBSET Access!Rights]
      BY <2>1, <2>3, RightsTypes DEF HandOver
    <3>2. caller' \in [Callers -> CallerStates]
      BY <2>2, <2>3 DEF Goto
    <3> QED
      BY <1>4, <2>1, <2>3, <3>1, <3>2, WritesTypes, TrackingType DEF Run, life
  <2>4. CASE Fails(d) /\ Return(c) /\ Release(c) /\ UNCHANGED tracked
    BY <1>4, <2>1, <2>4, FailsTypes, IdleType DEF Run, Return, Release, life
  <2> QED
    BY <1>4, <2>3, <2>4 DEF Run
<1>16. CASE Reopen(c)
  <2> DEFINE d == caller[c].dir
             y == [caller[c] EXCEPT !.pc = "open", !.bm25 = IF Opens(d) THEN bm25[d].gen ELSE 0]
  <2>1. d \in Dirs /\ caller[c] \in CallerStates /\ caller[c].pc = "reopen" /\ caller[c].op = "search"
    BY <1>16 DEF Reopen, At, CallerStates
  <2>2. y \in CallerStates
    BY <2>1 DEF CallerStates
  <2>3. caller' = [caller EXCEPT ![c] = y]
    BY <1>16 DEF Reopen
  <2> QED
    BY <1>16, <2>2, <2>3 DEF Reopen, index, life
<1>5. CASE Open(c)
  <2> DEFINE e == cache[caller[c].dir]
             y == [caller[c] EXCEPT !.pc = "query",
                                    !.bm25 = IF caller[c].bm25 = 0 THEN e.bm25 ELSE caller[c].bm25]
             z == [caller[c] EXCEPT !.pc = "opening"]
  <2>1. caller[c].dir \in Dirs /\ caller[c] \in CallerStates
        /\ caller[c].pc = "open" /\ caller[c].op \in {"search", "similar"}
    BY <1>5 DEF Open, At, CallerStates
  <2>2. y \in CallerStates /\ z \in CallerStates
    BY <2>1 DEF CallerStates
  <2>3. caller' = [caller EXCEPT ![c] = y] \/ caller' = [caller EXCEPT ![c] = z]
    BY <1>5 DEF Open, Goto
  <2> QED
    BY <1>5, <2>2, <2>3 DEF Open, index, life
<1>6. CASE Opened(c)
  <2> DEFINE y == [caller[c] EXCEPT !.pc = "query"]
  <2>1. caller[c].dir \in Dirs /\ caller[c].bm25 \in Nat /\ y \in CallerStates
    BY <1>6 DEF Opened, At, CallerStates
  <2>2. caller' = [caller EXCEPT ![c] = y]
    BY <1>6 DEF Opened, Goto
  <2>3. /\ cache' \in [Dirs -> [held : BOOLEAN, bm25 : Nat, guarded : BOOLEAN]]
        /\ store' \in [Dirs -> {"none", "empty", "part", "full"}]
    BY <1>6, <2>1 DEF Opened
  <2> QED
    BY <1>6, <2>1, <2>2, <2>3 DEF Opened, life
<1>7. CASE Query(c)
  BY <1>7, ActorsDiffer, RightsTypes, CreatedType, IdleType, RuntimeAssumption
     DEF Query, At, Return, Release, CallerStates, index, life
<1>8. CASE ForceRun(c)
  <2> DEFINE d == caller[c].dir
             y == [caller[c] EXCEPT !.pc = "write"]
  <2>1. c \in Actors /\ d \in Dirs /\ d \in Actors /\ y \in CallerStates
    BY <1>8, ActorsDiffer DEF ForceRun, At, CallerStates
  <2>2. caller' = [caller EXCEPT ![c] = y]
    BY <1>8 DEF ForceRun, Goto
  <2>3. rights' \in [Actors -> SUBSET Access!Rights]
    BY <1>8, <2>1, RightsTypes DEF ForceRun, Acquire
  <2>4. cache' \in [Dirs -> [held : BOOLEAN, bm25 : Nat, guarded : BOOLEAN]]
    BY <1>8, <2>1 DEF ForceRun, NoEntry
  <2>5. /\ store' \in [Dirs -> {"none", "empty", "part", "full"}]
        /\ known' \in [Dirs -> SUBSET {"merkle", "cache"}]
    <3>1. /\ UNCHANGED store \/ store' = [store EXCEPT ![d] = "empty"]
          /\ \E r \in {known[d] \ {"merkle"}, {}} : known' = [known EXCEPT ![d] = r]
      BY <1>8 DEF ForceRun
    <3>2. store' \in [Dirs -> {"none", "empty", "part", "full"}]
      BY <2>1, <3>1
    <3>3. known[d] \ {"merkle"} \in SUBSET {"merkle", "cache"}
      BY <2>1
    <3>4. known' \in [Dirs -> SUBSET {"merkle", "cache"}]
      BY <2>1, <3>1, <3>3
    <3> QED
      BY <3>2, <3>4
  <2>6. bm25' \in [Dirs -> [gen : Nat, torn : BOOLEAN]]
    BY <1>8, <2>1, OneBm25 DEF ForceRun
  <2> QED
    BY <1>8, <2>1, <2>2, <2>3, <2>4, <2>5, <2>6 DEF ForceRun, life
<1>9. CASE IndexStart(c)
  <2> DEFINE y == [caller[c] EXCEPT !.pc = "publish"]
  <2>1. caller[c].dir \in Dirs /\ c \in Actors /\ y \in CallerStates
    BY <1>9, ActorsDiffer DEF IndexStart, At, CallerStates
  <2>2. caller' = [caller EXCEPT ![c] = y]
    BY <1>9 DEF IndexStart, Goto
  <2>3. rights' \in [Actors -> SUBSET Access!Rights]
    BY <1>9, <2>1, RightsTypes DEF IndexStart, Acquire
  <2> QED
    BY <1>9, <2>1, <2>2, <2>3 DEF IndexStart, index, life
<1>10. CASE IndexPublish(c)
  <2> DEFINE y == [caller[c] EXCEPT !.pc = "write"]
  <2>1. caller[c].dir \in Dirs /\ c \in Actors /\ y \in CallerStates
    BY <1>10, ActorsDiffer DEF IndexPublish, At, CallerStates
  <2>2. caller' = [caller EXCEPT ![c] = y]
    BY <1>10 DEF IndexPublish, Goto
  <2>3. rights' \in [Actors -> SUBSET Access!Rights]
    BY <1>10, <2>1, RightsTypes DEF IndexPublish, Acquire
  <2> QED
    BY <1>10, <2>1, <2>2, <2>3 DEF IndexPublish, index, life
<1>17. CASE IndexUnchanged(c)
  <2> DEFINE y == [caller[c] EXCEPT !.pc = "track"]
  <2>1. caller[c].dir \in Dirs /\ c \in Actors /\ y \in CallerStates
    BY <1>17, ActorsDiffer DEF IndexUnchanged, At, CallerStates
  <2>2. caller' = [caller EXCEPT ![c] = y]
    BY <1>17 DEF IndexUnchanged, Goto
  <2>3. rights' \in [Actors -> SUBSET Access!Rights]
    BY <1>17, <2>1 DEF IndexUnchanged, Release
  <2>4. bm25' \in [Dirs -> [gen : Nat, torn : BOOLEAN]]
    BY <1>17, <2>1, FindsType DEF IndexUnchanged
  <2> QED
    BY <1>17, <2>1, <2>2, <2>3, <2>4 DEF IndexUnchanged, life
<1>11. CASE IndexWrite(c)
  <2> DEFINE d == caller[c].dir
             y == [caller[c] EXCEPT !.pc = "track"]
  <2>1. c \in Actors /\ d \in Dirs /\ d \in Actors /\ caller[c] \in CallerStates
        /\ caller[c].op \in {"index", "force"}
    BY <1>11, ActorsDiffer DEF IndexWrite, At, CallerStates
  <2>2. y \in CallerStates
    BY <2>1 DEF CallerStates
  <2>3. caller' \in [Callers -> CallerStates]
    BY <1>11, <2>2, IdleType DEF IndexWrite, Goto, Return
  <2>4. CASE Writes(d, known[d], {"merkle", "cache"}) /\ HandOver(c, d) /\ UNCHANGED faults
    <3>1. rights' \in [Actors -> SUBSET Access!Rights]
      BY <2>1, <2>4, RightsTypes DEF HandOver
    <3> QED
      BY <1>11, <2>1, <2>3, <2>4, <3>1, WritesTypes DEF IndexWrite, life
  <2>5. CASE Fails(d) /\ Release(c)
    BY <1>11, <2>1, <2>3, <2>5, FailsTypes DEF IndexWrite, Release, life
  <2> QED
    BY <1>11, <2>4, <2>5 DEF IndexWrite
<1>12. CASE Track(c)
  BY <1>12, TrackingType, IdleType DEF Track, At, Return, CallerStates, index, life
<1>13. CASE ClearCache(c)
  <2> DEFINE y == [caller[c] EXCEPT !.pc = "delete"]
             new == IF caller[c].op = "clear_all" THEN All ELSE IndexWriter(caller[c].dir)
  <2>1. caller[c].dir \in Dirs /\ c \in Actors /\ y \in CallerStates
    <3>1. caller[c] \in CallerStates /\ caller[c].pc = "lock" /\ caller[c].op \in {"clear_cache", "clear_all"}
      BY <1>13 DEF ClearCache, At
    <3> QED
      BY <3>1, ActorsDiffer DEF CallerStates
  <2>2. caller' = [caller EXCEPT ![c] = y]
    BY <1>13 DEF ClearCache, Goto
  <2>3. rights' = [rights EXCEPT ![c] = @ \cup new]
    BY <1>13 DEF ClearCache, Acquire
  <2>4. new \subseteq Access!Rights
    BY <2>1, RightsTypes
  <2> HIDE DEF new
  <2>5. rights' \in [Actors -> SUBSET Access!Rights]
    BY <2>1, <2>3, <2>4
  <2>6. cache' \in [Dirs -> [held : BOOLEAN, bm25 : Nat, guarded : BOOLEAN]] /\ tracked' \subseteq Dirs
    BY <1>13 DEF ClearCache, NoEntry
  <2> QED
    BY <1>13, <2>1, <2>2, <2>5, <2>6 DEF ClearCache, index, life
<1>14. CASE DeleteFiles(c)
  <2>1. c \in Actors /\ caller' \in [Callers -> CallerStates] /\ rights' \in [Actors -> SUBSET Access!Rights]
    BY <1>14, ActorsDiffer, IdleType DEF DeleteFiles, Return, Release
  <2>2. PICK left \in SUBSET {"bm25", "vectors", "cache"} :
          /\ IF left = {} THEN UNCHANGED faults ELSE Fault
          /\ bm25' = [d \in Dirs |-> IF d \in Scope(c) /\ "bm25" \notin left THEN NoBm25 ELSE bm25[d]]
          /\ store' = [d \in Dirs |-> IF d \in Scope(c) /\ "vectors" \notin left
                                      THEN "none" ELSE store[d]]
          /\ known' = [d \in Dirs |-> IF d \in Scope(c) /\ "cache" \notin left
                                      THEN known[d] \ {"cache"} ELSE known[d]]
    BY <1>14 DEF DeleteFiles
  <2>3. bm25' \in [Dirs -> [gen : Nat, torn : BOOLEAN]]
    BY <2>2 DEF NoBm25
  <2>4. store' \in [Dirs -> {"none", "empty", "part", "full"}] /\ known' \in [Dirs -> SUBSET {"merkle", "cache"}]
    BY <2>2
  <2>5. faults' \in 0 .. MaxFaults
    BY <2>2, FaultType
  <2> QED
    BY <1>14, <2>1, <2>3, <2>4, <2>5 DEF DeleteFiles, life
<1>15. CASE Clear(c)
  BY <1>15, ActorsDiffer, RightsTypes, CreatedType, IdleType, RuntimeAssumption
     DEF Clear, At, Return, NoEntry, CallerStates, index, life
<1> QED
  BY <1>1, <1>2, <1>3, <1>4, <1>5, <1>6, <1>7, <1>8, <1>9, <1>10, <1>11, <1>12, <1>13, <1>14, <1>15, <1>16, <1>17 DEF CallerStep

\* The steps of others than callers.
OtherStep ==
  \/ \E d \in Dirs : MaintenanceEnds(d) \/ Corrupt(d) \/ SyncDirectory(d)
  \/ \E c \in Callers, op \in Ops, d \in Dirs : Call(c, op, d)
  \/ Cycle \/ Profiles \/ SyncUnchanged \/ SyncPublish \/ SyncMaintain \/ CycleEnds \/ SyncStops
  \/ RequestShutdown \/ ShutDown \/ WaitForTasks \/ ClearAndExit

LEMMA StepsAre ==
  ASSUME [Next]_vars
  PROVE  (\E c \in Callers : CallerStep(c)) \/ OtherStep \/ UNCHANGED vars
  BY DEF Next, OtherStep, SyncStep, ExitStep, Finished

LEMMA OtherTypes ==
  ASSUME RuntimeTypeOK, OtherStep
  PROVE  RuntimeTypeOK'
<1> USE DEF RuntimeTypeOK
<1>a. \A a \in Actors : rights[a] \subseteq Access!Rights
  OBVIOUS
<1>1. ASSUME NEW d \in Dirs, MaintenanceEnds(d)
     PROVE  RuntimeTypeOK'
  BY <1>1, ActorsDiffer, RightsTypes, RuntimeAssumption DEF MaintenanceEnds, Release, SyncStates, index, life
<1>2. ASSUME NEW d \in Dirs, Corrupt(d)
     PROVE  RuntimeTypeOK'
  <2> DEFINE y == [bm25[d] EXCEPT !.torn = TRUE]
  <2>1. y \in [gen : Nat, torn : BOOLEAN] /\ bm25' = [bm25 EXCEPT ![d] = y]
    <3>1. y \in [gen : Nat, torn : BOOLEAN]
      <4>1. bm25[d] \in [gen : Nat, torn : BOOLEAN]
        BY DEF RuntimeTypeOK
      <4> HIDE DEF RuntimeTypeOK
      <4> QED
        BY <4>1
    <3>2. bm25' = [bm25 EXCEPT ![d] = y]
      BY <1>2 DEF Corrupt
    <3> QED
      BY <3>1, <3>2
  <2> HIDE DEF y
  <2>2. bm25' \in [Dirs -> [gen : Nat, torn : BOOLEAN]]
    BY <2>1
  <2>3. faults' \in 0 .. MaxFaults
    BY <1>2, FaultType DEF Corrupt
  <2> QED
    BY <1>2, <2>2, <2>3 DEF Corrupt, life
<1>3. ASSUME NEW d \in Dirs, SyncDirectory(d)
     PROVE  RuntimeTypeOK'
  BY <1>3, ActorsDiffer, RightsTypes, RuntimeAssumption DEF SyncDirectory, Acquire, SyncStates, index, life
<1>4. ASSUME NEW c \in Callers, NEW op \in Ops, NEW d \in Dirs, Call(c, op, d)
     PROVE  RuntimeTypeOK'
  BY <1>4, RuntimeAssumption DEF Call, CallerStates, index, life
<1>5. CASE Cycle
  BY <1>5, ActorsDiffer, RightsTypes, RuntimeAssumption DEF Cycle, SyncStates, index, life
<1>6. CASE Profiles
  <2>1. sync' \in SyncStates
    BY <1>6 DEF Profiles, SyncStates
  <2>2. rights' \in [Actors -> SUBSET Access!Rights]
    BY <1>6, ActorsDiffer DEF Profiles, Release
  <2> QED
    BY <1>6, <2>1, <2>2 DEF Profiles, index, life
<1>15. CASE SyncUnchanged
  <2>1. sync.dir \in Dirs /\ Sync \in Actors /\ sync' \in SyncStates
    BY <1>15, ActorsDiffer DEF SyncUnchanged, SyncStates
  <2>2. bm25' \in [Dirs -> [gen : Nat, torn : BOOLEAN]]
    BY <1>15, <2>1, FindsType DEF SyncUnchanged
  <2>3. rights' \in [Actors -> SUBSET Access!Rights]
    BY <1>15, <2>1 DEF SyncUnchanged, Release
  <2> QED
    BY <1>15, <2>1, <2>2, <2>3 DEF SyncUnchanged, life
<1>7. CASE SyncPublish
  <2> DEFINE d == sync.dir
  <2>1. d \in Dirs /\ Sync \in Actors
    BY <1>7, ActorsDiffer DEF SyncPublish, SyncStates
  <2>2. sync' \in SyncStates
    BY <1>7, <2>1 DEF SyncPublish, SyncStates
  <2>3. rights' \in [Actors -> SUBSET Access!Rights]
    BY <1>7, <2>1, RightsTypes DEF SyncPublish, Acquire, Release
  <2>4. CASE Writes(d, known[d], {"merkle", "cache"}) /\ UNCHANGED faults
    BY <1>7, <2>1, <2>2, <2>3, <2>4, WritesTypes DEF SyncPublish, life
  <2>5. CASE Fails(d)
    BY <1>7, <2>1, <2>2, <2>3, <2>5, FailsTypes DEF SyncPublish, life
  <2> QED
    BY <1>7, <2>4, <2>5 DEF SyncPublish
<1>8. CASE SyncMaintain
  <2>1. sync.dir \in Dirs /\ sync' \in SyncStates
    BY <1>8 DEF SyncMaintain, SyncStates
  <2>2. rights' \in [Actors -> SUBSET Access!Rights]
    <3>1. StoreWriter(sync.dir) \subseteq Access!Rights /\ Sync \in Actors
      BY <2>1, ActorsDiffer, RightsTypes
    <3>2. \E r \in {StoreWriter(sync.dir), {}} : rights' = [rights EXCEPT ![Sync] = r]
      BY <1>8 DEF SyncMaintain, Release
    <3> QED
      BY <3>1, <3>2
  <2> QED
    BY <1>8, <2>1, <2>2 DEF SyncMaintain, index, life
<1>9. CASE CycleEnds
  BY <1>9, ActorsDiffer, RightsTypes, RuntimeAssumption DEF CycleEnds, SyncStates, index, life
<1>10. CASE SyncStops
  BY <1>10, ActorsDiffer, RightsTypes, RuntimeAssumption DEF SyncStops, SyncStates, index, life
<1>11. CASE RequestShutdown
  BY <1>11, ActorsDiffer, RightsTypes, RuntimeAssumption DEF RequestShutdown, SyncStates, index, life
<1>12. CASE ShutDown
  BY <1>12, ActorsDiffer, RightsTypes, RuntimeAssumption DEF ShutDown, SyncStates, index, life
<1>13. CASE WaitForTasks
  <2>1. [pc |-> "off", todo |-> {}, dir |-> Nobody] \in SyncStates
    BY DEF SyncStates
  <2>2. sync' \in SyncStates
    BY <1>13, <2>1 DEF WaitForTasks
  <2>3. rights' \in [Actors -> SUBSET Access!Rights]
    BY <1>13, ActorsDiffer DEF WaitForTasks, Release
  <2> QED
    BY <1>13, <2>2, <2>3 DEF WaitForTasks, index
<1>14. CASE ClearAndExit
  <2>1. cache' = [d \in Dirs |-> NoEntry] \/ UNCHANGED cache
    BY <1>14 DEF ClearAndExit
  <2>0. NoEntry \in [held : BOOLEAN, bm25 : Nat, guarded : BOOLEAN]
    BY DEF NoEntry
  <2>2. cache' \in [Dirs -> [held : BOOLEAN, bm25 : Nat, guarded : BOOLEAN]]
    BY <2>0, <2>1
  <2>3. tracked' \subseteq Dirs
    BY <1>14 DEF ClearAndExit
  <2> QED
    BY <1>14, <2>2, <2>3 DEF ClearAndExit, index
<1> QED
  BY <1>1, <1>2, <1>3, <1>4, <1>5, <1>6, <1>7, <1>8, <1>9, <1>10, <1>11, <1>12, <1>13, <1>14, <1>15 DEF OtherStep

-----------------------------------------------------------------------------
(* Rights match the steps everybody is at.                                 *)

LEMMA CallerFrame ==
  ASSUME RuntimeTypeOK, NEW c \in Callers, CallerStep(c)
  PROVE  /\ \A b \in Callers \ {c} : caller'[b] = caller[b] /\ rights'[b] = rights[b]
         /\ rights'[Sync] = rights[Sync] /\ UNCHANGED sync
         /\ \A d \in Dirs : rights'[d] \in {rights[d], StoreWriter(d)}
<1> USE DEF RuntimeTypeOK
<1>0. caller[c] \in CallerStates
  OBVIOUS
<1>1. CASE LockShared(c)
  BY <1>0, <1>1, ActorsDiffer DEF LockShared, At, Acquire, Goto, CallerStates
<1>2. CASE Look(c)
  BY <1>0, <1>2, ActorsDiffer DEF Look, At, Release, Goto, Refill, Fault, CallerStates
<1>3. CASE Rebuild(c)
  BY <1>0, <1>3, ActorsDiffer DEF Rebuild, At, Acquire, Goto, CallerStates
<1>4. CASE Run(c)
  <2>1. caller[c].dir \in Dirs
    BY <1>0, <1>4 DEF Run, At, CallerStates
  <2>2. \/ HandOver(c, caller[c].dir)
        \/ Release(c)
    BY <1>4 DEF Run
  <2>3. \A b \in Callers \ {c} : caller'[b] = caller[b]
    BY <1>4 DEF Run, Return, Goto
  <2> QED
    BY <1>4, <2>1, <2>2, <2>3, ActorsDiffer DEF Run, HandOver, Release
<1>16. CASE Reopen(c)
  BY <1>16 DEF Reopen
<1>17. CASE IndexUnchanged(c)
  BY <1>17, ActorsDiffer DEF IndexUnchanged, Release, Goto
<1>5. CASE Open(c)
  BY <1>0, <1>5, ActorsDiffer DEF Open, At, Goto, CallerStates
<1>6. CASE Opened(c)
  BY <1>0, <1>6, ActorsDiffer DEF Opened, At, Goto, CallerStates
<1>7. CASE Query(c)
  BY <1>0, <1>7, ActorsDiffer DEF Query, At, Return, Release, CallerStates
<1>8. CASE ForceRun(c)
  BY <1>0, <1>8, ActorsDiffer DEF ForceRun, At, Acquire, Goto, NoEntry, CallerStates
<1>9. CASE IndexStart(c)
  BY <1>0, <1>9, ActorsDiffer DEF IndexStart, At, Acquire, Goto, CallerStates
<1>10. CASE IndexPublish(c)
  BY <1>0, <1>10, ActorsDiffer DEF IndexPublish, At, Acquire, Goto, CallerStates
<1>11. CASE IndexWrite(c)
  <2>1. caller[c].dir \in Dirs
    BY <1>0, <1>11 DEF IndexWrite, At, CallerStates
  <2>2. HandOver(c, caller[c].dir) \/ Release(c)
    BY <1>11 DEF IndexWrite
  <2>3. \A b \in Callers \ {c} : caller'[b] = caller[b]
    BY <1>11 DEF IndexWrite, Return, Goto
  <2> QED
    BY <1>11, <2>1, <2>2, <2>3, ActorsDiffer DEF IndexWrite, HandOver, Release
<1>12. CASE Track(c)
  BY <1>0, <1>12, ActorsDiffer DEF Track, At, Return, CallerStates
<1>13. CASE ClearCache(c)
  BY <1>0, <1>13, ActorsDiffer DEF ClearCache, At, Acquire, Goto, NoEntry, Scope, CallerStates
<1>14. CASE DeleteFiles(c)
  BY <1>0, <1>14, ActorsDiffer DEF DeleteFiles, At, Fault, Return, Release, Scope, CallerStates
<1>15. CASE Clear(c)
  BY <1>0, <1>15, ActorsDiffer DEF Clear, At, Return, NoEntry, CallerStates
<1> QED
  BY <1>1, <1>2, <1>3, <1>4, <1>5, <1>6, <1>7, <1>8, <1>9, <1>10, <1>11, <1>12, <1>13, <1>14, <1>15, <1>16, <1>17 DEF CallerStep

LEMMA CallerRights ==
  ASSUME RuntimeTypeOK, RightsMatchSteps, NEW c \in Callers, CallerStep(c)
  PROVE  rights'[c] \in CallerMayHold(c)'
<1> USE DEF RuntimeTypeOK
<1>0. caller[c] \in CallerStates /\ c \in Actors /\ rights[c] \in CallerMayHold(c)
  BY ActorsDiffer DEF RightsMatchSteps
<1> USE DEF CallerMayHold
<1>1. CASE LockShared(c)
  BY <1>0, <1>1, ActorsDiffer DEF LockShared, At, Acquire, Goto, CallerStates, IndexWriter, Idle
<1>2. CASE Look(c)
  BY <1>0, <1>2, ActorsDiffer DEF Look, At, Release, Goto, Refill, Fault, CallerStates, IndexWriter, Idle
<1>3. CASE Rebuild(c)
  <2> DEFINE d == caller[c].dir
  <2>1. CASE /\ caller' = [caller EXCEPT ![c].pc = "open", ![c].bm25 = bm25[d].gen]
             /\ UNCHANGED rights
    <3>1. rights[c] = {}
      BY <1>0, <1>3 DEF Rebuild, At
    <3> QED
      BY <1>0, <2>1, <3>1 DEF CallerStates
  <2>2. CASE Acquire(c, IndexWriter(d)) /\ Goto(c, "run")
    BY <1>0, <1>3, <2>2 DEF Rebuild, At, Acquire, Goto, CallerStates
  <2> QED
    BY <1>3, <2>1, <2>2 DEF Rebuild
<1>4. CASE Run(c)
  <2>1. CASE HandOver(c, caller[c].dir) /\ Goto(c, "reopen")
    <3>1. caller[c].dir \in Dirs
      BY <1>0, <1>4 DEF Run, At, CallerStates
    <3>2. rights'[c] = {} /\ caller'[c].pc = "reopen"
      BY <1>0, <2>1, <3>1, ActorsDiffer DEF HandOver, Goto, CallerStates
    <3> QED
      BY <3>2
  <2>2. CASE Release(c) /\ Return(c)
    BY <1>0, <2>2 DEF Release, Return, Idle
  <2> QED
    BY <1>4, <2>1, <2>2 DEF Run
<1>16. CASE Reopen(c)
  BY <1>0, <1>16 DEF Reopen, At, CallerStates
<1>17. CASE IndexUnchanged(c)
  BY <1>0, <1>17 DEF IndexUnchanged, At, Release, Goto, CallerStates
<1>5. CASE Open(c)
  <2>1. caller[c].pc = "open" /\ UNCHANGED rights
    BY <1>5 DEF Open, At
  <2>2. caller'[c].pc \in {"query", "opening"} /\ caller'[c].dir = caller[c].dir
    BY <1>0, <1>5 DEF Open, Goto, CallerStates
  <2> QED
    BY <1>0, <2>1, <2>2
<1>6. CASE Opened(c)
  BY <1>0, <1>6, ActorsDiffer DEF Opened, At, Goto, CallerStates, IndexWriter, Idle
<1>7. CASE Query(c)
  BY <1>0, <1>7, ActorsDiffer DEF Query, At, Return, Release, CallerStates, IndexWriter, Idle
<1>8. CASE ForceRun(c)
  BY <1>0, <1>8, ActorsDiffer DEF ForceRun, At, Acquire, Goto, NoEntry, CallerStates, IndexWriter, Idle
<1>9. CASE IndexStart(c)
  BY <1>0, <1>9, ActorsDiffer DEF IndexStart, At, Acquire, Goto, CallerStates, IndexWriter, Idle
<1>10. CASE IndexPublish(c)
  BY <1>0, <1>10, ActorsDiffer DEF IndexPublish, At, Acquire, Goto, CallerStates, IndexWriter, Idle
<1>11. CASE IndexWrite(c)
  <2>1. rights'[c] = {}
    <3>1. caller[c].dir \in Dirs
      BY <1>0, <1>11 DEF IndexWrite, At, CallerStates
    <3>2. HandOver(c, caller[c].dir) \/ Release(c)
      BY <1>11 DEF IndexWrite
    <3> QED
      BY <1>0, <3>1, <3>2, ActorsDiffer DEF HandOver, Release
  <2>2. caller'[c].pc \in {"track", "idle"}
    <3>1. Goto(c, "track") \/ Return(c)
      BY <1>11 DEF IndexWrite
    <3> QED
      BY <1>0, <3>1 DEF Goto, Return, Idle, CallerStates
  <2> QED
    BY <2>1, <2>2
<1>12. CASE Track(c)
  BY <1>0, <1>12, ActorsDiffer DEF Track, At, Return, CallerStates, IndexWriter, Idle
<1>13. CASE ClearCache(c)
  BY <1>0, <1>13, ActorsDiffer DEF ClearCache, At, Acquire, Goto, NoEntry, Scope, CallerStates, IndexWriter, Idle
<1>14. CASE DeleteFiles(c)
  BY <1>0, <1>14, ActorsDiffer DEF DeleteFiles, At, Fault, Return, Release, Scope, CallerStates, IndexWriter, Idle
<1>15. CASE Clear(c)
  BY <1>0, <1>15, ActorsDiffer DEF Clear, At, Return, NoEntry, CallerStates, IndexWriter, Idle
<1> QED
  BY <1>1, <1>2, <1>3, <1>4, <1>5, <1>6, <1>7, <1>8, <1>9, <1>10, <1>11, <1>12, <1>13, <1>14, <1>15, <1>16, <1>17 DEF CallerStep

LEMMA MatchAfterCallers ==
  ASSUME RuntimeTypeOK, RightsMatchSteps, NEW c \in Callers, CallerStep(c)
  PROVE  RightsMatchSteps'
<1>1. \A b \in Callers : rights'[b] \in CallerMayHold(b)'
  <2>1. ASSUME NEW b \in Callers, b # c
        PROVE  rights'[b] \in CallerMayHold(b)'
    <3>1. caller'[b] = caller[b] /\ rights'[b] = rights[b]
      BY <2>1, CallerFrame
    <3> QED
      BY <3>1 DEF RightsMatchSteps, CallerMayHold
  <2> QED
    BY <2>1, CallerRights
<1>2. rights'[Sync] \in SyncMayHold'
  <2>1. rights'[Sync] = rights[Sync] /\ UNCHANGED sync
    BY CallerFrame
  <2> QED
    BY <2>1 DEF RightsMatchSteps, SyncMayHold
<1>3. \A d \in Dirs : rights'[d] \in {{}, StoreWriter(d)}
  BY CallerFrame DEF RightsMatchSteps
<1> QED
  BY <1>1, <1>2, <1>3 DEF RightsMatchSteps

LEMMA MatchAfterOthers ==
  ASSUME RuntimeTypeOK, RightsMatchSteps, OtherStep
  PROVE  RightsMatchSteps'
<1> USE DEF RuntimeTypeOK
<1>1. ASSUME NEW d \in Dirs, MaintenanceEnds(d)
      PROVE  RightsMatchSteps'
  <2>1. rights'[d] = {} /\ \A a \in Callers \cup {Sync} \cup (Dirs \ {d}) : rights'[a] = rights[a]
    BY <1>1, ActorsDiffer DEF MaintenanceEnds, Release
  <2> QED
    BY <1>1, <2>1 DEF MaintenanceEnds, RightsMatchSteps, CallerMayHold, SyncMayHold
<1>2. ASSUME NEW d \in Dirs, Corrupt(d)
      PROVE  RightsMatchSteps'
  BY <1>2 DEF Corrupt, RightsMatchSteps, CallerMayHold, SyncMayHold
<1>3. ASSUME NEW c \in Callers, NEW op \in Ops, NEW d \in Dirs, Call(c, op, d)
      PROVE  RightsMatchSteps'
  <2>1. rights[c] = {} /\ caller'[c].pc = "lock" /\ \A b \in Callers \ {c} : caller'[b] = caller[b]
    BY <1>3 DEF Call, RightsMatchSteps, CallerMayHold
  <2> QED
    BY <1>3, <2>1 DEF Call, RightsMatchSteps, CallerMayHold, SyncMayHold
<1>4. ASSUME \/ Cycle \/ Profiles \/ SyncUnchanged \/ SyncPublish \/ SyncMaintain \/ CycleEnds \/ SyncStops
             \/ WaitForTasks \/ \E d \in Dirs : SyncDirectory(d)
      PROVE  RightsMatchSteps'
  <2>1. UNCHANGED caller /\ \A a \in Callers \cup Dirs : rights'[a] = rights[a]
    <3>1. CASE SyncPublish \/ \E d \in Dirs : SyncDirectory(d)
      BY <3>1, ActorsDiffer DEF SyncPublish, SyncDirectory, Acquire, Release
    <3>2. CASE Profiles \/ SyncUnchanged \/ SyncMaintain \/ WaitForTasks
      BY <3>2, ActorsDiffer DEF Profiles, SyncUnchanged, SyncMaintain, WaitForTasks, Release
    <3>3. CASE Cycle \/ CycleEnds \/ SyncStops
      BY <3>3 DEF Cycle, CycleEnds, SyncStops
    <3> QED
      BY <1>4, <3>1, <3>2, <3>3
  <2>2. rights'[Sync] \in SyncMayHold'
    <3>0. rights[Sync] \in SyncMayHold /\ Sync \in Actors /\ sync \in SyncStates
      BY ActorsDiffer DEF RightsMatchSteps
    <3>1. CASE Cycle \/ CycleEnds \/ SyncStops
      BY <3>0, <3>1 DEF Cycle, CycleEnds, SyncStops, SyncMayHold, SyncStates
    <3>2. CASE Profiles
      BY <3>0, <3>2 DEF Profiles, Release, SyncMayHold, SyncStates
    <3>7. CASE SyncUnchanged
      BY <3>0, <3>7 DEF SyncUnchanged, Release, SyncMayHold, SyncStates
    <3>3. CASE SyncPublish
      <4>0. rights[Sync] = StoreWriter(sync.dir)
        BY <3>0, <3>3 DEF SyncPublish, SyncMayHold
      <4>1. CASE Acquire(Sync, Publish(sync.dir)) /\ sync' = [sync EXCEPT !.pc = "maintain"]
        <5>1. rights'[Sync] = IndexWriter(sync.dir)
          BY <3>0, <4>0, <4>1 DEF Acquire, IndexWriter
        <5>2. sync'.pc = "maintain" /\ sync'.dir = sync.dir
          BY <3>0, <4>1 DEF SyncStates
        <5> QED
          BY <5>1, <5>2 DEF SyncMayHold
      <4>2. CASE sync' = [sync EXCEPT !.pc = "next", !.dir = Nobody] /\ Release(Sync)
        BY <3>0, <4>2 DEF Release, SyncMayHold, SyncStates
      <4>3. \/ Acquire(Sync, Publish(sync.dir)) /\ sync' = [sync EXCEPT !.pc = "maintain"]
            \/ sync' = [sync EXCEPT !.pc = "next", !.dir = Nobody] /\ Release(Sync)
        BY <3>3, Zenon DEF SyncPublish
      <4> QED
        BY <4>1, <4>2, <4>3
    <3>4. CASE SyncMaintain
      <4>1. CASE rights' = [rights EXCEPT ![Sync] = StoreWriter(sync.dir)] /\ UNCHANGED sync
        BY <3>0, <3>4, <4>1 DEF SyncMaintain, SyncMayHold
      <4>2. CASE Release(Sync) /\ sync' = [sync EXCEPT !.pc = "next", !.dir = Nobody]
        BY <3>0, <4>2 DEF Release, SyncMayHold, SyncStates
      <4> QED
        BY <3>4, <4>1, <4>2 DEF SyncMaintain
    <3>5. CASE WaitForTasks
      BY <3>0, <3>5 DEF WaitForTasks, Release, SyncMayHold, SyncStates
    <3>6. ASSUME NEW d \in Dirs, SyncDirectory(d)
          PROVE  rights'[Sync] \in SyncMayHold'
      BY <3>0, <3>6 DEF SyncDirectory, Acquire, SyncMayHold, SyncStates
    <3> QED
      BY <1>4, <3>1, <3>2, <3>3, <3>4, <3>5, <3>6, <3>7
  <2> QED
    BY <2>1, <2>2 DEF RightsMatchSteps, CallerMayHold
<1>5. CASE RequestShutdown \/ ShutDown \/ ClearAndExit
  BY <1>5 DEF RequestShutdown, ShutDown, ClearAndExit, RightsMatchSteps, CallerMayHold, SyncMayHold
<1> QED
  BY <1>1, <1>2, <1>3, <1>4, <1>5 DEF OtherStep

-----------------------------------------------------------------------------
(* No two actors have rights that conflict.                                *)

\* How rights change: they are asked for when nobody's conflict, given up, or the
\* store is handed to the maintenance pass.
RightsMove(a) ==
  \/ UNCHANGED rights
  \/ Release(a)
  \/ \E new \in SUBSET Access!Rights : Acquire(a, new)
  \/ \E d \in Dirs : StoreWriter(d) \subseteq rights[a] /\ HandOver(a, d)
  \/ \E d \in Dirs : StoreWriter(d) \subseteq rights[a]
                   /\ rights' = [rights EXCEPT ![a] = StoreWriter(d)]

LEMMA ConflictIsSymmetric ==
  ASSUME NEW p, NEW q
  PROVE  Access!Conflict(p, q) <=> Access!Conflict(q, p)
  BY DEF Access!Conflict

LEMMA MovesAreCompatible ==
  ASSUME RuntimeTypeOK, Access!Compatible(rights), NEW a \in Actors, RightsMove(a)
  PROVE  Access!Compatible(rights')
<1> USE DEF RuntimeTypeOK, Access!Compatible
<1>1. CASE UNCHANGED rights
  BY <1>1
<1>2. CASE Release(a)
  BY <1>2 DEF Release
<1>3. ASSUME NEW new \in SUBSET Access!Rights, Acquire(a, new)
      PROVE  Access!Compatible(rights')
  BY <1>3, ConflictIsSymmetric DEF Acquire
<1>4. ASSUME NEW d \in Dirs, StoreWriter(d) \subseteq rights[a], HandOver(a, d)
      PROVE  Access!Compatible(rights')
  BY <1>4, ActorsDiffer DEF HandOver
<1>5. ASSUME NEW d \in Dirs, StoreWriter(d) \subseteq rights[a],
             rights' = [rights EXCEPT ![a] = StoreWriter(d)]
      PROVE  Access!Compatible(rights')
  BY <1>5
<1> QED
  BY <1>1, <1>2, <1>3, <1>4, <1>5 DEF RightsMove

LEMMA CallersMove ==
  ASSUME RuntimeTypeOK, RightsMatchSteps, NEW c \in Callers, CallerStep(c)
  PROVE  RightsMove(c)
<1>0. caller[c] \in CallerStates /\ rights[c] \in CallerMayHold(c)
  BY DEF RuntimeTypeOK, RightsMatchSteps
<1>a. caller[c].dir \in Dirs
  <2>1. caller[c].pc # "idle"
    BY DEF CallerStep, LockShared, Look, Rebuild, Run, Reopen, Open, Opened, Query, ForceRun, IndexStart,
           IndexUnchanged, IndexPublish, IndexWrite, Track, ClearCache, DeleteFiles, Clear, At
  <2> QED
    BY <1>0, <2>1 DEF CallerStates
<1>b. caller[c].pc \in {"run", "write"} => StoreWriter(caller[c].dir) \subseteq rights[c]
  BY <1>0 DEF CallerMayHold, IndexWriter
<1>1. CASE LockShared(c)
  BY <1>1, <1>a, RightsTypes DEF LockShared, RightsMove
<1>2. CASE Look(c) \/ Query(c) \/ DeleteFiles(c) \/ IndexUnchanged(c)
  BY <1>2 DEF Look, Query, DeleteFiles, IndexUnchanged, RightsMove
<1>3. CASE Rebuild(c)
  BY <1>3, <1>a, RightsTypes DEF Rebuild, RightsMove
<1>4. CASE Run(c)
  BY <1>4, <1>a, <1>b DEF Run, At, RightsMove
<1>5. CASE Open(c) \/ Opened(c) \/ Reopen(c) \/ Track(c) \/ Clear(c)
  BY <1>5 DEF Open, Opened, Reopen, Track, Clear, RightsMove
<1>6. CASE ForceRun(c)
  BY <1>6, <1>a, RightsTypes DEF ForceRun, RightsMove
<1>7. CASE IndexStart(c)
  BY <1>7, <1>a, RightsTypes DEF IndexStart, RightsMove
<1>8. CASE IndexPublish(c)
  BY <1>8, <1>a, RightsTypes DEF IndexPublish, RightsMove
<1>9. CASE IndexWrite(c)
  BY <1>9, <1>a, <1>b DEF IndexWrite, At, RightsMove
<1>10. CASE ClearCache(c)
  BY <1>10, <1>a, RightsTypes DEF ClearCache, RightsMove
<1> QED
  BY <1>1, <1>2, <1>3, <1>4, <1>5, <1>6, <1>7, <1>8, <1>9, <1>10 DEF CallerStep

LEMMA OthersMove ==
  ASSUME RuntimeTypeOK, RightsMatchSteps, OtherStep
  PROVE  \E a \in Dirs \cup {Sync} : RightsMove(a)
<1>1. ASSUME NEW d \in Dirs, MaintenanceEnds(d)
      PROVE  RightsMove(d)
  BY <1>1 DEF MaintenanceEnds, RightsMove
<1>2. ASSUME NEW d \in Dirs, SyncDirectory(d)
      PROVE  RightsMove(Sync)
  BY <1>2, RightsTypes DEF SyncDirectory, RightsMove
<1>3. CASE Profiles \/ SyncUnchanged \/ WaitForTasks
  BY <1>3 DEF Profiles, SyncUnchanged, WaitForTasks, RightsMove
<1>4. CASE SyncPublish
  <2>1. sync.dir \in Dirs
    BY <1>4 DEF SyncPublish, RuntimeTypeOK, SyncStates
  <2> QED
    BY <1>4, <2>1, RightsTypes DEF SyncPublish, RightsMove
<1>5. CASE SyncMaintain
  <2>1. sync.dir \in Dirs /\ rights[Sync] \in SyncMayHold
    BY <1>5 DEF SyncMaintain, RuntimeTypeOK, SyncStates, RightsMatchSteps
  <2>2. StoreWriter(sync.dir) \subseteq rights[Sync]
    BY <1>5, <2>1 DEF SyncMaintain, SyncMayHold, IndexWriter
  <2> QED
    BY <1>5, <2>1, <2>2 DEF SyncMaintain, RightsMove
<1>6. ASSUME \/ \E d \in Dirs : Corrupt(d)
             \/ \E c \in Callers, op \in Ops, d \in Dirs : Call(c, op, d)
             \/ Cycle \/ CycleEnds \/ SyncStops \/ RequestShutdown \/ ShutDown \/ ClearAndExit
      PROVE  RightsMove(Sync)
  BY <1>6 DEF Corrupt, Call, Cycle, CycleEnds, SyncStops, RequestShutdown, ShutDown, ClearAndExit,
              RightsMove
<1> QED
  BY <1>1, <1>2, <1>3, <1>4, <1>5, <1>6 DEF OtherStep

\* Who may delete a workspace's index has rights nobody else's reading or writing
\* of it goes with.
LEMMA WritersConflict ==
  ASSUME NEW d \in Dirs
  PROVE  /\ \A q \in Read(d) \cup StoreWriter(d) : \E p \in IndexWriter(d) : Access!Conflict(p, q)
         /\ \A q \in Read(d) \cup StoreWriter(d) : \E p \in All : Access!Conflict(p, q)
         /\ Read(d) # {} /\ StoreWriter(d) # {} /\ StoreWriter(d) \subseteq IndexWriter(d)
<1> DEFINE st == <<"store", d>>
           wr == <<"write", d>>
           al == <<"all", d>>
<1>1. st \in IndexWriter(d) /\ wr \in IndexWriter(d) /\ al \in All
  BY DEF IndexWriter, StoreWriter, Publish, All
<1>2. st[1] = "store" /\ st[2] = d /\ wr[1] = "write" /\ wr[2] = d /\ al[1] = "all"
  OBVIOUS
<1>3. Read(d) = {<<"read", d>>} /\ StoreWriter(d) = {st}
  BY DEF Read, StoreWriter
<1>4. \A q \in Read(d) : Access!Conflict(wr, q)
  BY <1>2, <1>3 DEF Access!Conflict
<1>5. \A q \in StoreWriter(d) : Access!Conflict(st, q)
  BY <1>2, <1>3 DEF Access!Conflict
<1>6. \A q : Access!Conflict(al, q)
  BY <1>2 DEF Access!Conflict
<1> HIDE DEF st, wr, al
<1> QED
  BY <1>1, <1>3, <1>4, <1>5, <1>6 DEF IndexWriter

LEMMA AloneWithRights ==
  ASSUME RuntimeTypeOK, Access!Compatible(rights), NEW a \in Actors, NEW b \in Actors, a # b,
         NEW d \in Dirs, rights[a] \in {IndexWriter(d), All}
  PROVE  ~(Read(d) \subseteq rights[b]) /\ ~(StoreWriter(d) \subseteq rights[b])
  BY WritersConflict DEF Access!Compatible

LEMMA AloneWhenGranted ==
  ASSUME NEW a \in Actors, NEW b \in Actors, a # b, NEW d \in Dirs,
         \A e \in Actors \ {a} : \A p \in IndexWriter(d), q \in rights[e] : ~Access!Conflict(p, q)
  PROVE  ~(Read(d) \subseteq rights[b]) /\ rights[b] \notin {IndexWriter(d), All}
<1>1. ~(Read(d) \subseteq rights[b]) /\ ~(StoreWriter(d) \subseteq rights[b])
  BY WritersConflict
<1>2. \E p \in IndexWriter(d), q \in All : Access!Conflict(p, q)
  BY WritersConflict, ConflictIsSymmetric
<1> QED
  BY <1>1, <1>2, WritersConflict

-----------------------------------------------------------------------------
(* Handles on the BM25 index.                                              *)

\* No BM25 directory is removed.
Kept == \A d \in Dirs : bm25[d].gen = 0 \/ bm25'[d].gen = bm25[d].gen

LEMMA CreatedKeeps ==
  ASSUME RuntimeTypeOK, NEW d \in Dirs, bm25' = [bm25 EXCEPT ![d] = Created(d)]
  PROVE  Kept
<1>1. bm25'[d] = Created(d) /\ \A e \in Dirs \ {d} : bm25'[e] = bm25[e]
  BY DEF RuntimeTypeOK
<1>2. bm25[d].gen # 0 => Created(d).gen = bm25[d].gen
  BY DEF Created
<1> QED
  BY <1>1, <1>2 DEF Kept

LEMMA CallersKeep ==
  ASSUME RuntimeTypeOK, NEW c \in Callers, CallerStep(c), ~Rebuild(c), ~DeleteFiles(c)
  PROVE  Kept
<1>1. UNCHANGED bm25 \/ bm25' = [bm25 EXCEPT ![caller[c].dir] = Created(caller[c].dir)]
  BY DEF CallerStep, LockShared, Look, Refill, Run, Reopen, Open, Opened, Query, ForceRun, IndexStart,
         IndexUnchanged, IndexPublish, IndexWrite, Track, ClearCache, Clear, index, Writes, Fails,
         FindsNoChange, RuntimeTypeOK
<1>2. CASE caller[c].dir \in Dirs
  BY <1>1, <1>2, CreatedKeeps DEF Kept
<1>3. CASE caller[c].dir \notin Dirs
  BY <1>1, <1>3 DEF Kept, RuntimeTypeOK
<1> QED
  BY <1>2, <1>3

LEMMA OthersKeep ==
  ASSUME RuntimeTypeOK, OtherStep
  PROVE  Kept
<1>1. ASSUME NEW d \in Dirs, Corrupt(d)
      PROVE  Kept
  BY <1>1 DEF Corrupt, Kept, RuntimeTypeOK
<1>2. CASE SyncPublish \/ SyncUnchanged
  <2>1. sync.dir \in Dirs
    BY <1>2 DEF SyncPublish, SyncUnchanged, RuntimeTypeOK, SyncStates
  <2>2. UNCHANGED bm25 \/ bm25' = [bm25 EXCEPT ![sync.dir] = Created(sync.dir)]
    BY <1>2 DEF SyncPublish, SyncUnchanged, Writes, Fails, FindsNoChange, RuntimeTypeOK
  <2> QED
    BY <2>1, <2>2, CreatedKeeps DEF Kept
<1>3. CASE UNCHANGED bm25
  BY <1>3 DEF Kept
<1> QED
  BY <1>1, <1>2, <1>3 DEF OtherStep, MaintenanceEnds, SyncDirectory, Call, Cycle, Profiles,
     SyncMaintain, CycleEnds, SyncStops, RequestShutdown, ShutDown, WaitForTasks, ClearAndExit,
     index

\* The facts about one workspace at a time.
LEMMA AliveRights ==
  ASSUME RuntimeTypeOK, RightsMatchSteps, NEW c \in Callers
  PROVE  /\ caller[c].pc = "delete" =>
              \A d \in Scope(c) : d \in Dirs /\ rights[c] \in {IndexWriter(d), All}
         /\ caller[c].pc \in {"open", "opening", "query"} =>
              rights[c] \in {Read(caller[c].dir), {}}
<1>1. caller[c] \in CallerStates /\ rights[c] \in CallerMayHold(c)
  BY DEF RuntimeTypeOK, RightsMatchSteps
<1>2. CASE caller[c].pc = "delete"
  BY <1>1, <1>2 DEF CallerMayHold, Scope, CallerStates
<1>3. CASE caller[c].pc \in {"open", "opening", "query"}
  BY <1>1, <1>3 DEF CallerMayHold
<1> QED
  BY <1>2, <1>3

LEMMA DeletesStayAlone ==
  ASSUME RuntimeTypeOK, RightsMatchSteps, Access!Compatible(rights),
         DeletesAreAlone, NEW c \in Callers, CallerStep(c)
  PROVE  DeletesAreAlone'
<1> USE DEF RuntimeTypeOK
<1>0. caller[c] \in CallerStates /\ c \in Actors
  BY ActorsDiffer
<1> SUFFICES ASSUME NEW b \in Callers, caller'[b].pc = "delete", NEW d \in Scope(b)',
                    cache'[d].held
             PROVE  ~cache'[d].guarded
  BY DEF DeletesAreAlone
<1>2. CASE b = c
  <2>1. ClearCache(c)
    <3>1. caller'[c].pc = "delete"
      BY <1>2
    <3>2. ~(Track(c) \/ Query(c) \/ DeleteFiles(c) \/ Clear(c))
      BY <3>1, <1>0 DEF Track, Query, DeleteFiles, Clear, Return, Idle
    <3>3. ~(Open(c) \/ Rebuild(c) \/ Run(c) \/ Reopen(c) \/ Look(c))
      BY <3>1, <1>0 DEF Open, Rebuild, Run, Reopen, Look, Goto, Return, Idle, CallerStates
    <3>4. ~(LockShared(c) \/ Opened(c) \/ ForceRun(c) \/ IndexStart(c) \/ IndexUnchanged(c)
            \/ IndexPublish(c) \/ IndexWrite(c))
      BY <3>1, <1>0 DEF LockShared, Opened, ForceRun, IndexStart, IndexUnchanged, IndexPublish,
                        IndexWrite, Goto, Return, Idle, CallerStates
    <3> QED
      BY <3>2, <3>3, <3>4 DEF CallerStep
  <2>2. Scope(c)' = Scope(c)
    BY <1>0, <2>1 DEF ClearCache, Goto, Scope, CallerStates
  <2>3. d \in Scope(c) /\ d \in Dirs
    <3>1. d \in Scope(c)
      BY <1>2, <2>2
    <3>2. caller[c].dir \in Dirs
      BY <1>0, <2>1 DEF ClearCache, At, CallerStates
    <3> QED
      BY <3>1, <3>2 DEF Scope
  <2>4. ~cache'[d].held
    BY <2>1, <2>3 DEF ClearCache, NoEntry
  <2> QED
    BY <2>4
<1>3. CASE b # c
  <2>1. caller'[b] = caller[b] /\ caller[b].pc = "delete" /\ d \in Scope(b)
    BY <1>3, CallerFrame DEF Scope
  <2>2. d \in Dirs /\ rights[b] \in {IndexWriter(d), All} /\ (cache[d].held => ~cache[d].guarded)
    BY <2>1, AliveRights DEF DeletesAreAlone
  <2>3. ~(Read(d) \subseteq rights[c])
    BY <1>0, <1>3, <2>2, ActorsDiffer, AloneWithRights
  <2>4. CASE Opened(c)
    <3>1. CASE caller[c].dir # d
      <4>1. cache'[d] = cache[d]
        BY <2>2, <2>4, <3>1 DEF Opened
      <4> QED
        BY <2>2, <4>1
    <3>2. CASE caller[c].dir = d
      <4>1. rights[c] = {}
        BY <2>3, <2>4, <3>2, AliveRights DEF Opened, At
      <4> QED
        BY <2>2, <2>4, <3>2, <4>1 DEF Opened
    <3> QED
      BY <3>1, <3>2
  <2>5. CASE ~Opened(c)
    <3>1. cache'[d] \in {cache[d], NoEntry}
      BY <2>2, <2>5 DEF CallerStep, LockShared, Look, Rebuild, Run, Reopen, Open, Query, ForceRun, IndexStart,
           IndexUnchanged, IndexPublish, IndexWrite, Track, ClearCache, DeleteFiles, Clear
    <3> QED
      BY <2>2, <3>1 DEF NoEntry
  <2> QED
    BY <2>4, <2>5
<1> QED
  BY <1>2, <1>3

\* While a workspace's BM25 directory is removed nobody has a handle on it under
\* the lock.
LEMMA RemovedAlone ==
  ASSUME RuntimeTypeOK, RightsMatchSteps, Access!Compatible(rights),
         DeletesAreAlone, NEW c \in Callers, Rebuild(c) \/ DeleteFiles(c)
  PROVE  \A d \in Dirs :
           \/ bm25'[d] = bm25[d] /\ cache'[d] \in {cache[d], NoEntry}
           \/ /\ cache'[d].held => ~cache'[d].guarded
              /\ \A b \in Callers \ {c} :
                    caller[b].pc \in {"open", "opening"} /\ rights[b] # {} => caller[b].dir # d
<1> USE DEF RuntimeTypeOK
<1>0. caller[c] \in CallerStates /\ c \in Actors /\ \A b \in Callers : b \in Actors
  BY ActorsDiffer
<1> TAKE d \in Dirs
<1>1. CASE Rebuild(c)
  <2>1. CASE UNCHANGED <<bm25, cache>>
    BY <2>1
  <2>2. CASE d # caller[c].dir
    BY <1>1, <2>2 DEF Rebuild
  <2>3. CASE /\ d = caller[c].dir
             /\ Acquire(c, IndexWriter(d)) /\ cache' = [cache EXCEPT ![d] = NoEntry]
    <3>1. ~cache'[d].held
      BY <2>3 DEF NoEntry
    <3>2. ASSUME NEW b \in Callers \ {c}, caller[b].pc \in {"open", "opening"}, rights[b] # {},
                 caller[b].dir = d
          PROVE  FALSE
      <4>1. ~(Read(d) \subseteq rights[b])
        BY <1>0, <2>3, AloneWhenGranted DEF Acquire
      <4> QED
        BY <3>2, <4>1, AliveRights
    <3> QED
      BY <3>1, <3>2
  <2> QED
    BY <1>1, <2>1, <2>2, <2>3 DEF Rebuild
<1>2. CASE DeleteFiles(c)
  <2>1. CASE d \notin Scope(c)
    BY <1>2, <2>1 DEF DeleteFiles
  <2>2. CASE d \in Scope(c)
    <3>1. caller[c].pc = "delete" /\ cache' = cache
      BY <1>2 DEF DeleteFiles, At
    <3>2. (cache'[d].held => ~cache'[d].guarded) /\ rights[c] \in {IndexWriter(d), All}
      BY <2>2, <3>1, AliveRights DEF DeletesAreAlone
    <3>3. ASSUME NEW b \in Callers \ {c}, caller[b].pc \in {"open", "opening"}, rights[b] # {},
                 caller[b].dir = d
          PROVE  FALSE
      <4>1. ~(Read(d) \subseteq rights[b])
        BY <1>0, <3>2, AloneWithRights
      <4> QED
        BY <3>3, <4>1, AliveRights
    <3> QED
      BY <3>2, <3>3
  <2> QED
    BY <2>1, <2>2
<1> QED
  BY <1>1, <1>2

LEMMA CallersStayFresh ==
  ASSUME RuntimeTypeOK, RightsMatchSteps, Access!Compatible(rights),
         DeletesAreAlone, HandlesAreFresh, CachedRuntimeFresh, NEW c \in Callers, CallerStep(c)
  PROVE  HandlesAreFresh' /\ CachedRuntimeFresh'
<1> USE DEF RuntimeTypeOK
<1>0. caller[c] \in CallerStates /\ rights[c] \in CallerMayHold(c)
      /\ \A b \in Callers \ {c} : caller'[b] = caller[b] /\ rights'[b] = rights[b]
  BY CallerFrame DEF RightsMatchSteps
<1>1. CASE Rebuild(c) \/ DeleteFiles(c)
  <2>1. \A d \in Dirs :
           \/ bm25'[d] = bm25[d] /\ cache'[d] \in {cache[d], NoEntry}
           \/ /\ cache'[d].held => ~cache'[d].guarded
              /\ \A b \in Callers \ {c} :
                    caller[b].pc \in {"open", "opening"} /\ rights[b] # {} => caller[b].dir # d
    BY <1>1, RemovedAlone
  <2>2. CachedRuntimeFresh'
    BY <2>1 DEF CachedRuntimeFresh, NoEntry
  <2>3. ASSUME NEW b \in Callers \ {c}, caller'[b].pc \in {"open", "opening"}, rights'[b] # {}
        PROVE  caller'[b].bm25 \in {0, bm25'[caller'[b].dir].gen}
    <3>1. caller[b].dir \in Dirs
      BY <1>0, <2>3 DEF CallerStates
    <3> QED
      BY <1>0, <2>1, <2>3, <3>1 DEF HandlesAreFresh
  <2>4. ASSUME caller'[c].pc \in {"open", "opening"}, rights'[c] # {}
        PROVE  FALSE
    <3>1. ~DeleteFiles(c)
      BY <1>0, <2>4 DEF DeleteFiles, Return, Idle
    <3>2. UNCHANGED rights /\ caller[c].pc = "build"
      BY <1>0, <1>1, <2>4, <3>1 DEF Rebuild, At, Goto, CallerStates
    <3> QED
      BY <1>0, <2>4, <3>2 DEF CallerMayHold
  <2> QED
    BY <2>2, <2>3, <2>4 DEF HandlesAreFresh
<1>2. CASE ~Rebuild(c) /\ ~DeleteFiles(c)
  <2>1. Kept
    BY <1>2, CallersKeep
  <2>2. ASSUME NEW b \in Callers \ {c}, caller'[b].pc \in {"open", "opening"}, rights'[b] # {}
        PROVE  caller'[b].bm25 \in {0, bm25'[caller'[b].dir].gen}
    <3>1. caller[b].dir \in Dirs
      BY <1>0, <2>2 DEF CallerStates
    <3> QED
      BY <1>0, <2>1, <2>2, <3>1 DEF HandlesAreFresh, Kept
  <2>3. ASSUME caller'[c].pc \in {"open", "opening"}, rights'[c] # {}
        PROVE  caller'[c].bm25 \in {0, bm25'[caller'[c].dir].gen}
    <3>1. CASE LockShared(c)
      BY <1>0, <3>1 DEF LockShared, At, Goto, CallerStates
    <3>2. CASE Look(c)
      <4>1. caller' = [caller EXCEPT ![c].pc = "open", ![c].bm25 = bm25'[caller[c].dir].gen]
        BY <1>0, <2>3, <3>2 DEF Look, Goto, CallerStates
      <4> QED
        BY <1>0, <4>1 DEF CallerStates
    <3>3. CASE Reopen(c)
      <4>1. UNCHANGED rights /\ caller[c].pc = "reopen"
        BY <3>3 DEF Reopen, At
      <4> QED
        BY <1>0, <2>3, <4>1 DEF CallerMayHold
    <3>4. CASE Open(c)
      <4>1. /\ caller[c].pc = "open" /\ caller[c].dir \in Dirs /\ UNCHANGED <<bm25, rights>>
            /\ caller'[c].bm25 = caller[c].bm25 /\ caller'[c].dir = caller[c].dir
        BY <1>0, <2>3, <3>4 DEF Open, At, Goto, CallerStates, index
      <4> QED
        BY <2>3, <4>1 DEF HandlesAreFresh
    <3>5. CASE \/ Run(c) \/ Opened(c) \/ ForceRun(c) \/ IndexStart(c) \/ IndexUnchanged(c) \/ IndexPublish(c)
               \/ IndexWrite(c) \/ ClearCache(c) \/ Query(c) \/ Track(c) \/ Clear(c)
      <4>1. \/ Goto(c, "query") \/ Goto(c, "write") \/ Goto(c, "publish") \/ Goto(c, "track")
            \/ Goto(c, "delete") \/ Goto(c, "reopen") \/ Return(c)
        BY <3>5 DEF Run, Opened, ForceRun, IndexStart, IndexUnchanged, IndexPublish, IndexWrite, ClearCache,
                    Query, Track, Clear
      <4>2. \A to : Goto(c, to) => caller'[c].pc = to
        BY <1>0 DEF Goto, CallerStates
      <4> QED
        BY <2>3, <4>1, <4>2 DEF Return, Idle
    <3> QED
      BY <1>2, <3>1, <3>2, <3>3, <3>4, <3>5 DEF CallerStep
  <2>4. CachedRuntimeFresh'
    <3>1. CASE Opened(c)
      <4> DEFINE d == caller[c].dir
      <4>1. d \in Dirs /\ UNCHANGED bm25 /\ (rights[c] # {} => caller[c].bm25 \in {0, bm25[d].gen})
        BY <1>0, <3>1 DEF Opened, At, HandlesAreFresh, CallerStates
      <4>2. /\ cache'[d] = [held |-> TRUE, bm25 |-> caller[c].bm25, guarded |-> rights[c] # {}]
            /\ \A e \in Dirs \ {d} : cache'[e] = cache[e]
        BY <3>1, <4>1 DEF Opened
      <4>3. cache'[d].bm25 = caller[c].bm25 /\ (cache'[d].guarded => rights[c] # {})
        <5> DEFINE g == rights[c] # {}
        <5>1. cache'[d] = [held |-> TRUE, bm25 |-> caller[c].bm25, guarded |-> g]
          BY <4>2
        <5>2. g => rights[c] # {}
          OBVIOUS
        <5> HIDE DEF g
        <5>3. cache'[d].bm25 = caller[c].bm25 /\ cache'[d].guarded = g
          BY <5>1
        <5> QED
          BY <5>2, <5>3
      <4>4. \A e \in Dirs : cache'[e].held /\ cache'[e].guarded => cache'[e].bm25 \in {0, bm25[e].gen}
        BY <4>1, <4>2, <4>3 DEF CachedRuntimeFresh
      <4> QED
        BY <4>1, <4>4 DEF CachedRuntimeFresh
    <3>2. CASE ~Opened(c)
      <4>1. \A d \in Dirs : cache'[d] \in {cache[d], NoEntry}
        BY <1>2, <3>2 DEF CallerStep, LockShared, Look, Run, Reopen, Open, Query, ForceRun, IndexStart,
             IndexUnchanged, IndexPublish, IndexWrite, Track, ClearCache, Clear
      <4> QED
        BY <2>1, <4>1 DEF CachedRuntimeFresh, NoEntry, Kept
    <3> QED
      BY <3>1, <3>2
  <2> QED
    BY <2>2, <2>3, <2>4 DEF HandlesAreFresh
<1> QED
  BY <1>1, <1>2

LEMMA OthersStayFresh ==
  ASSUME RuntimeTypeOK, DeletesAreAlone, HandlesAreFresh, CachedRuntimeFresh, OtherStep
  PROVE  DeletesAreAlone' /\ HandlesAreFresh' /\ CachedRuntimeFresh'
<1> USE DEF RuntimeTypeOK
<1>1. Kept
  BY OthersKeep
<1>2. \A d \in Dirs : cache'[d] \in {cache[d], NoEntry}
  BY DEF OtherStep, MaintenanceEnds, Corrupt, SyncDirectory, Call, Cycle, Profiles, SyncUnchanged, SyncPublish,
         SyncMaintain, CycleEnds, SyncStops, RequestShutdown, ShutDown, WaitForTasks, ClearAndExit
<1>3. /\ \A c \in Callers : caller'[c] = caller[c] \/ caller'[c].pc = "lock"
      /\ \A c \in Callers : rights'[c] = rights[c]
  <2>1. ASSUME NEW c \in Callers, NEW op \in Ops, NEW d \in Dirs, Call(c, op, d)
        PROVE  /\ \A e \in Callers : caller'[e] = caller[e] \/ caller'[e].pc = "lock"
               /\ \A e \in Callers : rights'[e] = rights[e]
    BY <2>1 DEF Call
  <2>2. CASE UNCHANGED caller
    BY <2>2, ActorsDiffer DEF OtherStep, MaintenanceEnds, Corrupt, SyncDirectory, Call, Cycle, Profiles, SyncUnchanged, SyncPublish,
         SyncMaintain, CycleEnds, SyncStops, RequestShutdown, ShutDown, WaitForTasks, ClearAndExit,
         Release, Acquire
  <2> QED
    BY <2>1, <2>2 DEF OtherStep, MaintenanceEnds, Corrupt, SyncDirectory, Cycle, Profiles, SyncUnchanged, SyncPublish,
         SyncMaintain, CycleEnds, SyncStops, RequestShutdown, ShutDown, WaitForTasks, ClearAndExit
<1>4. CachedRuntimeFresh'
  BY <1>1, <1>2 DEF CachedRuntimeFresh, NoEntry, Kept
<1>5. HandlesAreFresh'
  BY <1>1, <1>3 DEF HandlesAreFresh, Kept, CallerStates
<1>6. DeletesAreAlone'
  <2> SUFFICES ASSUME NEW c \in Callers, caller'[c].pc = "delete", NEW d \in Scope(c)'
               PROVE  cache'[d].held => ~cache'[d].guarded
    BY DEF DeletesAreAlone
  <2>1. caller'[c] = caller[c] /\ caller[c] \in CallerStates
    BY <1>3
  <2>2. d \in Scope(c) /\ d \in Dirs /\ (cache[d].held => ~cache[d].guarded)
    BY <2>1 DEF DeletesAreAlone, Scope, CallerStates
  <2> QED
    BY <1>2, <2>2 DEF NoEntry
<1> QED
  BY <1>4, <1>5, <1>6

-----------------------------------------------------------------------------
(* The background sync.                                                    *)

LEMMA SyncStaysSound ==
  ASSUME RuntimeTypeOK, RightsMatchSteps, Access!Compatible(rights), SyncSawIndex, FlagFallsLast,
         (\E c \in Callers : CallerStep(c)) \/ OtherStep
  PROVE  SyncSawIndex' /\ FlagFallsLast'
<1> USE DEF RuntimeTypeOK
<1>1. ASSUME NEW c \in Callers, CallerStep(c)
      PROVE  SyncSawIndex' /\ FlagFallsLast'
  <2>0. UNCHANGED <<sync, running>>
    BY <1>1 DEF CallerStep, LockShared, Look, Rebuild, Run, Reopen, Open, Opened, Query, ForceRun, IndexStart,
         IndexUnchanged, IndexPublish, IndexWrite, Track, ClearCache, DeleteFiles, Clear, life
  <2>1. FlagFallsLast'
    BY <2>0 DEF FlagFallsLast
  <2>2. ASSUME sync.pc = "publish"
        PROVE  store'[sync.dir] # "none"
    <3>1. sync.dir \in Dirs /\ store[sync.dir] # "none" /\ rights[Sync] = StoreWriter(sync.dir)
      BY <2>2 DEF SyncSawIndex, RightsMatchSteps, SyncMayHold, SyncStates
    <3>2. CASE DeleteFiles(c)
      <4>1. caller[c].pc = "delete"
        BY <3>2 DEF DeleteFiles, At
      <4>2. sync.dir \notin Scope(c)
        BY <3>1, <4>1, ActorsDiffer, AliveRights, AloneWithRights
      <4> QED
        BY <3>1, <3>2, <4>2 DEF DeleteFiles
    <3>3. CASE ~DeleteFiles(c)
      <4>1. store'[sync.dir] \in {store[sync.dir], "part", "full", "empty"}
        <5>1. ASSUME NEW d \in Dirs, NEW r, NEW l, Writes(d, r, l)
              PROVE  store'[sync.dir] \in {store[sync.dir], "part", "full", "empty"}
          BY <3>1, <5>1 DEF Writes, Filled
        <5>2. CASE Run(c) \/ IndexWrite(c)
          <6>1. caller[c].dir \in Dirs
            BY <5>2 DEF Run, IndexWrite, At, CallerStates
          <6> QED
            BY <3>1, <5>1, <5>2, <6>1 DEF Run, IndexWrite, Fails
        <5> QED
          BY <1>1, <3>1, <3>3, <5>2 DEF CallerStep, LockShared, Look, Rebuild, Reopen, Open, Opened, Query,
             ForceRun, IndexStart, IndexUnchanged, IndexPublish, Track, ClearCache, Clear, index
      <4> QED
        BY <3>1, <4>1
    <3> QED
      BY <3>2, <3>3
  <2> QED
    BY <2>0, <2>1, <2>2 DEF SyncSawIndex
<1>2. CASE OtherStep
  <2> USE <1>2 DEF SyncSawIndex, FlagFallsLast
  <2>1. CASE Profiles
    BY <2>1 DEF Profiles, SyncStates, index, life
  <2>2. CASE SyncPublish \/ SyncMaintain
    <3>1. sync.pc \in {"publish", "maintain"} /\ UNCHANGED running
      BY <2>2 DEF SyncPublish, SyncMaintain, life
    <3>2. running
      BY <3>1
    <3>3. sync'.pc # "publish"
      <4>0. sync \in SyncStates
        OBVIOUS
      <4>1. CASE SyncPublish
        <5>1. \/ sync' = [sync EXCEPT !.pc = "maintain"]
              \/ sync' = [sync EXCEPT !.pc = "next", !.dir = Nobody]
          BY <4>1 DEF SyncPublish
        <5> QED
          BY <4>0, <5>1 DEF SyncStates
      <4>2. CASE SyncMaintain
        <5>1. \/ UNCHANGED sync
              \/ sync' = [sync EXCEPT !.pc = "next", !.dir = Nobody]
          BY <4>2 DEF SyncMaintain
        <5> QED
          BY <4>0, <4>2, <5>1 DEF SyncMaintain, SyncStates
      <4> QED
        BY <2>2, <4>1, <4>2
    <3> QED
      BY <3>1, <3>2, <3>3
  <2>6. CASE SyncUnchanged
    <3>1. sync.pc = "publish" /\ UNCHANGED running /\ sync'.pc = "next"
      BY <2>6 DEF SyncUnchanged, SyncStates, life
    <3> QED
      BY <3>1
  <2>5. CASE WaitForTasks
    <3>1. sync'.pc = "off"
      BY <2>5 DEF WaitForTasks, SyncStates
    <3> QED
      BY <3>1
  <2>3. CASE Cycle \/ CycleEnds \/ SyncStops \/ \E d \in Dirs : SyncDirectory(d)
    BY <2>3 DEF Cycle, CycleEnds, SyncStops, SyncDirectory, SyncStates, index, life
  <2>4. CASE UNCHANGED <<sync, running, store>>
    BY <2>4
  <2> QED
    BY <2>1, <2>2, <2>3, <2>4, <2>5, <2>6 DEF OtherStep, MaintenanceEnds, Corrupt, Call, RequestShutdown, ShutDown,
       ClearAndExit, index, life
<1> QED
  BY <1>1, <1>2

-----------------------------------------------------------------------------
(* The inductive invariant.                                                *)

LEMMA InitHolds ==
  ASSUME Init
  PROVE  IInv
<1> USE DEF Init
<1>1. RuntimeTypeOK
  <2>1. sync \in SyncStates
    BY DEF SyncStates
  <2>2. cache \in [Dirs -> [held : BOOLEAN, bm25 : Nat, guarded : BOOLEAN]]
    BY DEF NoEntry
  <2>3. rights \in [Actors -> SUBSET Access!Rights] /\ caller \in [Callers -> CallerStates]
    BY IdleType
  <2>4. calls \in 0 .. MaxCalls /\ faults \in 0 .. MaxFaults
    BY RuntimeAssumption
  <2>5. PICK disk \in [Dirs -> Left] :
          /\ store = [d \in Dirs |-> disk[d].store]
          /\ bm25 = [d \in Dirs |-> [gen |-> disk[d].gen, torn |-> FALSE]]
          /\ known = [d \in Dirs |-> disk[d].known]
    OBVIOUS
  <2>6. \A x \in Left : /\ x.store \in {"none", "empty", "part", "full"} /\ x.gen \in Nat
                        /\ x.known \in SUBSET {"merkle", "cache"}
    BY DEF Left
  <2>7. \A d \in Dirs : disk[d] \in Left
    BY <2>5
  <2>8. /\ store \in [Dirs -> {"none", "empty", "part", "full"}]
        /\ bm25 \in [Dirs -> [gen : Nat, torn : BOOLEAN]]
        /\ known \in [Dirs -> SUBSET {"merkle", "cache"}]
    BY <2>5, <2>6, <2>7
  <2> QED
    BY <2>1, <2>2, <2>3, <2>4, <2>8 DEF RuntimeTypeOK
<1>2. RightsMatchSteps
  BY ActorsDiffer DEF RightsMatchSteps, CallerMayHold, SyncMayHold, Idle
<1>3. Access!Compatible(rights)
  BY DEF Access!Compatible
<1>4. DeletesAreAlone /\ HandlesAreFresh /\ CachedRuntimeFresh
  BY DEF DeletesAreAlone, HandlesAreFresh, CachedRuntimeFresh, NoEntry, Idle
<1>5. SyncSawIndex /\ FlagFallsLast
  BY DEF SyncSawIndex, FlagFallsLast
<1> QED
  BY <1>1, <1>2, <1>3, <1>4, <1>5 DEF IInv

LEMMA StepHolds ==
  ASSUME IInv, [Next]_vars
  PROVE  IInv'
<1> USE DEF IInv
<1>1. ASSUME NEW c \in Callers, CallerStep(c)
      PROVE  IInv'
  <2>1. RuntimeTypeOK' /\ RightsMatchSteps'
    BY <1>1, CallerTypes, MatchAfterCallers
  <2>2. Access!Compatible(rights')
    BY <1>1, ActorsDiffer, CallersMove, MovesAreCompatible
  <2>3. DeletesAreAlone' /\ HandlesAreFresh' /\ CachedRuntimeFresh'
    BY <1>1, DeletesStayAlone, CallersStayFresh
  <2>4. SyncSawIndex' /\ FlagFallsLast'
    BY <1>1, SyncStaysSound
  <2> QED
    BY <2>1, <2>2, <2>3, <2>4
<1>2. CASE OtherStep
  <2>1. RuntimeTypeOK' /\ RightsMatchSteps'
    BY <1>2, OtherTypes, MatchAfterOthers
  <2>2. Access!Compatible(rights')
    BY <1>2, ActorsDiffer, OthersMove, MovesAreCompatible
  <2>3. DeletesAreAlone' /\ HandlesAreFresh' /\ CachedRuntimeFresh'
    BY <1>2, OthersStayFresh
  <2>4. SyncSawIndex' /\ FlagFallsLast'
    BY <1>2, SyncStaysSound
  <2> QED
    BY <2>1, <2>2, <2>3, <2>4
<1>3. CASE UNCHANGED vars
  <2>1. RuntimeTypeOK' /\ Access!Compatible(rights')
    BY <1>3 DEF vars, RuntimeTypeOK
  <2>2. RightsMatchSteps'
    BY <1>3 DEF vars, RightsMatchSteps, CallerMayHold, SyncMayHold
  <2>4. DeletesAreAlone'
    BY <1>3 DEF vars, DeletesAreAlone, Scope
  <2>5. HandlesAreFresh' /\ CachedRuntimeFresh'
    BY <1>3 DEF vars, HandlesAreFresh, CachedRuntimeFresh
  <2>6. SyncSawIndex' /\ FlagFallsLast'
    BY <1>3 DEF vars, SyncSawIndex, FlagFallsLast
  <2> QED
    BY <2>1, <2>2, <2>4, <2>5, <2>6
<1> QED
  BY <1>1, <1>2, <1>3, StepsAre

\* Believing the flag: whoever ended the sync has left it no lock.
LEMMA FlagHolds ==
  ASSUME IInv
  PROVE  FlagIsHonest
  BY DEF IInv, FlagFallsLast, RightsMatchSteps, SyncMayHold, FlagIsHonest

\* The sync writes only what it saw, so it brings nothing back.
LEMMA NothingComesBack ==
  ASSUME IInv, [Next]_vars
  PROVE  BackByACall
<1> SUFFICES ASSUME NEW d \in Dirs, store[d] = "none", store'[d] # "none"
             PROVE  UNCHANGED sync
  BY DEF BackByACall
<1>1. ASSUME NEW c \in Callers, CallerStep(c)
      PROVE  UNCHANGED sync
  BY <1>1, CallerFrame DEF IInv
<1>2. CASE OtherStep
  <2>1. CASE SyncPublish
    <3>1. sync.pc = "publish" /\ sync.dir \in Dirs /\ store[sync.dir] # "none"
      BY <2>1 DEF SyncPublish, IInv, SyncSawIndex, RuntimeTypeOK, SyncStates
    <3>2. store'[d] = store[d]
      <4>1. d # sync.dir
        BY <3>1
      <4> QED
        BY <2>1, <3>1, <4>1 DEF SyncPublish, Writes, Fails, IInv, RuntimeTypeOK
    <3> QED
      BY <3>2
  <2> QED
    BY <1>2, <2>1 DEF OtherStep, MaintenanceEnds, Corrupt, SyncDirectory, Call, Cycle, Profiles, SyncUnchanged,
       SyncMaintain, CycleEnds, SyncStops, RequestShutdown, ShutDown, WaitForTasks, ClearAndExit, index
<1>3. CASE UNCHANGED vars
  BY <1>3 DEF vars
<1> QED
  BY <1>1, <1>2, <1>3, StepsAre

-----------------------------------------------------------------------------
(* The theorems.                                                           *)

\* The types of the runtime's state, for any callers, directories and faults
\* (mcp/runtime.rs, mcp/sync.rs, mcp/search_cache.rs).
THEOREM TypeCorrect == Spec => []RuntimeTypeOK
<1>1. Init => IInv
  BY InitHolds
<1>2. IInv /\ [Next]_vars => IInv'
  BY StepHolds
<1>3. IInv => RuntimeTypeOK
  BY DEF IInv
<1> QED
  BY <1>1, <1>2, <1>3, PTL DEF Spec

\* Everybody has the rights of the step it is at and nobody's conflict: the
\* inductive invariant (lock_shared, lock_index_writer, lock_store_writer, lock_all).
THEOREM InductiveInvariant == Spec => []IInv
<1>1. Init => IInv
  BY InitHolds
<1>2. IInv /\ [Next]_vars => IInv'
  BY StepHolds
<1> QED
  BY <1>1, <1>2, PTL DEF Spec

\* What clear_cache deleted is not brought back by the background sync, whatever
\* copy of the tracked directories it works from (handle_sync_all, indexed_profiles).
THEOREM SyncResurrectsNothing == Spec => NoResurrection
<1>1. Init => IInv
  BY InitHolds
<1>2. IInv /\ [Next]_vars => IInv'
  BY StepHolds
<1>3. IInv /\ [Next]_vars => [BackByACall]_vars
  BY NothingComesBack
<1> QED
  BY <1>1, <1>2, <1>3, PTL DEF Spec, NoResurrection

\* A cached runtime that was put in under its workspace's lock is of the index that
\* is there, and a flag that says the sync is over can be believed (try_get_cached,
\* create_hybrid_search, clear_cache, start_background_sync).
THEOREM CachedRuntimesAreFresh == Spec => []RuntimesAreFresh
<1>1. Init => IInv
  BY InitHolds
<1>2. IInv /\ [Next]_vars => IInv'
  BY StepHolds
<1>3. IInv => RuntimesAreFresh
  BY FlagHolds DEF RuntimesAreFresh, IInv
<1> QED
  BY <1>1, <1>2, <1>3, PTL DEF Spec
=============================================================================
