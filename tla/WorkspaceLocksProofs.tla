------------------------ MODULE WorkspaceLocksProofs ------------------------
(***************************************************************************)
(* Proofs about WorkspaceLocks for any number of tasks and workspaces.     *)
(***************************************************************************)
EXTENDS WorkspaceLocks, TLAPS

\* The lock a waiting task asks for exists.
LEMMA WantedLockType ==
    ASSUME TypeOK, NEW t \in Tasks
    PROVE  /\ WantedLock(t) \in Locks
           /\ WantedMode(t) \in Modes
           /\ WantedLock(t) = Global \/ WantedLock(t) \in WorkspaceSlot(ws[t])
BY DEF TypeOK, WantedLock, WantedMode, Locks, WorkspaceSlot, Modes, PCs, WaitPCs

\* A queue without one of its requests is still a queue.
LEMMA LeaveType ==
    ASSUME NEW t \in Tasks, NEW q \in Seq(Tasks \X Modes)
    PROVE  Leave(q, t) \in Seq(Tasks \X Modes)
<1>1. CASE \E i \in DOMAIN q : q[i][1] = t
  <2>1. PICK i \in DOMAIN q : i = CHOOSE j \in DOMAIN q : q[j][1] = t
    BY <1>1
  <2>2. i \in 1..Len(q)
    OBVIOUS
  <2>3. SubSeq(q, 1, i - 1) \in Seq(Tasks \X Modes)
    BY <2>2
  <2>4. SubSeq(q, i + 1, Len(q)) \in Seq(Tasks \X Modes)
    BY <2>2
  <2> QED
    BY <1>1, <2>1, <2>3, <2>4 DEF Leave
<1>2. CASE ~ \E i \in DOMAIN q : q[i][1] = t
  BY <1>2 DEF Leave
<1> QED
  BY <1>1, <1>2

\* Where a granted task goes is a program point.
LEMMA AfterAcquireType ==
    ASSUME TypeOK, NEW t \in Tasks, pc[t] \in WaitPCs
    PROVE  AfterAcquire(t) \in PCs \ {"idle", "wantGlobal", "unlockedRead"}
BY DEF TypeOK, AfterAcquire, AfterGlobal, PCs, WaitPCs

\* The initial states satisfy the inductive invariant.
LEMMA InitInv == Init => IInv
<1> SUFFICES ASSUME Init PROVE IInv
  OBVIOUS
<1>1. TypeOK
  BY RunsAssumption DEF Init, TypeOK, PCs, Ops
<1>2. PointsOfOps
  BY DEF Init, PointsOfOps
<1>3. GuardsExclude
  BY DEF Init, GuardsExclude
<1>4. GuardsMatchPrograms
  BY DEF Init, GuardsMatchPrograms, Guards, PassGuards
<1> QED
  BY <1>1, <1>2, <1>3, <1>4 DEF IInv

\* The parts that actions share keep their types.
LEMMA ReleaseType ==
    ASSUME TypeOK, NEW a, NEW S, Release(a, S)
    PROVE  held' \in [Locks -> SUBSET (Actors \X Modes)]
BY DEF TypeOK, Release

LEMMA IdleType ==
    ASSUME TypeOK, NEW t \in Tasks, Idle(t)
    PROVE  /\ pc' \in [Tasks -> PCs]
           /\ op' \in [Tasks -> Ops]
           /\ runs' \in [Tasks -> 0..MaxRuns]
BY RunsAssumption DEF TypeOK, Idle, PCs, Ops

LEMMA OpenStoresType ==
    ASSUME TypeOK, NEW w \in Workspaces, OpenStores(w)
    PROVE  index' \in [Workspaces -> IndexStates]
BY DEF TypeOK, OpenStores, IndexStates

LEMMA HandToPassType ==
    ASSUME TypeOK, NEW t \in Tasks, HandToPass(t)
    PROVE  /\ held' \in [Locks -> SUBSET (Actors \X Modes)]
           /\ passes' \in SUBSET Workspaces
<1>1. Pass(ws[t]) \in Actors
  BY DEF TypeOK, Actors, Passes
<1>2. \A l \in Locks : \A h \in held[l] : <<Pass(ws[t]), h[2]>> \in Actors \X Modes
  BY <1>1 DEF TypeOK
<1>3. \A l \in Locks : held'[l] \in SUBSET (Actors \X Modes)
  BY <1>2 DEF TypeOK, HandToPass
<1>4. held' \in [Locks -> SUBSET (Actors \X Modes)]
  BY <1>3 DEF HandToPass
<1>5. passes' \in SUBSET Workspaces
  BY DEF TypeOK, HandToPass
<1> QED
  BY <1>4, <1>5

LEMMA FinishIndexingType ==
    ASSUME TypeOK, NEW t \in Tasks, FinishIndexing(t),
           index' \in [Workspaces -> IndexStates]
    PROVE  TypeOK'
<1>1. /\ held' \in [Locks -> SUBSET (Actors \X Modes)]
      /\ passes' \in SUBSET Workspaces
  BY HandToPassType, ReleaseType DEF FinishIndexing, ReleaseAll, TypeOK
<1>2. /\ pc' \in [Tasks -> PCs]
      /\ op' \in [Tasks -> Ops]
      /\ runs' \in [Tasks -> 0..MaxRuns]
  BY IdleType DEF FinishIndexing, TypeOK, PCs
<1> QED
  BY <1>1, <1>2 DEF FinishIndexing, TypeOK

LEMMA DoneType ==
    ASSUME TypeOK, NEW t \in Tasks, Done(t),
           index' \in [Workspaces -> IndexStates]
    PROVE  TypeOK'
BY ReleaseType, IdleType DEF Done, ReleaseAll, TypeOK

\* Types are preserved.
LEMMA TypeStep == IInv /\ [Next]_vars => TypeOK'
<1> SUFFICES ASSUME IInv, [Next]_vars PROVE TypeOK'
  OBVIOUS
<1> USE RunsAssumption DEF IInv
<1>0. \A t \in Tasks : ws[t] \in Workspaces
  BY DEF TypeOK
<1>1. ASSUME NEW t \in Tasks, Begin(t) PROVE TypeOK'
  BY <1>1, CallsAssumption DEF Begin, TypeOK, PCs, WaitPCs
<1>2. ASSUME NEW t \in Tasks, Request(t) PROVE TypeOK'
  <2>1. <<t, WantedMode(t)>> \in Tasks \X Modes
    BY WantedLockType
  <2>2. queue' \in [Locks -> Seq(Tasks \X Modes)]
    BY <1>2, <2>1, WantedLockType DEF Request, TypeOK
  <2> QED
    BY <1>2, <2>2 DEF Request, TypeOK
<1>3. ASSUME NEW t \in Tasks, Acquire(t) PROVE TypeOK'
  <2>1. AfterAcquire(t) \in PCs
    BY <1>3, AfterAcquireType DEF Acquire
  <2>2. queue' \in [Locks -> Seq(Tasks \X Modes)]
    BY <1>3, WantedLockType DEF Acquire, TypeOK
  <2>3. held' \in [Locks -> SUBSET (Actors \X Modes)]
    BY <1>3, WantedLockType DEF Acquire, TypeOK, Actors
  <2> QED
    BY <1>3, <2>1, <2>2, <2>3 DEF Acquire, TypeOK
<1>4. ASSUME NEW t \in Tasks, TurnWriter(t) PROVE TypeOK'
  BY <1>4 DEF TurnWriter, Release, ReleaseAll, PointsOfOps, TypeOK,
     PCs, WaitPCs, Ops, IndexStates
<1>5. ASSUME NEW t \in Tasks, SkipBuild(t) PROVE TypeOK'
  BY <1>5 DEF SkipBuild, Release, ReleaseAll, PointsOfOps, TypeOK,
     PCs, WaitPCs, Ops, IndexStates
<1>6. ASSUME NEW t \in Tasks, Wipe(t) PROVE TypeOK'
  BY <1>6 DEF Wipe, Release, ReleaseAll, PointsOfOps, TypeOK,
     PCs, WaitPCs, Ops, IndexStates
<1>7. ASSUME NEW t \in Tasks, EndPublish(t) PROVE TypeOK'
  BY <1>7 DEF EndPublish, Release, ReleaseAll, PointsOfOps, TypeOK,
     PCs, WaitPCs, Ops, IndexStates
<1>8. ASSUME NEW t \in Tasks, AnswerRead(t) PROVE TypeOK'
  <2>1. index' \in [Workspaces -> IndexStates]
    BY <1>8, <1>0, OpenStoresType DEF AnswerRead, TypeOK, IndexStates
  <2> QED
    BY <1>8, <2>1, DoneType DEF AnswerRead
<1>9. ASSUME NEW t \in Tasks, AnswerOverlaps(t) PROVE TypeOK'
  <2>1. index' \in [Workspaces -> IndexStates]
    BY <1>9, <1>0 DEF AnswerOverlaps, TypeOK, IndexStates
  <2> QED
    BY <1>9, <2>1, DoneType DEF AnswerOverlaps
<1>10. ASSUME NEW t \in Tasks, AnswerUnlocked(t) PROVE TypeOK'
  <2>1. index' \in [Workspaces -> IndexStates]
    BY <1>10, <1>0 DEF AnswerUnlocked, TypeOK, IndexStates
  <2> QED
    BY <1>10, <2>1, DoneType DEF AnswerUnlocked
<1>11. ASSUME NEW t \in Tasks, ClearWorkspace(t) PROVE TypeOK'
  <2>1. index' \in [Workspaces -> IndexStates]
    BY <1>11, <1>0 DEF ClearWorkspace, TypeOK, IndexStates
  <2> QED
    BY <1>11, <2>1, DoneType DEF ClearWorkspace
<1>12. ASSUME NEW t \in Tasks, ClearAll(t) PROVE TypeOK'
  <2>1. index' \in [Workspaces -> IndexStates]
    BY <1>12, <1>0 DEF ClearAll, TypeOK, IndexStates
  <2> QED
    BY <1>12, <2>1, DoneType DEF ClearAll
<1>13. ASSUME NEW t \in Tasks, EndSyncMaintenance(t) PROVE TypeOK'
  <2>1. index' \in [Workspaces -> IndexStates]
    BY <1>13, <1>0 DEF EndSyncMaintenance, TypeOK, IndexStates
  <2> QED
    BY <1>13, <2>1, DoneType DEF EndSyncMaintenance
<1>14. ASSUME NEW t \in Tasks, Refill(t) PROVE TypeOK'
  <2>1. index' \in [Workspaces -> IndexStates]
    BY <1>14, <1>0 DEF Refill, TypeOK, IndexStates
  <2> QED
    BY <1>14, <2>1, FinishIndexingType DEF Refill
<1>15. ASSUME NEW t \in Tasks, EndIndexRun(t) PROVE TypeOK'
  BY <1>15, <1>0, OpenStoresType, FinishIndexingType DEF EndIndexRun
<1>16. ASSUME NEW t \in Tasks, StartPublish(t) PROVE TypeOK'
  <2>1. index' \in [Workspaces -> IndexStates]
    BY <1>16, <1>0, OpenStoresType DEF StartPublish
  <2> QED
    BY <1>16, <2>1 DEF StartPublish, TypeOK, PCs, WaitPCs
<1>17. ASSUME NEW t \in Tasks, EndSyncRun(t) PROVE TypeOK'
  <2>1. CASE Done(t)
    BY <1>17, <2>1, DoneType DEF EndSyncRun, TypeOK
  <2>2. CASE pc' = [pc EXCEPT ![t] = "maintaining"]
    <3>1. CASE UNCHANGED <<queue, held, op, ws, runs, passes>>
      BY <1>17, <2>2, <3>1 DEF EndSyncRun, TypeOK, PCs
    <3> QED
      BY <1>17, <2>1, <3>1 DEF EndSyncRun
  <2> QED
    BY <1>17, <2>1, <2>2 DEF EndSyncRun
<1>18. ASSUME NEW t \in Tasks, Abandon(t) PROVE TypeOK'
  <2>1. \A l \in Locks : Leave(queue[l], t) \in Seq(Tasks \X Modes)
    BY LeaveType DEF TypeOK
  <2> QED
    BY <1>18, <2>1, ReleaseType, IdleType DEF Abandon, ReleaseAll, TypeOK
<1>19. ASSUME NEW w \in Workspaces, EndPass(w) PROVE TypeOK'
  BY <1>19 DEF EndPass, Release, ReleaseAll, TypeOK
<1>20. CASE UNCHANGED vars
  BY <1>20 DEF vars, TypeOK
<1> QED
  BY <1>1, <1>2, <1>3, <1>4, <1>5, <1>6, <1>7, <1>8, <1>9, <1>10, <1>11, <1>12, <1>13, <1>14, <1>15, <1>16, <1>17, <1>18, <1>19, <1>20 DEF Next, Progress

\* Every operation stays on its program.
LEMMA PointsStep == IInv /\ [Next]_vars => PointsOfOps'
<1> SUFFICES ASSUME IInv, [Next]_vars PROVE PointsOfOps'
  OBVIOUS
<1> USE DEF IInv, PointsOfOps, TypeOK
<1>1. ASSUME NEW t \in Tasks, Acquire(t) PROVE PointsOfOps'
  BY <1>1, AfterAcquireType DEF Acquire, AfterAcquire, AfterGlobal, WaitPCs,
     GraphCacheOps, IndexWriterOps, StoreWriterOps, Ops
<1>2. ASSUME NEW t \in Tasks, Begin(t) PROVE PointsOfOps'
  BY <1>2, CallsAssumption DEF Begin, Ops
<1>3. ASSUME NEW t \in Tasks, Request(t) PROVE PointsOfOps'
  BY <1>3 DEF Request
<1>4. ASSUME NEW t \in Tasks, TurnWriter(t) PROVE PointsOfOps'
  BY <1>4 DEF TurnWriter
<1>5. ASSUME NEW t \in Tasks, SkipBuild(t) PROVE PointsOfOps'
  BY <1>5 DEF SkipBuild
<1>6. ASSUME NEW t \in Tasks, Wipe(t) PROVE PointsOfOps'
  BY <1>6 DEF Wipe, IndexWriterOps
<1>7. ASSUME NEW t \in Tasks, EndPublish(t) PROVE PointsOfOps'
  BY <1>7 DEF EndPublish
<1>8. ASSUME NEW t \in Tasks, AnswerRead(t) PROVE PointsOfOps'
  BY <1>8 DEF AnswerRead, Done, Idle
<1>9. ASSUME NEW t \in Tasks, AnswerOverlaps(t) PROVE PointsOfOps'
  BY <1>9 DEF AnswerOverlaps, Done, Idle
<1>10. ASSUME NEW t \in Tasks, AnswerUnlocked(t) PROVE PointsOfOps'
  BY <1>10 DEF AnswerUnlocked, Done, Idle
<1>11. ASSUME NEW t \in Tasks, ClearWorkspace(t) PROVE PointsOfOps'
  BY <1>11 DEF ClearWorkspace, Done, Idle
<1>12. ASSUME NEW t \in Tasks, ClearAll(t) PROVE PointsOfOps'
  BY <1>12 DEF ClearAll, Done, Idle
<1>13. ASSUME NEW t \in Tasks, EndSyncMaintenance(t) PROVE PointsOfOps'
  BY <1>13 DEF EndSyncMaintenance, Done, Idle
<1>14. ASSUME NEW t \in Tasks, Refill(t) PROVE PointsOfOps'
  BY <1>14 DEF Refill, FinishIndexing, Idle
<1>15. ASSUME NEW t \in Tasks, EndIndexRun(t) PROVE PointsOfOps'
  BY <1>15, ZenonT(60) DEF EndIndexRun, FinishIndexing, Idle, StoreWriterOps
<1>16. ASSUME NEW t \in Tasks, StartPublish(t) PROVE PointsOfOps'
  BY <1>16 DEF StartPublish
<1>17. ASSUME NEW t \in Tasks, EndSyncRun(t) PROVE PointsOfOps'
  BY <1>17 DEF EndSyncRun, Done, Idle
<1>18. ASSUME NEW t \in Tasks, Abandon(t) PROVE PointsOfOps'
  BY <1>18 DEF Abandon, Idle
<1>19. ASSUME NEW w \in Workspaces, EndPass(w) PROVE PointsOfOps'
  BY <1>19 DEF EndPass
<1>20. CASE UNCHANGED vars
  BY <1>20 DEF vars
<1> QED
  BY <1>1, <1>2, <1>3, <1>4, <1>5, <1>6, <1>7, <1>8, <1>9, <1>10, <1>11, <1>12, <1>13, <1>14, <1>15, <1>16, <1>17, <1>18, <1>19, <1>20 DEF Next, Progress

\* What a step leaves to the other tasks.
OthersSame(t) ==
    \A u \in Tasks \ {t} : pc'[u] = pc[u] /\ op'[u] = op[u] /\ ws'[u] = ws[u]

LEMMA OthersGuards ==
    ASSUME NEW t \in Tasks, OthersSame(t), NEW u \in Tasks, u # t
    PROVE  Guards(u)' = Guards(u)
BY DEF OthersSame, Guards

\* A pass is no task, and the passes of two workspaces are two.
LEMMA PassFacts ==
    /\ \A t \in Tasks, w \in Workspaces : t # Pass(w)
    /\ \A v, w \in Workspaces : Pass(v) = Pass(w) => v = w
BY TasksAssumption DEF Passes, Pass

\* A task that lets all its guards go, and is at a point that has none.
LEMMA ReleaseAllGuards ==
    ASSUME IInv, NEW t \in Tasks, ReleaseAll(t), OthersSame(t), passes' = passes,
           Guards(t)' = {}
    PROVE  GuardsExclude' /\ GuardsMatchPrograms'
<1>1. GuardsExclude'
  BY DEF ReleaseAll, Release, GuardsExclude, IInv
<1>2. ASSUME NEW u \in Tasks, NEW l \in Locks, NEW m \in Modes
      PROVE  <<u, m>> \in held'[l] <=> <<l, m>> \in Guards(u)'
  <2>1. CASE u = t
    BY <2>1 DEF ReleaseAll, Release
  <2>2. CASE u # t
    <3>1. <<u, m>> \in held'[l] <=> <<u, m>> \in held[l]
      BY <2>2 DEF ReleaseAll, Release
    <3> QED
      BY <2>2, <3>1, OthersGuards DEF IInv, GuardsMatchPrograms
  <2> QED
    BY <2>1, <2>2
<1>3. ASSUME NEW w \in Workspaces, NEW l \in Locks, NEW m \in Modes
      PROVE  <<Pass(w), m>> \in held'[l] <=> <<l, m>> \in PassGuards(w)'
  <2>1. Pass(w) # t
    BY PassFacts
  <2>2. <<Pass(w), m>> \in held'[l] <=> <<Pass(w), m>> \in held[l]
    BY <2>1 DEF ReleaseAll, Release
  <2> QED
    BY <2>2 DEF IInv, GuardsMatchPrograms, PassGuards
<1> QED
  BY <1>1, <1>2, <1>3 DEF GuardsMatchPrograms

\* A task that keeps its guards as they are.
LEMMA KeepGuards ==
    ASSUME IInv, NEW t \in Tasks, held' = held, OthersSame(t), passes' = passes,
           Guards(t)' = Guards(t)
    PROVE  GuardsExclude' /\ GuardsMatchPrograms'
<1>1. \A u \in Tasks : Guards(u)' = Guards(u)
  BY OthersGuards
<1>2. \A w \in Workspaces : PassGuards(w)' = PassGuards(w)
  BY DEF PassGuards
<1> QED
  BY <1>1, <1>2 DEF IInv, GuardsExclude, GuardsMatchPrograms

\* A writer that hands its guards to the workspace's pass.
LEMMA HandToPassGuards ==
    ASSUME IInv, NEW t \in Tasks, HandToPass(t), OthersSame(t), Guards(t)' = {},
           <<Maintenance(ws[t]), "w">> \in Guards(t),
           <<Global, "r">> \in Guards(t)
    PROVE  GuardsExclude' /\ GuardsMatchPrograms'
<1> DEFINE w0 == ws[t]
           kept == {Global, Maintenance(w0)}
<1>0. /\ w0 \in Workspaces
      /\ Global \in Locks /\ Maintenance(w0) \in Locks
      /\ "r" \in Modes /\ "w" \in Modes
  BY DEF IInv, TypeOK, Locks, WorkspaceSlot, Modes
<1>1. <<t, "w">> \in held[Maintenance(w0)] /\ <<t, "r">> \in held[Global]
  BY <1>0 DEF IInv, GuardsMatchPrograms
<1>2. held[Maintenance(w0)] = {<<t, "w">>}
  BY <1>0, <1>1 DEF IInv, GuardsExclude, TypeOK
<1>3. \A h \in held[Global] : h[2] = "r"
  BY <1>0, <1>1 DEF IInv, GuardsExclude, TypeOK
<1>4. w0 \notin passes
  <2>1. <<Pass(w0), "w">> \notin held[Maintenance(w0)]
    BY <1>0, <1>2, PassFacts
  <2> QED
    BY <1>0, <2>1 DEF IInv, GuardsMatchPrograms, PassGuards
<1>5. Pass(w0) # t
  BY <1>0, PassFacts
<1>6. held'[Maintenance(w0)] = {<<Pass(w0), "w">>}
  <2> DEFINE rest == {h \in held[Maintenance(w0)] : h[1] # t}
  <2>1. rest = {}
    BY <1>2
  <2>2. held'[Maintenance(w0)] =
           rest \cup {<<Pass(w0), h[2]>> : h \in held[Maintenance(w0)] \ rest}
    BY <1>0 DEF HandToPass
  <2>3. {<<Pass(w0), h[2]>> : h \in {<<t, "w">>}} = {<<Pass(w0), "w">>}
    OBVIOUS
  <2> QED
    BY <1>2, <2>1, <2>2, <2>3
<1>7. held'[Global] = {h \in held[Global] : h[1] # t} \cup {<<Pass(w0), "r">>}
  BY <1>0, <1>1, <1>3 DEF HandToPass
<1>8. \A l \in Locks \ kept : held'[l] = {h \in held[l] : h[1] # t}
  BY DEF HandToPass
<1>9. GuardsExclude'
  <2> SUFFICES ASSUME NEW l \in Locks, NEW g \in held'[l], NEW h \in held'[l], g # h
               PROVE  g[2] = "r" /\ h[2] = "r"
    BY DEF GuardsExclude
  <2>1. CASE l = Maintenance(w0)
    BY <1>6, <2>1
  <2>2. CASE l = Global
    BY <1>3, <1>7, <2>2
  <2>3. CASE l \notin kept
    BY <1>8, <2>3 DEF IInv, GuardsExclude
  <2> QED
    BY <2>1, <2>2, <2>3
<1>10. ASSUME NEW u \in Tasks, NEW l \in Locks, NEW m \in Modes
       PROVE  <<u, m>> \in held'[l] <=> <<l, m>> \in Guards(u)'
  <2>0. u # Pass(w0)
    BY <1>0, PassFacts
  <2>1. CASE u = t
    BY <1>6, <1>7, <1>8, <2>0, <2>1
  <2>2. CASE u # t
    <3>1. <<u, m>> \in held'[l] <=> <<u, m>> \in held[l]
      BY <1>2, <1>6, <1>7, <1>8, <2>0, <2>2
    <3> QED
      BY <2>2, <3>1, OthersGuards DEF IInv, GuardsMatchPrograms
  <2> QED
    BY <2>1, <2>2
<1>11. ASSUME NEW w \in Workspaces, NEW l \in Locks, NEW m \in Modes
       PROVE  <<Pass(w), m>> \in held'[l] <=> <<l, m>> \in PassGuards(w)'
  <2>0. Pass(w) # t
    BY PassFacts
  <2>1. CASE w = w0
    <3>1. PassGuards(w)' = {<<Global, "r">>, <<Maintenance(w0), "w">>}
      BY <2>1 DEF PassGuards, HandToPass
    <3>2. <<Pass(w), m>> \notin held[l]
      BY <1>4, <2>1 DEF IInv, GuardsMatchPrograms, PassGuards
    <3>3. Global # Maintenance(w0)
      BY DEF Global, Maintenance
    <3> QED
      BY <1>6, <1>7, <1>8, <2>1, <3>1, <3>2, <3>3
  <2>2. CASE w # w0
    <3>0. Pass(w) # Pass(w0)
      BY <1>0, <2>2, PassFacts
    <3>1. <<Pass(w), m>> \in held'[l] <=> <<Pass(w), m>> \in held[l]
      BY <1>2, <1>6, <1>7, <1>8, <2>0, <3>0
    <3>2. PassGuards(w)' = PassGuards(w)
      BY <1>0, <2>2 DEF PassGuards, HandToPass
    <3> QED
      BY <3>1, <3>2 DEF IInv, GuardsMatchPrograms
  <2> QED
    BY <2>1, <2>2
<1> QED
  BY <1>9, <1>10, <1>11 DEF GuardsMatchPrograms

\* The lock a task waits for is none of those it has, and joins them when it is
\* granted.
LEMMA AcquireGuards ==
    ASSUME IInv, NEW t \in Tasks, Acquire(t)
    PROVE  Guards(t)' = Guards(t) \cup {<<WantedLock(t), WantedMode(t)>>}
<1> USE DEF Acquire, Guards, WantedLock, WantedMode, IInv, TypeOK, PointsOfOps
<1>1. CASE pc[t] = "wantGlobal"
  <2>1. /\ pc'[t] = AfterGlobal(t) /\ op'[t] = op[t] /\ ws'[t] = ws[t]
    BY <1>1 DEF AfterAcquire
  <2>2. CASE op[t] = "clearAll"
    BY <1>1, <2>1, <2>2 DEF AfterGlobal
  <2>3. CASE op[t] # "clearAll"
    <3>1. pc'[t] \in {"wantGraphCache", "wantMaintenance"}
          \/ (pc'[t] = "wantRead" /\ op[t] # "codemap")
      BY <2>1, <2>3 DEF AfterGlobal, GraphCacheOps
    <3> QED
      BY <1>1, <2>1, <2>3, <3>1
  <2> QED
    BY <2>2, <2>3
<1>2. CASE pc[t] = "wantGraphCache"
  BY <1>2 DEF AfterAcquire, GraphCacheOps
<1>3. CASE pc[t] = "wantMaintenance"
  BY <1>3 DEF AfterAcquire, IndexWriterOps, StoreWriterOps
<1>4. CASE pc[t] = "wantRead"
  BY <1>4 DEF AfterAcquire
<1>5. CASE pc[t] = "wantWrite"
  BY <1>5 DEF AfterAcquire, IndexWriterOps
<1>6. CASE pc[t] = "wantPublish"
  BY <1>6 DEF AfterAcquire, StoreWriterOps
<1> QED
  BY <1>1, <1>2, <1>3, <1>4, <1>5, <1>6 DEF WaitPCs

\* Guards stay exclusive and stay with the programs of their owners.
LEMMA GuardsStep == IInv /\ [Next]_vars => GuardsExclude' /\ GuardsMatchPrograms'
<1> SUFFICES ASSUME IInv, [Next]_vars PROVE GuardsExclude' /\ GuardsMatchPrograms'
  OBVIOUS
<1> DEFINE Goal == GuardsExclude' /\ GuardsMatchPrograms'
<1>0. TypeOK /\ PointsOfOps
  BY DEF IInv
<1>1. ASSUME NEW t \in Tasks, Acquire(t) PROVE Goal
  <2> DEFINE l0 == WantedLock(t)
             m0 == WantedMode(t)
  <2>0. l0 \in Locks /\ m0 \in Modes
    BY <1>0, WantedLockType
  <2>1. Grantable(l0, m0) /\ held' = [held EXCEPT ![l0] = @ \cup {<<t, m0>>}]
    BY <1>1 DEF Acquire
  <2>2. GuardsExclude'
    <3> SUFFICES ASSUME NEW l \in Locks, NEW g \in held'[l], NEW h \in held'[l], g # h
                 PROVE  g[2] = "r" /\ h[2] = "r"
      BY DEF GuardsExclude
    <3>1. CASE l # l0
      BY <2>1, <3>1 DEF IInv, GuardsExclude, TypeOK
    <3>2. CASE l = l0
      <4>1. held'[l] = held[l] \cup {<<t, m0>>}
        BY <1>0, <2>1, <3>2 DEF TypeOK
      <4>2. CASE m0 = "w"
        BY <2>1, <3>2, <4>1, <4>2 DEF Grantable
      <4>3. CASE m0 = "r"
        BY <2>1, <3>2, <4>1, <4>3 DEF Grantable
      <4> QED
        BY <2>0, <4>2, <4>3 DEF Modes
    <3> QED
      BY <3>1, <3>2
  <2>3. OthersSame(t) /\ passes' = passes
    BY <1>0, <1>1 DEF Acquire, OthersSame, TypeOK
  <2>4. ASSUME NEW u \in Tasks, NEW l \in Locks, NEW m \in Modes
        PROVE  <<u, m>> \in held'[l] <=> <<l, m>> \in Guards(u)'
    <3>1. CASE u = t
      <4>1. Guards(t)' = Guards(t) \cup {<<l0, m0>>}
        BY <1>1, AcquireGuards
      <4>2. <<u, m>> \in held[l] <=> <<l, m>> \in Guards(u)
        BY DEF IInv, GuardsMatchPrograms
      <4>3. <<u, m>> \in held'[l] <=> <<u, m>> \in held[l] \/ (l = l0 /\ m = m0)
        BY <1>0, <2>1, <3>1 DEF TypeOK
      <4> QED
        BY <3>1, <4>1, <4>2, <4>3
    <3>2. CASE u # t
      <4>1. <<u, m>> \in held'[l] <=> <<u, m>> \in held[l]
        BY <1>0, <2>1, <3>2 DEF TypeOK
      <4> QED
        BY <2>3, <3>2, <4>1, OthersGuards DEF IInv, GuardsMatchPrograms
    <3> QED
      BY <3>1, <3>2
  <2>5. ASSUME NEW w \in Workspaces, NEW l \in Locks, NEW m \in Modes
        PROVE  <<Pass(w), m>> \in held'[l] <=> <<l, m>> \in PassGuards(w)'
    <3>1. Pass(w) # t
      BY PassFacts
    <3>2. <<Pass(w), m>> \in held'[l] <=> <<Pass(w), m>> \in held[l]
      BY <1>0, <2>1, <3>1 DEF TypeOK
    <3> QED
      BY <2>3, <3>2 DEF IInv, GuardsMatchPrograms, PassGuards
  <2> QED
    BY <2>2, <2>4, <2>5 DEF GuardsMatchPrograms
<1>2. ASSUME NEW t \in Tasks, EndPublish(t) PROVE Goal
  <2> DEFINE l0 == Operation(ws[t])
  <2>0. l0 \in Locks /\ ws[t] \in Workspaces
    BY <1>0 DEF TypeOK, Locks, WorkspaceSlot
  <2>1. GuardsExclude'
    BY <1>2 DEF EndPublish, Release, IInv, GuardsExclude
  <2>2. OthersSame(t) /\ passes' = passes
    BY <1>0, <1>2 DEF EndPublish, OthersSame, TypeOK
  <2>3. \A l \in Locks \ {l0} : held'[l] = held[l]
    BY <1>2 DEF EndPublish, Release
  <2>4. held'[l0] = {h \in held[l0] : h[1] # t}
    BY <1>2, <2>0 DEF EndPublish, Release
  <2>5. Guards(t)' = Guards(t) \ {<<l0, "w">>}
    BY <1>0, <1>2 DEF EndPublish, Guards, TypeOK, Global, GraphCache, Maintenance, Operation
  <2>6. <<l0, "r">> \notin Guards(t)
    BY <1>0, <1>2 DEF EndPublish, Guards, TypeOK, Global, GraphCache, Maintenance, Operation
  <2>7. ASSUME NEW u \in Tasks, NEW l \in Locks, NEW m \in Modes
        PROVE  <<u, m>> \in held'[l] <=> <<l, m>> \in Guards(u)'
    <3>1. CASE u = t
      <4>1. <<u, m>> \in held[l] <=> <<l, m>> \in Guards(u)
        BY DEF IInv, GuardsMatchPrograms
      <4>2. m \in {"r", "w"}
        BY DEF Modes
      <4> QED
        BY <2>3, <2>4, <2>5, <2>6, <3>1, <4>1, <4>2
    <3>2. CASE u # t
      <4>1. <<u, m>> \in held'[l] <=> <<u, m>> \in held[l]
        BY <2>3, <2>4, <3>2
      <4> QED
        BY <2>2, <3>2, <4>1, OthersGuards DEF IInv, GuardsMatchPrograms
    <3> QED
      BY <3>1, <3>2
  <2>8. ASSUME NEW w \in Workspaces, NEW l \in Locks, NEW m \in Modes
        PROVE  <<Pass(w), m>> \in held'[l] <=> <<l, m>> \in PassGuards(w)'
    <3>1. Pass(w) # t
      BY PassFacts
    <3>2. <<Pass(w), m>> \in held'[l] <=> <<Pass(w), m>> \in held[l]
      BY <2>3, <2>4, <3>1
    <3> QED
      BY <2>2, <3>2 DEF IInv, GuardsMatchPrograms, PassGuards
  <2> QED
    BY <2>1, <2>7, <2>8 DEF GuardsMatchPrograms
<1>3. ASSUME NEW v \in Workspaces, EndPass(v) PROVE Goal
  <2>1. GuardsExclude'
    BY <1>3 DEF EndPass, ReleaseAll, Release, IInv, GuardsExclude
  <2>2. \A u \in Tasks : Guards(u)' = Guards(u)
    BY <1>3 DEF EndPass, Guards
  <2>3. ASSUME NEW u \in Tasks, NEW l \in Locks, NEW m \in Modes
        PROVE  <<u, m>> \in held'[l] <=> <<l, m>> \in Guards(u)'
    <3>1. u # Pass(v)
      BY PassFacts
    <3>2. <<u, m>> \in held'[l] <=> <<u, m>> \in held[l]
      BY <1>3, <3>1 DEF EndPass, ReleaseAll, Release
    <3> QED
      BY <2>2, <3>2 DEF IInv, GuardsMatchPrograms
  <2>4. ASSUME NEW w \in Workspaces, NEW l \in Locks, NEW m \in Modes
        PROVE  <<Pass(w), m>> \in held'[l] <=> <<l, m>> \in PassGuards(w)'
    <3>1. CASE w = v
      <4>1. PassGuards(w)' = {}
        BY <1>3, <3>1 DEF EndPass, PassGuards
      <4> QED
        BY <1>3, <3>1, <4>1 DEF EndPass, ReleaseAll, Release
    <3>2. CASE w # v
      <4>0. Pass(w) # Pass(v)
        BY <3>2, PassFacts
      <4>1. <<Pass(w), m>> \in held'[l] <=> <<Pass(w), m>> \in held[l]
        BY <1>3, <4>0 DEF EndPass, ReleaseAll, Release
      <4>2. PassGuards(w)' = PassGuards(w)
        BY <1>3, <3>2 DEF EndPass, PassGuards
      <4> QED
        BY <4>1, <4>2 DEF IInv, GuardsMatchPrograms
    <3> QED
      BY <3>1, <3>2
  <2> QED
    BY <2>1, <2>3, <2>4 DEF GuardsMatchPrograms
<1>4. ASSUME NEW t \in Tasks, Begin(t) PROVE Goal
  <2>1. held' = held /\ OthersSame(t) /\ passes' = passes
    BY <1>0, <1>4 DEF Begin, OthersSame, TypeOK
  <2>2. Guards(t)' = Guards(t)
    BY <1>0, <1>4 DEF Begin, Guards, TypeOK, PointsOfOps, WaitPCs
  <2> QED
    BY <2>1, <2>2, KeepGuards
<1>5. ASSUME NEW t \in Tasks, Request(t) PROVE Goal
  <2>1. held' = held /\ OthersSame(t) /\ passes' = passes
    BY <1>0, <1>5 DEF Request, OthersSame, TypeOK
  <2>2. Guards(t)' = Guards(t)
    BY <1>0, <1>5 DEF Request, Guards, TypeOK, PointsOfOps, WaitPCs
  <2> QED
    BY <2>1, <2>2, KeepGuards
<1>6. ASSUME NEW t \in Tasks, Wipe(t) PROVE Goal
  <2>1. held' = held /\ OthersSame(t) /\ passes' = passes
    BY <1>0, <1>6 DEF Wipe, OthersSame, TypeOK
  <2>2. Guards(t)' = Guards(t)
    BY <1>0, <1>6 DEF Wipe, Guards, TypeOK, PointsOfOps, WaitPCs
  <2> QED
    BY <2>1, <2>2, KeepGuards
<1>7. ASSUME NEW t \in Tasks, StartPublish(t) PROVE Goal
  <2>1. held' = held /\ OthersSame(t) /\ passes' = passes
    BY <1>0, <1>7 DEF StartPublish, OthersSame, TypeOK
  <2>2. Guards(t)' = Guards(t)
    BY <1>0, <1>7 DEF StartPublish, Guards, TypeOK, PointsOfOps, WaitPCs
  <2> QED
    BY <2>1, <2>2, KeepGuards
<1>8. ASSUME NEW t \in Tasks, TurnWriter(t) PROVE Goal
  <2>1. ReleaseAll(t) /\ OthersSame(t) /\ passes' = passes
    BY <1>0, <1>8 DEF TurnWriter, OthersSame, TypeOK
  <2>2. Guards(t)' = {}
    BY <1>0, <1>8 DEF TurnWriter, Guards, TypeOK
  <2> QED
    BY <2>1, <2>2, ReleaseAllGuards
<1>9. ASSUME NEW t \in Tasks, SkipBuild(t) PROVE Goal
  <2>1. ReleaseAll(t) /\ OthersSame(t) /\ passes' = passes
    BY <1>0, <1>9 DEF SkipBuild, OthersSame, TypeOK
  <2>2. Guards(t)' = {}
    BY <1>0, <1>9 DEF SkipBuild, Guards, TypeOK
  <2> QED
    BY <2>1, <2>2, ReleaseAllGuards
<1>10. ASSUME NEW t \in Tasks, AnswerRead(t) PROVE Goal
  <2>1. ReleaseAll(t) /\ OthersSame(t) /\ passes' = passes
    BY <1>0, <1>10 DEF AnswerRead, Done, Idle, OthersSame, TypeOK
  <2>2. Guards(t)' = {}
    BY <1>0, <1>10 DEF AnswerRead, Done, Idle, Guards, TypeOK
  <2> QED
    BY <2>1, <2>2, ReleaseAllGuards
<1>11. ASSUME NEW t \in Tasks, AnswerOverlaps(t) PROVE Goal
  <2>1. ReleaseAll(t) /\ OthersSame(t) /\ passes' = passes
    BY <1>0, <1>11 DEF AnswerOverlaps, Done, Idle, OthersSame, TypeOK
  <2>2. Guards(t)' = {}
    BY <1>0, <1>11 DEF AnswerOverlaps, Done, Idle, Guards, TypeOK
  <2> QED
    BY <2>1, <2>2, ReleaseAllGuards
<1>12. ASSUME NEW t \in Tasks, AnswerUnlocked(t) PROVE Goal
  <2>1. ReleaseAll(t) /\ OthersSame(t) /\ passes' = passes
    BY <1>0, <1>12 DEF AnswerUnlocked, Done, Idle, OthersSame, TypeOK
  <2>2. Guards(t)' = {}
    BY <1>0, <1>12 DEF AnswerUnlocked, Done, Idle, Guards, TypeOK
  <2> QED
    BY <2>1, <2>2, ReleaseAllGuards
<1>13. ASSUME NEW t \in Tasks, ClearWorkspace(t) PROVE Goal
  <2>1. ReleaseAll(t) /\ OthersSame(t) /\ passes' = passes
    BY <1>0, <1>13 DEF ClearWorkspace, Done, Idle, OthersSame, TypeOK
  <2>2. Guards(t)' = {}
    BY <1>0, <1>13 DEF ClearWorkspace, Done, Idle, Guards, TypeOK
  <2> QED
    BY <2>1, <2>2, ReleaseAllGuards
<1>14. ASSUME NEW t \in Tasks, ClearAll(t) PROVE Goal
  <2>1. ReleaseAll(t) /\ OthersSame(t) /\ passes' = passes
    BY <1>0, <1>14 DEF ClearAll, Done, Idle, OthersSame, TypeOK
  <2>2. Guards(t)' = {}
    BY <1>0, <1>14 DEF ClearAll, Done, Idle, Guards, TypeOK
  <2> QED
    BY <2>1, <2>2, ReleaseAllGuards
<1>15. ASSUME NEW t \in Tasks, EndSyncMaintenance(t) PROVE Goal
  <2>1. ReleaseAll(t) /\ OthersSame(t) /\ passes' = passes
    BY <1>0, <1>15 DEF EndSyncMaintenance, Done, Idle, OthersSame, TypeOK
  <2>2. Guards(t)' = {}
    BY <1>0, <1>15 DEF EndSyncMaintenance, Done, Idle, Guards, TypeOK
  <2> QED
    BY <2>1, <2>2, ReleaseAllGuards
<1>16. ASSUME NEW t \in Tasks, Abandon(t) PROVE Goal
  <2>1. ReleaseAll(t) /\ OthersSame(t) /\ passes' = passes
    BY <1>0, <1>16 DEF Abandon, Idle, OthersSame, TypeOK
  <2>2. Guards(t)' = {}
    BY <1>0, <1>16 DEF Abandon, Idle, Guards, TypeOK
  <2> QED
    BY <2>1, <2>2, ReleaseAllGuards
<1>17. ASSUME NEW t \in Tasks, EndSyncRun(t) PROVE Goal
  <2>1. CASE Done(t)
    <3>1. ReleaseAll(t) /\ OthersSame(t) /\ passes' = passes /\ Guards(t)' = {}
      BY <1>0, <2>1 DEF Done, Idle, OthersSame, TypeOK, Guards
    <3> QED
      BY <3>1, ReleaseAllGuards
  <2>2. CASE ~Done(t)
    <3>1. held' = held /\ OthersSame(t) /\ passes' = passes
      BY <1>0, <1>17, <2>2 DEF EndSyncRun, OthersSame, TypeOK
    <3>2. Guards(t)' = Guards(t)
      BY <1>0, <1>17, <2>2 DEF EndSyncRun, Guards, TypeOK
    <3> QED
      BY <3>1, <3>2, KeepGuards
  <2> QED
    BY <2>1, <2>2
<1>18. ASSUME NEW t \in Tasks, Refill(t) PROVE Goal
  <2>1. OthersSame(t)
    BY <1>0, <1>18 DEF Refill, FinishIndexing, Idle, OthersSame, TypeOK
  <2>2. Guards(t)' = {}
    BY <1>0, <1>18 DEF Refill, FinishIndexing, Idle, Guards, TypeOK
  <2>3. <<Maintenance(ws[t]), "w">> \in Guards(t) /\ <<Global, "r">> \in Guards(t)
    BY <1>0, <1>18 DEF Refill, PointsOfOps, Guards, IndexWriterOps, StoreWriterOps
  <2>4. CASE HandToPass(t)
    BY <2>1, <2>2, <2>3, <2>4, HandToPassGuards
  <2>5. CASE ReleaseAll(t) /\ UNCHANGED passes
    BY <2>1, <2>2, <2>5, ReleaseAllGuards
  <2> QED
    BY <1>18, <2>4, <2>5 DEF Refill, FinishIndexing
<1>19. ASSUME NEW t \in Tasks, EndIndexRun(t) PROVE Goal
  <2>1. OthersSame(t)
    BY <1>0, <1>19 DEF EndIndexRun, FinishIndexing, Idle, OthersSame, TypeOK
  <2>2. Guards(t)' = {}
    BY <1>0, <1>19 DEF EndIndexRun, FinishIndexing, Idle, Guards, TypeOK
  <2>3. <<Maintenance(ws[t]), "w">> \in Guards(t) /\ <<Global, "r">> \in Guards(t)
    BY <1>0, <1>19 DEF EndIndexRun, PointsOfOps, Guards, IndexWriterOps, StoreWriterOps
  <2>4. CASE HandToPass(t)
    BY <2>1, <2>2, <2>3, <2>4, HandToPassGuards
  <2>5. CASE ReleaseAll(t) /\ UNCHANGED passes
    BY <2>1, <2>2, <2>5, ReleaseAllGuards
  <2> QED
    BY <1>19, <2>4, <2>5 DEF EndIndexRun, FinishIndexing
<1>20. CASE UNCHANGED vars
  <2>1. held' = held /\ \A u \in Tasks : Guards(u)' = Guards(u)
    BY <1>20 DEF vars, Guards
  <2>2. \A w \in Workspaces : PassGuards(w)' = PassGuards(w)
    BY <1>20 DEF vars, PassGuards
  <2> QED
    BY <2>1, <2>2 DEF IInv, GuardsExclude, GuardsMatchPrograms
<1> QED
  BY <1>1, <1>2, <1>3, <1>4, <1>5, <1>6, <1>7, <1>8, <1>9, <1>10, <1>11, <1>12, <1>13, <1>14, <1>15, <1>16, <1>17, <1>18, <1>19, <1>20 DEF Next, Progress

\* Every behaviour satisfies the inductive invariant.
THEOREM InductiveInvariant == Spec => []IInv
<1>1. IInv /\ [Next]_vars => IInv'
  BY TypeStep, PointsStep, GuardsStep DEF IInv
<1> QED
  BY <1>1, InitInv, PTL DEF Spec

\* The type invariant, for every number of tasks and workspaces.
THEOREM TypeCorrect == Spec => []TypeOK
<1>1. IInv => TypeOK
  BY DEF IInv
<1> QED
  BY <1>1, InductiveInvariant, PTL

\* A task waits only upward in the lock order (the table of the module docs of
\* workspace_locks.rs), so no circle of waits can close.
THEOREM LocksOrdered == Spec => []LockOrder
<1>1. IInv => LockOrder
  <2> SUFFICES ASSUME IInv, NEW t \in Tasks, pc[t] \in WaitPCs,
                      NEW l \in Locks, NEW m \in Modes, <<t, m>> \in held[l]
               PROVE  /\ Level(l) < Level(WantedLock(t))
                      /\ l = Global \/ l[2] = ws[t]
    BY DEF LockOrder
  <2>1. <<l, m>> \in Guards(t)
    BY DEF IInv, GuardsMatchPrograms
  <2>2. \/ l = Global /\ pc[t] # "wantGlobal"
        \/ l = GraphCache(ws[t]) /\ pc[t] = "wantRead"
        \/ l = Maintenance(ws[t]) /\ pc[t] \in {"wantWrite", "wantPublish"}
    BY <2>1 DEF Guards, WaitPCs
  <2> QED
    BY <2>2 DEF Level, WantedLock, WaitPCs, Global, GraphCache, Maintenance, Operation
<1> QED
  BY <1>1, InductiveInvariant, PTL

-----------------------------------------------------------------------------
(* Queues *)

\* A queue without a task has the places of the others, in their order.
LEMMA LeavePlaces ==
    ASSUME NEW t \in Tasks, NEW q \in Seq(Tasks \X Modes),
           \A i, j \in DOMAIN q : q[i][1] = q[j][1] => i = j
    PROVE  /\ \A k \in DOMAIN Leave(q, t) :
                 \E i \in DOMAIN q : Leave(q, t)[k] = q[i] /\ q[i][1] # t
           /\ \A k, n \in DOMAIN Leave(q, t) :
                 Leave(q, t)[k][1] = Leave(q, t)[n][1] => k = n
<1>1. CASE \E i \in DOMAIN q : q[i][1] = t
  <2>1. PICK i \in DOMAIN q : i = CHOOSE j \in DOMAIN q : q[j][1] = t
    BY <1>1
  <2>2. q[i][1] = t
    BY <1>1, <2>1
  <2> DEFINE head == SubSeq(q, 1, i - 1)
             tail == SubSeq(q, i + 1, Len(q))
             rest == head \o tail
             From(k) == IF k < i THEN k ELSE k + 1
  <2>3. Leave(q, t) = rest
    BY <1>1, <2>1 DEF Leave
  <2>4. i \in 1..Len(q) /\ Len(q) \in Nat
    OBVIOUS
  <2>5. /\ head \in Seq(Tasks \X Modes) /\ Len(head) = i - 1
        /\ \A k \in 1..(i - 1) : head[k] = q[k]
    BY <2>4
  <2>6. /\ tail \in Seq(Tasks \X Modes) /\ Len(tail) = Len(q) - i
        /\ \A k \in 1..(Len(q) - i) : tail[k] = q[i + k]
    BY <2>4
  <2> HIDE DEF head, tail
  <2>7. /\ DOMAIN rest = 1..(Len(q) - 1)
        /\ \A k \in 1..(Len(q) - 1) : rest[k] = q[From(k)] /\ From(k) \in DOMAIN q /\ From(k) # i
    BY <2>4, <2>5, <2>6
  <2>8. \A k, n \in 1..(Len(q) - 1) : From(k) = From(n) => k = n
    BY <2>4
  <2> HIDE DEF rest, From
  <2>9. \A k \in DOMAIN rest : \E j \in DOMAIN q : rest[k] = q[j] /\ q[j][1] # t
    <3> SUFFICES ASSUME NEW k \in DOMAIN rest
                 PROVE  \E j \in DOMAIN q : rest[k] = q[j] /\ q[j][1] # t
      OBVIOUS
    <3>1. From(k) \in DOMAIN q /\ rest[k] = q[From(k)] /\ From(k) # i
      BY <2>7
    <3>2. q[From(k)][1] # t
      BY <3>1, <2>2
    <3> QED
      BY <3>1, <3>2
  <2>10. \A k, n \in DOMAIN rest : rest[k][1] = rest[n][1] => k = n
    <3> SUFFICES ASSUME NEW k \in DOMAIN rest, NEW n \in DOMAIN rest, rest[k][1] = rest[n][1]
                 PROVE  k = n
      OBVIOUS
    <3>1. /\ From(k) \in DOMAIN q /\ rest[k] = q[From(k)]
          /\ From(n) \in DOMAIN q /\ rest[n] = q[From(n)]
      BY <2>7
    <3>2. From(k) = From(n)
      BY <3>1
    <3> QED
      BY <3>2, <2>7, <2>8
  <2> QED
    BY <2>3, <2>9, <2>10
<1>2. CASE ~ \E i \in DOMAIN q : q[i][1] = t
  BY <1>2 DEF Leave
<1> QED
  BY <1>1, <1>2

\* A step of a task that waits for nothing leaves the queues true, when it leaves
\* them and the other tasks alone.
LEMMA KeepQueues ==
    ASSUME TypeOK, QueuesMatchPrograms, NEW t \in Tasks, pc[t] \notin WaitPCs,
           queue' = queue, OthersSame(t)
    PROVE  QueuesMatchPrograms'
<1>1. \A l \in Locks : \A i \in DOMAIN queue[l] : queue[l][i][1] \in Tasks \ {t}
  BY DEF TypeOK, QueuesMatchPrograms
<1>2. \A u \in Tasks \ {t} :
         pc'[u] = pc[u] /\ WantedLock(u)' = WantedLock(u) /\ WantedMode(u)' = WantedMode(u)
  BY DEF OthersSame, WantedLock, WantedMode
<1> QED
  BY <1>1, <1>2 DEF QueuesMatchPrograms

LEMMA RequestQueues ==
    ASSUME TypeOK, QueuesMatchPrograms, NEW t \in Tasks, Request(t)
    PROVE  QueuesMatchPrograms'
<1> DEFINE w == WantedLock(t)
           m == WantedMode(t)
<1>1. w \in Locks /\ m \in Modes
  BY WantedLockType
<1>2. \A u \in Tasks : pc'[u] = pc[u] /\ WantedLock(u)' = WantedLock(u)
                        /\ WantedMode(u)' = WantedMode(u)
  BY DEF Request, WantedLock, WantedMode
<1>3. queue[w] \in Seq(Tasks \X Modes) /\ \A i \in DOMAIN queue[w] : queue[w][i][1] # t
  BY <1>1 DEF TypeOK, Request, Queued
<1>4. queue' = [queue EXCEPT ![w] = Append(queue[w], <<t, m>>)] /\ pc[t] \in WaitPCs
  BY DEF Request
<1> HIDE DEF w, m
<1>5. /\ DOMAIN Append(queue[w], <<t, m>>) = 1..(Len(queue[w]) + 1)
      /\ \A i \in 1..Len(queue[w]) : Append(queue[w], <<t, m>>)[i] = queue[w][i]
      /\ Append(queue[w], <<t, m>>)[Len(queue[w]) + 1] = <<t, m>>
      /\ DOMAIN queue[w] = 1..Len(queue[w]) /\ Len(queue[w]) \in Nat
  BY <1>3
<1> SUFFICES ASSUME NEW l \in Locks
             PROVE  /\ \A i \in DOMAIN queue'[l] :
                          LET u == queue'[l][i][1] IN
                          /\ pc[u] \in WaitPCs /\ l = WantedLock(u)
                          /\ queue'[l][i][2] = WantedMode(u) /\ u \in Tasks
                    /\ \A i, j \in DOMAIN queue'[l] : queue'[l][i][1] = queue'[l][j][1] => i = j
  BY <1>2 DEF QueuesMatchPrograms
<1>6. CASE l # w
  <2>1. queue'[l] = queue[l] /\ queue[l] \in Seq(Tasks \X Modes)
    BY <1>4, <1>6 DEF TypeOK
  <2> QED
    BY <2>1 DEF QueuesMatchPrograms
<1>7. CASE l = w
  <2>1. queue'[l] = Append(queue[w], <<t, m>>)
    BY <1>1, <1>4, <1>7 DEF TypeOK
  <2>2. \A i \in DOMAIN queue'[l] :
           \/ i \in DOMAIN queue[w] /\ queue'[l][i] = queue[w][i]
           \/ i = Len(queue[w]) + 1 /\ queue'[l][i] = <<t, m>>
    BY <2>1, <1>5
  <2>3. \A i \in DOMAIN queue[w] :
           LET u == queue[w][i][1] IN
           /\ pc[u] \in WaitPCs /\ w = WantedLock(u)
           /\ queue[w][i][2] = WantedMode(u) /\ u \in Tasks
    BY <1>1, <1>3 DEF QueuesMatchPrograms
  <2>4. \A i \in DOMAIN queue'[l] :
           LET u == queue'[l][i][1] IN
           /\ pc[u] \in WaitPCs /\ l = WantedLock(u)
           /\ queue'[l][i][2] = WantedMode(u) /\ u \in Tasks
    BY <2>2, <2>3, <1>4, <1>7 DEF w, m
  <2>5. \A i, j \in DOMAIN queue'[l] : queue'[l][i][1] = queue'[l][j][1] => i = j
    BY <2>2, <1>1, <1>3 DEF QueuesMatchPrograms
  <2> QED
    BY <2>4, <2>5
<1> QED
  BY <1>6, <1>7

\* The first of a queue leaves it for the point behind the lock.
LEMMA AcquireQueues ==
    ASSUME TypeOK, QueuesMatchPrograms, NEW t \in Tasks, Acquire(t)
    PROVE  QueuesMatchPrograms'
<1> DEFINE w == WantedLock(t)
<1>1. w \in Locks /\ queue[w] \in Seq(Tasks \X Modes)
  BY WantedLockType DEF TypeOK
<1>2. queue[w] # <<>> /\ queue[w][1][1] = t /\ queue' = [queue EXCEPT ![w] = Tail(queue[w])]
  BY DEF Acquire
<1>3. \A u \in Tasks \ {t} : pc'[u] = pc[u] /\ WantedLock(u)' = WantedLock(u)
                              /\ WantedMode(u)' = WantedMode(u)
  BY DEF Acquire, WantedLock, WantedMode, TypeOK
<1>4. \A l \in Locks : \A i \in DOMAIN queue[l] :
         /\ queue[l][i][1] \in Tasks
         /\ queue[l][i][1] = t => l = w
  BY DEF TypeOK, QueuesMatchPrograms
<1> HIDE DEF w
<1>5. /\ \A k \in DOMAIN Tail(queue[w]) : k + 1 \in DOMAIN queue[w] /\ k \in Nat \ {0}
                                         /\ Tail(queue[w])[k] = queue[w][k + 1]
      /\ 1 \in DOMAIN queue[w]
  BY <1>1, <1>2
<1> SUFFICES ASSUME NEW l \in Locks
             PROVE  /\ \A i \in DOMAIN queue'[l] :
                          LET u == queue'[l][i][1] IN
                          /\ u \in Tasks \ {t} /\ pc[u] \in WaitPCs /\ l = WantedLock(u)
                          /\ queue'[l][i][2] = WantedMode(u)
                    /\ \A i, j \in DOMAIN queue'[l] : queue'[l][i][1] = queue'[l][j][1] => i = j
  BY <1>3 DEF QueuesMatchPrograms
<1>6. CASE l # w
  <2>1. queue'[l] = queue[l]
    BY <1>2, <1>6 DEF TypeOK
  <2>2. \A i \in DOMAIN queue[l] : queue[l][i][1] \in Tasks \ {t}
    BY <1>4, <1>6
  <2> QED
    BY <1>3, <2>1, <2>2 DEF QueuesMatchPrograms
<1>7. CASE l = w
  <2>1. queue'[l] = Tail(queue[w])
    BY <1>1, <1>2, <1>7 DEF TypeOK
  <2>2. \A i \in DOMAIN queue'[l] :
           /\ i + 1 \in DOMAIN queue[w] /\ queue'[l][i] = queue[w][i + 1]
           /\ queue[w][i + 1][1] \in Tasks \ {t}
    <3> SUFFICES ASSUME NEW i \in DOMAIN queue'[l]
                 PROVE  /\ i + 1 \in DOMAIN queue[w] /\ queue'[l][i] = queue[w][i + 1]
                        /\ queue[w][i + 1][1] \in Tasks \ {t}
      OBVIOUS
    <3>1. i + 1 \in DOMAIN queue[w] /\ queue'[l][i] = queue[w][i + 1] /\ i + 1 # 1
      BY <2>1, <1>5
    <3>2. queue[w][i + 1][1] # t
      BY <3>1, <1>1, <1>2, <1>5 DEF QueuesMatchPrograms
    <3> QED
      BY <3>1, <3>2, <1>1, <1>4
  <2>3. \A i \in DOMAIN queue'[l] :
           LET u == queue'[l][i][1] IN
           /\ u \in Tasks \ {t} /\ pc[u] \in WaitPCs /\ l = WantedLock(u)
           /\ queue'[l][i][2] = WantedMode(u)
    BY <1>1, <1>3, <1>7, <2>2 DEF QueuesMatchPrograms
  <2>4. \A i, j \in DOMAIN queue'[l] : queue'[l][i][1] = queue'[l][j][1] => i = j
    <3> SUFFICES ASSUME NEW i \in DOMAIN queue'[l], NEW j \in DOMAIN queue'[l],
                        queue'[l][i][1] = queue'[l][j][1]
                 PROVE  i = j
      OBVIOUS
    <3>1. i + 1 = j + 1
      BY <1>1, <2>2 DEF QueuesMatchPrograms
    <3> QED
      BY <3>1, <2>1, <1>5
  <2> QED
    BY <2>3, <2>4
<1> QED
  BY <1>6, <1>7

LEMMA AbandonQueues ==
    ASSUME TypeOK, QueuesMatchPrograms, NEW t \in Tasks, Abandon(t)
    PROVE  QueuesMatchPrograms'
<1>1. \A u \in Tasks \ {t} : pc'[u] = pc[u] /\ WantedLock(u)' = WantedLock(u)
                              /\ WantedMode(u)' = WantedMode(u)
  BY DEF Abandon, Idle, WantedLock, WantedMode, TypeOK
<1> SUFFICES ASSUME NEW l \in Locks
             PROVE  /\ \A k \in DOMAIN queue'[l] :
                          LET u == queue'[l][k][1] IN
                          /\ u \in Tasks \ {t} /\ pc[u] \in WaitPCs /\ l = WantedLock(u)
                          /\ queue'[l][k][2] = WantedMode(u)
                    /\ \A k, n \in DOMAIN queue'[l] : queue'[l][k][1] = queue'[l][n][1] => k = n
  BY <1>1 DEF QueuesMatchPrograms
<1>2. queue[l] \in Seq(Tasks \X Modes) /\ queue'[l] = Leave(queue[l], t)
  BY DEF TypeOK, Abandon
<1>3. \A i, j \in DOMAIN queue[l] : queue[l][i][1] = queue[l][j][1] => i = j
  BY DEF QueuesMatchPrograms
<1>4. /\ \A k \in DOMAIN queue'[l] :
            \E i \in DOMAIN queue[l] : queue'[l][k] = queue[l][i] /\ queue[l][i][1] # t
      /\ \A k, n \in DOMAIN queue'[l] : queue'[l][k][1] = queue'[l][n][1] => k = n
  BY <1>2, <1>3, LeavePlaces
<1>5. \A i \in DOMAIN queue[l] : queue[l][i][1] \in Tasks
  BY <1>2
<1> QED
  BY <1>1, <1>4, <1>5 DEF QueuesMatchPrograms

\* Every queue keeps naming the tasks that wait.
LEMMA QueueStep == TypeOK /\ QueuesMatchPrograms /\ [Next]_vars => QueuesMatchPrograms'
<1> SUFFICES ASSUME TypeOK, QueuesMatchPrograms, [Next]_vars PROVE QueuesMatchPrograms'
  OBVIOUS
<1>1. ASSUME NEW t \in Tasks, Begin(t) PROVE QueuesMatchPrograms'
  BY <1>1, KeepQueues DEF Begin, OthersSame, TypeOK, WaitPCs
<1>2. ASSUME NEW t \in Tasks, AnswerRead(t) \/ AnswerOverlaps(t) \/ AnswerUnlocked(t)
                              \/ ClearWorkspace(t) \/ ClearAll(t) \/ EndSyncMaintenance(t)
      PROVE QueuesMatchPrograms'
  BY <1>2, KeepQueues DEF AnswerRead, AnswerOverlaps, AnswerUnlocked, ClearWorkspace,
     ClearAll, EndSyncMaintenance, Done, Idle, OthersSame, TypeOK, WaitPCs
<1>3. ASSUME NEW t \in Tasks, TurnWriter(t) \/ SkipBuild(t) \/ Wipe(t)
                              \/ StartPublish(t) \/ EndPublish(t)
      PROVE QueuesMatchPrograms'
  BY <1>3, KeepQueues DEF TurnWriter, SkipBuild, Wipe, StartPublish, EndPublish,
     OthersSame, TypeOK, WaitPCs
<1>4. ASSUME NEW t \in Tasks, Refill(t) \/ EndIndexRun(t) PROVE QueuesMatchPrograms'
  BY <1>4, KeepQueues DEF Refill, EndIndexRun, FinishIndexing, Idle, OthersSame, TypeOK, WaitPCs
<1>5. ASSUME NEW t \in Tasks, EndSyncRun(t) PROVE QueuesMatchPrograms'
  BY <1>5, KeepQueues DEF EndSyncRun, Done, Idle, OthersSame, TypeOK, WaitPCs
<1>6. ASSUME NEW w \in Workspaces, EndPass(w) PROVE QueuesMatchPrograms'
  BY <1>6 DEF EndPass, QueuesMatchPrograms, WantedLock, WantedMode
<1>7. CASE UNCHANGED vars
  BY <1>7 DEF vars, QueuesMatchPrograms, WantedLock, WantedMode
<1> QED
  BY <1>1, <1>2, <1>3, <1>4, <1>5, <1>6, <1>7, RequestQueues, AcquireQueues, AbandonQueues
     DEF Next, Progress

\* The queues hold no request that its task has dropped or been granted.
THEOREM QueuesAreTrue == Spec => []QueuesMatchPrograms
<1>1. Init => QueuesMatchPrograms
  BY DEF Init, QueuesMatchPrograms
<1> QED
  BY <1>1, QueueStep, TypeCorrect, PTL DEF Spec

\* A reader at the operation lock waits for an index writer or a publish of its
\* workspace, never for a maintenance pass or an embedding (the docs of
\* `into_maintenance` in workspace_locks.rs).
THEOREM ReadersWaitForWriters == Spec => []ReadersWaitOnlyForWriters
<1>1. IInv /\ QueuesMatchPrograms => ReadersWaitOnlyForWriters
  <2> SUFFICES ASSUME IInv, QueuesMatchPrograms, NEW t \in Tasks, pc[t] = "wantRead",
                      NEW i \in DOMAIN queue[Operation(ws[t])],
                      \/ \E h \in held[Operation(ws[t])] : h[2] = "w"
                      \/ \E j \in 1..(i - 1) : queue[Operation(ws[t])][j][2] = "w"
               PROVE  \E u \in Tasks :
                         /\ ws[u] = ws[t]
                         /\ pc[u] \in {"wantWrite", "wantPublish", "publishing",
                                       "writing", "refilling"}
    BY DEF ReadersWaitOnlyForWriters
  <2> DEFINE l == Operation(ws[t])
  <2>0. ws[t] \in Workspaces
    BY DEF IInv, TypeOK
  <2>1. l \in Locks /\ queue[l] \in Seq(Tasks \X Modes)
    <3>1. l \in Locks
      BY <2>0 DEF Locks, WorkspaceSlot
    <3> QED
      BY <3>1 DEF IInv, TypeOK
  <2>2. CASE \E h \in held[l] : h[2] = "w"
    <3>1. PICK h \in held[l] : h[2] = "w"
      BY <2>2
    <3>2. h \in Actors \X Modes /\ h = <<h[1], "w">> /\ "w" \in Modes
      BY <2>1, <3>1 DEF IInv, TypeOK, Modes
    <3>3. CASE h[1] \in Tasks
      <4>1. <<l, "w">> \in Guards(h[1])
        BY <2>1, <3>1, <3>2, <3>3 DEF IInv, GuardsMatchPrograms
      <4>2. ws[h[1]] = ws[t] /\ pc[h[1]] \in {"publishing", "writing", "refilling"}
        BY <4>1 DEF Guards, Operation, Maintenance, GraphCache, Global
      <4> QED
        BY <3>3, <4>2
    <3>4. CASE \E w \in Workspaces : h[1] = Pass(w)
      <4>1. PICK w \in Workspaces : h[1] = Pass(w)
        BY <3>4
      <4>2. <<l, "w">> \in PassGuards(w)
        BY <2>1, <3>1, <3>2, <4>1 DEF IInv, GuardsMatchPrograms
      <4> QED
        BY <4>2 DEF PassGuards, Operation, Maintenance, Global
    <3> QED
      BY <3>2, <3>3, <3>4 DEF Actors, Passes
  <2>3. CASE \E j \in 1..(i - 1) : queue[l][j][2] = "w"
    <3>1. PICK j \in 1..(i - 1) : queue[l][j][2] = "w"
      BY <2>3
    <3>2. j \in DOMAIN queue[l]
      BY <2>1
    <3> DEFINE u == queue[l][j][1]
    <3>3. u \in Tasks /\ pc[u] \in WaitPCs /\ l = WantedLock(u) /\ WantedMode(u) = "w"
      BY <2>1, <3>1, <3>2 DEF QueuesMatchPrograms
    <3>4. pc[u] \in {"wantWrite", "wantPublish"} /\ l = Operation(ws[u])
      BY <3>3 DEF WantedLock, WantedMode, WaitPCs, Operation, Maintenance, GraphCache, Global
    <3>5. ws[u] = ws[t]
      BY <3>4 DEF Operation
    <3> QED
      BY <3>3, <3>4, <3>5
  <2> QED
    BY <2>2, <2>3
<1> QED
  BY <1>1, InductiveInvariant, QueuesAreTrue, PTL

-----------------------------------------------------------------------------
(* Rights *)

\* The lock, and the mode, behind a right.
RightLock(r) ==
    CASE r[1] = "all" -> Global
      [] r[1] = "cache" -> GraphCache(r[2])
      [] r[1] = "store" -> Maintenance(r[2])
      [] OTHER -> Operation(r[2])

RightMode(r) == IF r[1] = "read" THEN "r" ELSE "w"

\* A right is backed by the guard of its lock, and by one of the global lock.
LEMMA RightsAreGuarded ==
    ASSUME IInv, NEW a \in Actors, NEW r \in ActorRights[a]
    PROVE  /\ r \in Access!Rights
           /\ RightLock(r) \in Locks
           /\ <<a, RightMode(r)>> \in held[RightLock(r)]
           /\ \E m \in Modes : <<a, m>> \in held[Global]
<1>0. Global \in Locks /\ "r" \in Modes /\ "w" \in Modes
  BY DEF Locks, Modes
<1>1. CASE a \in Tasks
  <2>0. ws[a] \in Workspaces /\ r \in TaskRights(a)
    BY <1>1 DEF IInv, TypeOK, ActorRights
  <2>1. \/ r = <<"read", ws[a]>> /\ pc[a] = "reading"
        \/ r = <<"cache", ws[a]>> /\ (pc[a] = "embedding" \/ (pc[a] = "reading" /\ op[a] = "codemap"))
        \/ r = <<"store", ws[a]>> /\ pc[a] \in {"preparing", "wantPublish", "maintaining",
                                                "publishing", "writing", "refilling"}
        \/ r = <<"write", ws[a]>> /\ pc[a] \in {"publishing", "writing", "refilling"}
        \/ (\E v \in Workspaces : r = <<"all", v>>) /\ pc[a] = "clearingAll"
    BY <2>0 DEF TaskRights
  <2>2. r \in Access!Rights /\ RightLock(r) \in Locks
    BY <2>0, <2>1 DEF Access!Rights, Access!Kinds, RightLock, Locks, WorkspaceSlot
  <2>3. <<RightLock(r), RightMode(r)>> \in Guards(a)
    BY <1>1, <2>1 DEF RightLock, RightMode, Guards, IInv, PointsOfOps
  <2>4. \E m \in Modes : <<Global, m>> \in Guards(a)
    BY <1>0, <2>1 DEF Guards
  <2>5. RightMode(r) \in Modes
    BY DEF RightMode, Modes
  <2> QED
    BY <1>0, <1>1, <2>2, <2>3, <2>4, <2>5 DEF IInv, GuardsMatchPrograms
<1>2. CASE a \notin Tasks
  <2>0. r \in {<<"store", w>> : w \in {v \in passes : Pass(v) = a}}
    BY <1>2 DEF ActorRights
  <2>1. PICK v \in passes : r = <<"store", v>> /\ Pass(v) = a
    BY ONLY <2>0
  <2>2. v \in Workspaces
    BY DEF IInv, TypeOK
  <2>3. r \in Access!Rights /\ Maintenance(v) \in Locks
    BY <2>1, <2>2 DEF Access!Rights, Access!Kinds, Locks, WorkspaceSlot
  <2>4. RightLock(r) = Maintenance(v) /\ RightMode(r) = "w"
    BY <2>1 DEF RightLock, RightMode
  <2>5. <<Pass(v), "w">> \in held[Maintenance(v)] /\ <<Pass(v), "r">> \in held[Global]
    BY <1>0, <2>1, <2>2, <2>3 DEF IInv, GuardsMatchPrograms, PassGuards
  <2> QED
    BY <1>0, <2>1, <2>3, <2>4, <2>5
<1> QED
  BY <1>1, <1>2

\* No two actors have conflicting rights in a state of the invariant.
LEMMA RightsCompatible == IInv => NoConflictingAccess
<1> SUFFICES ASSUME IInv, NEW a \in Actors, NEW b \in Actors, a # b,
                    NEW p \in ActorRights[a], NEW q \in ActorRights[b],
                    Access!Conflict(p, q)
             PROVE  FALSE
  BY DEF NoConflictingAccess, Access!Compatible
<1>1. /\ p \in Access!Rights /\ q \in Access!Rights
      /\ <<a, RightMode(p)>> \in held[RightLock(p)] /\ RightLock(p) \in Locks
      /\ <<b, RightMode(q)>> \in held[RightLock(q)] /\ RightLock(q) \in Locks
  BY RightsAreGuarded
<1>2. Global \in Locks
  BY DEF Locks
<1>3. ASSUME NEW l \in Locks, NEW m, NEW n, <<a, m>> \in held[l], <<b, n>> \in held[l]
      PROVE  m = "r" /\ n = "r"
  BY <1>3 DEF IInv, GuardsExclude
<1>4. CASE p[1] = "all"
  <2>1. PICK m \in Modes : <<b, m>> \in held[Global]
    BY RightsAreGuarded
  <2> QED
    BY <1>1, <1>2, <1>3, <1>4, <2>1 DEF RightLock, RightMode
<1>5. CASE q[1] = "all"
  <2>1. PICK m \in Modes : <<a, m>> \in held[Global]
    BY RightsAreGuarded
  <2> QED
    BY <1>1, <1>2, <1>3, <1>5, <2>1 DEF RightLock, RightMode
<1>6. CASE p[1] # "all" /\ q[1] # "all"
  <2>1. RightLock(p) = RightLock(q) /\ (RightMode(p) = "w" \/ RightMode(q) = "w")
    BY <1>1, <1>6 DEF Access!Conflict, RightLock, RightMode, Access!Rights, Access!Kinds
  <2> QED
    BY <1>1, <1>3, <2>1
<1> QED
  BY <1>4, <1>5, <1>6

\* No reader looks at an index a writer has half done, one writer at a time has
\* a workspace's stores or its graph cache, and a whole-cache operation is
\* alone: for every number of tasks and workspaces.
THEOREM AccessIsExclusive == Spec => []NoConflictingAccess
  BY RightsCompatible, InductiveInvariant, PTL

-----------------------------------------------------------------------------
(* Refinement of WorkspaceAccess *)

LEMMA RightsType == IInv => ActorRights \in [Actors -> SUBSET Access!Rights]
<1> SUFFICES ASSUME IInv, NEW a \in Actors PROVE ActorRights[a] \subseteq Access!Rights
  BY DEF ActorRights
<1> QED
  BY RightsAreGuarded

\* A step of one task leaves the rights of every other actor alone.
LEMMA OthersRights ==
    ASSUME NEW t \in Tasks, OthersSame(t), passes' = passes
    PROVE  \A c \in Actors \ {t} : ActorRights'[c] = ActorRights[c]
<1> SUFFICES ASSUME NEW c \in Actors, c # t PROVE ActorRights'[c] = ActorRights[c]
  OBVIOUS
<1>1. CASE c \in Tasks
  <2>1. TaskRights(c)' = TaskRights(c)
    BY <1>1 DEF OthersSame, TaskRights
  <2> QED
    BY <1>1, <2>1 DEF ActorRights
<1>2. CASE c \notin Tasks
  BY <1>2 DEF ActorRights
<1> QED
  BY <1>1, <1>2

\* A task that only changes its rights.
LEMMA TaskChangesRights ==
    ASSUME IInv, IInv', NEW t \in Tasks, OthersSame(t), passes' = passes, index' = index
    PROVE  Access!ANext
<1>1. (ActorRights \in [Actors -> SUBSET Access!Rights])'
  BY RightsType, PTL
<1>2. Access!Compatible(ActorRights)'
  BY RightsCompatible, PTL DEF NoConflictingAccess
<1>3. Access!ChangeRights(t)
  BY <1>1, <1>2, OthersRights DEF Access!ChangeRights, Access!OnlyOf, Access!Compatible, Access!Conflict
<1> QED
  BY <1>3 DEF Access!ANext, Actors

\* A task that changes its workspace's index and at most gives rights up.
LEMMA TaskChangesIndex ==
    ASSUME IInv, IInv', NEW t \in Tasks, OthersSame(t), passes' = passes,
           TaskRights(t)' \subseteq TaskRights(t),
           \A w \in Workspaces : index'[w] # index[w] => Access!MayChange(t, w)
    PROVE  Access!ANext
<1>1. (ActorRights \in [Actors -> SUBSET Access!Rights])'
  BY RightsType, PTL
<1>2. index' \in [Workspaces -> Access!States]
  BY DEF IInv, TypeOK, IndexStates, Access!States
<1>3. ActorRights'[t] \subseteq ActorRights[t]
  BY DEF ActorRights, Actors
<1>4. Access!ChangeIndex(t)
  BY <1>1, <1>2, <1>3, OthersRights DEF Access!ChangeIndex, Access!OnlyOf
<1> QED
  BY <1>4 DEF Access!ANext, Actors

\* A writer that hands its store to the workspace's pass.
LEMMA TaskHandsOver ==
    ASSUME IInv, IInv', NEW t \in Tasks, OthersSame(t), HandToPass(t),
           <<"store", ws[t]>> \in TaskRights(t), TaskRights(t)' = {},
           \A w \in Workspaces : index'[w] # index[w] => Access!MayChange(t, w)
    PROVE  Access!ANext
<1> DEFINE b == Pass(ws[t])
<1>0. ws[t] \in Workspaces /\ b \in Actors /\ b \notin Tasks /\ t \in Actors /\ b # t
  BY PassFacts DEF IInv, TypeOK, Actors, Passes
<1>1. (ActorRights \in [Actors -> SUBSET Access!Rights])'
  BY RightsType, PTL
<1>2. index' \in [Workspaces -> Access!States]
  BY DEF IInv, TypeOK, IndexStates, Access!States
<1>3. ws[t] \notin passes
  <2>1. /\ <<"store", ws[t]>> \in ActorRights[t]
        /\ ws[t] \in passes => <<"store", ws[t]>> \in ActorRights[b]
    BY <1>0 DEF ActorRights
  <2>2. Access!Conflict(<<"store", ws[t]>>, <<"store", ws[t]>>)
    BY DEF Access!Conflict
  <2> QED
    BY <1>0, <2>1, <2>2, RightsCompatible DEF NoConflictingAccess, Access!Compatible
<1>4. \A v \in passes : v \in Workspaces
  BY DEF IInv, TypeOK
<1>5. ActorRights[b] = {} /\ ActorRights'[b] = {<<"store", ws[t]>>}
  <2>1. {v \in passes : Pass(v) = b} = {}
    BY <1>0, <1>3, <1>4, PassFacts
  <2>2. {v \in passes' : Pass(v) = b} = {ws[t]}
    BY <1>0, <1>3, <1>4, PassFacts DEF HandToPass
  <2>3. ActorRights[b] = {<<"store", w>> : w \in {v \in passes : Pass(v) = b}}
    BY <1>0 DEF ActorRights
  <2>4. ActorRights'[b] = {<<"store", w>> : w \in {v \in passes' : Pass(v) = b}}
    BY <1>0 DEF ActorRights
  <2> QED
    BY <2>1, <2>2, <2>3, <2>4
<1>6. \A c \in Actors \ {t, b} : ActorRights'[c] = ActorRights[c]
  <2> SUFFICES ASSUME NEW c \in Actors, c # t, c # b PROVE ActorRights'[c] = ActorRights[c]
    OBVIOUS
  <2>1. CASE c \in Tasks
    <3>1. TaskRights(c)' = TaskRights(c)
      BY <2>1 DEF OthersSame, TaskRights
    <3> QED
      BY <2>1, <3>1 DEF ActorRights
  <2>2. CASE c \notin Tasks
    <3>1. {v \in passes' : Pass(v) = c} = {v \in passes : Pass(v) = c}
      BY DEF HandToPass
    <3> QED
      BY <2>2, <3>1 DEF ActorRights
  <2> QED
    BY <2>1, <2>2
<1>7. <<"store", ws[t]>> \in ActorRights[t] /\ ActorRights'[t] = {}
  BY <1>0 DEF ActorRights
<1>8. Access!HandOver(t, b, ws[t])
  BY <1>0, <1>1, <1>5, <1>6, <1>7 DEF Access!HandOver, Access!OnlyOf
<1>9. Access!ChangeIndex(t)
  BY <1>0, <1>2, <1>8 DEF Access!ChangeIndex
<1> QED
  BY <1>0, <1>9 DEF Access!ANext

\* Each step of the locks is a step of WorkspaceAccess, or none.
LEMMA AccessStep == IInv /\ IInv' /\ [Next]_vars => [Access!ANext]_(Access!avars)
<1> SUFFICES ASSUME IInv, IInv', [Next]_vars PROVE [Access!ANext]_(Access!avars)
  OBVIOUS
<1>0. /\ TypeOK
      /\ \A t \in Tasks : ws[t] \in Workspaces /\ t \in Actors
  BY DEF IInv, TypeOK, Actors
<1>1. ASSUME NEW t \in Tasks, Begin(t) PROVE Access!ANext
  <2>1. OthersSame(t) /\ passes' = passes /\ index' = index
    BY <1>0, <1>1 DEF Begin, OthersSame, TypeOK
  <2> QED
    BY <2>1, TaskChangesRights
<1>2. ASSUME NEW t \in Tasks, Request(t) PROVE Access!ANext
  <2>1. OthersSame(t) /\ passes' = passes /\ index' = index
    BY <1>0, <1>2 DEF Request, OthersSame, TypeOK
  <2> QED
    BY <2>1, TaskChangesRights
<1>3. ASSUME NEW t \in Tasks, Acquire(t) PROVE Access!ANext
  <2>1. OthersSame(t) /\ passes' = passes /\ index' = index
    BY <1>0, <1>3 DEF Acquire, OthersSame, TypeOK
  <2> QED
    BY <2>1, TaskChangesRights
<1>4. ASSUME NEW t \in Tasks, TurnWriter(t) PROVE Access!ANext
  <2>1. OthersSame(t) /\ passes' = passes /\ index' = index
    BY <1>0, <1>4 DEF TurnWriter, OthersSame, TypeOK
  <2> QED
    BY <2>1, TaskChangesRights
<1>5. ASSUME NEW t \in Tasks, SkipBuild(t) PROVE Access!ANext
  <2>1. OthersSame(t) /\ passes' = passes /\ index' = index
    BY <1>0, <1>5 DEF SkipBuild, OthersSame, TypeOK
  <2> QED
    BY <2>1, TaskChangesRights
<1>6. ASSUME NEW t \in Tasks, AnswerOverlaps(t) PROVE Access!ANext
  <2>1. OthersSame(t) /\ passes' = passes /\ index' = index
    BY <1>0, <1>6 DEF AnswerOverlaps, Done, Idle, OthersSame, TypeOK
  <2> QED
    BY <2>1, TaskChangesRights
<1>7. ASSUME NEW t \in Tasks, AnswerUnlocked(t) PROVE Access!ANext
  <2>1. OthersSame(t) /\ passes' = passes /\ index' = index
    BY <1>0, <1>7 DEF AnswerUnlocked, Done, Idle, OthersSame, TypeOK
  <2> QED
    BY <2>1, TaskChangesRights
<1>8. ASSUME NEW t \in Tasks, EndSyncRun(t) PROVE Access!ANext
  <2>1. OthersSame(t) /\ passes' = passes /\ index' = index
    BY <1>0, <1>8 DEF EndSyncRun, Done, Idle, OthersSame, TypeOK
  <2> QED
    BY <2>1, TaskChangesRights
<1>9. ASSUME NEW t \in Tasks, EndSyncMaintenance(t) PROVE Access!ANext
  <2>1. OthersSame(t) /\ passes' = passes /\ index' = index
    BY <1>0, <1>9 DEF EndSyncMaintenance, Done, Idle, OthersSame, TypeOK
  <2> QED
    BY <2>1, TaskChangesRights
<1>10. ASSUME NEW t \in Tasks, Abandon(t) PROVE Access!ANext
  <2>1. OthersSame(t) /\ passes' = passes /\ index' = index
    BY <1>0, <1>10 DEF Abandon, Idle, OthersSame, TypeOK
  <2> QED
    BY <2>1, TaskChangesRights
<1>11. ASSUME NEW t \in Tasks, AnswerRead(t) PROVE Access!ANext
  <2>1. OthersSame(t) /\ passes' = passes
    BY <1>0, <1>11 DEF AnswerRead, Done, Idle, OthersSame, TypeOK
  <2>2. TaskRights(t)' \subseteq TaskRights(t)
    BY <1>0, <1>11 DEF AnswerRead, Done, Idle, TaskRights, TypeOK
  <2>3. <<"read", ws[t]>> \in ActorRights[t]
    BY <1>0, <1>11 DEF AnswerRead, ActorRights, TaskRights
  <2>4. \A w \in Workspaces : index'[w] # index[w] =>
           w = ws[t] /\ index[w] = "absent" /\ index'[w] = "partial"
    BY <1>0, <1>11 DEF AnswerRead, OpenStores, TypeOK
  <2>5. \A w \in Workspaces : index'[w] # index[w] => Access!MayChange(t, w)
    BY <2>3, <2>4 DEF Access!MayChange
  <2> QED
    BY <2>1, <2>2, <2>5, TaskChangesIndex
<1>12. ASSUME NEW t \in Tasks, StartPublish(t) PROVE Access!ANext
  <2>1. OthersSame(t) /\ passes' = passes
    BY <1>0, <1>12 DEF StartPublish, Done, Idle, OthersSame, TypeOK
  <2>2. TaskRights(t)' \subseteq TaskRights(t)
    BY <1>0, <1>12 DEF StartPublish, TaskRights, TypeOK
  <2>3. <<"store", ws[t]>> \in ActorRights[t]
    BY <1>0, <1>12 DEF StartPublish, ActorRights, TaskRights
  <2>4. \A w \in Workspaces : index'[w] # index[w] =>
           w = ws[t] /\ index[w] = "absent" /\ index'[w] = "partial"
    BY <1>0, <1>12 DEF StartPublish, OpenStores, TypeOK
  <2>5. \A w \in Workspaces : index'[w] # index[w] => Access!MayChange(t, w)
    BY <2>3, <2>4 DEF Access!MayChange
  <2> QED
    BY <2>1, <2>2, <2>5, TaskChangesIndex
<1>13. ASSUME NEW t \in Tasks, Wipe(t) PROVE Access!ANext
  <2>1. OthersSame(t) /\ passes' = passes
    BY <1>0, <1>13 DEF Wipe, OthersSame, TypeOK
  <2>2. TaskRights(t)' \subseteq TaskRights(t)
    BY <1>0, <1>13 DEF Wipe, TaskRights, TypeOK
  <2>3. {<<"store", ws[t]>>, <<"write", ws[t]>>} \subseteq ActorRights[t]
    BY <1>0, <1>13 DEF Wipe, ActorRights, TaskRights
  <2>4. \A w \in Workspaces : index'[w] # index[w] => w = ws[t]
    BY <1>0, <1>13 DEF Wipe, TypeOK
  <2>5. \A w \in Workspaces : index'[w] # index[w] => Access!MayChange(t, w)
    BY <2>3, <2>4 DEF Access!MayChange
  <2> QED
    BY <2>1, <2>2, <2>5, TaskChangesIndex
<1>14. ASSUME NEW t \in Tasks, EndPublish(t) PROVE Access!ANext
  <2>1. OthersSame(t) /\ passes' = passes
    BY <1>0, <1>14 DEF EndPublish, OthersSame, TypeOK
  <2>2. TaskRights(t)' \subseteq TaskRights(t)
    BY <1>0, <1>14 DEF EndPublish, TaskRights, TypeOK
  <2>3. {<<"store", ws[t]>>, <<"write", ws[t]>>} \subseteq ActorRights[t]
    BY <1>0, <1>14 DEF EndPublish, ActorRights, TaskRights
  <2>4. \A w \in Workspaces : index'[w] # index[w] => w = ws[t]
    BY <1>0, <1>14 DEF EndPublish, TypeOK
  <2>5. \A w \in Workspaces : index'[w] # index[w] => Access!MayChange(t, w)
    BY <2>3, <2>4 DEF Access!MayChange
  <2> QED
    BY <2>1, <2>2, <2>5, TaskChangesIndex
<1>15. ASSUME NEW t \in Tasks, ClearWorkspace(t) PROVE Access!ANext
  <2>1. OthersSame(t) /\ passes' = passes
    BY <1>0, <1>15 DEF ClearWorkspace, Done, Idle, OthersSame, TypeOK
  <2>2. TaskRights(t)' \subseteq TaskRights(t)
    BY <1>0, <1>15 DEF ClearWorkspace, Done, Idle, TaskRights, TypeOK
  <2>3. {<<"store", ws[t]>>, <<"write", ws[t]>>} \subseteq ActorRights[t]
    BY <1>0, <1>15 DEF ClearWorkspace, ActorRights, TaskRights
  <2>4. \A w \in Workspaces : index'[w] # index[w] => w = ws[t]
    BY <1>0, <1>15 DEF ClearWorkspace, TypeOK
  <2>5. \A w \in Workspaces : index'[w] # index[w] => Access!MayChange(t, w)
    BY <2>3, <2>4 DEF Access!MayChange
  <2> QED
    BY <2>1, <2>2, <2>5, TaskChangesIndex
<1>16. ASSUME NEW t \in Tasks, ClearAll(t) PROVE Access!ANext
  <2>1. OthersSame(t) /\ passes' = passes
    BY <1>0, <1>16 DEF ClearAll, Done, Idle, OthersSame, TypeOK
  <2>2. TaskRights(t)' \subseteq TaskRights(t)
    BY <1>0, <1>16 DEF ClearAll, Done, Idle, TaskRights, TypeOK
  <2>3. \A w \in Workspaces : <<"all", w>> \in ActorRights[t]
    BY <1>0, <1>16 DEF ClearAll, ActorRights, TaskRights
  <2>4. \A w \in Workspaces : index'[w] # index[w] => Access!MayChange(t, w)
    BY <2>3 DEF Access!MayChange
  <2> QED
    BY <2>1, <2>2, <2>4, TaskChangesIndex
<1>17. ASSUME NEW t \in Tasks, Refill(t) PROVE Access!ANext
  <2>1. OthersSame(t)
    BY <1>0, <1>17 DEF Refill, FinishIndexing, Idle, OthersSame, TypeOK
  <2>2. TaskRights(t)' = {}
    BY <1>0, <1>17 DEF Refill, FinishIndexing, Idle, TaskRights, TypeOK
  <2>3. <<"store", ws[t]>> \in TaskRights(t) /\ TaskRights(t) = ActorRights[t]
    BY <1>0, <1>17 DEF Refill, TaskRights, ActorRights
  <2>4. \A w \in Workspaces : index'[w] # index[w] => w = ws[t]
    BY <1>0, <1>17 DEF Refill, TypeOK
  <2>5. <<"write", ws[t]>> \in ActorRights[t]
    BY <1>0, <1>17 DEF Refill, TaskRights, ActorRights
  <2>6. \A w \in Workspaces : index'[w] # index[w] => Access!MayChange(t, w)
    BY <2>3, <2>4, <2>5 DEF Access!MayChange
  <2>7. CASE HandToPass(t)
    BY <2>1, <2>2, <2>3, <2>6, <2>7, TaskHandsOver
  <2>8. CASE passes' = passes
    BY <2>1, <2>2, <2>6, <2>8, TaskChangesIndex
  <2> QED
    BY <1>17, <2>7, <2>8 DEF Refill, FinishIndexing
<1>18. ASSUME NEW t \in Tasks, EndIndexRun(t) PROVE Access!ANext
  <2>1. OthersSame(t)
    BY <1>0, <1>18 DEF EndIndexRun, FinishIndexing, Idle, OthersSame, TypeOK
  <2>2. TaskRights(t)' = {}
    BY <1>0, <1>18 DEF EndIndexRun, FinishIndexing, Idle, TaskRights, TypeOK
  <2>3. <<"store", ws[t]>> \in TaskRights(t) /\ TaskRights(t) = ActorRights[t]
    BY <1>0, <1>18 DEF EndIndexRun, TaskRights, ActorRights
  <2>4. \A w \in Workspaces : index'[w] # index[w] =>
           w = ws[t] /\ index[w] = "absent" /\ index'[w] = "partial"
    BY <1>0, <1>18 DEF EndIndexRun, OpenStores, TypeOK
  <2>6. \A w \in Workspaces : index'[w] # index[w] => Access!MayChange(t, w)
    BY <2>3, <2>4 DEF Access!MayChange
  <2>7. CASE HandToPass(t)
    BY <2>1, <2>2, <2>3, <2>6, <2>7, TaskHandsOver
  <2>8. CASE passes' = passes
    BY <2>1, <2>2, <2>6, <2>8, TaskChangesIndex
  <2> QED
    BY <1>18, <2>7, <2>8 DEF EndIndexRun, FinishIndexing
<1>19. ASSUME NEW v \in Workspaces, EndPass(v) PROVE Access!ANext
  <2>1. (ActorRights \in [Actors -> SUBSET Access!Rights])'
    BY RightsType, PTL
  <2>2. Access!Compatible(ActorRights)'
    BY RightsCompatible, PTL DEF NoConflictingAccess
  <2>3. \A c \in Actors \ {Pass(v)} : ActorRights'[c] = ActorRights[c]
    <3> SUFFICES ASSUME NEW c \in Actors, c # Pass(v) PROVE ActorRights'[c] = ActorRights[c]
      OBVIOUS
    <3>1. CASE c \in Tasks
      <4>1. TaskRights(c)' = TaskRights(c)
        BY <1>19 DEF EndPass, TaskRights
      <4> QED
        BY <3>1, <4>1 DEF ActorRights
    <3>2. CASE c \notin Tasks
      <4>1. {u \in passes' : Pass(u) = c} = {u \in passes : Pass(u) = c}
        BY <1>19 DEF EndPass
      <4> QED
        BY <3>2, <4>1 DEF ActorRights
    <3> QED
      BY <3>1, <3>2
  <2>4. Access!ChangeRights(Pass(v))
    BY <1>19, <2>1, <2>2, <2>3 DEF EndPass, Access!ChangeRights, Access!OnlyOf,
       Access!Compatible, Access!Conflict
  <2> QED
    BY <2>4 DEF Access!ANext, Actors, Passes
<1>20. CASE UNCHANGED vars
  <2>1. \A c \in Tasks : TaskRights(c)' = TaskRights(c)
    BY <1>20 DEF vars, TaskRights
  <2> QED
    BY <1>20, <2>1 DEF vars, ActorRights, Access!avars
<1> QED
  BY <1>1, <1>2, <1>3, <1>4, <1>5, <1>6, <1>7, <1>8, <1>9, <1>10, <1>11, <1>12, <1>13, <1>14, <1>15, <1>16, <1>17, <1>18, <1>19, <1>20 DEF Next, Progress

\* The locks implement the access rules, for every number of tasks and
\* workspaces: WorkspaceLocks refines WorkspaceAccess.
THEOREM LocksImplementAccess == Spec => ImplementsAccess
<1>1. Init => Access!AInit
  <2> SUFFICES ASSUME Init PROVE Access!AInit
    OBVIOUS
  <2>1. \A t \in Tasks : TaskRights(t) = {}
    BY DEF Init, TaskRights
  <2>2. ActorRights = [a \in Actors |-> {}]
    BY <2>1 DEF Init, ActorRights
  <2> QED
    BY <2>2 DEF Init, Access!AInit, IndexStates, Access!States
<1> QED
  BY <1>1, AccessStep, InductiveInvariant, PTL DEF Spec, ImplementsAccess, Access!ASpec
=============================================================================
