------------------------ MODULE SemanticServiceProofs -----------------------
(***************************************************************************)
(* Proofs about SemanticService, for any calls, projects, slots, cap,      *)
(* attempts and edits: IInv is inductive, and SweepAlone,                  *)
(* LastAttemptUndisturbed and AnswersCurrent follow from it; with it       *)
(* RegistryInv is inductive, and RegistryHolds follows.                    *)
(***************************************************************************)
EXTENDS SemanticService, FiniteSetTheorems, TLAPS

\* The type of an empty slot.
LEMMA EmptySlotType == EmptySlot \in SlotStates
  BY ConstantsAssumption DEF EmptySlot, SlotStates, Versions

\* A slot that differs from r in its lock and its marks only.
Marked(r, h, poisoned, spoiled) ==
  [held |-> h, loaded |-> r.loaded, stamps |-> r.stamps, text |-> r.text,
   poisoned |-> poisoned, spoiled |-> spoiled]

\* The type of such a slot.
LEMMA MarkedType ==
  ASSUME NEW r \in SlotStates, NEW h \in Callers \cup {None}, NEW b \in BOOLEAN,
         NEW d \in BOOLEAN
  PROVE  Marked(r, h, b, d) \in SlotStates
  BY DEF Marked, SlotStates

\* A lock or a mark set in a slot leaves it a slot.
LEMMA SlotUpdates ==
  ASSUME NEW r \in SlotStates, NEW h \in Callers \cup {None}, NEW b \in BOOLEAN
  PROVE  /\ [r EXCEPT !.held = h] \in SlotStates
         /\ [r EXCEPT !.poisoned = b] \in SlotStates
         /\ [r EXCEPT !.spoiled = b] \in SlotStates
  BY DEF SlotStates

\* What Release does to the slots: their type is kept, a slot stays as it was or is
\* emptied, and the slot of a call stays.
LEMMA Released ==
  ASSUME NEW f \in [Slots -> SlotStates], Release(f)
  PROVE  /\ slot' \in [Slots -> SlotStates]
         /\ \A s \in Slots :
              slot'[s] = f[s] \/ (slot'[s] = EmptySlot /\ \A d \in Callers : my'[d] # s)
  BY EmptySlotType DEF Release, Unused

-----------------------------------------------------------------------------
(* Steps in which a call leaves its slot.                                  *)

\* What the other calls see of it: the call gives up the lock it may hold, and slots
\* nobody works on any more may be emptied.
StepsBack(c) ==
  /\ tree' = tree
  /\ sweeping' = sweeping
  /\ pc'[c] \in {"idle", "weigh", "panicked"}
  /\ Inside(c)
  /\ snap'[c] = "none"
  /\ want'[c] = None \/ (want'[c] = want[c] /\ asked'[c] = asked[c])
  /\ \A d \in Callers \ {c} :
       /\ pc'[d] = pc[d] /\ my'[d] = my[d] /\ attempt'[d] = attempt[d]
       /\ snap'[d] = snap[d] /\ want'[d] = want[d] /\ asked'[d] = asked[d]
       /\ stamps'[d] = stamps[d] /\ text'[d] = text[d]
  /\ \A s \in Slots :
       \/ /\ slot'[s].held = IF slot[s].held = c THEN None ELSE slot[s].held
          /\ slot'[s].text = slot[s].text
          /\ slot'[s].stamps = slot[s].stamps
       \/ slot'[s] = EmptySlot /\ \A d \in Callers : my'[d] # s

\* Such a step keeps the locks in order.
LEMMA StepsBackLocks ==
  ASSUME IInv, NEW c \in Callers, StepsBack(c)
  PROVE  LocksMatchCalls'
  <1>1. ASSUME NEW d \in Callers PROVE CallLocks(d)'
    <2>1. CASE d = c
      BY <2>1 DEF StepsBack, CallLocks, Holds, LockPCs, IInv, LocksMatchCalls
    <2>2. CASE d # c
      <3>1. CallLocks(d) /\ (Holds(d) => my[d] \in Slots) /\ (Holds(d)' <=> Holds(d))
        BY <2>2 DEF IInv, LocksMatchCalls, AtWork, Holds, StepsBack
      <3> QED BY <2>2, <3>1 DEF StepsBack, CallLocks, Inside
    <2> QED BY <2>1, <2>2
  <1>2. ASSUME NEW s \in Slots PROVE SlotLock(s)'
    <2>1. SlotLock(s) /\ slot[s].held \in Callers \cup {None}
      BY DEF IInv, LocksMatchCalls, TypeOK, SlotStates
    <2>2. slot'[s].held = None \/ (slot'[s].held = slot[s].held /\ slot[s].held # c)
      BY DEF StepsBack, EmptySlot
    <2>3. \A d \in Callers \ {c} : Holds(d)' <=> Holds(d)
      BY DEF StepsBack, Holds
    <2> QED BY <2>1, <2>2, <2>3 DEF StepsBack, SlotLock
  <1> QED BY <1>1, <1>2 DEF LocksMatchCalls

\* And the versions.
LEMMA StepsBackVersions ==
  ASSUME IInv, NEW c \in Callers, StepsBack(c)
  PROVE  VersionsInOrder'
  <1>1. ASSUME NEW s \in Slots PROVE slot'[s].stamps <= slot'[s].text
    BY DEF StepsBack, IInv, VersionsInOrder, EmptySlot
  <1>2. ASSUME NEW d \in Callers PROVE CallVersions(d)'
    <2>1. CallVersions(d)
      BY DEF IInv, VersionsInOrder
    <2>2. CASE d = c
      BY <2>1, <2>2, ConstantsAssumption DEF StepsBack, CallVersions
    <2>3. CASE d # c
      <3>1. pc[d] = "ready" => slot'[my[d]].text = slot[my[d]].text
        BY <2>3 DEF StepsBack, IInv, AtWork, LockPCs
      <3> QED BY <2>1, <2>3, <3>1 DEF StepsBack, CallVersions
    <2> QED BY <2>2, <2>3
  <1> QED BY <1>1, <1>2 DEF VersionsInOrder

\* LoadFails: the call gives the lock back and ends.
LEMMA LoadFailsInv ==
  ASSUME IInv, NEW c \in Callers, LoadFails(c)
  PROVE  IInv'
  <1> DEFINE f == [slot EXCEPT ![my[c]].held = None]
  <1>1. f \in [Slots -> SlotStates]
    BY ZenonT(60) DEF IInv, TypeOK, SlotStates, LoadFails
  <1>2. \A s \in Slots : /\ f[s].held = IF slot[s].held = c THEN None ELSE slot[s].held
                         /\ f[s].text = slot[s].text
                         /\ f[s].stamps = slot[s].stamps
    BY DEF IInv, TypeOK, LocksMatchCalls, CallLocks, SlotLock, Holds, LockPCs, LoadFails
  <1>3. Release(f)
    BY DEF LoadFails
  <1> HIDE DEF f
  <1>4. /\ slot' \in [Slots -> SlotStates]
        /\ \A s \in Slots :
             slot'[s] = f[s] \/ (slot'[s] = EmptySlot /\ \A d \in Callers : my'[d] # s)
    BY <1>1, <1>3, Released
  <1>5. TypeOK'
    BY <1>4, ConstantsAssumption DEF IInv, TypeOK, LoadFails, Ends, Remove, PCs, Snapshots,
       Versions, registry, collector
  <1>6. AtWork'
    BY DEF IInv, TypeOK, AtWork, LoadFails, Ends, LockPCs
  <1>7. StepsBack(c)
    BY <1>2, <1>4 DEF StepsBack, IInv, TypeOK, LoadFails, Ends, Inside, collector
  <1> QED BY <1>5, <1>6, <1>7, StepsBackLocks, StepsBackVersions DEF IInv

\* Answer: the call gives back the lock it may hold and ends.
LEMMA AnswerInv ==
  ASSUME IInv, NEW c \in Callers, Answer(c)
  PROVE  IInv'
  <1> DEFINE f == LetGo(c)
  <1>1. f \in [Slots -> SlotStates]
    BY DEF IInv, TypeOK, AtWork, SlotStates, Answer, LetGo
  <1>2. \A s \in Slots : /\ f[s].held = IF slot[s].held = c THEN None ELSE slot[s].held
                         /\ f[s].text = slot[s].text
                         /\ f[s].stamps = slot[s].stamps
    BY DEF IInv, TypeOK, LocksMatchCalls, SlotLock, Answer, LetGo
  <1>3. Release(f)
    BY DEF Answer
  <1> HIDE DEF f
  <1>4. /\ slot' \in [Slots -> SlotStates]
        /\ \A s \in Slots :
             slot'[s] = f[s] \/ (slot'[s] = EmptySlot /\ \A d \in Callers : my'[d] # s)
    BY <1>1, <1>3, Released
  <1>5. TypeOK'
    BY <1>4, ConstantsAssumption DEF IInv, TypeOK, Answer, Ends, PCs, Snapshots, Versions,
       registry, collector
  <1>6. AtWork'
    BY DEF IInv, TypeOK, AtWork, Answer, Ends, LockPCs
  <1>7. StepsBack(c)
    BY <1>2, <1>4 DEF StepsBack, IInv, TypeOK, Answer, Ends, Inside, collector
  <1> QED BY <1>5, <1>6, <1>7, StepsBackLocks, StepsBackVersions DEF IInv

\* Weighed: the lock is given back.
LEMMA WeighedInv ==
  ASSUME IInv, NEW c \in Callers, Weighed(c)
  PROVE  IInv'
  <1> DEFINE f == LetGo(c)
  <1>1. f \in [Slots -> SlotStates]
    BY DEF IInv, TypeOK, AtWork, LockPCs, SlotStates, Weighed, LetGo
  <1>2. \A s \in Slots : /\ f[s].held = IF slot[s].held = c THEN None ELSE slot[s].held
                         /\ f[s].text = slot[s].text
                         /\ f[s].stamps = slot[s].stamps
    BY DEF IInv, TypeOK, LocksMatchCalls, SlotLock, Weighed, LetGo
  <1>3. Release(f)
    BY DEF Weighed
  <1> HIDE DEF f
  <1>4. /\ slot' \in [Slots -> SlotStates]
        /\ \A s \in Slots :
             slot'[s] = f[s] \/ (slot'[s] = EmptySlot /\ \A d \in Callers : my'[d] # s)
    BY <1>1, <1>3, Released
  <1>5. TypeOK'
    BY <1>4 DEF IInv, TypeOK, Weighed, PCs, registry, collector
  <1>6. AtWork'
    BY DEF IInv, TypeOK, AtWork, Weighed, LockPCs
  <1>7. StepsBack(c)
    BY <1>2, <1>4 DEF StepsBack, IInv, TypeOK, Weighed, Inside, LocksMatchCalls, CallLocks,
       collector
  <1> QED BY <1>5, <1>6, <1>7, StepsBackLocks, StepsBackVersions DEF IInv

\* PanicHolding: the unwinding gives the lock back.
LEMMA PanicHoldingInv ==
  ASSUME IInv, NEW c \in Callers, PanicHolding(c)
  PROVE  IInv'
  <1> DEFINE f == [slot EXCEPT ![my[c]].held = None, ![my[c]].poisoned = TRUE,
                          ![my[c]].spoiled = TRUE]
  <1>1. f \in [Slots -> SlotStates]
    BY EmptySlotType, ZenonT(60) DEF IInv, TypeOK, SlotStates, PanicHolding
  <1>2. \A s \in Slots : /\ f[s].held = IF slot[s].held = c THEN None ELSE slot[s].held
                         /\ f[s].text = slot[s].text
                         /\ f[s].stamps = slot[s].stamps
    BY DEF IInv, TypeOK, LocksMatchCalls, CallLocks, SlotLock, Holds, LockPCs, PanicHolding
  <1>3. Release(f)
    BY DEF PanicHolding, Unwinds
  <1> HIDE DEF f
  <1>4. /\ slot' \in [Slots -> SlotStates]
        /\ \A s \in Slots :
             slot'[s] = f[s] \/ (slot'[s] = EmptySlot /\ \A d \in Callers : my'[d] # s)
    BY <1>1, <1>3, Released
  <1>5. TypeOK'
    BY <1>4, ConstantsAssumption DEF IInv, TypeOK, PanicHolding, Unwinds, PCs, Snapshots,
       Versions, registry, collector
  <1>6. AtWork'
    BY DEF IInv, TypeOK, AtWork, PanicHolding, Unwinds, LockPCs
  <1>7. StepsBack(c)
    BY <1>2, <1>4 DEF StepsBack, IInv, TypeOK, PanicHolding, Unwinds, Inside, collector
  <1> QED BY <1>5, <1>6, <1>7, StepsBackLocks, StepsBackVersions DEF IInv

\* PanicInQuery: the unwinding gives back the lock the question may hold.
LEMMA PanicInQueryInv ==
  ASSUME IInv, NEW c \in Callers, PanicInQuery(c)
  PROVE  IInv'
  <1> DEFINE f == [slot EXCEPT ![my[c]].held = IF @ = c THEN None ELSE @,
                          ![my[c]].poisoned = @ \/ slot[my[c]].held = c,
                          ![my[c]].spoiled = TRUE]
  <1>1. f \in [Slots -> SlotStates]
    <2>1. my[c] \in Slots
      BY DEF PanicInQuery, IInv, AtWork
    <2> DEFINE r == slot[my[c]]
               h == IF r.held = c THEN None ELSE r.held
               q == r.poisoned \/ r.held = c
    <2>2. r \in SlotStates /\ slot \in [Slots -> SlotStates]
      BY <2>1 DEF IInv, TypeOK
    <2>3. h \in Callers \cup {None} /\ q \in BOOLEAN
      BY <2>2 DEF SlotStates
    <2>4. f = [slot EXCEPT ![my[c]] = [[[r EXCEPT !.held = h] EXCEPT !.poisoned = q]
                                          EXCEPT !.spoiled = TRUE]]
      BY <2>1, <2>2, Zenon
    <2> HIDE DEF h, q
    <2> HIDE DEF r, f
    <2>5. [[[r EXCEPT !.held = h] EXCEPT !.poisoned = q] EXCEPT !.spoiled = TRUE]
            \in SlotStates
      BY <2>2, <2>3, SlotUpdates
    <2> QED BY <2>1, <2>2, <2>4, <2>5
  <1>2. \A s \in Slots : /\ f[s].held = IF slot[s].held = c THEN None ELSE slot[s].held
                         /\ f[s].text = slot[s].text
                         /\ f[s].stamps = slot[s].stamps
    BY DEF IInv, TypeOK, LocksMatchCalls, SlotLock, PanicInQuery
  <1>3. Release(f)
    BY DEF PanicInQuery, Unwinds
  <1> HIDE DEF f
  <1>4. /\ slot' \in [Slots -> SlotStates]
        /\ \A s \in Slots :
             slot'[s] = f[s] \/ (slot'[s] = EmptySlot /\ \A d \in Callers : my'[d] # s)
    BY <1>1, <1>3, Released
  <1>5. TypeOK'
    BY <1>4, ConstantsAssumption DEF IInv, TypeOK, PanicInQuery, Unwinds, PCs, Snapshots,
       Versions, registry, collector
  <1>6. AtWork'
    BY DEF IInv, TypeOK, AtWork, PanicInQuery, Unwinds, LockPCs
  <1>7. StepsBack(c)
    BY <1>2, <1>4 DEF StepsBack, IInv, TypeOK, PanicInQuery, Unwinds, Inside, collector
  <1> QED BY <1>5, <1>6, <1>7, StepsBackLocks, StepsBackVersions DEF IInv

\* PanicWeighing: the unwinding gives the lock back.
LEMMA PanicWeighingInv ==
  ASSUME IInv, NEW c \in Callers, PanicWeighing(c)
  PROVE  IInv'
  <1> DEFINE f == [slot EXCEPT ![my[c]].held = None, ![my[c]].poisoned = TRUE]
  <1>1. f \in [Slots -> SlotStates]
    BY EmptySlotType, ConstantsAssumption DEF IInv, TypeOK, AtWork, LockPCs, SlotStates,
       PanicWeighing, collector
  <1>2. \A s \in Slots : /\ f[s].held = IF slot[s].held = c THEN None ELSE slot[s].held
                         /\ f[s].text = slot[s].text
                         /\ f[s].stamps = slot[s].stamps
    BY DEF IInv, TypeOK, LocksMatchCalls, CallLocks, SlotLock, Holds, LockPCs, PanicWeighing
  <1>3. Release(f)
    BY DEF PanicWeighing, Unwinds
  <1> HIDE DEF f
  <1>4. /\ slot' \in [Slots -> SlotStates]
        /\ \A s \in Slots :
             slot'[s] = f[s] \/ (slot'[s] = EmptySlot /\ \A d \in Callers : my'[d] # s)
    BY <1>1, <1>3, Released
  <1>5. TypeOK'
    BY <1>4, ConstantsAssumption DEF IInv, TypeOK, PanicWeighing, Unwinds, PCs, Snapshots,
       Versions, registry, collector
  <1>6. AtWork'
    BY DEF IInv, TypeOK, AtWork, PanicWeighing, Unwinds, LockPCs
  <1>7. StepsBack(c)
    BY <1>2, <1>4 DEF StepsBack, IInv, TypeOK, PanicWeighing, Unwinds, Inside, collector
  <1> QED BY <1>5, <1>6, <1>7, StepsBackLocks, StepsBackVersions DEF IInv

\* PanicOutside: the call has no lock to give back.
LEMMA PanicOutsideInv ==
  ASSUME IInv, NEW c \in Callers, PanicOutside(c)
  PROVE  IInv'
  <1> DEFINE f == slot
  <1>1. f \in [Slots -> SlotStates]
    BY DEF IInv, TypeOK, PanicOutside
  <1>2. \A s \in Slots : /\ f[s].held = IF slot[s].held = c THEN None ELSE slot[s].held
                         /\ f[s].text = slot[s].text
                         /\ f[s].stamps = slot[s].stamps
    BY DEF IInv, LocksMatchCalls, SlotLock, Holds, LockPCs, PanicOutside
  <1>3. Release(f)
    BY DEF PanicOutside, Unwinds
  <1> HIDE DEF f
  <1>4. /\ slot' \in [Slots -> SlotStates]
        /\ \A s \in Slots :
             slot'[s] = f[s] \/ (slot'[s] = EmptySlot /\ \A d \in Callers : my'[d] # s)
    BY <1>1, <1>3, Released
  <1>5. TypeOK'
    BY <1>4, ConstantsAssumption DEF IInv, TypeOK, PanicOutside, Unwinds, PCs, Snapshots,
       Versions, registry, collector
  <1>6. AtWork'
    BY DEF IInv, TypeOK, AtWork, PanicOutside, Unwinds, LockPCs
  <1>7. StepsBack(c)
    BY <1>2, <1>4 DEF StepsBack, IInv, TypeOK, PanicOutside, Unwinds, Inside, collector
  <1> QED BY <1>5, <1>6, <1>7, StepsBackLocks, StepsBackVersions DEF IInv

\* UnloadInterrupted: the call has no lock to give back.
LEMMA UnloadInterruptedInv ==
  ASSUME IInv, NEW c \in Callers, UnloadInterrupted(c)
  PROVE  IInv'
  <1> DEFINE f == slot
  <1>1. f \in [Slots -> SlotStates]
    BY DEF IInv, TypeOK, UnloadInterrupted
  <1>2. \A s \in Slots : /\ f[s].held = IF slot[s].held = c THEN None ELSE slot[s].held
                         /\ f[s].text = slot[s].text
                         /\ f[s].stamps = slot[s].stamps
    BY DEF IInv, LocksMatchCalls, SlotLock, Holds, LockPCs, UnloadInterrupted
  <1>3. Release(f)
    BY DEF UnloadInterrupted
  <1> HIDE DEF f
  <1>4. /\ slot' \in [Slots -> SlotStates]
        /\ \A s \in Slots :
             slot'[s] = f[s] \/ (slot'[s] = EmptySlot /\ \A d \in Callers : my'[d] # s)
    BY <1>1, <1>3, Released
  <1>5. TypeOK'
    BY <1>4, ConstantsAssumption DEF IInv, TypeOK, UnloadInterrupted, Ends, Remove, PCs,
       Snapshots, Versions, collector
  <1>6. AtWork'
    BY DEF IInv, AtWork, UnloadInterrupted, Ends, LockPCs
  <1>7. StepsBack(c)
    BY <1>2, <1>4 DEF StepsBack, IInv, TypeOK, UnloadInterrupted, Ends, Inside, collector
  <1> QED BY <1>5, <1>6, <1>7, StepsBackLocks, StepsBackVersions DEF IInv

\* RunAdmitted keeps the invariant.
LEMMA RunAdmittedInv ==
  ASSUME IInv, NEW c \in Callers, NEW p \in Projects, RunAdmitted(c, p)
  PROVE  IInv'
  <1>1. TypeOK'
    BY DEF IInv, TypeOK, AtWork, LockPCs, PCs, Snapshots, Versions, registry, caller,
       RunAdmitted, collector
  <1>2. AtWork'
    BY DEF IInv, TypeOK, AtWork, LockPCs, RunAdmitted
  <1>3. LocksMatchCalls'
    BY ConstantsAssumption DEF IInv, LocksMatchCalls, CallLocks, SlotLock, Holds, Inside,
       LockPCs, RunAdmitted, collector
  <1>4. VersionsInOrder'
    BY DEF IInv, TypeOK, AtWork, VersionsInOrder, CallVersions, Versions, RunAdmitted
  <1> QED BY <1>1, <1>2, <1>3, <1>4 DEF IInv

\* EnterShared keeps the invariant.
LEMMA EnterSharedInv ==
  ASSUME IInv, NEW c \in Callers, EnterShared(c)
  PROVE  IInv'
  <1>1. TypeOK'
    BY DEF IInv, TypeOK, LockPCs, PCs, registry, EnterShared, collector
  <1>2. AtWork'
    BY DEF IInv, AtWork, LockPCs, EnterShared
  <1>3. LocksMatchCalls'
    BY DEF IInv, LocksMatchCalls, CallLocks, SlotLock, Holds, LockPCs, EnterShared,
       collector
  <1>4. VersionsInOrder'
    BY DEF IInv, VersionsInOrder, CallVersions, EnterShared
  <1> QED BY <1>1, <1>2, <1>3, <1>4 DEF IInv

\* WorksElsewhere keeps the invariant.
LEMMA WorksElsewhereInv ==
  ASSUME IInv, NEW c \in Callers, WorksElsewhere(c)
  PROVE  IInv'
  <1>1. TypeOK'
    BY ConstantsAssumption DEF IInv, TypeOK, PCs, Snapshots, Versions, registry,
       WorksElsewhere, Ends, collector
  <1>2. AtWork'
    BY DEF IInv, TypeOK, AtWork, LockPCs, WorksElsewhere, Ends
  <1>3. LocksMatchCalls'
    BY DEF IInv, LocksMatchCalls, CallLocks, SlotLock, Holds, Inside, LockPCs,
       WorksElsewhere, Ends, collector
  <1>4. VersionsInOrder'
    BY DEF IInv, TypeOK, VersionsInOrder, CallVersions, Versions, WorksElsewhere, Ends
  <1> QED BY <1>1, <1>2, <1>3, <1>4 DEF IInv

\* TryExclusive keeps the invariant.
LEMMA TryExclusiveInv ==
  ASSUME IInv, TryExclusive
  PROVE  IInv'
  <1>1. TypeOK'
    BY DEF IInv, TypeOK, registry, caller, TryExclusive, InRegistry
  <1>2. AtWork'
    BY DEF IInv, AtWork, caller, TryExclusive, InRegistry
  <1>3. LocksMatchCalls'
    BY DEF IInv, LocksMatchCalls, CallLocks, SlotLock, Holds, Inside, caller, TryExclusive,
       InRegistry
  <1>4. VersionsInOrder'
    BY DEF IInv, VersionsInOrder, CallVersions, caller, TryExclusive, InRegistry
  <1> QED BY <1>1, <1>2, <1>3, <1>4 DEF IInv

\* Lock keeps the invariant.
LEMMA LockInv ==
  ASSUME IInv, NEW c \in Callers, Lock(c)
  PROVE  IInv'
  <1>1. TypeOK'
    BY EmptySlotType, ZenonT(60) DEF IInv, TypeOK, AtWork, PCs, Snapshots, SlotStates, registry, Lock,
       Locked, Orphaned, collector
  <1>2. AtWork'
    BY DEF IInv, AtWork, Lock
  <1>3. LocksMatchCalls'
    BY ConstantsAssumption DEF IInv, TypeOK, AtWork, LocksMatchCalls, CallLocks, SlotLock,
       Holds, Inside, LockPCs, Lock, Locked, Orphaned, Readers, collector
  <1>4. VersionsInOrder'
    BY ConstantsAssumption DEF IInv, LocksMatchCalls, CallLocks, VersionsInOrder,
       CallVersions, Holds, LockPCs, EmptySlot, Lock, Locked
  <1> QED BY <1>1, <1>2, <1>3, <1>4 DEF IInv

\* Fresh keeps the invariant.
LEMMA FreshInv ==
  ASSUME IInv, NEW c \in Callers, Fresh(c)
  PROVE  IInv'
  <1>1. TypeOK'
    BY DEF IInv, TypeOK, PCs, registry, Fresh, collector
  <1>2. AtWork'
    BY DEF IInv, AtWork, LockPCs, Fresh
  <1>3. LocksMatchCalls'
    BY DEF IInv, LocksMatchCalls, CallLocks, SlotLock, Holds, Inside, LockPCs, Fresh,
       collector
  <1>4. VersionsInOrder'
    BY DEF IInv, TypeOK, AtWork, VersionsInOrder, CallVersions, LockPCs, Versions,
       SlotStates, Fresh
  <1> QED BY <1>1, <1>2, <1>3, <1>4 DEF IInv

\* Edited keeps the invariant.
LEMMA EditedInv ==
  ASSUME IInv, NEW c \in Callers, Edited(c)
  PROVE  IInv'
  <1>1. TypeOK'
    BY DEF IInv, TypeOK, AtWork, PCs, registry, Edited, collector
  <1>2. AtWork'
    BY DEF IInv, AtWork, LockPCs, Edited
  <1>3. LocksMatchCalls'
    BY DEF IInv, LocksMatchCalls, CallLocks, SlotLock, Holds, Inside, LockPCs, Edited,
       collector
  <1>4. VersionsInOrder'
    BY DEF IInv, TypeOK, AtWork, VersionsInOrder, CallVersions, Versions, Edited
  <1> QED BY <1>1, <1>2, <1>3, <1>4 DEF IInv

\* ReadEdits keeps the invariant.
LEMMA ReadEditsInv ==
  ASSUME IInv, NEW c \in Callers, ReadEdits(c)
  PROVE  IInv'
  <1>1. TypeOK'
    BY DEF IInv, TypeOK, AtWork, PCs, Snapshots, registry, ReadEdits, Cancelled, collector
  <1>2. AtWork'
    BY DEF IInv, AtWork, LockPCs, ReadEdits, Cancelled
  <1>3. LocksMatchCalls'
    BY DEF IInv, LocksMatchCalls, CallLocks, SlotLock, Holds, Inside, LockPCs, ReadEdits,
       Cancelled, Readers, collector
  <1>4. VersionsInOrder'
    BY DEF IInv, TypeOK, VersionsInOrder, CallVersions, ReadEdits, Cancelled
  <1> QED BY <1>1, <1>2, <1>3, <1>4 DEF IInv

\* ApplyEdits keeps the invariant.
LEMMA ApplyEditsInv ==
  ASSUME IInv, NEW c \in Callers, ApplyEdits(c)
  PROVE  IInv'
  <1>1. TypeOK'
    BY EmptySlotType, ZenonT(60) DEF IInv, TypeOK, PCs, SlotStates, registry, ApplyEdits, collector
  <1>2. AtWork'
    BY DEF IInv, AtWork, LockPCs, ApplyEdits
  <1>3. LocksMatchCalls'
    BY DEF IInv, TypeOK, AtWork, LocksMatchCalls, CallLocks, SlotLock, Holds, Inside,
       LockPCs, ApplyEdits, collector
  <1>4. VersionsInOrder'
    BY DEF IInv, TypeOK, AtWork, LocksMatchCalls, CallLocks, VersionsInOrder, CallVersions,
       Holds, LockPCs, Versions, ApplyEdits
  <1> QED BY <1>1, <1>2, <1>3, <1>4 DEF IInv

\* AskAgain keeps the invariant.
LEMMA AskAgainInv ==
  ASSUME IInv, NEW c \in Callers, AskAgain(c)
  PROVE  IInv'
  <1>1. TypeOK'
    BY ConstantsAssumption DEF IInv, TypeOK, PCs, Snapshots, Versions, registry, AskAgain,
       collector
  <1>2. AtWork'
    BY DEF IInv, AtWork, AskAgain
  <1>3. LocksMatchCalls'
    BY DEF IInv, TypeOK, LocksMatchCalls, CallLocks, SlotLock, Holds, Inside, LockPCs,
       AskAgain, collector
  <1>4. VersionsInOrder'
    BY DEF IInv, TypeOK, VersionsInOrder, CallVersions, AskAgain
  <1> QED BY <1>1, <1>2, <1>3, <1>4 DEF IInv

\* ListLoaded keeps the invariant.
LEMMA ListLoadedInv ==
  ASSUME IInv, NEW c \in Callers, ListLoaded(c)
  PROVE  IInv'
  <1>1. TypeOK'
    BY DEF IInv, TypeOK, PCs, registry, ListLoaded, Entries, collector
  <1>2. AtWork'
    BY DEF IInv, AtWork, LockPCs, ListLoaded
  <1>3. LocksMatchCalls'
    BY DEF IInv, LocksMatchCalls, CallLocks, SlotLock, Holds, Inside, LockPCs, ListLoaded,
       collector
  <1>4. VersionsInOrder'
    BY DEF IInv, VersionsInOrder, CallVersions, ListLoaded
  <1> QED BY <1>1, <1>2, <1>3, <1>4 DEF IInv

\* Portrait keeps the invariant.
LEMMA PortraitInv ==
  ASSUME IInv, NEW c \in Callers, Portrait(c)
  PROVE  IInv'
  <1>1. TypeOK'
    BY ConstantsAssumption DEF IInv, TypeOK, PCs, Snapshots, Versions, registry, Portrait,
       Ends, collector
  <1>2. AtWork'
    BY DEF IInv, AtWork, LockPCs, Portrait, Ends
  <1>3. LocksMatchCalls'
    BY DEF IInv, LocksMatchCalls, CallLocks, SlotLock, Holds, Inside, LockPCs, Portrait,
       Ends, collector
  <1>4. VersionsInOrder'
    BY DEF IInv, TypeOK, VersionsInOrder, CallVersions, Versions, Portrait, Ends
  <1> QED BY <1>1, <1>2, <1>3, <1>4 DEF IInv

\* FindInterrupted keeps the invariant.
LEMMA FindInterruptedInv ==
  ASSUME IInv, NEW c \in Callers, FindInterrupted(c)
  PROVE  IInv'
  <1>1. TypeOK'
    BY DEF IInv, TypeOK, PCs, registry, FindInterrupted, Entries, collector
  <1>2. AtWork'
    BY DEF IInv, AtWork, LockPCs, FindInterrupted
  <1>3. LocksMatchCalls'
    BY DEF IInv, LocksMatchCalls, CallLocks, SlotLock, Holds, Inside, LockPCs,
       FindInterrupted, collector
  <1>4. VersionsInOrder'
    BY DEF IInv, VersionsInOrder, CallVersions, FindInterrupted
  <1> QED BY <1>1, <1>2, <1>3, <1>4 DEF IInv

\* SweepEnds keeps the invariant.
LEMMA SweepEndsInv ==
  ASSUME IInv, SweepEnds
  PROVE  IInv'
  <1>1. TypeOK'
    BY DEF IInv, TypeOK, registry, caller, SweepEnds
  <1>2. AtWork'
    BY DEF IInv, AtWork, caller, SweepEnds
  <1>3. LocksMatchCalls'
    BY DEF IInv, LocksMatchCalls, CallLocks, SlotLock, Holds, caller, SweepEnds
  <1>4. VersionsInOrder'
    BY DEF IInv, VersionsInOrder, CallVersions, caller, SweepEnds
  <1> QED BY <1>1, <1>2, <1>3, <1>4 DEF IInv

\* Retire keeps the invariant.
LEMMA RetireInv ==
  ASSUME IInv, Retire
  PROVE  IInv'
  <1>1. TypeOK'
    BY DEF IInv, TypeOK, registry, caller, Retire, collector
  <1>2. AtWork'
    BY DEF IInv, AtWork, caller, Retire
  <1>3. LocksMatchCalls'
    BY DEF IInv, LocksMatchCalls, CallLocks, SlotLock, Holds, Inside, caller, Retire,
       collector
  <1>4. VersionsInOrder'
    BY DEF IInv, VersionsInOrder, CallVersions, caller, Retire
  <1> QED BY <1>1, <1>2, <1>3, <1>4 DEF IInv

\* Edit keeps the invariant.
LEMMA EditInv ==
  ASSUME IInv, NEW p \in Projects, Edit(p)
  PROVE  IInv'
  <1>1. TypeOK'
    BY ConstantsAssumption DEF IInv, TypeOK, Versions, registry, caller, Edit, collector
  <1>2. AtWork'
    BY DEF IInv, AtWork, caller, Edit
  <1>3. LocksMatchCalls'
    BY DEF IInv, LocksMatchCalls, CallLocks, SlotLock, Holds, Inside, caller, Edit,
       collector
  <1>4. VersionsInOrder'
    BY DEF IInv, TypeOK, VersionsInOrder, CallVersions, Versions, caller, Edit
  <1> QED BY <1>1, <1>2, <1>3, <1>4 DEF IInv

\* EndLoad keeps the invariant.
LEMMA EndLoadInv ==
  ASSUME IInv, NEW c \in Callers, EndLoad(c)
  PROVE  IInv'
  <1>1. TypeOK'
    <2>1. stamps[c] \in Versions /\ tree[want[c]] \in Versions /\ my[c] \in Slots
      BY DEF IInv, TypeOK, AtWork, EndLoad, LockPCs
    <2>2. PICK v \in stamps[c]..tree[want[c]] :
            slot' = [slot EXCEPT ![my[c]].loaded = TRUE, ![my[c]].stamps = stamps[c],
                                 ![my[c]].text = v]
      BY DEF EndLoad
    <2>3. v \in Versions
      BY <2>1, ConstantsAssumption DEF Versions
    <2>4. slot' \in [Slots -> SlotStates]
      BY <2>1, <2>2, <2>3, EmptySlotType, ZenonT(60) DEF IInv, TypeOK, SlotStates, EmptySlot
    <2> QED BY <2>4 DEF IInv, TypeOK, EndLoad, PCs, registry, collector
  <1>2. AtWork'
    BY DEF IInv, AtWork, LockPCs, EndLoad
  <1>3. LocksMatchCalls'
    <2>1. \A s \in Slots : slot'[s].held = slot[s].held
      BY DEF EndLoad, IInv, TypeOK, SlotStates, AtWork
    <2>2. \A d \in Callers : /\ Holds(d)' <=> Holds(d)
                             /\ Inside(d)' <=> Inside(d)
                             /\ pc'[d] = "query" <=> pc[d] = "query"
      <3>1. pc' = [pc EXCEPT ![c] = "ready"] /\ attempt' = attempt /\ pc \in [Callers -> PCs]
            /\ pc[c] = "load"
        BY DEF EndLoad, IInv, TypeOK
      <3> QED
        BY <3>1 DEF Holds, Inside, LockPCs
    <2>3. UNCHANGED <<my, attempt, snap, sweeping>>
      BY DEF EndLoad, collector
    <2>4. ASSUME NEW d \in Callers PROVE CallLocks(d)'
      <3>1. CallLocks(d) /\ (Holds(d) => my[d] \in Slots)
        BY DEF IInv, LocksMatchCalls, AtWork, Holds, LockPCs
      <3> QED
        BY <2>1, <2>2, <2>3, <3>1 DEF CallLocks
    <2>5. ASSUME NEW s \in Slots PROVE SlotLock(s)'
      <3>1. SlotLock(s) /\ slot[s].held \in Callers \cup {None}
        BY DEF IInv, TypeOK, SlotStates, LocksMatchCalls
      <3> QED
        BY <2>1, <2>2, <2>3, <3>1 DEF SlotLock
    <2> QED
      BY <2>4, <2>5 DEF LocksMatchCalls
  <1>4. VersionsInOrder'
    BY DEF IInv, TypeOK, AtWork, LocksMatchCalls, CallLocks, VersionsInOrder, CallVersions,
       Holds, LockPCs, Versions, EndLoad
  <1> QED BY <1>1, <1>2, <1>3, <1>4 DEF IInv

\* SlotFor keeps the invariant.
LEMMA SlotForInv ==
  ASSUME IInv, NEW c \in Callers, SlotFor(c)
  PROVE  IInv'
  <1>1. TypeOK'
    <2>1. want[c] \in Projects
      BY DEF IInv, AtWork, SlotFor
    <2>2. older' \subseteq Projects \X Projects
      BY <2>1 DEF IInv, TypeOK, SlotFor, Newest, InRegistry, registry
    <2>3. /\ projects' \in [Projects -> Slots \cup {None}]
          /\ my' \in [Callers -> Slots \cup {None}]
      BY <2>1 DEF IInv, TypeOK, SlotFor, registry
    <2> QED BY <2>2, <2>3, ConstantsAssumption DEF IInv, TypeOK, SlotFor, PCs, collector
  <1>2. AtWork'
    BY DEF IInv, TypeOK, AtWork, SlotFor, InRegistry
  <1>3. LocksMatchCalls'
    BY DEF IInv, TypeOK, LocksMatchCalls, CallLocks, SlotLock, Holds, Inside, LockPCs,
       SlotStates, SlotFor, Newest, InRegistry, collector
  <1>4. VersionsInOrder'
    BY DEF IInv, TypeOK, VersionsInOrder, CallVersions, SlotFor, InRegistry
  <1> QED BY <1>1, <1>2, <1>3, <1>4 DEF IInv

\* BeginLoad empties the slot the call holds, and cancels the snapshots of others.
LEMMA BeginLoadInv ==
  ASSUME IInv, NEW c \in Callers, BeginLoad(c)
  PROVE  IInv'
  <1>0. pc[c] \in {"held", "patch"} /\ my[c] \in Slots /\ want[c] \in Projects
    BY DEF BeginLoad, IInv, AtWork, LockPCs
  <1>1. TypeOK'
    <2>1. slot' \in [Slots -> SlotStates]
      BY <1>0, EmptySlotType, ZenonT(60) DEF BeginLoad, IInv, TypeOK, SlotStates, EmptySlot
    <2>2. snap' \in [Callers -> Snapshots]
      BY DEF BeginLoad, Cancelled, IInv, TypeOK, Snapshots
    <2>3. stamps' \in [Callers -> Versions] /\ pc' \in [Callers -> PCs]
      BY <1>0 DEF BeginLoad, IInv, TypeOK, PCs
    <2> QED BY <2>1, <2>2, <2>3 DEF BeginLoad, IInv, TypeOK, registry, collector
  <1>2. AtWork'
    BY <1>0 DEF BeginLoad, IInv, AtWork
  <1>3. LocksMatchCalls'
    <2>1. \A s \in Slots : slot'[s].held = slot[s].held
      BY <1>0 DEF BeginLoad, IInv, TypeOK, SlotStates
    <2>2. \A d \in Callers : \/ snap'[d] = snap[d]
                             \/ snap[d] \in {"live", "cancelled"} /\ my[d] = my[c]
      <3>1. snap' = Cancelled(my[c])
        BY DEF BeginLoad
      <3> QED
        BY <3>1 DEF Cancelled, Readers
    <2>3. \A d \in Callers : /\ Holds(d)' <=> Holds(d)
                             /\ Inside(d)' <=> Inside(d)
                             /\ pc'[d] = "query" <=> pc[d] = "query"
      <3>1. pc' = [pc EXCEPT ![c] = "load"] /\ attempt' = attempt /\ pc \in [Callers -> PCs]
        BY DEF BeginLoad, IInv, TypeOK
      <3> QED
        BY <1>0, <3>1 DEF Holds, Inside, LockPCs
    <2>4. UNCHANGED <<my, attempt, sweeping>>
      BY DEF BeginLoad, collector
    <2>5. Holds(c) /\ slot[my[c]].held = c
      BY <1>0 DEF Holds, LockPCs, IInv, LocksMatchCalls, CallLocks
    <2>6. ASSUME NEW d \in Callers PROVE CallLocks(d)'
      <3>1. CallLocks(d) /\ (Holds(d) => my[d] \in Slots)
        BY DEF IInv, LocksMatchCalls, AtWork, Holds, LockPCs
      <3>2. pc[d] = "query" /\ attempt[d] = QueryAttempts => snap'[d] = snap[d]
        BY <1>0, <2>2, <2>5, <3>1 DEF CallLocks, Holds
      <3> QED
        BY <2>1, <2>2, <2>3, <2>4, <3>1, <3>2 DEF CallLocks
    <2>7. ASSUME NEW s \in Slots PROVE SlotLock(s)'
      <3>1. SlotLock(s) /\ slot[s].held \in Callers \cup {None}
        BY DEF IInv, TypeOK, SlotStates, LocksMatchCalls
      <3> QED
        BY <2>1, <2>3, <2>4, <3>1 DEF SlotLock
    <2> QED
      BY <2>6, <2>7 DEF LocksMatchCalls
  <1>4. VersionsInOrder'
    <2>1. ASSUME NEW s \in Slots PROVE slot'[s].stamps <= slot'[s].text
      BY <1>0 DEF BeginLoad, IInv, TypeOK, VersionsInOrder
    <2>2. ASSUME NEW d \in Callers PROVE CallVersions(d)'
      <3>1. CallVersions(d) /\ CallLocks(d) /\ CallLocks(c)
        BY DEF IInv, VersionsInOrder, LocksMatchCalls
      <3>2. CASE d = c
        BY <1>0, <3>1, <3>2 DEF BeginLoad, CallVersions, IInv, TypeOK, Versions
      <3>3. CASE d # c
        <4>1. pc[d] = "ready" => slot'[my[d]] = slot[my[d]]
          BY <1>0, <3>1, <3>3 DEF BeginLoad, IInv, TypeOK, AtWork, CallLocks, Holds, LockPCs
        <4> QED BY <3>1, <3>3, <4>1 DEF BeginLoad, CallVersions, IInv, TypeOK
      <3> QED BY <3>2, <3>3
    <2> QED BY <2>1, <2>2 DEF VersionsInOrder
  <1> QED BY <1>1, <1>2, <1>3, <1>4 DEF IInv

\* TakeSnapshot keeps the lock on the last attempt and gives it back otherwise.
LEMMA TakeSnapshotInv ==
  ASSUME IInv, NEW c \in Callers, TakeSnapshot(c)
  PROVE  IInv'
  <1> DEFINE f == IF attempt[c] = QueryAttempts THEN slot
                  ELSE [slot EXCEPT ![my[c]].held = None]
  <1>0. my[c] \in Slots /\ want[c] \in Projects /\ slot[my[c]].held = c
    BY DEF TakeSnapshot, IInv, AtWork, LocksMatchCalls, CallLocks, Holds, LockPCs
  <1>1. f \in [Slots -> SlotStates]
    BY <1>0 DEF IInv, TypeOK, SlotStates
  <1>2. \A s \in Slots : /\ s # my[c] => f[s] = slot[s]
                         /\ attempt[c] = QueryAttempts => f[s].held = slot[s].held
                         /\ attempt[c] # QueryAttempts => f[my[c]].held = None
                         /\ f[s].text = slot[s].text /\ f[s].stamps = slot[s].stamps
    BY <1>0 DEF IInv, TypeOK
  <1>3. Release(f)
    BY DEF TakeSnapshot
  <1> HIDE DEF f
  <1>4. /\ slot' \in [Slots -> SlotStates]
        /\ \A s \in Slots :
             slot'[s] = f[s] \/ (slot'[s] = EmptySlot /\ \A d \in Callers : my'[d] # s)
    BY <1>1, <1>3, Released
  <1>5. TypeOK'
    <2>1. older' \subseteq Projects \X Projects
      BY <1>0 DEF TakeSnapshot, IInv, TypeOK, Newest, InRegistry, registry
    <2>2. projects' \in [Projects -> Slots \cup {None}]
      BY DEF TakeSnapshot, IInv, TypeOK, registry
    <2>3. text' \in [Callers -> Versions]
      BY <1>0 DEF TakeSnapshot, IInv, TypeOK, SlotStates
    <2> QED
      BY <1>4, <2>1, <2>2, <2>3, ConstantsAssumption DEF TakeSnapshot, IInv, TypeOK, PCs,
         Snapshots, Versions, collector
  <1>6. AtWork'
    BY <1>0 DEF TakeSnapshot, IInv, AtWork
  <1>7. LocksMatchCalls'
    <2>1. ASSUME NEW d \in Callers PROVE CallLocks(d)'
      <3>1. CallLocks(d) /\ (Holds(d) => my[d] \in Slots)
        BY DEF IInv, LocksMatchCalls, AtWork, Holds
      <3>2. CASE d = c
        BY <1>0, <1>2, <1>4, <3>1, <3>2 DEF TakeSnapshot, IInv, TypeOK, CallLocks, Holds,
           Inside, LockPCs, collector
      <3>3. CASE d # c
        BY <1>0, <1>2, <1>4, <3>1, <3>3 DEF TakeSnapshot, IInv, CallLocks, Holds, Inside,
           collector
      <3> QED BY <3>2, <3>3
    <2>2. ASSUME NEW s \in Slots PROVE SlotLock(s)'
      <3>1. SlotLock(s) /\ slot[s].held \in Callers \cup {None}
        BY DEF IInv, LocksMatchCalls, TypeOK, SlotStates
      <3>2. CASE s = my[c]
        BY <1>0, <1>2, <1>4, <3>1, <3>2 DEF TakeSnapshot, IInv, SlotLock, Holds
      <3>3. CASE s # my[c]
        BY <1>0, <1>2, <1>4, <3>1, <3>3 DEF TakeSnapshot, IInv, SlotLock, Holds, EmptySlot
      <3> QED BY <3>2, <3>3
    <2> QED BY <2>1, <2>2 DEF LocksMatchCalls
  <1>8. VersionsInOrder'
    <2>1. ASSUME NEW s \in Slots PROVE slot'[s].stamps <= slot'[s].text
      BY <1>2, <1>4 DEF IInv, VersionsInOrder, EmptySlot
    <2>2. ASSUME NEW d \in Callers PROVE CallVersions(d)'
      <3>1. CallVersions(d) /\ (pc[d] = "ready" => my[d] \in Slots)
        BY DEF IInv, VersionsInOrder, AtWork, LockPCs
      <3>2. CASE d = c
        BY <1>0, <3>1, <3>2 DEF TakeSnapshot, CallVersions, IInv, TypeOK
      <3>3. CASE d # c
        BY <1>2, <1>4, <3>1, <3>3 DEF TakeSnapshot, CallVersions, IInv
      <3> QED BY <3>2, <3>3
    <2> QED BY <2>1, <2>2 DEF VersionsInOrder
  <1> QED BY <1>5, <1>6, <1>7, <1>8 DEF IInv

-----------------------------------------------------------------------------
(* Steps that take the registry's entries away.                            *)

\* What calls see of them: slots nobody works on may be emptied.
LEMMA FreedInv ==
  ASSUME IInv, Release(slot), TypeOK', UNCHANGED <<tree, caller, sweeping>>
  PROVE  IInv'
  <1>1. \A s \in Slots :
          slot'[s] = slot[s] \/ (slot'[s] = EmptySlot /\ \A d \in Callers : my'[d] # s)
    BY Released DEF IInv, TypeOK
  <1>2. AtWork'
    BY DEF IInv, AtWork, caller
  <1>3. LocksMatchCalls'
    BY <1>1 DEF IInv, AtWork, LocksMatchCalls, CallLocks, SlotLock, Holds, Inside,
       EmptySlot, caller
  <1>4. VersionsInOrder'
    BY <1>1 DEF IInv, AtWork, VersionsInOrder, CallVersions, LockPCs, EmptySlot, caller
  <1> QED BY <1>2, <1>3, <1>4 DEF IInv

\* The registry's type after a removal.
LEMMA RemoveType ==
  ASSUME TypeOK, NEW gone \in SUBSET Projects, Remove(gone)
  PROVE  /\ projects' \in [Projects -> Slots \cup {None}]
         /\ older' \subseteq Projects \X Projects
  BY DEF TypeOK, Remove

\* ClearProject, ClearAll and UnloadRetired keep the invariant.
LEMMA ClearInv ==
  ASSUME IInv, ClearAll \/ UnloadRetired \/ \E p \in Projects : ClearProject(p)
  PROVE  IInv'
  <1>1. PICK gone \in SUBSET Projects : Remove(gone)
    BY DEF ClearAll, UnloadRetired, ClearProject
  <1>2. Release(slot) /\ UNCHANGED <<tree, caller, collector>>
    BY DEF ClearAll, UnloadRetired, ClearProject
  <1>3. slot' \in [Slots -> SlotStates]
    BY <1>2, Released DEF IInv, TypeOK
  <1>4. watchdog' \in {"serving", "retiring", "unloaded"}
    BY DEF ClearAll, UnloadRetired, ClearProject, IInv, TypeOK
  <1>5. TypeOK'
    BY <1>1, <1>2, <1>3, <1>4, RemoveType DEF IInv, TypeOK, caller, collector
  <1> QED BY <1>2, <1>5, FreedInv DEF collector

-----------------------------------------------------------------------------
(* Steps on a free slot.                                                   *)

\* A poisoned slot is emptied when it is taken; its type is kept.
LEMMA LockedSlot ==
  ASSUME IInv, NEW s \in Slots, NEW h \in Callers \cup {None}
  PROVE  /\ Locked(s, h) \in [Slots -> SlotStates]
         /\ \A t \in Slots \ {s} : Locked(s, h)[t] = slot[t]
         /\ Locked(s, h)[s].held = h
         /\ Locked(s, h)[s].stamps <= Locked(s, h)[s].text
  <1>1. slot[s] \in SlotStates /\ slot[s].stamps <= slot[s].text
    BY DEF IInv, TypeOK, VersionsInOrder, collector
  <1> DEFINE r == IF slot[s].poisoned
                  THEN [EmptySlot EXCEPT !.held = h, !.spoiled = slot[s].spoiled]
                  ELSE [slot[s] EXCEPT !.held = h]
  <1>2. r \in SlotStates /\ r.held = h /\ r.stamps <= r.text
    <2>1. CASE slot[s].poisoned
      <3>1. r = Marked(EmptySlot, h, FALSE, slot[s].spoiled)
        BY <2>1 DEF EmptySlot, Marked
      <3>2. Marked(EmptySlot, h, FALSE, slot[s].spoiled) \in SlotStates
        BY <1>1, EmptySlotType, MarkedType DEF SlotStates
      <3> HIDE DEF r
      <3> QED BY <3>1, <3>2 DEF EmptySlot, Marked
    <2>2. CASE ~slot[s].poisoned
      <3>1. r = Marked(slot[s], h, slot[s].poisoned, slot[s].spoiled)
        BY <1>1, <2>2 DEF SlotStates, Marked
      <3>2. Marked(slot[s], h, slot[s].poisoned, slot[s].spoiled) \in SlotStates
        BY <1>1, MarkedType DEF SlotStates
      <3> HIDE DEF r
      <3> QED BY <1>1, <3>1, <3>2 DEF Marked
    <2> QED BY <2>1, <2>2
  <1>3. Locked(s, h) = [slot EXCEPT ![s] = r]
    BY DEF Locked
  <1> HIDE DEF r
  <1> QED BY <1>2, <1>3 DEF IInv, TypeOK

\* Taking a free slot and looking at it: the other slots stay, and only questions that
\* do not hold their slot lose their snapshot's context.
LEMMA WeighInv ==
  ASSUME IInv, NEW c \in Callers, Weigh(c)
  PROVE  IInv'
  <1>1. PICK e \in list[c] :
          LET s == e[2] IN
          /\ slot[s].held = None
          /\ list' = [list EXCEPT ![c] = @ \ {e}]
          /\ IF slot[s].loaded /\ ~slot[s].poisoned
             THEN /\ pc' = [pc EXCEPT ![c] = "weighing"]
                  /\ my' = [my EXCEPT ![c] = s]
                  /\ snap' = Cancelled(s)
             ELSE /\ snap' = Orphaned(s)
                  /\ UNCHANGED <<pc, my>>
          /\ UNCHANGED <<tree, registry, want, attempt, text, stamps, asked, within,
                         collector, watchdog>>
          /\ Release(IF slot[s].loaded /\ ~slot[s].poisoned THEN Locked(s, c)
                     ELSE Locked(s, None))
    BY DEF Weigh
  <1> DEFINE s == e[2]
             taken == slot[s].loaded /\ ~slot[s].poisoned
             h == IF taken THEN c ELSE None
  <1>2. s \in Slots /\ pc[c] = "weigh" /\ h \in Callers \cup {None}
    BY DEF Weigh, IInv, TypeOK
  <1>3. Release(Locked(s, h))
    BY <1>1
  <1>4. /\ slot[s].held = None
        /\ UNCHANGED <<tree, registry, want, attempt, text, stamps, asked, within,
                       collector, watchdog>>
        /\ list' = [list EXCEPT ![c] = @ \ {e}]
        /\ taken => /\ pc' = [pc EXCEPT ![c] = "weighing"]
                    /\ my' = [my EXCEPT ![c] = s]
        /\ ~taken => pc' = pc /\ my' = my
        /\ snap' \in {Cancelled(s), Orphaned(s)}
    BY <1>1
  <1> HIDE DEF s, taken
  <1>5. /\ slot' \in [Slots -> SlotStates]
        /\ \A t \in Slots :
             slot'[t] = Locked(s, h)[t] \/ (slot'[t] = EmptySlot /\ \A d \in Callers : my'[d] # t)
    BY <1>2, <1>3, LockedSlot, Released
  <1>6. \A t \in Slots \ {s} :
          slot'[t] = slot[t] \/ (slot'[t] = EmptySlot /\ \A d \in Callers : my'[d] # t)
    BY <1>2, <1>5, LockedSlot
  <1>7. /\ slot'[s].held = h \/ (slot'[s].held = None /\ \A d \in Callers : my'[d] # s)
        /\ slot'[s].stamps <= slot'[s].text
    <2>1. Locked(s, h)[s].held = h /\ Locked(s, h)[s].stamps <= Locked(s, h)[s].text
      BY <1>2, LockedSlot
    <2> QED BY <1>2, <1>5, <2>1 DEF EmptySlot
  <1>8. \A d \in Callers : snap'[d] # snap[d] => my[d] = s /\ snap[d] # "none"
    BY <1>4 DEF Cancelled, Orphaned, Readers, IInv
  <1>9. TypeOK'
    <2>1. snap' \in [Callers -> Snapshots]
      BY <1>4 DEF Cancelled, Orphaned, IInv, TypeOK, Snapshots
    <2>2. list' \in [Callers -> SUBSET (Projects \X Slots)]
      BY <1>4 DEF IInv, TypeOK
    <2>3. pc' \in [Callers -> PCs] /\ my' \in [Callers -> Slots \cup {None}]
      <3>1. CASE taken
        BY <1>2, <1>4, <3>1 DEF IInv, TypeOK, PCs
      <3>2. CASE ~taken
        BY <1>4, <3>2 DEF IInv, TypeOK
      <3> QED BY <3>1, <3>2
    <2> QED BY <1>4, <1>5, <2>1, <2>2, <2>3 DEF IInv, TypeOK, registry, collector
  <1>10. AtWork'
    BY <1>2, <1>4 DEF IInv, TypeOK, AtWork
  <1>11. LocksMatchCalls'
    <2>1. ASSUME NEW d \in Callers PROVE CallLocks(d)'
      <3>1. CallLocks(d) /\ CallLocks(c) /\ (Holds(d) => my[d] \in Slots /\ my[d] # s)
        BY <1>4, ConstantsAssumption DEF IInv, LocksMatchCalls, AtWork, Holds, CallLocks
      <3>2. CASE d = c
        BY <1>2, <1>4, <1>7, <1>8, <3>1, <3>2 DEF CallLocks, Holds, Inside, LockPCs, IInv,
           TypeOK, collector
      <3>3. CASE d # c
        BY <1>2, <1>4, <1>6, <1>8, <3>1, <3>3 DEF CallLocks, Holds, Inside, IInv, TypeOK,
           collector
      <3> QED BY <3>2, <3>3
    <2>2. ASSUME NEW t \in Slots PROVE SlotLock(t)'
      <3>1. SlotLock(t) /\ slot[t].held \in Callers \cup {None}
        BY DEF IInv, LocksMatchCalls, TypeOK, SlotStates
      <3>2. CASE t = s
        BY <1>2, <1>4, <1>7, <3>2 DEF SlotLock, Holds, LockPCs, IInv, TypeOK
      <3>3. CASE t # s
        BY <1>2, <1>4, <1>6, <3>1, <3>3 DEF SlotLock, Holds, LockPCs, IInv, TypeOK,
           EmptySlot
      <3> QED BY <3>2, <3>3
    <2> QED BY <2>1, <2>2 DEF LocksMatchCalls
  <1>12. VersionsInOrder'
    <2>1. ASSUME NEW t \in Slots PROVE slot'[t].stamps <= slot'[t].text
      BY <1>6, <1>7 DEF IInv, VersionsInOrder, EmptySlot
    <2>2. ASSUME NEW d \in Callers PROVE CallVersions(d)'
      <3>1. CallVersions(d) /\ (pc[d] = "ready" => my[d] \in Slots /\ my[d] # s)
        BY <1>4, ConstantsAssumption DEF IInv, VersionsInOrder, AtWork, LockPCs,
           LocksMatchCalls, CallLocks, Holds
      <3> QED BY <1>2, <1>4, <1>6, <3>1 DEF CallVersions, IInv, TypeOK
    <2> QED BY <2>1, <2>2 DEF VersionsInOrder
  <1> QED BY <1>9, <1>10, <1>11, <1>12 DEF IInv

\* A collection finds every call outside the gate: it disturbs none.
LEMMA SweepSlotInv ==
  ASSUME IInv, NEW s \in Slots, SweepSlot(s)
  PROVE  IInv'
  <1>1. Release(Locked(s, None))
    BY DEF SweepSlot
  <1>2. /\ slot' \in [Slots -> SlotStates]
        /\ \A t \in Slots :
             slot'[t] = Locked(s, None)[t] \/ (slot'[t] = EmptySlot /\ \A d \in Callers : my'[d] # t)
    BY <1>1, LockedSlot, Released
  <1>3. \A t \in Slots \ {s} :
          slot'[t] = slot[t] \/ (slot'[t] = EmptySlot /\ \A d \in Callers : my'[d] # t)
    BY <1>2, LockedSlot
  <1>4. slot'[s].held = None /\ slot'[s].stamps <= slot'[s].text
    <2>1. /\ Locked(s, None)[s].held = None
          /\ Locked(s, None)[s].stamps <= Locked(s, None)[s].text
      BY LockedSlot
    <2> QED BY <1>2, <2>1 DEF EmptySlot
  <1>5. \A d \in Callers : ~Inside(d) /\ snap[d] = "none"
    BY DEF SweepSlot, IInv, LocksMatchCalls, CallLocks, Inside
  <1>6. snap' = snap
    BY <1>5 DEF SweepSlot, Orphaned, Readers, IInv, TypeOK
  <1>7. TypeOK'
    BY <1>2, <1>6 DEF SweepSlot, IInv, TypeOK, registry
  <1>8. AtWork'
    BY DEF SweepSlot, IInv, AtWork
  <1>9. LocksMatchCalls'
    BY <1>3, <1>4, <1>5, <1>6 DEF SweepSlot, IInv, LocksMatchCalls, CallLocks, SlotLock,
       Holds, Inside, LockPCs, EmptySlot
  <1>10. VersionsInOrder'
    BY <1>3, <1>4, <1>5 DEF SweepSlot, IInv, VersionsInOrder, CallVersions, Inside,
       EmptySlot
  <1> QED BY <1>7, <1>8, <1>9, <1>10 DEF IInv

-----------------------------------------------------------------------------
(* How much an eviction leaves.                                            *)

\* The k oldest elements.
Oldest(S, R, k) == {p \in S : Cardinality({q \in S : <<q, p>> \in R}) < k}

\* Of a finite set whose elements are of different ages, all but the k oldest are at
\* most that many fewer.
LEMMA AllButOldest ==
  ASSUME NEW S, IsFiniteSet(S), NEW R, NEW k \in Int,
         \A p, q \in S : p # q => <<p, q>> \in R \/ <<q, p>> \in R,
         \A p, q, r \in S : <<p, q>> \in R /\ <<q, r>> \in R => <<p, r>> \in R,
         \A p \in S : <<p, p>> \notin R
  PROVE  /\ IsFiniteSet(S \ Oldest(S, R, k))
         /\ Cardinality(S \ Oldest(S, R, k))
              <= IF Cardinality(S) > k THEN Cardinality(S) - k ELSE 0
  <1> DEFINE elder(p) == {q \in S : <<q, p>> \in R}
             kept == {p \in S : ~(Cardinality(elder(p)) < k)}
             ranks == k..(Cardinality(S) - 1)
             f == [p \in kept |-> Cardinality(elder(p))]
  <1>1. \A p \in S : /\ IsFiniteSet(elder(p)) /\ Cardinality(elder(p)) \in Nat
                     /\ Cardinality(elder(p)) <= Cardinality(S) - 1
    <2> TAKE p \in S
    <2>1. elder(p) \subseteq S \ {p}
      OBVIOUS
    <2>2. IsFiniteSet(S \ {p}) /\ Cardinality(S \ {p}) = Cardinality(S) - 1
      BY FS_RemoveElement
    <2> HIDE DEF elder
    <2> QED BY <2>1, <2>2, FS_Subset, FS_CardinalityType
  <1>2. \A p, q \in S : <<p, q>> \in R => Cardinality(elder(p)) < Cardinality(elder(q))
    <2> TAKE p, q \in S
    <2> HAVE <<p, q>> \in R
    <2>1. elder(p) \cup {p} \subseteq elder(q) /\ p \notin elder(p)
      OBVIOUS
    <2> HIDE DEF elder
    <2>2. Cardinality(elder(p) \cup {p}) = Cardinality(elder(p)) + 1
      BY <1>1, <2>1, FS_AddElement
    <2>3. Cardinality(elder(p) \cup {p}) <= Cardinality(elder(q))
      BY <1>1, <2>1, FS_Subset
    <2> QED BY <1>1, <2>2, <2>3
  <1>3. Cardinality(S) \in Nat
    BY FS_CardinalityType
  <1>4. f \in [kept -> ranks]
    <2> HIDE DEF elder
    <2> QED BY <1>1, <1>3
  <1>5. \A p, q \in kept : p # q => f[p] # f[q]
    <2> SUFFICES ASSUME NEW p \in kept, NEW q \in kept, p # q
                 PROVE  Cardinality(elder(p)) # Cardinality(elder(q))
      OBVIOUS
    <2>1. p \in S /\ q \in S
      OBVIOUS
    <2>2. <<p, q>> \in R \/ <<q, p>> \in R
      BY <2>1
    <2> HIDE DEF elder
    <2> QED BY <1>1, <1>2, <2>1, <2>2
  <1>6. f \in Injection(kept, ranks)
    BY <1>4, <1>5 DEF Injection, IsInjective
  <1>7. IsFiniteSet(ranks) /\ Cardinality(ranks) = IF k > Cardinality(S) - 1 THEN 0 ELSE Cardinality(S) - 1 - k + 1
    <2>1. Cardinality(S) - 1 \in Int
      BY <1>3
    <2>2. /\ IsFiniteSet(ranks)
          /\ Cardinality(ranks) = IF k > Cardinality(S) - 1 THEN 0 ELSE Cardinality(S) - 1 - k + 1
      BY <2>1, FS_Interval, Zenon
    <2> QED BY <2>2
  <1> HIDE DEF f, kept, ranks
  <1>8. IsFiniteSet(kept) /\ Cardinality(kept) <= Cardinality(ranks)
    BY <1>6, <1>7, FS_Injection
  <1>9. Cardinality(kept) <= IF Cardinality(S) > k THEN Cardinality(S) - k ELSE 0
    BY <1>3, <1>7, <1>8
  <1>10. S \ Oldest(S, R, k) = kept
    BY DEF Oldest, kept
  <1> QED BY <1>8, <1>9, <1>10

\* The registry and its parts are finite.
LEMMA EntriesFinite ==
  ASSUME TypeOK
  PROVE  /\ InRegistry = {p \in Projects : projects[p] # None}
         /\ \A T \in SUBSET InRegistry : IsFiniteSet(T) /\ Cardinality(T) \in Nat
  <1>1. InRegistry = {p \in Projects : projects[p] # None}
    BY DEF InRegistry, TypeOK
  <1>2. \A T \in SUBSET InRegistry : T \in SUBSET Projects
    BY <1>1
  <1> QED BY <1>1, <1>2, ConstantsAssumption, FS_Subset, FS_CardinalityType

\* The entries whose slots are held are no more than the calls.
LEMMA EntriesHeld ==
  ASSUME IInv, RegistryInOrder
  PROVE  LET taken == {p \in InRegistry : slot[projects[p]].held # None}
         IN  Cardinality(taken) <= Cardinality(Callers)
  <1> DEFINE taken == {p \in InRegistry : slot[projects[p]].held # None}
             f == [p \in taken |-> slot[projects[p]].held]
  <1>1. \A p \in taken : /\ projects[p] \in Slots
                         /\ slot[projects[p]].held \in Callers
                         /\ my[slot[projects[p]].held] = projects[p]
    BY DEF IInv, TypeOK, InRegistry, SlotStates, LocksMatchCalls, SlotLock
  <1>2. \A p, q \in taken : p # q => projects[p] # projects[q]
    BY DEF RegistryInOrder
  <1>3. f \in Injection(taken, Callers)
    <2>1. f \in [taken -> Callers]
      BY <1>1
    <2>2. \A p, q \in taken : p # q => f[p] # f[q]
      BY <1>1, <1>2
    <2> QED BY <2>1, <2>2 DEF Injection, IsInjective
  <1> QED BY <1>3, ConstantsAssumption, FS_Injection

\* An eviction that keeps an entry in use leaves at most Cap entries.
LEMMA EvictionLeavesCap ==
  ASSUME IInv, RegistryInOrder, NEW keep \in InRegistry, slot[projects[keep]].held # None,
         MaxProjects > 0
  PROVE  Cardinality(InRegistry \ Evicted(keep)) <= Cap
  <1> DEFINE idle == {p \in InRegistry \ {keep} : slot[projects[p]].held = None}
             over == Cardinality(InRegistry) - MaxProjects
             kept == idle \ Oldest(idle, older, over)
             taken == {p \in InRegistry : slot[projects[p]].held # None}
  <1>1. TypeOK
    BY DEF IInv
  <1>2. /\ IsFiniteSet(InRegistry) /\ IsFiniteSet(idle) /\ IsFiniteSet(taken)
        /\ Cardinality(InRegistry) \in Nat /\ Cardinality(idle) \in Nat
        /\ Cardinality(taken) \in Nat /\ Cardinality(Callers) \in Nat
        /\ MaxProjects \in Nat
    BY <1>1, EntriesFinite, FS_CardinalityType, ConstantsAssumption
  <1>3. Evicted(keep) = Oldest(idle, older, over)
    BY DEF Evicted, Oldest
  <1>4. /\ IsFiniteSet(kept)
        /\ Cardinality(kept) <= IF Cardinality(idle) > over THEN Cardinality(idle) - over ELSE 0
    <2>1. /\ \A p, q \in idle : p # q => <<p, q>> \in older \/ <<q, p>> \in older
          /\ \A p, q, r \in idle : <<p, q>> \in older /\ <<q, r>> \in older => <<p, r>> \in older
          /\ \A p \in idle : <<p, p>> \notin older
      BY DEF RegistryInOrder, EntriesAged
    <2>2. over \in Int
      BY <1>2
    <2>3. IsFiniteSet(idle)
      BY <1>2
    <2> HIDE DEF idle, over, taken
    <2> QED BY <2>1, <2>2, <2>3, AllButOldest
  <1>5. InRegistry \ Evicted(keep) = taken \cup kept
    <2>1. InRegistry = taken \cup idle
      OBVIOUS
    <2>2. taken \cap idle = {}
      OBVIOUS
    <2>3. Oldest(idle, older, over) \subseteq idle
      BY DEF Oldest
    <2> HIDE DEF taken, idle, over
    <2> QED BY <1>3, <2>1, <2>2, <2>3
  <1>6. Cardinality(InRegistry) = Cardinality(taken) + Cardinality(idle)
    <2>1. InRegistry = taken \cup idle /\ taken \cap idle = {}
      OBVIOUS
    <2> HIDE DEF taken, idle
    <2>2. Cardinality(taken \cup idle)
            = Cardinality(taken) + Cardinality(idle) - Cardinality(taken \cap idle)
      BY <1>2, FS_Union
    <2>3. Cardinality(taken \cap idle) = 0
      BY <2>1, FS_EmptySet
    <2> QED BY <1>2, <2>1, <2>2, <2>3
  <1>7. Cardinality(taken \cup kept) <= Cardinality(taken) + Cardinality(kept)
    <2> HIDE DEF taken, kept
    <2>1. IsFiniteSet(taken \cap kept) /\ Cardinality(taken \cap kept) \in Nat
      BY <1>2, FS_Intersection, FS_CardinalityType
    <2>2. Cardinality(taken \cup kept)
            = Cardinality(taken) + Cardinality(kept) - Cardinality(taken \cap kept)
      BY <1>2, <1>4, FS_Union
    <2>3. Cardinality(kept) \in Nat
      BY <1>4, FS_CardinalityType
    <2> QED BY <1>2, <2>1, <2>2, <2>3
  <1>8. Cardinality(taken) <= Cardinality(Callers)
    BY EntriesHeld
  <1>9. Cardinality(kept) \in Nat /\ Cardinality(taken \cup kept) \in Nat
    <2> HIDE DEF taken, kept
    <2> QED BY <1>2, <1>4, FS_Union, FS_CardinalityType
  <1> HIDE DEF taken, kept, idle
  <1> QED BY <1>2, <1>4, <1>5, <1>6, <1>7, <1>8, <1>9 DEF Cap


-----------------------------------------------------------------------------
(* Steps and the entries.                                                  *)

\* The marks of the slots somebody refers to stay, and the other slots bear none.
MarksStay ==
  \A s \in Slots : IF Unused(s)' THEN ~slot'[s].spoiled
                   ELSE slot'[s].spoiled = slot[s].spoiled

\* No entry is made or changed, and the calls at work on an entry that stays are at work
\* on it still, or have spoiled it.
EntriesOnlyGo ==
  \A p \in InRegistry' :
    /\ p \in InRegistry
    /\ projects'[p] = projects[p]
    /\ \A d \in Callers : /\ p \in Spoiled' => (Cleans(d, p) => Cleans(d, p)')
                          /\ Prepares(d, p) => Prepares(d, p)' \/ p \in Spoiled'

\* A finite set of settled entries that only gets smaller stays within the cap.
LEMMA FewerSettled ==
  ASSUME TypeOK, TypeOK', RoomForSettled, Settled' \subseteq Settled
  PROVE  RoomForSettled'
  <1>1. Settled \subseteq InRegistry
    BY DEF Settled
  <1>2. IsFiniteSet(Settled) /\ Cardinality(Settled) \in Nat
    BY <1>1, EntriesFinite
  <1>3. Cardinality(Settled') <= Cardinality(Settled) /\ Cardinality(Settled') \in Nat
    BY <1>2, FS_Subset, FS_CardinalityType
  <1>4. Cap \in Nat /\ Cap' = Cap
    BY ConstantsAssumption, FS_CardinalityType DEF Cap
  <1> QED BY <1>2, <1>3, <1>4 DEF RoomForSettled

\* Entries that are spoiled already keep their cleaners; the ones a panic has spoiled, which
\* are of one slot, have the call that panicked.
LEMMA CleanersKept ==
  ASSUME TypeOK, RegistryInOrder, EachHasItsCleaner, NEW c \in Callers, NEW s,
         \A p \in Spoiled' \cap Spoiled : \A d \in Callers : Cleans(d, p) => Cleans(d, p)',
         \A p \in Spoiled' \ Spoiled :
           /\ p \in InRegistry /\ projects[p] = s
           /\ pc[c] \notin {"panicked", "drop"} /\ pc'[c] = "panicked"
  PROVE  EachHasItsCleaner'
  <1>1. PICK f \in [Spoiled -> Callers] :
          /\ \A p \in Spoiled : Cleans(f[p], p)
          /\ \A p, q \in Spoiled : p # q => f[p] # f[q]
    BY DEF EachHasItsCleaner
  <1>2. PICK g \in [Spoiled' -> Callers] :
          \A p \in Spoiled' : g[p] = IF p \in Spoiled THEN f[p] ELSE c
    <2> DEFINE h == [p \in Spoiled' |-> IF p \in Spoiled THEN f[p] ELSE c]
    <2>1. h \in [Spoiled' -> Callers]
      BY <1>1
    <2> QED BY <2>1
  <1>3. ASSUME NEW p \in Spoiled' PROVE Cleans(g[p], p)'
    <2>1. CASE p \in Spoiled
      <3>1. Cleans(f[p], p)'
        BY <1>1, <2>1
      <3>2. g[p] = f[p]
        BY <1>2, <2>1
      <3> QED BY <3>1, <3>2
    <2>2. CASE p \notin Spoiled
      BY <1>2, <2>2 DEF Cleans
    <2> QED BY <2>1, <2>2
  <1>4. ASSUME NEW p \in Spoiled', NEW q \in Spoiled', p # q PROVE g[p] # g[q]
    <2>1. \A r \in Spoiled : pc[f[r]] \in {"panicked", "drop"}
      BY <1>1 DEF Cleans
    <2>2. CASE p \in Spoiled /\ q \in Spoiled
      BY <1>1, <1>2, <1>4, <2>2
    <2>3. CASE p \notin Spoiled /\ q \notin Spoiled
      BY <1>2, <1>4, <2>3 DEF RegistryInOrder
    <2>4. CASE ~(p \in Spoiled <=> q \in Spoiled)
      BY <1>2, <2>1, <2>4
    <2> QED BY <2>2, <2>3, <2>4
  <1> QED BY <1>2, <1>3, <1>4 DEF EachHasItsCleaner

\* When no call is there to clean, no entry is spoiled.
LEMMA NoCallsNoMarks ==
  ASSUME EachHasItsCleaner, Callers = {}
  PROVE  Spoiled = {}
  BY DEF EachHasItsCleaner

\* The order of the entries that stay is as it was.
LEMMA RemoveOrder ==
  ASSUME TypeOK, NEW gone \in SUBSET Projects, Remove(gone)
  PROVE  /\ InRegistry' = InRegistry \ gone
         /\ \A p \in InRegistry' : projects'[p] = projects[p]
         /\ EntriesAged => EntriesAged'
  <1>1. /\ InRegistry' = InRegistry \ gone
        /\ \A p \in InRegistry' : projects'[p] = projects[p]
    BY DEF TypeOK, Remove, InRegistry
  <1>2. \A p, q \in InRegistry' : <<p, q>> \in older' <=> <<p, q>> \in older
    BY <1>1 DEF Remove
  <1> QED BY <1>1, <1>2 DEF EntriesAged

\* A step that leaves the registry alone or takes entries out, and spoils no slot but of
\* entries whose call panics, keeps the registry's invariant.
LEMMA OrdinaryStep ==
  ASSUME IInv, TypeOK', RegistryInv, MarksStay, EntriesOnlyGo,
         UNCHANGED registry \/ \E gone \in SUBSET Projects : Remove(gone),
         \A c \in Callers : CallHolds(c)',
         sweeping' \/ gc' = {}
  PROVE  RegistryInv'
  <1>1. TypeOK /\ RegistryInOrder /\ EachHasItsCleaner /\ RoomForSettled
    BY DEF IInv, RegistryInv
  <1>2. EntriesAged'
    <2>1. CASE UNCHANGED registry
      BY <1>1, <2>1 DEF registry, RegistryInOrder, EntriesAged, InRegistry
    <2>2. CASE \E gone \in SUBSET Projects : Remove(gone)
      BY <1>1, <2>2, RemoveOrder DEF RegistryInOrder
    <2> QED BY <2>1, <2>2
  <1>3. RegistryInOrder'
    BY <1>1, <1>2 DEF RegistryInOrder, MarksStay, EntriesOnlyGo
  <1>4. \A p \in InRegistry' : projects[p] \in Slots /\ slot'[projects[p]].spoiled = slot[projects[p]].spoiled
    <2> TAKE p \in InRegistry'
    <2>1. projects'[p] = projects[p] /\ p \in Projects /\ projects'[p] \in Slots
      BY DEF EntriesOnlyGo, InRegistry, TypeOK
    <2>2. ~Unused(projects[p])'
      BY <2>1 DEF Unused
    <2> QED BY <2>1, <2>2 DEF MarksStay
  <1>5. Spoiled' = Spoiled \cap InRegistry'
    BY <1>4 DEF Spoiled, EntriesOnlyGo
  <1>6. EachHasItsCleaner'
    <2>1. CASE Callers = {}
      BY <1>1, <1>5, <2>1, NoCallsNoMarks DEF EachHasItsCleaner
    <2>2. CASE Callers # {}
      <3>1. PICK c \in Callers : TRUE
        BY <2>2
      <3>2. \A p \in Spoiled' : p \in Spoiled /\ \A d \in Callers : Cleans(d, p) => Cleans(d, p)'
        BY <1>5 DEF EntriesOnlyGo
      <3> QED BY <1>1, <3>1, <3>2, CleanersKept
    <2> QED BY <2>1, <2>2
  <1>7. Settled' \subseteq Settled
    BY <1>5 DEF Settled, EntriesOnlyGo
  <1> QED BY <1>1, <1>3, <1>6, <1>7, FewerSettled DEF RegistryInv


-----------------------------------------------------------------------------
(* Steps of a call that leave the registry alone and give no slot up.      *)

\* The others are where they were.
OthersWait(c) ==
  \A d \in Callers \ {c} :
    pc'[d] = pc[d] /\ want'[d] = want[d] /\ my'[d] = my[d] /\ list'[d] = list[d]

\* A call that keeps its slot and its entries, and its work on an entry.
LEMMA CallKeepsOn ==
  ASSUME IInv, TypeOK', RegistryInv, NEW c \in Callers, OthersWait(c),
         UNCHANGED <<registry, collector>>,
         \A s \in Slots : slot'[s].spoiled = slot[s].spoiled,
         CallHolds(c)',
         my'[c] = my[c] \/ my[c] = None,
         list[c] \subseteq list'[c],
         \A p \in Spoiled : Cleans(c, p) => Cleans(c, p)',
         \A p \in InRegistry : Prepares(c, p) => Prepares(c, p)'
  PROVE  RegistryInv'
  <1>1. TypeOK /\ RegistryInOrder
    BY DEF IInv, RegistryInv
  <1>2. \A s \in Slots : Unused(s)' => Unused(s)
    BY ConstantsAssumption DEF Unused, OthersWait, registry, collector
  <1>3. MarksStay
    BY <1>1, <1>2 DEF MarksStay, RegistryInOrder
  <1>4. Spoiled' = Spoiled /\ InRegistry' = InRegistry
    BY <1>1 DEF Spoiled, InRegistry, registry, TypeOK
  <1>5. EntriesOnlyGo
    BY <1>4 DEF EntriesOnlyGo, OthersWait, Cleans, Prepares, registry
  <1>6. \A d \in Callers : CallHolds(d)'
    BY <1>1 DEF RegistryInOrder, OthersWait, CallHolds
  <1>7. sweeping' \/ gc' = {}
    BY <1>1 DEF RegistryInOrder, collector
  <1> QED BY <1>3, <1>5, <1>6, <1>7, OrdinaryStep

\* Calls that come in, wait, look and go.
LEMMA CallsOnTheirWay ==
  ASSUME IInv, TypeOK', RegistryInv, NEW c \in Callers,
         \/ \E p \in Projects : RunAdmitted(c, p)
         \/ EnterShared(c) \/ WorksElsewhere(c) \/ Fresh(c) \/ Edited(c) \/ ReadEdits(c)
         \/ AskAgain(c) \/ ListLoaded(c) \/ Portrait(c)
  PROVE  RegistryInv'
  <1>1. TypeOK /\ CallHolds(c)
    BY DEF IInv, RegistryInv, RegistryInOrder
  <1>2. /\ UNCHANGED <<registry, collector>>
        /\ slot' = slot
        /\ OthersWait(c)
    BY <1>1 DEF OthersWait, TypeOK, RunAdmitted, EnterShared, WorksElsewhere, Ends, Fresh, Edited,
       ReadEdits, AskAgain, ListLoaded, Portrait
  <1>3. pc[c] \notin {"panicked", "drop"}
    BY DEF RunAdmitted, EnterShared, WorksElsewhere, Fresh, Edited, ReadEdits, AskAgain,
       ListLoaded, Portrait
  <1>4. CallHolds(c)' /\ (my'[c] = my[c] \/ my[c] = None) /\ list[c] \subseteq list'[c]
    BY <1>1 DEF CallHolds, TypeOK, RunAdmitted, EnterShared, WorksElsewhere, Ends, Fresh, Edited,
       ReadEdits, AskAgain, ListLoaded, Portrait
  <1>5. \A p \in InRegistry : Prepares(c, p) => Prepares(c, p)'
    BY <1>1, <1>2 DEF Prepares, TypeOK, RunAdmitted, EnterShared, WorksElsewhere, Ends, Fresh,
       Edited, ReadEdits, AskAgain, ListLoaded, Portrait, registry
  <1> QED BY <1>2, <1>3, <1>4, <1>5, CallKeepsOn DEF Cleans

\* Taking a slot leaves its mark.
LEMMA LockedMarks ==
  ASSUME IInv, NEW s \in Slots, NEW h \in Callers \cup {None}
  PROVE  /\ Locked(s, h) \in [Slots -> SlotStates]
         /\ \A t \in Slots : Locked(s, h)[t].spoiled = slot[t].spoiled
  <1>1. slot \in [Slots -> SlotStates]
    BY DEF IInv, TypeOK
  <1>2. /\ [slot[s] EXCEPT !.held = h].spoiled = slot[s].spoiled
        /\ [EmptySlot EXCEPT !.held = h, !.spoiled = slot[s].spoiled].spoiled = slot[s].spoiled
    BY <1>1 DEF SlotStates, EmptySlot
  <1>3. \A t \in Slots : Locked(s, h)[t].spoiled = slot[t].spoiled
    BY <1>1, <1>2 DEF Locked
  <1> QED BY <1>3, LockedSlot

\* Calls that take their slot or change its context.
LEMMA CallsAtTheirSlot ==
  ASSUME IInv, TypeOK', RegistryInv, NEW c \in Callers,
         Lock(c) \/ ApplyEdits(c) \/ BeginLoad(c) \/ EndLoad(c)
  PROVE  RegistryInv'
  <1>1. TypeOK /\ CallHolds(c) /\ my[c] \in Slots
    BY DEF IInv, RegistryInv, RegistryInOrder, AtWork, LockPCs, Lock, ApplyEdits, BeginLoad,
       EndLoad
  <1>2. /\ UNCHANGED <<registry, collector, want, my, list>>
        /\ OthersWait(c)
        /\ pc[c] \in {"lock", "held", "patch", "apply", "load", "ready"}
        /\ pc'[c] \in {"lock", "held", "patch", "apply", "load", "ready"}
    BY <1>1 DEF OthersWait, TypeOK, Lock, ApplyEdits, BeginLoad, EndLoad
  <1>3. \A s \in Slots : slot'[s].spoiled = slot[s].spoiled
    <2>1. CASE Lock(c)
      BY <1>1, <2>1, LockedMarks DEF Lock
    <2>2. CASE ApplyEdits(c) \/ BeginLoad(c)
      BY <1>1, <2>2 DEF TypeOK, SlotStates, ApplyEdits, BeginLoad
    <2>3. CASE EndLoad(c)
      <3>1. PICK v \in stamps[c]..tree[want[c]] :
              slot' = [slot EXCEPT ![my[c]].loaded = TRUE, ![my[c]].stamps = stamps[c],
                                   ![my[c]].text = v]
        BY <2>3 DEF EndLoad
      <3> QED BY <1>1, <3>1 DEF TypeOK, SlotStates
    <2> QED BY <2>1, <2>2, <2>3
  <1>4. CallHolds(c)' /\ \A p \in InRegistry : Prepares(c, p) => Prepares(c, p)'
    BY <1>1, <1>2 DEF CallHolds, Prepares, registry
  <1> QED BY <1>2, <1>3, <1>4, CallKeepsOn DEF Cleans

\* A call that looks for the interrupted entries finds every spoiled one.
LEMMA FindInterruptedReg ==
  ASSUME IInv, TypeOK', RegistryInv, NEW c \in Callers, FindInterrupted(c)
  PROVE  RegistryInv'
  <1>1. TypeOK /\ CallHolds(c)
    BY DEF IInv, RegistryInv, RegistryInOrder
  <1>2. /\ UNCHANGED <<registry, collector, slot, my>>
        /\ OthersWait(c)
        /\ pc'[c] = "drop" /\ list[c] = {}
    BY <1>1 DEF OthersWait, TypeOK, FindInterrupted, CallHolds
  <1>3. \A p \in Spoiled : <<p, projects[p]>> \in list'[c]
    BY <1>1 DEF Spoiled, InRegistry, TypeOK, FindInterrupted, Entries
  <1>4. CallHolds(c)'
    BY <1>1, <1>2 DEF CallHolds, FindInterrupted
  <1>5. \A p \in InRegistry : ~Prepares(c, p)
    BY DEF Prepares, FindInterrupted
  <1> QED BY <1>2, <1>3, <1>4, <1>5, CallKeepsOn DEF Cleans, registry


\* The collection, the watchdog and the editor: they keep to themselves.
LEMMA OthersReg ==
  ASSUME IInv, TypeOK', RegistryInv,
         \/ TryExclusive \/ SweepEnds \/ Retire
         \/ \E p \in Projects : Edit(p)
         \/ UNCHANGED vars
  PROVE  RegistryInv'
  <1>1. TypeOK /\ RegistryInOrder
    BY DEF IInv, RegistryInv
  <1>2. UNCHANGED <<registry, slot, caller>> /\ gc \subseteq gc' /\ (sweeping' \/ gc' = {})
    BY <1>1 DEF TryExclusive, SweepEnds, Retire, Edit, vars, registry, collector, caller,
       RegistryInOrder
  <1>3. \A s \in Slots : Unused(s)' => Unused(s)
    BY <1>2 DEF Unused, registry, caller
  <1>4. MarksStay
    BY <1>1, <1>2, <1>3 DEF MarksStay, RegistryInOrder
  <1>5. EntriesOnlyGo
    BY <1>2 DEF EntriesOnlyGo, InRegistry, Cleans, Prepares, registry, caller
  <1>6. \A d \in Callers : CallHolds(d)'
    BY <1>1, <1>2 DEF RegistryInOrder, CallHolds, caller
  <1> QED BY <1>2, <1>4, <1>5, <1>6, OrdinaryStep

-----------------------------------------------------------------------------
(* Steps that give slots up.                                               *)

\* What is left of the marks.
LEMMA ReleasedMarks ==
  ASSUME NEW f \in [Slots -> SlotStates], Release(f),
         \A s \in Slots : f[s].spoiled = slot[s].spoiled
  PROVE  MarksStay
  <1>1. EmptySlot.spoiled = FALSE
    BY DEF EmptySlot
  <1> QED BY <1>1 DEF Release, MarksStay

\* A call that ends, with entries of the registry or with none.
LEMMA CallsThatLeave ==
  ASSUME IInv, TypeOK', RegistryInv, NEW c \in Callers, Answer(c) \/ LoadFails(c) \/ Weighed(c)
  PROVE  RegistryInv'
  <1>1. TypeOK /\ RegistryInOrder /\ CallHolds(c) /\ my[c] \in Slots
    BY DEF IInv, RegistryInv, RegistryInOrder, AtWork, LockPCs, Answer, LoadFails, Weighed
  <1>0. my[c] \in Slots /\ slot \in [Slots -> SlotStates]
    BY <1>1 DEF TypeOK
  <1>2. OthersWait(c) /\ collector' = collector
    BY <1>1 DEF OthersWait, TypeOK, Answer, LoadFails, Weighed, Ends, collector
  <1>3. MarksStay
    <2>1. CASE Answer(c) \/ Weighed(c)
      <3>1. LetGo(c) \in [Slots -> SlotStates]
        BY <1>0 DEF SlotStates, LetGo
      <3>2. \A s \in Slots : LetGo(c)[s].spoiled = slot[s].spoiled
        BY <1>1 DEF TypeOK, SlotStates, LetGo
      <3> QED BY <2>1, <3>1, <3>2, ReleasedMarks DEF Answer, Weighed
    <2>2. CASE LoadFails(c)
      <3> DEFINE f == [slot EXCEPT ![my[c]].held = None]
      <3>1. f \in [Slots -> SlotStates]
        BY <1>0 DEF SlotStates
      <3>2. \A s \in Slots : f[s].spoiled = slot[s].spoiled
        BY <1>1 DEF TypeOK, SlotStates
      <3>3. Release(f)
        BY <2>2 DEF LoadFails
      <3> HIDE DEF f
      <3> QED BY <3>1, <3>2, <3>3, ReleasedMarks
    <2> QED BY <2>1, <2>2
  <1>4. UNCHANGED registry \/ \E gone \in SUBSET Projects : Remove(gone)
    BY <1>1 DEF Answer, LoadFails, Weighed, TypeOK, AtWork, IInv
  <1>5. EntriesOnlyGo
    <2>1. \A p \in InRegistry' : p \in InRegistry /\ projects'[p] = projects[p]
      BY <1>1, <1>4, RemoveOrder DEF registry, InRegistry
    <2>2. \A p \in InRegistry' : ~Prepares(c, p) /\ ~Cleans(c, p)
      BY <1>1, <2>1 DEF Prepares, Cleans, Answer, LoadFails, Weighed, Remove, InRegistry, TypeOK
    <2> QED BY <1>2, <2>1, <2>2 DEF EntriesOnlyGo, OthersWait, Prepares, Cleans
  <1>6. \A d \in Callers : CallHolds(d)'
    BY <1>1, <1>2 DEF RegistryInOrder, OthersWait, CallHolds, TypeOK, Answer, LoadFails, Weighed, Ends
  <1>7. sweeping' \/ gc' = {}
    BY <1>1, <1>2 DEF RegistryInOrder, collector
  <1> QED BY <1>3, <1>4, <1>5, <1>6, <1>7, OrdinaryStep

\* A call that weighs a slot.
LEMMA WeighReg ==
  ASSUME IInv, TypeOK', RegistryInv, NEW c \in Callers, Weigh(c)
  PROVE  RegistryInv'
  <1>1. TypeOK /\ RegistryInOrder /\ CallHolds(c) /\ pc[c] = "weigh"
    BY DEF IInv, RegistryInv, RegistryInOrder, Weigh
  <1>2. PICK e \in list[c], h \in {c, None} :
          /\ Release(Locked(e[2], h))
          /\ list' = [list EXCEPT ![c] = @ \ {e}]
          /\ \/ pc' = [pc EXCEPT ![c] = "weighing"] /\ my' = [my EXCEPT ![c] = e[2]]
             \/ UNCHANGED <<pc, my>>
          /\ UNCHANGED <<registry, collector, want>>
    BY DEF Weigh, collector
  <1>3. e[2] \in Slots
    BY <1>1, <1>2 DEF TypeOK
  <1>4. MarksStay
    BY <1>1, <1>2, <1>3, LockedMarks, ReleasedMarks
  <1>5. OthersWait(c) /\ pc'[c] \in {"weigh", "weighing"} /\ (pc'[c] = "weigh" => my'[c] = my[c])
    BY <1>1, <1>2 DEF OthersWait, TypeOK
  <1>6. EntriesOnlyGo
    BY <1>1, <1>2, <1>5 DEF EntriesOnlyGo, OthersWait, Prepares, Cleans, InRegistry, registry
  <1>7. \A d \in Callers : CallHolds(d)'
    BY <1>1, <1>5 DEF RegistryInOrder, OthersWait, CallHolds
  <1>8. sweeping' \/ gc' = {}
    BY <1>1, <1>2 DEF RegistryInOrder, collector
  <1> QED BY <1>2, <1>4, <1>6, <1>7, <1>8, OrdinaryStep

\* A slot the collection sweeps.
LEMMA SweepSlotReg ==
  ASSUME IInv, TypeOK', RegistryInv, NEW s \in Slots, SweepSlot(s)
  PROVE  RegistryInv'
  <1>1. TypeOK /\ RegistryInOrder
    BY DEF IInv, RegistryInv
  <1>2. UNCHANGED <<registry, pc, want, my, list, sweeping>> /\ sweeping /\ Release(Locked(s, None))
    BY DEF SweepSlot
  <1>3. MarksStay
    BY <1>1, <1>2, LockedMarks, ReleasedMarks
  <1>4. EntriesOnlyGo
    BY <1>2 DEF EntriesOnlyGo, Prepares, Cleans, InRegistry, registry
  <1>5. \A d \in Callers : CallHolds(d)'
    BY <1>1, <1>2 DEF RegistryInOrder, CallHolds
  <1> QED BY <1>2, <1>3, <1>4, <1>5, OrdinaryStep

\* Entries that are cleared.
LEMMA ClearReg ==
  ASSUME IInv, TypeOK', RegistryInv,
         ClearAll \/ UnloadRetired \/ \E p \in Projects : ClearProject(p)
  PROVE  RegistryInv'
  <1>1. TypeOK /\ RegistryInOrder
    BY DEF IInv, RegistryInv
  <1>2. PICK gone \in SUBSET Projects : Remove(gone)
    BY DEF ClearAll, UnloadRetired, ClearProject
  <1>3. Release(slot) /\ UNCHANGED <<caller, collector>>
    BY DEF ClearAll, UnloadRetired, ClearProject
  <1>4. MarksStay
    BY <1>1, <1>3, ReleasedMarks DEF TypeOK
  <1>5. EntriesOnlyGo
    BY <1>1, <1>2, <1>3, RemoveOrder DEF EntriesOnlyGo, Prepares, Cleans, caller
  <1>6. \A d \in Callers : CallHolds(d)'
    BY <1>1, <1>3 DEF RegistryInOrder, CallHolds, caller
  <1>7. sweeping' \/ gc' = {}
    BY <1>1, <1>3 DEF RegistryInOrder, collector
  <1> QED BY <1>2, <1>4, <1>5, <1>6, <1>7, OrdinaryStep


\* The interrupted entries leave: none of those the call was to take out is left.
LEMMA UnloadInterruptedReg ==
  ASSUME IInv, TypeOK', RegistryInv, NEW c \in Callers, UnloadInterrupted(c)
  PROVE  RegistryInv'
  <1>1. TypeOK /\ RegistryInOrder /\ CallHolds(c)
    BY DEF IInv, RegistryInv, RegistryInOrder
  <1> DEFINE gone == IF list[c] = {} THEN Projects
                     ELSE {p \in Projects : <<p, projects[p]>> \in list[c]}
  <1>2. gone \in SUBSET Projects /\ Remove(gone)
    BY DEF UnloadInterrupted
  <1>3. OthersWait(c) /\ UNCHANGED collector /\ Release(slot)
    BY <1>1 DEF OthersWait, TypeOK, UnloadInterrupted, Ends
  <1>4. MarksStay
    BY <1>1, <1>3, ReleasedMarks DEF TypeOK
  <1>5. \A p \in InRegistry' : p \in InRegistry \ gone /\ projects'[p] = projects[p]
    BY <1>1, <1>2, RemoveOrder
  <1>6. \A p \in InRegistry' : ~Prepares(c, p) /\ ~Cleans(c, p)
    <2> TAKE p \in InRegistry'
    <2>1. p \in Projects /\ p \notin gone
      BY <1>1, <1>5, EntriesFinite
    <2>2. <<p, projects[p]>> \notin list[c]
      BY <2>1
    <2> QED BY <2>2 DEF Prepares, Cleans, UnloadInterrupted
  <1>7. EntriesOnlyGo
    BY <1>3, <1>5, <1>6 DEF EntriesOnlyGo, OthersWait, Prepares, Cleans
  <1>8. \A d \in Callers : CallHolds(d)'
    BY <1>1, <1>3 DEF RegistryInOrder, OthersWait, CallHolds, TypeOK, UnloadInterrupted, Ends
  <1>9. sweeping' \/ gc' = {}
    BY <1>1, <1>3 DEF RegistryInOrder, collector
  <1> HIDE DEF gone
  <1> QED BY <1>2, <1>4, <1>7, <1>8, <1>9, OrdinaryStep

\* A panic that spoils no slot.
LEMMA PanicElsewhereReg ==
  ASSUME IInv, TypeOK', RegistryInv, NEW c \in Callers, PanicOutside(c) \/ PanicWeighing(c)
  PROVE  RegistryInv'
  <1>1. TypeOK /\ RegistryInOrder /\ CallHolds(c)
    BY DEF IInv, RegistryInv, RegistryInOrder
  <1>2. OthersWait(c) /\ UNCHANGED <<registry, collector>>
    BY <1>1 DEF OthersWait, TypeOK, PanicOutside, PanicWeighing, Unwinds
  <1>3. MarksStay
    <2>1. CASE PanicOutside(c)
      BY <1>1, <2>1, ReleasedMarks DEF TypeOK, PanicOutside, Unwinds
    <2>2. CASE PanicWeighing(c)
      <3> DEFINE f == [slot EXCEPT ![my[c]].held = None, ![my[c]].poisoned = TRUE]
      <3>1. my[c] \in Slots /\ slot \in [Slots -> SlotStates]
        BY <2>2 DEF IInv, TypeOK, AtWork, LockPCs, PanicWeighing
      <3>2. f \in [Slots -> SlotStates]
        BY <3>1 DEF SlotStates
      <3>3. \A s \in Slots : f[s].spoiled = slot[s].spoiled
        BY <3>1 DEF SlotStates
      <3>4. Release(f)
        BY <2>2 DEF PanicWeighing, Unwinds
      <3> HIDE DEF f
      <3> QED BY <3>2, <3>3, <3>4, ReleasedMarks
    <2> QED BY <2>1, <2>2
  <1>4. EntriesOnlyGo
    BY <1>1, <1>2 DEF EntriesOnlyGo, OthersWait, Prepares, Cleans, InRegistry, registry,
       PanicOutside, PanicWeighing
  <1>5. \A d \in Callers : CallHolds(d)'
    BY <1>1, <1>2 DEF RegistryInOrder, OthersWait, CallHolds, TypeOK, PanicOutside,
       PanicWeighing, Unwinds
  <1>6. sweeping' \/ gc' = {}
    BY <1>1, <1>2 DEF RegistryInOrder, collector
  <1> QED BY <1>2, <1>3, <1>4, <1>5, <1>6, OrdinaryStep

\* A panic in a context spoils the entry of its slot, if there is one, and is itself the
\* call that cleans up after it.
LEMMA PanicInContextReg ==
  ASSUME IInv, TypeOK', RegistryInv, NEW c \in Callers, PanicHolding(c) \/ PanicInQuery(c)
  PROVE  RegistryInv'
  <1>1. /\ TypeOK /\ RegistryInOrder /\ EachHasItsCleaner /\ RoomForSettled
        /\ my[c] \in Slots /\ pc[c] \notin {"panicked", "drop"}
    BY DEF IInv, RegistryInv, AtWork, LockPCs, PanicHolding, PanicInQuery
  <1>2. OthersWait(c) /\ UNCHANGED <<registry, collector>> /\ pc'[c] = "panicked"
    BY <1>1 DEF OthersWait, TypeOK, PanicHolding, PanicInQuery, Unwinds
  <1>3. \A s \in Slots : IF Unused(s)' THEN ~slot'[s].spoiled
                         ELSE slot'[s].spoiled = (s = my[c] \/ slot[s].spoiled)
    <2> DEFINE f == [slot EXCEPT ![my[c]].held = None, ![my[c]].poisoned = TRUE,
                                 ![my[c]].spoiled = TRUE]
               g == [slot EXCEPT ![my[c]].held = IF @ = c THEN None ELSE @,
                                 ![my[c]].poisoned = @ \/ slot[my[c]].held = c,
                                 ![my[c]].spoiled = TRUE]
    <2>1. my[c] \in Slots /\ slot \in [Slots -> SlotStates]
      BY <1>1 DEF TypeOK
    <2>2. \A s \in Slots : f[s].spoiled = (s = my[c] \/ slot[s].spoiled)
      BY <2>1 DEF SlotStates
    <2>3. \A s \in Slots : g[s].spoiled = (s = my[c] \/ slot[s].spoiled)
      BY <2>1 DEF SlotStates
    <2>4. Release(f) \/ Release(g)
      BY DEF PanicHolding, PanicInQuery, Unwinds
    <2>5. EmptySlot.spoiled = FALSE
      BY DEF EmptySlot
    <2> HIDE DEF f, g
    <2> QED BY <2>2, <2>3, <2>4, <2>5 DEF Release
  <1>4. InRegistry' = InRegistry /\ projects' = projects /\ older' = older
    BY <1>2 DEF registry, InRegistry
  <1>5. \A p \in InRegistry : projects[p] \in Slots /\ ~Unused(projects[p])'
    BY <1>1, <1>4 DEF TypeOK, InRegistry, Unused
  <1>6. \A p \in InRegistry : p \in Spoiled' <=> p \in Spoiled \/ projects[p] = my[c]
    BY <1>3, <1>4, <1>5 DEF Spoiled
  <1>7. Spoiled' \subseteq InRegistry /\ Spoiled \subseteq Spoiled'
    BY <1>4, <1>6 DEF Spoiled
  <1>8. RegistryInOrder'
    <2>1. \A d \in Callers : CallHolds(d)'
      BY <1>1, <1>2 DEF RegistryInOrder, OthersWait, CallHolds, TypeOK, PanicHolding,
         PanicInQuery, Unwinds
    <2>2. EntriesAged'
      BY <1>1, <1>4 DEF RegistryInOrder, EntriesAged
    <2> QED BY <1>1, <1>2, <1>3, <1>4, <2>1, <2>2 DEF RegistryInOrder, collector
  <1>9. EachHasItsCleaner'
    <2>1. \A p \in Spoiled' \cap Spoiled : \A d \in Callers : Cleans(d, p) => Cleans(d, p)'
      BY <1>1, <1>2, <1>4 DEF Cleans, OthersWait
    <2>2. \A p \in Spoiled' \ Spoiled : p \in InRegistry /\ projects[p] = my[c]
      BY <1>6, <1>7
    <2> QED BY <1>1, <1>2, <2>1, <2>2, CleanersKept
  <1>10. Settled' \subseteq Settled
    <2>1. \A p \in InRegistry \ Spoiled' : ~Prepares(c, p)
      BY <1>6 DEF Prepares
    <2>2. \A p \in InRegistry, d \in Callers \ {c} : Prepares(d, p) => Prepares(d, p)'
      BY <1>2, <1>4 DEF Prepares, OthersWait
    <2> QED BY <1>4, <1>7, <2>1, <2>2 DEF Settled
  <1> QED BY <1>1, <1>8, <1>9, <1>10, FewerSettled DEF RegistryInv

-----------------------------------------------------------------------------
(* Steps that make an entry the newest.                                    *)

\* The newest entry is the youngest of all.
LEMMA NewestAged ==
  ASSUME EntriesAged, NEW p, NEW kept,
         kept \ {p} \subseteq InRegistry,
         InRegistry' = kept \cup {p},
         older' = Newest(p, kept)
  PROVE  EntriesAged'
  <1>1. \A q, r \in kept \cup {p} :
          <<q, r>> \in older' <=> /\ q # p
                                  /\ r = p \/ <<q, r>> \in older
    BY DEF Newest
  <1>2. \A q, r \in InRegistry' : q # r => <<q, r>> \in older' \/ <<r, q>> \in older'
    BY <1>1 DEF EntriesAged
  <1>3. \A q, r, t \in InRegistry' : <<q, r>> \in older' /\ <<r, t>> \in older' => <<q, t>> \in older'
    BY <1>1 DEF EntriesAged
  <1>4. \A q \in InRegistry' : <<q, q>> \notin older'
    BY <1>1 DEF EntriesAged
  <1> QED BY <1>2, <1>3, <1>4 DEF EntriesAged


\* A call finds the entry of its project, or makes one and prepares it.
LEMMA SlotForReg ==
  ASSUME IInv, TypeOK', RegistryInv, NEW c \in Callers, SlotFor(c)
  PROVE  RegistryInv'
  <1>1. /\ TypeOK /\ RegistryInOrder /\ EachHasItsCleaner /\ RoomForSettled /\ CallHolds(c)
        /\ pc[c] = "inside" /\ want[c] \in Projects
    BY DEF IInv, RegistryInv, RegistryInOrder, AtWork, SlotFor
  <1>2. /\ OthersWait(c) /\ UNCHANGED <<slot, want, list, collector>>
        /\ pc'[c] = "lock"
        /\ CallHolds(c)'
    BY <1>1 DEF OthersWait, CallHolds, TypeOK, SlotFor
  <1>3. my[c] = None /\ \A p : ~Prepares(c, p) /\ ~Cleans(c, p)
    BY <1>1 DEF CallHolds, Prepares, Cleans
  <1>4. CASE projects[want[c]] # None
    <2>1. UNCHANGED registry
      BY <1>4 DEF SlotFor
    <2> QED BY <1>2, <1>3, <2>1, CallKeepsOn
  <1>5. CASE projects[want[c]] = None
    <2> DEFINE p == want[c]
    <2>1. PICK s \in Slots :
            /\ Unused(s)
            /\ projects' = [projects EXCEPT ![p] = s]
            /\ older' = Newest(p, InRegistry)
            /\ my' = [my EXCEPT ![c] = s]
      BY <1>5 DEF SlotFor
    <2>2. /\ ~slot[s].spoiled /\ s # None
          /\ p \notin InRegistry /\ InRegistry' = InRegistry \cup {p}
          /\ projects'[p] = s /\ my'[c] = s
          /\ \A q \in InRegistry : projects'[q] = projects[q] /\ projects[q] # s
      BY <1>1, <1>5, <2>1, ConstantsAssumption DEF RegistryInOrder, InRegistry, TypeOK, Unused
    <2>3. Spoiled' = Spoiled
      BY <1>2, <2>2 DEF Spoiled
    <2>4. RegistryInOrder'
      <3>1. \A t \in Slots : Unused(t)' => Unused(t)
        BY <1>1, <1>2, <1>3, <1>5, <2>1, ConstantsAssumption DEF Unused, TypeOK, collector
      <3>2. \A d \in Callers : CallHolds(d)'
        BY <1>1, <1>2 DEF RegistryInOrder, OthersWait, CallHolds
      <3>3. EntriesAged'
        BY <1>1, <2>1, <2>2, NewestAged DEF RegistryInOrder
      <3> QED BY <1>1, <1>2, <2>2, <3>1, <3>2, <3>3 DEF RegistryInOrder, collector
    <2>5. EachHasItsCleaner'
      <3>1. \A q \in Spoiled : projects'[q] = projects[q]
        BY <2>2 DEF Spoiled
      <3>2. \A q \in Spoiled, d \in Callers : Cleans(d, q) => Cleans(d, q)'
        BY <1>2, <1>3, <3>1 DEF Cleans, OthersWait
      <3> QED BY <1>1, <2>3, <3>2, CleanersKept
    <2>6. Settled' \subseteq Settled
      <3>1. ASSUME NEW q, q = p PROVE Prepares(c, q)'
        BY <1>2, <2>2, <3>1 DEF Prepares
      <3>2. \A q \in InRegistry, d \in Callers : Prepares(d, q) => Prepares(d, q)'
        BY <1>2, <1>3, <2>2 DEF Prepares, OthersWait
      <3>3. ASSUME NEW q \in Settled' PROVE q \in Settled
        <4>1. q \in InRegistry' /\ q \notin Spoiled' /\ \A d \in Callers : ~Prepares(d, q)'
          BY DEF Settled
        <4>2. q \in InRegistry
          BY <2>2, <3>1, <4>1
        <4> QED BY <2>3, <3>2, <4>1, <4>2 DEF Settled
      <3> QED BY <3>3
    <2> QED BY <1>1, <2>4, <2>5, <2>6, FewerSettled DEF RegistryInv
  <1> QED BY <1>4, <1>5

\* A call that is done with its entry evicts others, and leaves no more than the cap.
LEMMA TakeSnapshotReg ==
  ASSUME IInv, TypeOK', RegistryInv, NEW c \in Callers, TakeSnapshot(c)
  PROVE  RegistryInv'
  <1>1. /\ TypeOK /\ RegistryInOrder /\ EachHasItsCleaner /\ RoomForSettled /\ CallHolds(c)
        /\ pc[c] = "ready" /\ want[c] \in Projects /\ my[c] \in Slots
    BY DEF IInv, RegistryInv, RegistryInOrder, AtWork, LockPCs, TakeSnapshot
  <1>2. /\ OthersWait(c) /\ UNCHANGED <<want, my, list, collector>>
        /\ pc'[c] = "query"
        /\ CallHolds(c)'
    BY <1>1 DEF OthersWait, CallHolds, TypeOK, TakeSnapshot
  <1>3. MarksStay
    <2> DEFINE f == IF attempt[c] = QueryAttempts THEN slot ELSE [slot EXCEPT ![my[c]].held = None]
    <2>1. slot \in [Slots -> SlotStates]
      BY <1>1 DEF TypeOK
    <2>2. [slot[my[c]] EXCEPT !.held = None] \in SlotStates
      BY <1>1, <2>1, SlotUpdates
    <2>3. f \in [Slots -> SlotStates]
      BY <1>1, <2>1, <2>2
    <2>4. \A s \in Slots : f[s].spoiled = slot[s].spoiled
      BY <1>1, <2>1 DEF SlotStates
    <2>5. Release(f)
      BY DEF TakeSnapshot
    <2> HIDE DEF f
    <2> QED BY <2>3, <2>4, <2>5, ReleasedMarks
  <1>4. \A p : ~Cleans(c, p)
    BY <1>1 DEF Cleans
  <1>5. \A d \in Callers : CallHolds(d)'
    BY <1>1, <1>2 DEF RegistryInOrder, OthersWait, CallHolds
  <1>6. CASE projects[want[c]] # my[c]
    <2>1. UNCHANGED registry
      BY <1>6 DEF TakeSnapshot
    <2>2. EntriesOnlyGo
      BY <1>2, <1>4, <1>6, <2>1 DEF EntriesOnlyGo, OthersWait, Cleans, Prepares, InRegistry,
         registry
    <2>3. sweeping' \/ gc' = {}
      BY <1>1, <1>2 DEF RegistryInOrder, collector
    <2> QED BY <1>3, <1>5, <2>1, <2>2, <2>3, OrdinaryStep
  <1>7. CASE projects[want[c]] = my[c]
    <2> DEFINE p == want[c]
               gone == Evicted(p)
    <2>1. /\ projects' = [q \in Projects |-> IF q \in gone THEN None ELSE projects[q]]
          /\ older' = Newest(p, InRegistry \ gone)
      BY <1>7 DEF TakeSnapshot
    <2>2. p \in InRegistry /\ slot[projects[p]].held # None
      <3>1. slot[my[c]].held = c
        BY <1>1 DEF IInv, LocksMatchCalls, CallLocks, Holds, LockPCs
      <3> QED BY <1>1, <1>7, <3>1, ConstantsAssumption DEF InRegistry, TypeOK
    <2>3. gone \subseteq InRegistry \ {p}
      BY DEF Evicted
    <2> HIDE DEF gone
    <2>4. /\ InRegistry' = InRegistry \ gone
          /\ \A q \in InRegistry' : projects'[q] = projects[q]
      BY <1>1, <2>1, <2>3 DEF InRegistry, TypeOK
    <2>5. RegistryInOrder'
      <3>1. EntriesAged'
        BY <1>1, <2>1, <2>2, <2>3, <2>4, NewestAged DEF RegistryInOrder
      <3> QED BY <1>1, <1>2, <1>3, <1>5, <2>4, <3>1 DEF RegistryInOrder, MarksStay, collector
    <2>6. \A q \in InRegistry' : slot'[projects'[q]].spoiled = slot[projects[q]].spoiled
      <3> TAKE q \in InRegistry'
      <3>1. q \in Projects /\ projects'[q] = projects[q] /\ projects[q] \in Slots
        BY <1>1, <2>4 DEF InRegistry, TypeOK
      <3>2. ~Unused(projects[q])'
        BY <3>1 DEF Unused
      <3> QED BY <1>3, <3>1, <3>2 DEF MarksStay
    <2>7. EachHasItsCleaner'
      <3>1. Spoiled' \subseteq Spoiled /\ \A q \in Spoiled' : projects'[q] = projects[q]
        BY <2>4, <2>6 DEF Spoiled
      <3>2. \A q \in Spoiled', d \in Callers : Cleans(d, q) => Cleans(d, q)'
        BY <1>2, <1>4, <3>1 DEF Cleans, OthersWait
      <3> QED BY <1>1, <3>1, <3>2, CleanersKept
    <2>8. RoomForSettled'
      <3>1. MaxProjects > 0 => Cardinality(InRegistry \ gone) <= Cap
        BY <2>2, <1>1, EvictionLeavesCap DEF gone
      <3>2. Settled' \subseteq InRegistry \ gone
        BY <2>4 DEF Settled
      <3>3. IsFiniteSet(InRegistry \ gone) /\ Cardinality(InRegistry \ gone) \in Nat
        BY <1>1, EntriesFinite
      <3>4. Cardinality(Settled') <= Cardinality(InRegistry \ gone) /\ Cardinality(Settled') \in Nat
        BY <3>2, <3>3, FS_Subset, FS_CardinalityType
      <3>5. Cap \in Nat /\ Cap' = Cap
        BY ConstantsAssumption, FS_CardinalityType DEF Cap
      <3> QED BY <3>1, <3>3, <3>4, <3>5 DEF RoomForSettled
    <2> QED BY <2>5, <2>7, <2>8 DEF RegistryInv
  <1> QED BY <1>6, <1>7

-----------------------------------------------------------------------------
(* The registry's invariant is inductive.                                  *)

\* The empty registry.
LEMMA InitReg == Init => RegistryInv
  <1> SUFFICES ASSUME Init PROVE RegistryInv
    OBVIOUS
  <1>1. InRegistry = {} /\ Spoiled = {} /\ Settled = {}
    BY DEF Init, InRegistry, Spoiled, Settled
  <1>2. RegistryInOrder
    BY <1>1 DEF Init, RegistryInOrder, CallHolds, EntriesAged, EmptySlot
  <1>3. EachHasItsCleaner
    <2>1. [p \in {} |-> p] \in [Spoiled -> Callers]
      BY <1>1
    <2> QED BY <1>1, <2>1 DEF EachHasItsCleaner
  <1>4. RoomForSettled
    <2>1. Cardinality({}) = 0 /\ Cardinality(Callers) \in Nat /\ MaxProjects \in Nat
      BY ConstantsAssumption, FS_EmptySet, FS_CardinalityType
    <2> QED BY <1>1, <2>1 DEF RoomForSettled, Cap
  <1> QED BY <1>2, <1>3, <1>4 DEF RegistryInv

\* Every step keeps the registry's invariant.
LEMMA NextReg ==
  ASSUME IInv, IInv', RegistryInv, [Next]_vars
  PROVE  RegistryInv'
  <1>1. TypeOK'
    BY DEF IInv
  <1>2. ASSUME NEW c \in Callers, Proceeds(c) PROVE RegistryInv'
    BY <1>1, <1>2, CallsOnTheirWay, CallsAtTheirSlot, SlotForReg, TakeSnapshotReg,
       CallsThatLeave, FindInterruptedReg, UnloadInterruptedReg DEF Proceeds
  <1>3. ASSUME NEW c \in Callers, Panics(c) PROVE RegistryInv'
    BY <1>1, <1>3, PanicElsewhereReg, PanicInContextReg DEF Panics
  <1>4. CASE UNCHANGED vars
    BY <1>1, <1>4, OthersReg
  <1>5. CASE Next
    BY <1>1, <1>2, <1>3, <1>5, CallsOnTheirWay, CallsAtTheirSlot, WeighReg, OthersReg,
       SweepSlotReg, ClearReg DEF Next
  <1> QED BY <1>4, <1>5

\* The registry's invariant gives what is promised of it.
LEMMA RegistryKeepsItsWord ==
  ASSUME IInv, RegistryInv
  PROVE  RegistryHolds
  <1>1. TypeOK /\ EachHasItsCleaner /\ RoomForSettled
    BY DEF IInv, RegistryInv
  <1>2. PICK f \in [Spoiled -> Callers] :
          /\ \A p \in Spoiled : Cleans(f[p], p)
          /\ \A p, q \in Spoiled : p # q => f[p] # f[q]
    BY <1>1 DEF EachHasItsCleaner
  <1>3. InterruptedContextsGo
    BY <1>2 DEF InterruptedContextsGo, Spoiled, Cleans
  <1>4. WithinCap
    <2> SUFFICES ASSUME MaxProjects > 0
                 PROVE  Cardinality(InRegistry) <= Cap + Cardinality(OnTheirWay)
      BY DEF WithinCap
    <2> DEFINE busy == InRegistry \ Settled
               g == [p \in busy |-> IF p \in Spoiled THEN f[p]
                                    ELSE CHOOSE c \in Callers : Prepares(c, p)]
    <2>1. \A p \in busy \ Spoiled : g[p] \in Callers /\ Prepares(g[p], p)
      BY DEF Settled
    <2>2. \A p \in busy \cap Spoiled : g[p] \in Callers /\ g[p] = f[p] /\ Cleans(g[p], p)
      BY <1>2
    <2>3. g \in [busy -> OnTheirWay]
      BY <2>1, <2>2 DEF OnTheirWay, Prepares, Cleans
    <2>4. \A p, q \in busy : p # q => g[p] # g[q]
      <3> SUFFICES ASSUME NEW p \in busy, NEW q \in busy, p # q, g[p] = g[q]
                   PROVE  FALSE
        OBVIOUS
      <3> HIDE DEF g, busy
      <3>1. CASE p \in Spoiled /\ q \in Spoiled
        BY <1>2, <2>2, <3>1
      <3>2. CASE p \notin Spoiled /\ q \notin Spoiled
        BY <2>1, <3>2 DEF Prepares
      <3>3. CASE ~(p \in Spoiled <=> q \in Spoiled)
        BY <2>1, <2>2, <3>3 DEF Prepares, Cleans
      <3> QED BY <3>1, <3>2, <3>3
    <2>5. g \in Injection(busy, OnTheirWay)
      BY <2>3, <2>4 DEF Injection, IsInjective
    <2> HIDE DEF g, busy
    <2>6. IsFiniteSet(OnTheirWay) /\ Cardinality(OnTheirWay) \in Nat
      BY ConstantsAssumption, FS_Subset, FS_CardinalityType DEF OnTheirWay
    <2>7. Cardinality(busy) <= Cardinality(OnTheirWay)
      BY <2>5, <2>6, FS_Injection
    <2>8. /\ Settled \subseteq InRegistry /\ busy \subseteq InRegistry
          /\ InRegistry = Settled \cup busy /\ Settled \cap busy = {}
      BY DEF busy, Settled
    <2>9. /\ IsFiniteSet(Settled) /\ Cardinality(Settled) \in Nat
          /\ IsFiniteSet(busy) /\ Cardinality(busy) \in Nat
      BY <1>1, <2>8, EntriesFinite
    <2>10. Cardinality(Settled \cup busy)
             = Cardinality(Settled) + Cardinality(busy) - Cardinality(Settled \cap busy)
      BY <2>9, FS_Union
    <2>11. Cardinality(Settled \cap busy) = 0
      BY <2>8, FS_EmptySet
    <2>12. Cardinality(Settled) <= Cap /\ Cap \in Nat
      BY <1>1, ConstantsAssumption, FS_CardinalityType DEF RoomForSettled, Cap
    <2> QED BY <2>6, <2>7, <2>8, <2>9, <2>10, <2>11, <2>12
  <1> QED BY <1>3, <1>4 DEF RegistryHolds

-----------------------------------------------------------------------------
(* Every step, and the theorems.                                           *)

\* The initial state.
LEMMA InitInv == Init => IInv
  <1> SUFFICES ASSUME Init PROVE IInv
    OBVIOUS
  <1>1. TypeOK
    <2>1. 0 \in Versions /\ 0 \in 0..QueryAttempts
      BY ConstantsAssumption DEF Versions
    <2>2. slot \in [Slots -> SlotStates]
      BY EmptySlotType DEF Init
    <2>3. /\ projects \in [Projects -> Slots \cup {None}]
          /\ older \subseteq Projects \X Projects
          /\ list \in [Callers -> SUBSET (Projects \X Slots)]
      BY DEF Init
    <2>4. /\ tree \in [Projects -> Versions]
          /\ text \in [Callers -> Versions]
          /\ stamps \in [Callers -> Versions]
          /\ asked \in [Callers -> Versions]
          /\ attempt \in [Callers -> 0..QueryAttempts]
      BY <2>1 DEF Init
    <2> QED BY <2>2, <2>3, <2>4 DEF Init, TypeOK, PCs, Snapshots
  <1>2. AtWork /\ LocksMatchCalls /\ VersionsInOrder
    BY DEF Init, AtWork, LocksMatchCalls, CallLocks, SlotLock, VersionsInOrder,
       CallVersions, Holds, LockPCs, EmptySlot
  <1> QED BY <1>1, <1>2 DEF IInv

\* Every step of a call.
LEMMA ProceedsInv ==
  ASSUME IInv, NEW c \in Callers, Proceeds(c)
  PROVE  IInv'
  BY WorksElsewhereInv, SlotForInv, ListLoadedInv, FreshInv, EditedInv, ReadEditsInv,
     ApplyEditsInv, BeginLoadInv, EndLoadInv, LoadFailsInv, TakeSnapshotInv, AnswerInv,
     AskAgainInv, WeighedInv, PortraitInv, FindInterruptedInv, UnloadInterruptedInv DEF
     Proceeds

\* Every step.
LEMMA NextInv ==
  ASSUME IInv, [Next]_vars
  PROVE  IInv'
  <1>1. CASE UNCHANGED vars
    BY <1>1 DEF vars, IInv, TypeOK, AtWork, LocksMatchCalls, CallLocks, SlotLock,
       VersionsInOrder, CallVersions, Holds, Inside
  <1>2. ASSUME NEW c \in Callers, Panics(c) PROVE IInv'
    BY <1>2, PanicOutsideInv, PanicHoldingInv, PanicInQueryInv, PanicWeighingInv DEF Panics
  <1>3. CASE Next
    BY <1>2, <1>3, RunAdmittedInv, EnterSharedInv, LockInv, WeighInv, ProceedsInv,
       TryExclusiveInv, SweepEndsInv, SweepSlotInv, ClearInv, RetireInv, EditInv DEF Next
  <1> QED BY <1>1, <1>3

\* Locks, snapshots, the gate and the versions agree in every reachable state, for any
\* number of calls, projects and slots, any cap and any number of attempts.
THEOREM InductiveInvariant == Spec => []IInv
  <1> QED BY InitInv, NextInv, PTL DEF Spec

\* The types of the service's state.
THEOREM TypeCorrect == Spec => []TypeOK
  <1>1. IInv => TypeOK
    BY DEF IInv
  <1> QED BY <1>1, InductiveInvariant, PTL

\* A collection of garbage never meets a question in flight and never waits for a slot.
THEOREM CollectionsAreAlone == Spec => []SweepAlone
  <1>1. ASSUME IInv PROVE SweepAlone
    <2>1. ASSUME sweeping, NEW c \in Callers PROVE snap[c] = "none" /\ ~Holds(c)
      BY <1>1, <2>1 DEF IInv, LocksMatchCalls, CallLocks, Inside, Holds, LockPCs
    <2>2. ASSUME sweeping, NEW s \in Slots PROVE slot[s].held = None
      BY <1>1, <2>1, <2>2 DEF IInv, TypeOK, SlotStates, LocksMatchCalls, SlotLock
    <2> QED BY <2>1, <2>2 DEF SweepAlone
  <1> QED BY <1>1, InductiveInvariant, PTL

\* The last attempt of a question holds its slot and cannot be cancelled.
THEOREM LastAttemptsEnd == Spec => []LastAttemptUndisturbed
  <1>1. ASSUME IInv PROVE LastAttemptUndisturbed
    BY <1>1 DEF IInv, LocksMatchCalls, CallLocks, Holds, LastAttemptUndisturbed
  <1> QED BY <1>1, InductiveInvariant, PTL

\* No answer is older than its call, whatever is edited while files are looked at,
\* loaded or patched in.
THEOREM AnswersAreCurrent == Spec => []AnswersCurrent
  <1>1. ASSUME IInv PROVE AnswersCurrent
    BY <1>1 DEF IInv, VersionsInOrder, CallVersions, AnswersCurrent
  <1> QED BY <1>1, InductiveInvariant, PTL

\* Contexts that a panic interrupted leave the registry, and evictions keep the registry
\* within its cap, for any calls, projects, slots and cap.
THEOREM RegistryIsKept == Spec => []RegistryHolds
  <1>1. Init => IInv /\ RegistryInv
    BY InitInv, InitReg
  <1>2. IInv /\ RegistryInv /\ [Next]_vars => IInv' /\ RegistryInv'
    BY NextInv, NextReg
  <1>3. IInv /\ RegistryInv => RegistryHolds
    BY RegistryKeepsItsWord
  <1> QED BY <1>1, <1>2, <1>3, PTL DEF Spec

=============================================================================
