------------------------------- MODULE MCLive -------------------------------
(***************************************************************************)
(* What must happen in the end, of the calls under the workspace locks and *)
(* of the calls on the semantic service: a behaviour runs one of the two,  *)
(* the other keeps still.  They share no state, so this checks each of     *)
(* them as it would be checked alone.                                      *)
(***************************************************************************)
EXTENDS WorkspaceLocks, TLC

CONSTANTS Callers, Projects, Slots, None, MaxProjects, QueryAttempts,
          MaxEdits                                                \* SemanticService

VARIABLES component,
          tree, projects, older, slot, point, want, my, attempt, snap, text, stamps,
          list, asked, within, gc, sweeping, watchdog             \* SemanticService

Semantic == INSTANCE SemanticService WITH pc <- point

lockVars == vars
semanticVars == <<tree, projects, older, slot, point, want, my, attempt, snap, text, stamps,
                  list, asked, within, gc, sweeping, watchdog>>
liveVars == <<component, lockVars, semanticVars>>

\* A variable the component that runs does not have.
Off(x) == x = {}

LiveInit ==
    \/ /\ component = "locks" /\ Init
       /\ Off(tree) /\ Off(projects) /\ Off(older) /\ Off(slot) /\ Off(point) /\ Off(want)
       /\ Off(my) /\ Off(attempt) /\ Off(snap) /\ Off(text) /\ Off(stamps) /\ Off(list)
       /\ Off(asked) /\ Off(within) /\ Off(gc) /\ Off(sweeping) /\ Off(watchdog)
    \/ /\ component = "semantic" /\ Semantic!Init
       /\ Off(queue) /\ Off(held) /\ Off(pc) /\ Off(op) /\ Off(ws) /\ Off(runs)
       /\ Off(passes) /\ Off(index)

Of(name, A, rest) == component = name /\ A /\ UNCHANGED <<component, rest>>
InLocks(A) == Of("locks", A, semanticVars)
InSemantic(A) == Of("semantic", A, lockVars)

LiveNext == InLocks(Next) \/ InSemantic(Semantic!Next)

\* The fairness of WorkspaceLocks and of SemanticService.
LiveFairness ==
    /\ \A t \in Tasks : WF_liveVars(InLocks(Progress(t)))
    /\ \A w \in Workspaces : WF_liveVars(InLocks(EndPass(w)))
    /\ \A c \in Callers :
          /\ WF_liveVars(InSemantic(Semantic!Proceeds(c)))
          /\ SF_liveVars(InSemantic(Semantic!EnterShared(c) \/ Semantic!Lock(c) \/ Semantic!Weigh(c)))
    /\ WF_liveVars(InSemantic(Semantic!SweepEnds))
    /\ \A s \in Slots : WF_liveVars(InSemantic(Semantic!SweepSlot(s)))

LiveSpec == LiveInit /\ [][LiveNext]_liveVars /\ LiveFairness

-----------------------------------------------------------------------------
\* The tasks of WorkspaceLocks are interchangeable, and so are the callers of
\* SemanticService: what is true of one of them is true of each.
Watched(S) == CHOOSE x \in S : TRUE

\* WorkspaceLocks: every call answers: no deadlock and no starvation, whatever else is
\* asked of the workspace meanwhile and whatever requests are dropped while they wait.
LockCallsAnswer ==
    LET t == Watched(Tasks) IN
    (component = "locks" /\ pc[t] # "idle") ~> (component = "locks" => pc[t] = "idle")

\* SemanticService: every call comes to an end, whatever is weighed, cleared or
\* collected meanwhile, and whoever panics.
CallsComeBack ==
    LET c == Watched(Callers) IN
    (component = "semantic" /\ point[c] # "idle") ~> (component = "semantic" => point[c] = "idle")
=============================================================================
