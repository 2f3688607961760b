------------------------- MODULE MCSemanticService -------------------------
(***************************************************************************)
(* SemanticService on two small instances: a behaviour is about one        *)
(* project that is edited, or about three that compete for room and are    *)
(* not edited, and whose questions have one attempt.                       *)
(***************************************************************************)
EXTENDS SemanticService, TLC

CONSTANT AllProjects

VARIABLE wide   \* is the behaviour of the second instance?

Wide == INSTANCE SemanticService
          WITH Projects <- AllProjects, MaxEdits <- 0, QueryAttempts <- 1

ServiceInit == \/ wide = FALSE /\ Init
               \/ wide = TRUE /\ Wide!Init

ServiceNext ==
  /\ \/ ~wide /\ Next
     \/ wide /\ Wide!Next
  /\ UNCHANGED wide

ServiceSpec == ServiceInit /\ [][ServiceNext]_<<vars, wide>>

\* Calls and projects are interchangeable.
Symmetry == Permutations(Callers) \cup Permutations(AllProjects)
=============================================================================
