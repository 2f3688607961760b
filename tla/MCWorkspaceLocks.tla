-------------------------- MODULE MCWorkspaceLocks --------------------------
(* Small instances of WorkspaceLocks. *)
EXTENDS WorkspaceLocks, TLC

\* Tasks are interchangeable.
TaskSymmetry == Permutations(Tasks)
=============================================================================
