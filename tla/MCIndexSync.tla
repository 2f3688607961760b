---------------------------- MODULE MCIndexSync ----------------------------
(* Small instances of IndexSync. *)
EXTENDS IndexSync, TLC

\* The contents that have chunks are interchangeable.
CodeSymmetry == Permutations(Code)
=============================================================================
