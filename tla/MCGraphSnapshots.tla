-------------------------- MODULE MCGraphSnapshots --------------------------
(***************************************************************************)
(* Snapshots of two packages, a library and a program that uses it, with a *)
(* binary beside it that the next version does not have.                   *)
(***************************************************************************)
EXTENDS GraphSnapshots

\* Two processes if there are two builders or two readers.
Processes == [x \in Builders \cup Readers |-> IF x \in {"b2", "r2"} THEN "d2" ELSE "d1"]

Targets ==
    [x \in Packages \X Versions |->
        IF x[1] = "p" THEN {"lib"} ELSE IF x[2] = 0 THEN {"app", "bin"} ELSE {"app"}]

Uses == [c \in Crates |-> IF c = "app" THEN {"lib"} ELSE {}]

Files == [c \in Crates |-> IF c = "lib" THEN {"p"} ELSE {"q"}]

Tree0 == [global |-> 0, pkgs |-> [x \in Packages |-> 0]]

\* Bound: a clear and a build that is tried again are not looked at together.
NoRetryWithClear == lockfile > 0 => \A b \in Builders : job[b].attempt = 1
=============================================================================
