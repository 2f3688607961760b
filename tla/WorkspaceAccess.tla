-------------------------- MODULE WorkspaceAccess --------------------------
(***************************************************************************)
(* What the workspace locks of rust-code-mcp promise their users, with no  *)
(* lock in sight: which rights on which workspace the running operations   *)
(* may have at the same moment, and who may change an index.               *)
(*                                                                         *)
(* A right is <<kind, workspace>>:                                         *)
(*   "store"  sole writer of the workspace's stores (an indexing run, a    *)
(*            clear, a vector-store maintenance pass)                      *)
(*   "write"  may leave the index half written, so nobody may look         *)
(*   "read"   looks at the index                                           *)
(*   "cache"  sole writer of the hypergraph's embedding cache              *)
(*   "all"    whole-cache operation: alone in every workspace              *)
(* WorkspaceLocks implements this specification.                           *)
(***************************************************************************)

CONSTANTS Actors, Workspaces

Kinds == {"store", "write", "read", "cache", "all"}

\* An index that was never opened, one whose stores exist and hold nothing (or
\* only part), and one that a run completed.
States == {"absent", "partial", "ready"}

Rights == Kinds \X Workspaces

VARIABLES rights,   \* [Actors -> SUBSET Rights]
          index     \* [Workspaces -> States]

avars == <<rights, index>>

\* Two rights of different actors that must not be held together.
Conflict(p, q) ==
    \/ p[1] = "all" \/ q[1] = "all"
    \/ /\ p[2] = q[2]
       /\ \/ p[1] = q[1] /\ p[1] # "read"
          \/ p[1] = "write" /\ q[1] = "read"
          \/ p[1] = "read" /\ q[1] = "write"

Compatible(f) ==
    \A a, b \in Actors : a # b => \A p \in f[a], q \in f[b] : ~Conflict(p, q)

AInit ==
    /\ rights = [a \in Actors |-> {}]
    /\ index \in [Workspaces -> States]

\* Nobody's rights but those of the actors in S change.
OnlyOf(S) ==
    /\ rights' \in [Actors -> SUBSET Rights]
    /\ \A c \in Actors \ S : rights'[c] = rights[c]

\* An actor exchanges its rights for others that conflict with nobody's.
ChangeRights(a) ==
    /\ OnlyOf({a})
    /\ Compatible(rights')
    /\ UNCHANGED index

\* Opening stores that are not there creates them, whoever opens them. Any other
\* change of an index is made by an actor that keeps the readers out and the
\* other writers off.
MayChange(a, w) ==
    \/ {<<"store", w>>, <<"write", w>>} \subseteq rights[a]
    \/ <<"all", w>> \in rights[a]
    \/ /\ index[w] = "absent" /\ index'[w] = "partial"
       /\ \E k \in {"read", "store"} : <<k, w>> \in rights[a]

\* A writer hands its store to a maintenance pass, with no gap that another
\* writer could slip into.
HandOver(a, b, w) ==
    /\ OnlyOf({a, b})
    /\ <<"store", w>> \in rights[a]
    /\ rights[b] = {}
    /\ rights'[a] = {}
    /\ rights'[b] = {<<"store", w>>}

\* A change of an index; its author may give rights up, or hand its store over,
\* in the same step.
ChangeIndex(a) ==
    /\ index' \in [Workspaces -> States]
    /\ \A w \in Workspaces : index'[w] # index[w] => MayChange(a, w)
    /\ \/ OnlyOf({a}) /\ rights'[a] \subseteq rights[a]
       \/ \E b \in Actors \ {a}, w \in Workspaces : HandOver(a, b, w)

ANext == \E a \in Actors : ChangeRights(a) \/ ChangeIndex(a)

ASpec == AInit /\ [][ANext]_avars
=============================================================================
