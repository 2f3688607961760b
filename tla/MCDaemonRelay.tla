--------------------------- MODULE MCDaemonRelay ---------------------------
(* Small instances of DaemonRelay: one session makes calls, another starts  *)
(* at the same time.                                                        *)
EXTENDS DaemonRelay, TLC

CONSTANTS c1, c2

Work == {[c \in {x} |-> Requests] : x \in Clients} \cup {[c \in Clients |-> {}]}

Alone == {[c \in Clients |-> Requests]}

Swaps == Permutations(Clients)
=============================================================================
