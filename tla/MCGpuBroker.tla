---------------------------- MODULE MCGpuBroker ----------------------------
(* Small instances of GpuBroker: a behaviour is of one daemon with a query,  *)
(* an index pass and the graph cache, or of two during a rollout.            *)
EXTENDS GpuBroker, TLC

CONSTANTS p1, p2, search, index, graph, other, b1, b2

OneDaemon == [u \in Users |-> p1]

TwoDaemons == [u \in Users |-> IF u = other THEN p2 ELSE p1]

OwnerOfUser ==
  [u \in Users |-> CASE u = search -> "Search"
                     [] u = graph -> "GraphCache"
                     [] OTHER -> "Index"]

UnitLoad == [k \in Backends |-> 1]

UnitWarmUp == [k \in Backends |-> 1]

VARIABLE away   \* the user that makes no calls

BrokerInit == Init /\ away \in {graph, other}

BrokerNext == Next /\ pc'[away] = pc[away] /\ UNCHANGED away

BrokerSpec == BrokerInit /\ [][BrokerNext]_<<vars, away>> /\ Fairness
=============================================================================
