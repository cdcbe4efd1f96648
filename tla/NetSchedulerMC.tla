--------------------------- MODULE NetSchedulerMC ---------------------------
(* Nets a caller builds with the factory methods and connect(), for TLC. *)
EXTENDS NetScheduler, TLC

AllNodes == 1..14

C == "constructor"
T == "task"

Net(k, w) == [kind |-> k, wires |-> w]

\* Every net of four nodes with an active pair and some of these wires: a
\* second pair, a third that shares a node with both, and auxiliary ports that
\* lead to a principal port, to an auxiliary port and within the pair.
SomeWires == {Wire(3, 0, 4, 0), Wire(2, 0, 3, 0),
              Wire(1, 1, 3, 0), Wire(2, 1, 4, 1), Wire(1, 2, 2, 2)}
SmallNets == {Net(k, w \cup {Wire(1, 0, 2, 0)}) : k \in [1..4 -> Kinds], w \in SUBSET SomeWires}

\* buildParallelDAG with two tasks; node 3 is the join.
Dag == Net(<<T, T, C>>, {Wire(1, 0, 3, 0), Wire(2, 0, 3, 0)})
DagOnly == {Dag}
=============================================================================
