---------------------------- MODULE MCAssignmentSync ----------------------------
(* Small instances of AssignmentSync: four assignments, one of them a team's. *)
EXTENDS AssignmentSync, TLC

CONSTANTS a1, a2, a3, b1

\* The two ends may start with anything, the server in one order.
InOrder(S) == SelectSeq(<<a2, a1, a3, b1>>, LAMBDA a : a \in S)
MCInit == Init /\ server = [k \in Kind |-> InOrder(ToSet(server[k]))]
MCSpec == MCInit /\ [][Next]_vars
MCFairSpec == MCSpec /\ Fairness
=============================================================================
