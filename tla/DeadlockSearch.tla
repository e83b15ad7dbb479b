---------------------------- MODULE DeadlockSearch ----------------------------
(***************************************************************************)
(* What the scheduler relies on in the wait-for graph, as a state machine: *)
(* the caller changes the set of arcs, and a search answers with the nodes *)
(* of some cycle, or with none exactly when the graph has no cycle.        *)
(***************************************************************************)
EXTENDS WaitFor

CONSTANT TransIds   \* transactions, the nodes

VARIABLES arcs,     \* who waits for whom
          answers   \* {}, or {the nodes find_deadlock_nodes returns}

Init == arcs = {} /\ answers = {}

Add(source, target) ==
    /\ arcs' = AddArcs(arcs, source, {target})
    /\ answers' = {}

Remove(node) ==
    /\ arcs' = RemoveNode(arcs, node)
    /\ answers' = {}

RemoveOne(source, target) ==
    /\ arcs' = arcs \ {<<source, target>>}
    /\ answers' = {}

\* The search returns; an empty answer means that there is no deadlock.
Find ==
    /\ \E nodes \in FindDeadlockNodes(arcs) : answers' = {nodes}
    /\ UNCHANGED arcs

\* The caller has taken the answer.
Take == answers' = {} /\ UNCHANGED arcs

Next ==
    \/ \E s, t \in TransIds : Add(s, t) \/ RemoveOne(s, t)
    \/ \E n \in TransIds : Remove(n)
    \/ Find \/ Take

Spec == Init /\ [][Next]_<<arcs, answers>>
=============================================================================
