------------------------------- MODULE WaitFor -------------------------------
(***************************************************************************)
(* What the wait-for graph (waitfor.cpp) promises the scheduler.  The      *)
(* graph is its set of arcs <<waiting transaction, holder>>; a search for  *)
(* a deadlock returns the nodes of some simple cycle, or the empty set     *)
(* when there is none.  Which cycle it finds depends on the order of the   *)
(* adjacency lists, that is on the order in which locks were enumerated.   *)
(***************************************************************************)
EXTENDS Naturals

AddArcs(arcs, source, targets) == arcs \cup ({source} \X targets)

\* Mutant: the node's own adjacency list goes, the arcs to it stay.
RemoveList(arcs, node) == {a \in arcs : a[1] # node}
RemoveNode(arcs, node) == {a \in arcs : node \notin {a[1], a[2]}}

Nodes(arcs) == {a[1] : a \in arcs} \cup {a[2] : a \in arcs}

\* S is the node set of a simple cycle: its members can be given successors in
\* S, each over an arc, such that no smaller part of S is closed under them.
IsCycle(arcs, S) ==
    \E next \in [S -> S] :
        /\ \A n \in S : <<n, next[n]>> \in arcs
        /\ \A R \in (SUBSET S) \ {{}} : (\A n \in R : next[n] \in R) => R = S

Cycles(arcs) == {S \in (SUBSET Nodes(arcs)) \ {{}} : IsCycle(arcs, S)}

\* The results find_deadlock_nodes may return.
FindDeadlockNodes(arcs) ==
    IF Cycles(arcs) = {} THEN {{}} ELSE Cycles(arcs)

\* No set of nodes in which everyone waits for someone of the set.
Acyclic(arcs) ==
    \A S \in SUBSET Nodes(arcs) :
        S # {} => \E n \in S : \A m \in S : <<n, m>> \notin arcs
=============================================================================
