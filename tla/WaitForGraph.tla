----------------------------- MODULE WaitForGraph -----------------------------
(***************************************************************************)
(* The wait-for graph as the code has it (waitfor.cpp): adjacency lists,   *)
(* and the depth-first search for a deadlock step by step.  The order of a *)
(* list and of the nodes is left open: the search may take them in any.    *)
(***************************************************************************)
EXTENDS Measures, Sequences, FiniteSets

CONSTANTS TransIds,   \* transactions, the nodes
          None        \* no node

ASSUME NoneAssumption == None \notin TransIds

VARIABLES
    adjacency_lists,            \* a function: node -> nodes it has an arc to
    pc,                         \* "idle", or where find_deadlock_nodes is
    roots,                      \* nodes nodes_info_it has not passed
    status,                     \* nodes_info[n].status
    parent,                     \* nodes_info[n].parent
    dfs_stack,                  \* the top is the last element
    current_node,
    adjacent,                   \* neighbours adjacent_node_it has not passed
    found_unvisited_neighbor,
    closing,                    \* *adjacent_node_it when a cycle is found
    cycle_nodes

search == <<roots, status, parent, dfs_stack, current_node, adjacent,
            found_unvisited_neighbor, closing, cycle_nodes>>
vars == <<adjacency_lists, pc, search>>

Top(s) == s[Len(s)]
Pop(s) == SubSeq(s, 1, Len(s) - 1)
Elems(s) == {s[i] : i \in DOMAIN s}

Arcs == {a \in TransIds \X TransIds :
            a[1] \in DOMAIN adjacency_lists /\ a[2] \in adjacency_lists[a[1]]}

Unvisited == [n \in TransIds |-> "UNVISITED"]
Orphans == [n \in TransIds |-> None]

Init ==
    /\ adjacency_lists = [n \in {} |-> {}]
    /\ pc = "idle"
    /\ roots = {}
    /\ status = Unvisited
    /\ parent = Orphans
    /\ dfs_stack = <<>>
    /\ current_node = None
    /\ adjacent = {}
    /\ found_unvisited_neighbor = FALSE
    /\ closing = None
    /\ cycle_nodes = <<>>

-----------------------------------------------------------------------------
(* Changes of the graph, between searches.                                  *)

\* emplace: a node that is not there gets an empty list.
Emplace(nodes) ==
    [n \in DOMAIN adjacency_lists \cup nodes |->
        IF n \in DOMAIN adjacency_lists THEN adjacency_lists[n] ELSE {}]

AddNode(node) ==
    /\ pc = "idle"
    /\ adjacency_lists' = Emplace({node})
    /\ UNCHANGED <<pc, search>>

\* Mutant: the target gets no list.
AddArcToNowhere(source, target) ==
    /\ pc = "idle"
    /\ adjacency_lists' = [Emplace({source}) EXCEPT ![source] = @ \cup {target}]
    /\ UNCHANGED <<pc, search>>

AddArc(source, target) ==
    /\ pc = "idle"
    /\ adjacency_lists' =
          [Emplace({source, target}) EXCEPT ![source] = @ \cup {target}]
    /\ UNCHANGED <<pc, search>>

RemoveNode(node) ==
    /\ pc = "idle"
    /\ node \in DOMAIN adjacency_lists
    /\ adjacency_lists' = [n \in DOMAIN adjacency_lists \ {node} |->
                              adjacency_lists[n] \ {node}]
    /\ UNCHANGED <<pc, search>>

RemoveArc(source, target) ==
    /\ pc = "idle"
    /\ source \in DOMAIN adjacency_lists
    /\ adjacency_lists' = [adjacency_lists EXCEPT ![source] = @ \ {target}]
    /\ UNCHANGED <<pc, search>>

-----------------------------------------------------------------------------
(* find_deadlock_nodes.                                                     *)

Call ==
    /\ pc = "idle"
    /\ roots' = DOMAIN adjacency_lists
    /\ pc' = "roots"
    /\ UNCHANGED <<adjacency_lists, status, parent, dfs_stack, current_node,
                   adjacent, found_unvisited_neighbor, closing, cycle_nodes>>

\* The outer loop starts a search at an unvisited node or passes the node.
NextRoot ==
    /\ pc = "roots"
    /\ \E n \in roots :
          /\ roots' = roots \ {n}
          /\ IF status[n] = "UNVISITED"
             THEN /\ dfs_stack' = Append(dfs_stack, n)
                  /\ status' = [status EXCEPT ![n] = "VISITED"]
                  /\ pc' = "node"
             ELSE UNCHANGED <<dfs_stack, status, pc>>
    /\ UNCHANGED <<adjacency_lists, parent, current_node, adjacent,
                   found_unvisited_neighbor, closing, cycle_nodes>>

\* Mutant: found_unvisited_neighbor is not reset for the next node.
ExploreTopStale ==
    /\ pc = "node"
    /\ dfs_stack # <<>>
    /\ current_node' = Top(dfs_stack)
    /\ adjacent' = adjacency_lists[Top(dfs_stack)]
    /\ pc' = "adjacent"
    /\ UNCHANGED <<adjacency_lists, roots, status, parent, dfs_stack,
                   found_unvisited_neighbor, closing, cycle_nodes>>

\* The inner loop looks at the node on top of the stack, from the beginning of
\* its list, also when it has been looked at before.
ExploreTop ==
    /\ pc = "node"
    /\ dfs_stack # <<>>
    /\ current_node' = Top(dfs_stack)
    /\ adjacent' = adjacency_lists[Top(dfs_stack)]
    /\ found_unvisited_neighbor' = FALSE
    /\ pc' = "adjacent"
    /\ UNCHANGED <<adjacency_lists, roots, status, parent, dfs_stack, closing,
                   cycle_nodes>>

\* Mutant: the node the search came from does not count, as in an undirected
\* graph.
SeeVisitedNotParent(n) ==
    /\ status[n] = "VISITED"
    /\ IF n = parent[current_node] THEN UNCHANGED <<closing, pc>>
       ELSE closing' = n /\ pc' = "unwind"
    /\ UNCHANGED <<status, parent, dfs_stack, found_unvisited_neighbor>>

\* A neighbour that is on the stack closes a cycle.
SeeVisited(n) ==
    /\ status[n] = "VISITED"
    /\ closing' = n
    /\ pc' = "unwind"
    /\ UNCHANGED <<status, parent, dfs_stack, found_unvisited_neighbor>>

\* The first unvisited neighbour is pushed; the rest of the list is still
\* searched for a cycle.
SeeUnvisited(n) ==
    /\ status[n] = "UNVISITED"
    /\ ~found_unvisited_neighbor
    /\ found_unvisited_neighbor' = TRUE
    /\ dfs_stack' = Append(dfs_stack, n)
    /\ status' = [status EXCEPT ![n] = "VISITED"]
    /\ parent' = [parent EXCEPT ![n] = current_node]
    /\ UNCHANGED <<closing, pc>>

PassNeighbor(n) ==
    /\ \/ status[n] = "FINISHED"
       \/ status[n] = "UNVISITED" /\ found_unvisited_neighbor
    /\ UNCHANGED <<pc, status, parent, dfs_stack, found_unvisited_neighbor, closing>>

NextAdjacent ==
    /\ pc = "adjacent"
    /\ \E n \in adjacent :
          /\ adjacent' = adjacent \ {n}
          /\ SeeVisited(n) \/ SeeUnvisited(n) \/ PassNeighbor(n)
    /\ UNCHANGED <<adjacency_lists, roots, current_node, cycle_nodes>>

\* Mutant: a finished node stays on the stack.
LeaveOnStack ==
    /\ pc = "adjacent"
    /\ adjacent = {}
    /\ status' = IF found_unvisited_neighbor THEN status
                 ELSE [status EXCEPT ![current_node] = "FINISHED"]
    /\ pc' = "node"
    /\ UNCHANGED <<adjacency_lists, roots, parent, dfs_stack, current_node,
                   adjacent, found_unvisited_neighbor, closing, cycle_nodes>>

\* At the end of the list: without an unvisited neighbour the node is finished.
LeaveNode ==
    /\ pc = "adjacent"
    /\ adjacent = {}
    /\ IF found_unvisited_neighbor THEN UNCHANGED <<status, dfs_stack>>
       ELSE /\ status' = [status EXCEPT ![current_node] = "FINISHED"]
            /\ dfs_stack' = Pop(dfs_stack)
    /\ pc' = "node"
    /\ UNCHANGED <<adjacency_lists, roots, parent, current_node, adjacent,
                   found_unvisited_neighbor, closing, cycle_nodes>>

\* The cycle is read off the parent links, from the top of the stack down to
\* the neighbour that closes it.
Unwind ==
    /\ pc = "unwind"
    /\ current_node # closing
    /\ cycle_nodes' = Append(cycle_nodes, current_node)
    /\ current_node' = parent[current_node]
    /\ UNCHANGED <<adjacency_lists, pc, roots, status, parent, dfs_stack,
                   adjacent, found_unvisited_neighbor, closing>>

\* Mutant: the parent of the closing node is taken for part of the cycle.
FoundTooMuch ==
    /\ pc = "unwind"
    /\ current_node = closing
    /\ cycle_nodes' = cycle_nodes \o <<closing, parent[closing]>>
    /\ pc' = "answer"
    /\ UNCHANGED <<adjacency_lists, roots, status, parent, dfs_stack,
                   current_node, adjacent, found_unvisited_neighbor, closing>>

\* With the cycle complete all loops end.  (The finishing of the node that
\* still follows changes nothing that is returned.)
FoundCycle ==
    /\ pc = "unwind"
    /\ current_node = closing
    /\ cycle_nodes' = Append(cycle_nodes, closing)
    /\ pc' = "answer"
    /\ UNCHANGED <<adjacency_lists, roots, status, parent, dfs_stack,
                   current_node, adjacent, found_unvisited_neighbor, closing>>

\* The stack is empty: back to the outer loop.
SearchedRoot ==
    /\ pc = "node"
    /\ dfs_stack = <<>>
    /\ pc' = "roots"
    /\ UNCHANGED <<adjacency_lists, search>>

NoCycle ==
    /\ pc = "roots"
    /\ roots = {}
    /\ pc' = "answer"
    /\ UNCHANGED <<adjacency_lists, search>>

\* The answer is returned and the locals are gone.
Return ==
    /\ pc = "answer"
    /\ pc' = "idle"
    /\ roots' = {}
    /\ status' = Unvisited
    /\ parent' = Orphans
    /\ dfs_stack' = <<>>
    /\ current_node' = None
    /\ adjacent' = {}
    /\ found_unvisited_neighbor' = FALSE
    /\ closing' = None
    /\ cycle_nodes' = <<>>
    /\ UNCHANGED adjacency_lists

Search ==
    \/ NextRoot \/ ExploreTop \/ NextAdjacent \/ LeaveNode \/ SearchedRoot
    \/ Unwind \/ FoundCycle \/ NoCycle

Next ==
    \/ \E n \in TransIds : AddNode(n) \/ RemoveNode(n)
    \/ \E s, t \in TransIds : AddArc(s, t) \/ RemoveArc(s, t)
    \/ Call \/ Search \/ Return

Spec == Init /\ [][Next]_vars

\* A search that has been called runs to its end.
FairSpec == Spec /\ WF_vars(Search)

-----------------------------------------------------------------------------

TypeOK ==
    /\ DOMAIN adjacency_lists \subseteq TransIds
    /\ \A n \in DOMAIN adjacency_lists : adjacency_lists[n] \subseteq TransIds
    /\ pc \in {"idle", "roots", "node", "adjacent", "unwind", "answer"}
    /\ roots \subseteq TransIds
    /\ status \in [TransIds -> {"UNVISITED", "VISITED", "FINISHED"}]
    /\ parent \in [TransIds -> TransIds \cup {None}]
    /\ dfs_stack \in Seq(TransIds)
    /\ current_node \in TransIds \cup {None}
    /\ adjacent \subseteq TransIds
    /\ found_unvisited_neighbor \in BOOLEAN
    /\ closing \in TransIds \cup {None}
    /\ cycle_nodes \in Seq(TransIds)

\* The search never follows an arc out of the map (adjacency_lists.at would
\* throw), nor a parent link that is not there (parent.value() would).
NothingDangles ==
    /\ \A n \in DOMAIN adjacency_lists : adjacency_lists[n] \subseteq DOMAIN adjacency_lists
    /\ pc = "unwind" => current_node # None

\* Adjacency lists and search implement the graph the scheduler relies on.
Returned == IF pc = "answer" THEN {Elems(cycle_nodes)} ELSE {}
Abstract == INSTANCE DeadlockSearch WITH arcs <- Arcs, answers <- Returned
ImplementsSearch == Abstract!Spec

\* What a search has left, the most significant first: the reading of a cycle
\* once one is found, the nodes never seen, the roots, the stack or the part of
\* the cycle not read, the return to a node whose neighbour has been pushed, the
\* look at the top of the stack, the rest of a list.
SearchRemaining ==
    <<IF pc \in {"roots", "node", "adjacent"} THEN 2 ELSE IF pc = "unwind" THEN 1 ELSE 0,
      Cardinality({n \in TransIds : status[n] = "UNVISITED"}),
      Cardinality(roots),
      Len(dfs_stack) - Len(cycle_nodes),
      IF pc = "adjacent" /\ found_unvisited_neighbor THEN 1 ELSE 0,
      IF pc = "node" THEN 1 ELSE 0,
      Cardinality(adjacent)>>

\* Every step of a search leaves less of it, although it goes through a list
\* again each time it returns to a node; and a cycle is never longer than the
\* stack it is read off.
SearchProgresses ==
    [][Search => /\ Less(SearchRemaining', SearchRemaining)
                 /\ \A k \in DOMAIN SearchRemaining : SearchRemaining'[k] >= 0]_vars

\* Every search comes to an answer.
Answers == pc = "roots" ~> pc = "answer"
=============================================================================
