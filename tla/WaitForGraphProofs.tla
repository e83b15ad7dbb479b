--------------------------- MODULE WaitForGraphProofs ---------------------------
(***************************************************************************)
(* The depth-first search of the wait-for graph implements the abstract    *)
(* search: on a graph of any size, it answers with the nodes of a cycle,   *)
(* and with none only when the graph has no cycle.                         *)
(***************************************************************************)
EXTENDS WaitForGraph, NatLemmas, SequenceTheorems

-----------------------------------------------------------------------------
(* Graphs.                                                                  *)

\* On a cycle everyone is waited for by someone of the cycle.
LEMMA Predecessor ==
    ASSUME NEW arcs, NEW S, Abstract!IsCycle(arcs, S), NEW s \in S
    PROVE  \E p \in S : <<p, s>> \in arcs
<1>1. PICK next \in [S -> S] :
        /\ \A n \in S : <<n, next[n]>> \in arcs
        /\ \A R \in (SUBSET S) \ {{}} : (\A n \in R : next[n] \in R) => R = S
    BY DEF Abstract!IsCycle
<1> DEFINE R == {next[n] : n \in S}
<1>2. R \in (SUBSET S) \ {{}} /\ \A n \in R : next[n] \in R BY <1>1
<1>3. R = S BY <1>1, <1>2
<1> QED BY <1>1, <1>3

\* A path without repetition and an arc from its position b back to j.
LEMMA PathCloses ==
    ASSUME NEW arcs, NEW T, NEW s \in Seq(T), NEW b \in 1..Len(s), NEW j \in 1..b,
           \A i, k \in 1..Len(s) : s[i] = s[k] => i = k,
           \A i \in 1..Len(s) - 1 : <<s[i], s[i + 1]>> \in arcs,
           <<s[b], s[j]>> \in arcs
    PROVE  {s[i] : i \in j..b} \in Abstract!FindDeadlockNodes(arcs)
<1> DEFINE S == {s[i] : i \in j..b}
           at(x) == CHOOSE i \in j..b : s[i] = x
           after(i) == IF i = b THEN j ELSE i + 1
           next == [x \in S |-> s[after(at(x))]]
<1>1. /\ Len(s) \in Nat /\ j \in Nat /\ b \in Nat /\ 1 <= j /\ j <= b /\ b <= Len(s)
      /\ j..b \subseteq 1..Len(s)
    BY LenProperties
<1>2. \A i \in j..b : after(i) \in j..b BY <1>1
<1>3. \A i \in j..b : <<s[i], s[after(i)]>> \in arcs
    <2> SUFFICES ASSUME NEW i \in j..b PROVE <<s[i], s[after(i)]>> \in arcs OBVIOUS
    <2>1. CASE i = b BY <2>1
    <2>2. CASE i # b
        <3>1. i \in 1..Len(s) - 1 BY <1>1, <2>2
        <3> QED BY <2>2, <3>1
    <2> QED BY <2>1, <2>2
<1>4. \A i \in j..b : at(s[i]) = i
    <2> SUFFICES ASSUME NEW i \in j..b PROVE at(s[i]) = i OBVIOUS
    <2>1. at(s[i]) \in j..b /\ s[at(s[i])] = s[i] OBVIOUS
    <2> HIDE DEF at
    <2> QED BY <1>1, <2>1
<1> HIDE DEF at, after
<1>5. \A i \in j..b : s[i] \in S /\ next[s[i]] = s[after(i)] BY <1>4
<1>6. \A x \in S : \E i \in j..b : x = s[i] OBVIOUS
<1> HIDE DEF next, S
<1>7. next \in [S -> S]
    <2>1. ASSUME NEW x \in S PROVE s[after(at(x))] \in S
        <3>1. PICK i \in j..b : x = s[i] BY <1>6
        <3>2. at(x) = i BY <1>4, <3>1
        <3> QED BY <1>2, <1>5, <3>2
    <2> QED BY <2>1 DEF next
<1>8. \A x \in S : <<x, next[x]>> \in arcs BY <1>3, <1>5, <1>6
<1>9. ASSUME NEW R \in (SUBSET S) \ {{}}, \A x \in R : next[x] \in R
      PROVE  R = S
    <2>1. ASSUME NEW i \in j..b, s[i] \in R, NEW k \in i..b, s[k] \notin R
          PROVE  FALSE
        <3> DEFINE M == {m \in i..b : s[m] \notin R}
        <3>1. M \subseteq Nat /\ M # {} BY <1>1, <2>1
        <3>2. PICK m \in M : \A l \in M : m <= l BY <3>1, LeastNat
        <3>3. m # i /\ m - 1 \in i..b /\ m - 1 \in j..b /\ m - 1 # b
            BY <1>1, <2>1, <3>2
        <3>4. s[m - 1] \in R BY <1>1, <3>2, <3>3
        <3>5. after(m - 1) = m BY <1>1, <3>3 DEF after
        <3>6. s[m] \in R BY <1>5, <1>9, <3>3, <3>4, <3>5
        <3> QED BY <3>2, <3>6
    <2>2. PICK i \in j..b : s[i] \in R BY <1>6
    <2>3. s[b] \in R
        <3>1. b \in i..b BY <1>1
        <3> QED BY <2>1, <2>2, <3>1
    <2>4. s[j] \in R
        <3>1. after(b) = j /\ b \in j..b BY <1>1 DEF after
        <3> QED BY <1>5, <1>9, <2>3, <3>1
    <2>5. \A k \in j..b : s[k] \in R
        <3>1. j \in j..b BY <1>1
        <3> QED BY <2>1, <2>4, <3>1
    <2>6. \A x \in S : x \in R BY <1>6, <2>5
    <2>7. R \subseteq S BY <1>9
    <2> QED BY <2>6, <2>7
<1>10. Abstract!IsCycle(arcs, S) BY <1>7, <1>8, <1>9 DEF Abstract!IsCycle
<1>11. S \subseteq Abstract!Nodes(arcs)
    <2> SUFFICES ASSUME NEW x \in S PROVE x \in Abstract!Nodes(arcs) OBVIOUS
    <2>1. <<x, next[x]>> \in arcs /\ <<x, next[x]>>[1] = x BY <1>8
    <2> QED BY <2>1 DEF Abstract!Nodes
<1>12. S # {}
    <2>1. j \in j..b BY <1>1
    <2> QED BY <1>5, <2>1
<1>13. S \in Abstract!Cycles(arcs) BY <1>10, <1>11, <1>12 DEF Abstract!Cycles
<1> QED BY <1>13 DEF Abstract!FindDeadlockNodes, S

-----------------------------------------------------------------------------
(* Stacks.                                                                  *)

LEMMA Pushed ==
    ASSUME NEW S, NEW s \in Seq(S), NEW e \in S
    PROVE  /\ Append(s, e) \in Seq(S)
           /\ Len(Append(s, e)) = Len(s) + 1
           /\ \A i \in 1..Len(s) : Append(s, e)[i] = s[i]
           /\ Append(s, e)[Len(s) + 1] = e
           /\ Len(s) \in Nat
BY AppendProperties, LenProperties

LEMMA Popped ==
    ASSUME NEW S, NEW s \in Seq(S), s # <<>>
    PROVE  /\ Pop(s) \in Seq(S)
           /\ Len(Pop(s)) = Len(s) - 1
           /\ \A i \in 1..Len(s) - 1 : Pop(s)[i] = s[i]
           /\ Len(s) \in Nat \ {0}
<1> DEFINE n == Len(s)
<1>1. n \in Nat \ {0} BY LenProperties, EmptySeq
<1>2. \A i \in 1..n : s[i] \in S BY ElementOfSeq
<1> HIDE DEF n
<1>3. \A i \in 1..n - 1 : s[i] \in S BY <1>1, <1>2
<1>4. /\ SubSeq(s, 1, n - 1) \in Seq(S)
      /\ Len(SubSeq(s, 1, n - 1)) = IF 1 <= n - 1 THEN (n - 1) - 1 + 1 ELSE 0
      /\ \A i \in 1..(n - 1) - 1 + 1 : SubSeq(s, 1, n - 1)[i] = s[1 + i - 1]
    BY <1>1, <1>3, SubSeqProperties
<1>5. \A i \in 1..n - 1 : SubSeq(s, 1, n - 1)[i] = s[i] BY <1>1, <1>4
<1>6. Len(SubSeq(s, 1, n - 1)) = n - 1 BY <1>1, <1>4
<1> QED BY <1>1, <1>4, <1>5, <1>6 DEF Pop, n

LEMMA OnStack ==
    ASSUME NEW S, NEW s \in Seq(S)
    PROVE  /\ Len(s) \in Nat
           /\ Elems(s) = {s[i] : i \in 1..Len(s)}
           /\ \A i \in 1..Len(s) : s[i] \in S
           /\ s = <<>> <=> Len(s) = 0
BY LenProperties, ElementOfSeq, EmptySeq DEF Elems

-----------------------------------------------------------------------------
(* The inductive invariant: the stack is a path of the visited nodes, the   *)
(* finished nodes are behind the search with no cycle among them.           *)

Keys == DOMAIN adjacency_lists
Finished == {n \in TransIds : status[n] = "FINISHED"}

Closed == \A n \in Keys : adjacency_lists[n] \subseteq Keys

AtRest ==
    pc = "idle" =>
        roots = {} /\ status = Unvisited /\ dfs_stack = <<>> /\ cycle_nodes = <<>>

Path ==
    /\ \A i \in 1..Len(dfs_stack) :
          dfs_stack[i] \in Keys /\ status[dfs_stack[i]] = "VISITED"
    /\ \A n \in TransIds : status[n] = "VISITED" => n \in Elems(dfs_stack)
    /\ \A i, j \in 1..Len(dfs_stack) : dfs_stack[i] = dfs_stack[j] => i = j
    /\ \A i \in 1..Len(dfs_stack) - 1 :
          /\ parent[dfs_stack[i + 1]] = dfs_stack[i]
          /\ dfs_stack[i + 1] \in adjacency_lists[dfs_stack[i]]

Behind ==
    /\ \A n \in Finished : n \in Keys /\ adjacency_lists[n] \subseteq Finished
    /\ \A S \in SUBSET Finished : S # {} => ~Abstract!IsCycle(Arcs, S)

Passed ==
    /\ roots \subseteq Keys
    /\ pc # "idle" => \A n \in Keys \ roots : status[n] # "UNVISITED"
    /\ pc = "roots" => dfs_stack = <<>>
    /\ pc \in {"roots", "node", "adjacent"} => cycle_nodes = <<>>

Looking ==
    pc = "adjacent" =>
        /\ current_node \in Keys
        /\ adjacent \subseteq adjacency_lists[current_node]
        /\ IF found_unvisited_neighbor
           THEN /\ Len(dfs_stack) >= 2
                /\ current_node = dfs_stack[Len(dfs_stack) - 1]
                /\ dfs_stack[Len(dfs_stack)] \notin adjacent
           ELSE /\ Len(dfs_stack) >= 1
                /\ current_node = dfs_stack[Len(dfs_stack)]
                /\ adjacency_lists[current_node] \ adjacent \subseteq Finished

\* The cycle runs from position j to b of the stack and has been read down to k.
UnwindingAt(b, k, j) ==
    /\ current_node = dfs_stack[k]
    /\ closing = dfs_stack[j]
    /\ <<dfs_stack[b], dfs_stack[j]>> \in Arcs
    /\ Len(cycle_nodes) = b - k
    /\ \A i \in 1..b - k : cycle_nodes[i] = dfs_stack[b + 1 - i]

Unwinding ==
    pc = "unwind" =>
        \E b \in 1..Len(dfs_stack) : \E k \in 1..b : \E j \in 1..k : UnwindingAt(b, k, j)

Answered == pc = "answer" => Elems(cycle_nodes) \in Abstract!FindDeadlockNodes(Arcs)

SearchInv ==
    /\ Closed /\ AtRest /\ Path /\ Behind /\ Passed /\ Looking /\ Unwinding
    /\ Answered

Inv == TypeOK /\ SearchInv

LEMMA InitHolds == Init => Inv
<1> SUFFICES ASSUME Init PROVE Inv OBVIOUS
<1> USE DEF Init
<1>2. Keys = {} /\ Finished = {} BY DEF Keys, Finished, Unvisited
<1>1. TypeOK
    <2>1. status \in [TransIds -> {"UNVISITED", "VISITED", "FINISHED"}]
        BY DEF Unvisited
    <2>2. parent \in [TransIds -> TransIds \cup {None}] BY DEF Orphans
    <2>3. dfs_stack \in Seq(TransIds) /\ cycle_nodes \in Seq(TransIds)
        BY EmptySeq
    <2> QED BY <1>2, <2>1, <2>2, <2>3 DEF TypeOK, Keys
<1>3. Len(dfs_stack) = 0 OBVIOUS
<1>4. Closed /\ AtRest BY <1>2 DEF Closed, AtRest
<1>5. Path BY <1>3 DEF Path, Unvisited
<1>6. Behind BY <1>2 DEF Behind
<1>7. Passed /\ Looking /\ Unwinding /\ Answered
    BY DEF Passed, Looking, Unwinding, Answered
<1> QED BY <1>1, <1>4, <1>5, <1>6, <1>7 DEF Inv, SearchInv

-----------------------------------------------------------------------------
(* Changes of the graph: the search is at rest.                             *)

LEMMA GraphChange ==
    ASSUME Inv, pc = "idle", UNCHANGED <<pc, search>>, Closed',
           Keys' \subseteq TransIds,
           \A n \in Keys' : adjacency_lists'[n] \subseteq TransIds
    PROVE  Inv'
<1>1. TypeOK' BY DEF Inv, TypeOK, search, Keys
<1>2. /\ status' = Unvisited /\ dfs_stack' = <<>> /\ roots' = {}
      /\ cycle_nodes' = <<>> /\ pc' = "idle"
    BY DEF Inv, SearchInv, AtRest, search
<1>3. Finished' = {} /\ Len(dfs_stack') = 0 BY <1>2 DEF Finished, Unvisited
<1>4. AtRest' BY <1>2 DEF AtRest, Unvisited
<1>5. Path' BY <1>2, <1>3 DEF Path, Unvisited
<1>6. Behind' BY <1>3 DEF Behind
<1>7. Passed' /\ Looking' /\ Unwinding' /\ Answered'
    BY <1>2 DEF Passed, Looking, Unwinding, Answered
<1> QED BY <1>1, <1>4, <1>5, <1>6, <1>7 DEF Inv, SearchInv

LEMMA AddNodeKeeps ==
    ASSUME Inv, NEW n \in TransIds, AddNode(n)
    PROVE  Inv'
<1>1. Keys' = Keys \cup {n} BY DEF AddNode, Emplace, Keys
<1>2. \A m \in Keys' : adjacency_lists'[m] = IF m \in Keys THEN adjacency_lists[m] ELSE {}
    BY DEF AddNode, Emplace, Keys
<1>3. Closed' BY <1>1, <1>2 DEF Closed, Inv, SearchInv
<1>4. /\ Keys' \subseteq TransIds
      /\ \A m \in Keys' : adjacency_lists'[m] \subseteq TransIds
    BY <1>1, <1>2 DEF Inv, TypeOK, Keys
<1> QED BY <1>3, <1>4, GraphChange DEF AddNode

LEMMA AddArcKeeps ==
    ASSUME Inv, NEW s \in TransIds, NEW t \in TransIds, AddArc(s, t)
    PROVE  Inv'
<1>1. Keys' = Keys \cup {s, t} BY DEF AddArc, Emplace, Keys
<1>2. \A m \in Keys' :
         adjacency_lists'[m] \subseteq
            (IF m \in Keys THEN adjacency_lists[m] ELSE {}) \cup {t}
    BY DEF AddArc, Emplace, Keys
<1>3. Closed' BY <1>1, <1>2 DEF Closed, Inv, SearchInv
<1>4. /\ Keys' \subseteq TransIds
      /\ \A m \in Keys' : adjacency_lists'[m] \subseteq TransIds
    BY <1>1, <1>2 DEF Inv, TypeOK, Keys
<1> QED BY <1>3, <1>4, GraphChange DEF AddArc

LEMMA RemoveNodeKeeps ==
    ASSUME Inv, NEW n \in TransIds, RemoveNode(n)
    PROVE  Inv'
<1>1. Keys' = Keys \ {n} BY DEF RemoveNode, Keys
<1>2. \A m \in Keys' : adjacency_lists'[m] = adjacency_lists[m] \ {n}
    BY DEF RemoveNode, Keys
<1>3. Closed' BY <1>1, <1>2 DEF Closed, Inv, SearchInv
<1>4. /\ Keys' \subseteq TransIds
      /\ \A m \in Keys' : adjacency_lists'[m] \subseteq TransIds
    BY <1>1, <1>2 DEF Inv, TypeOK, Keys
<1> QED BY <1>3, <1>4, GraphChange DEF RemoveNode

LEMMA RemoveArcKeeps ==
    ASSUME Inv, NEW s \in TransIds, NEW t \in TransIds, RemoveArc(s, t)
    PROVE  Inv'
<1>1. Keys' = Keys BY DEF RemoveArc, Keys
<1>2. \A m \in Keys' : adjacency_lists'[m] \subseteq adjacency_lists[m]
    BY DEF RemoveArc, Keys
<1>3. Closed' BY <1>1, <1>2 DEF Closed, Inv, SearchInv
<1>4. /\ Keys' \subseteq TransIds
      /\ \A m \in Keys' : adjacency_lists'[m] \subseteq TransIds
    BY <1>1, <1>2 DEF Inv, TypeOK, Keys
<1> QED BY <1>3, <1>4, GraphChange DEF RemoveArc

-----------------------------------------------------------------------------
(* Steps of the search.                                                     *)

LEMMA SameGraph ==
    ASSUME UNCHANGED adjacency_lists
    PROVE  Arcs' = Arcs /\ Keys' = Keys
BY DEF Arcs, Keys

LEMMA ClosedKept ==
    ASSUME Inv, UNCHANGED adjacency_lists
    PROVE  Closed'
BY DEF Inv, SearchInv, Closed, Keys

LEMMA PathKept ==
    ASSUME Inv, UNCHANGED <<adjacency_lists, dfs_stack, status, parent>>
    PROVE  Path'
BY DEF Inv, SearchInv, Path, Keys, Elems

LEMMA BehindKept ==
    ASSUME Inv, UNCHANGED adjacency_lists, Finished' = Finished
    PROVE  Behind'
<1>1. Arcs' = Arcs /\ Keys' = Keys BY SameGraph
<1> QED BY <1>1 DEF Inv, SearchInv, Behind

\* The stack of the invariant in terms of positions.
LEMMA StackFacts ==
    ASSUME Inv
    PROVE  /\ Len(dfs_stack) \in Nat
           /\ Elems(dfs_stack) = {dfs_stack[i] : i \in 1..Len(dfs_stack)}
           /\ \A i \in 1..Len(dfs_stack) : dfs_stack[i] \in TransIds
           /\ dfs_stack = <<>> <=> Len(dfs_stack) = 0
BY OnStack DEF Inv, TypeOK

LEMMA CallKeeps ==
    ASSUME Inv, Call
    PROVE  Inv'
<1> USE DEF Call
<1>1. TypeOK' BY DEF Inv, TypeOK
<1>2. Finished' = Finished BY DEF Finished
<1>3. Closed' /\ Path' /\ Behind' BY <1>2, ClosedKept, PathKept, BehindKept
<1>4. dfs_stack = <<>> /\ cycle_nodes = <<>> BY DEF Inv, SearchInv, AtRest
<1>5. Passed' BY <1>4 DEF Passed, Keys
<1>6. AtRest' /\ Looking' /\ Unwinding' /\ Answered'
    BY DEF AtRest, Looking, Unwinding, Answered
<1> QED BY <1>1, <1>3, <1>5, <1>6 DEF Inv, SearchInv

LEMMA NextRootKeeps ==
    ASSUME Inv, NextRoot
    PROVE  Inv'
<1>0. /\ pc = "roots"
      /\ UNCHANGED <<adjacency_lists, parent, current_node, adjacent,
                     found_unvisited_neighbor, closing, cycle_nodes>>
    BY DEF NextRoot
<1>1. PICK n \in roots :
        /\ roots' = roots \ {n}
        /\ IF status[n] = "UNVISITED"
           THEN /\ dfs_stack' = Append(dfs_stack, n)
                /\ status' = [status EXCEPT ![n] = "VISITED"]
                /\ pc' = "node"
           ELSE UNCHANGED <<dfs_stack, status, pc>>
    BY DEF NextRoot
<1>2. n \in TransIds /\ n \in Keys BY DEF Inv, TypeOK, SearchInv, Passed
<1>3. dfs_stack = <<>> /\ cycle_nodes = <<>> /\ pc = "roots"
    BY <1>0 DEF Inv, SearchInv, Passed
<1>4. Closed' BY <1>0, ClosedKept
<1>5. CASE status[n] = "UNVISITED"
    <2>1. /\ dfs_stack' \in Seq(TransIds) /\ Len(dfs_stack') = 1
          /\ dfs_stack'[1] = n
        <3>1. dfs_stack' = Append(<<>>, n) /\ <<>> \in Seq(TransIds)
            BY <1>1, <1>3, <1>5, EmptySeq
        <3>2. Len(<<>>) = 0 OBVIOUS
        <3> QED BY <1>2, <3>1, <3>2, AppendProperties
    <2>2. /\ status' \in [TransIds -> {"UNVISITED", "VISITED", "FINISHED"}]
          /\ status'[n] = "VISITED"
          /\ \A m \in TransIds : m # n => status'[m] = status[m]
        BY <1>1, <1>2, <1>5 DEF Inv, TypeOK
    <2>3. TypeOK' BY <1>0, <1>1, <1>5, <2>1, <2>2 DEF Inv, TypeOK
    <2>4. Finished' = Finished BY <1>5, <2>2 DEF Finished
    <2>5. Behind' BY <1>0, <2>4, BehindKept
    <2>6. Path'
        <3>1. Elems(dfs_stack') = {n}
            <4>1. 1..1 = {1} OBVIOUS
            <4>2. Elems(dfs_stack') = {dfs_stack'[i] : i \in 1..1}
                BY <2>1, OnStack
            <4> QED BY <2>1, <4>1, <4>2
        <3>2. \A m \in TransIds : status[m] # "VISITED"
            <4>1. Elems(dfs_stack) = {} BY <1>3, StackFacts
            <4> QED BY <4>1 DEF Inv, SearchInv, Path
        <3>3. \A i \in 1..1 : i = 1 OBVIOUS
        <3> QED BY <1>0, <1>2, <2>1, <2>2, <3>1, <3>2, <3>3 DEF Path, Keys
    <2>7. Passed'
        <3>1. roots' \subseteq Keys' BY <1>0, <1>1 DEF Inv, SearchInv, Passed, Keys
        <3>2. \A m \in Keys' \ roots' : status'[m] # "UNVISITED"
            BY <1>0, <1>1, <1>3, <2>2 DEF Inv, TypeOK, SearchInv, Passed, Keys
        <3>3. pc' = "node" /\ cycle_nodes' = <<>> BY <1>0, <1>1, <1>3, <1>5
        <3> QED BY <3>1, <3>2, <3>3 DEF Passed
    <2>8. AtRest' /\ Looking' /\ Unwinding' /\ Answered'
        BY <1>1, <1>5 DEF AtRest, Looking, Unwinding, Answered
    <2> QED BY <1>4, <2>3, <2>5, <2>6, <2>7, <2>8 DEF Inv, SearchInv
<1>6. CASE status[n] # "UNVISITED"
    <2>1. UNCHANGED <<dfs_stack, status, pc>> BY <1>1, <1>6
    <2>2. TypeOK' BY <1>0, <1>1, <2>1 DEF Inv, TypeOK
    <2>3. Finished' = Finished BY <2>1 DEF Finished
    <2>4. Path' /\ Behind' BY <1>0, <2>1, <2>3, PathKept, BehindKept
    <2>5. Passed' BY <1>0, <1>1, <1>3, <1>6, <2>1 DEF Inv, SearchInv, Passed, Keys
    <2>6. AtRest' /\ Looking' /\ Unwinding' /\ Answered'
        BY <1>3, <2>1 DEF AtRest, Looking, Unwinding, Answered
    <2> QED BY <1>4, <2>2, <2>4, <2>5, <2>6 DEF Inv, SearchInv
<1> QED BY <1>5, <1>6

LEMMA ExploreTopKeeps ==
    ASSUME Inv, ExploreTop
    PROVE  Inv'
<1> USE DEF ExploreTop
<1> DEFINE top == dfs_stack[Len(dfs_stack)]
<1>1. Len(dfs_stack) \in Nat /\ Len(dfs_stack) >= 1 BY StackFacts
<1>2. top \in Keys /\ top \in TransIds
    BY <1>1, StackFacts DEF Inv, SearchInv, Path
<1>3. current_node' = top /\ adjacent' = adjacency_lists[top] BY DEF Top
<1> HIDE DEF top
<1>4. TypeOK' BY <1>2, <1>3 DEF Inv, TypeOK, Keys
<1>5. Finished' = Finished BY DEF Finished
<1>6. Closed' /\ Path' /\ Behind' BY <1>5, ClosedKept, PathKept, BehindKept
<1>7. Passed' BY DEF Inv, SearchInv, Passed, Keys
<1>8. Looking' BY <1>1, <1>2, <1>3 DEF Looking, Keys, top
<1>9. AtRest' /\ Unwinding' /\ Answered' BY DEF AtRest, Unwinding, Answered
<1> QED BY <1>4, <1>6, <1>7, <1>8, <1>9 DEF Inv, SearchInv

LEMMA SearchedRootKeeps ==
    ASSUME Inv, SearchedRoot
    PROVE  Inv'
<1> USE DEF SearchedRoot, search
<1>1. TypeOK' BY DEF Inv, TypeOK
<1>2. Finished' = Finished BY DEF Finished
<1>3. Closed' /\ Path' /\ Behind' BY <1>2, ClosedKept, PathKept, BehindKept
<1>4. Passed' BY DEF Inv, SearchInv, Passed, Keys
<1>5. AtRest' /\ Looking' /\ Unwinding' /\ Answered'
    BY DEF AtRest, Looking, Unwinding, Answered
<1> QED BY <1>1, <1>3, <1>4, <1>5 DEF Inv, SearchInv

LEMMA ReturnKeeps ==
    ASSUME Inv, Return
    PROVE  Inv'
<1> USE DEF Return
<1>1. TypeOK'
    <2>1. status' \in [TransIds -> {"UNVISITED", "VISITED", "FINISHED"}]
        BY DEF Unvisited
    <2>2. parent' \in [TransIds -> TransIds \cup {None}] BY DEF Orphans
    <2>3. dfs_stack' \in Seq(TransIds) /\ cycle_nodes' \in Seq(TransIds)
        BY EmptySeq
    <2> QED BY <2>1, <2>2, <2>3 DEF Inv, TypeOK
<1>2. Finished' = {} /\ Len(dfs_stack') = 0 BY DEF Finished, Unvisited
<1>3. Closed' BY ClosedKept
<1>4. AtRest' BY DEF AtRest, Unvisited
<1>5. Path' BY <1>2 DEF Path, Unvisited
<1>6. Behind' BY <1>2 DEF Behind
<1>7. Passed' /\ Looking' /\ Unwinding' /\ Answered'
    BY DEF Passed, Looking, Unwinding, Answered
<1> QED BY <1>1, <1>3, <1>4, <1>5, <1>6, <1>7 DEF Inv, SearchInv

\* The node the search looks at is on the stack, at the top or, when a
\* neighbour has been pushed, one below.
LEMMA Position ==
    ASSUME Inv, pc = "adjacent"
    PROVE  \E b \in 1..Len(dfs_stack) :
              /\ current_node = dfs_stack[b]
              /\ current_node \in Keys /\ current_node \in TransIds
              /\ \A j \in 1..Len(dfs_stack) : dfs_stack[j] \in adjacent => j <= b
              /\ ~found_unvisited_neighbor => b = Len(dfs_stack)
<1>1. Looking /\ TypeOK BY DEF Inv, SearchInv
<1>2. Len(dfs_stack) \in Nat BY StackFacts
<1>3. CASE found_unvisited_neighbor
    <2>1. Len(dfs_stack) - 1 \in 1..Len(dfs_stack) BY <1>1, <1>2, <1>3 DEF Looking
    <2>2. \A j \in 1..Len(dfs_stack) :
             dfs_stack[j] \in adjacent => j <= Len(dfs_stack) - 1
        BY <1>1, <1>2, <1>3 DEF Looking
    <2> QED BY <1>1, <1>3, <2>1, <2>2 DEF Looking, TypeOK, Keys
<1>4. CASE ~found_unvisited_neighbor
    <2>1. Len(dfs_stack) \in 1..Len(dfs_stack) BY <1>1, <1>2, <1>4 DEF Looking
    <2>2. \A j \in 1..Len(dfs_stack) : j <= Len(dfs_stack) BY <1>2
    <2> QED BY <1>1, <1>4, <2>1, <2>2 DEF Looking, TypeOK, Keys
<1> QED BY <1>3, <1>4

LEMMA SeeVisitedKeeps ==
    ASSUME Inv, pc = "adjacent", NEW n \in adjacent, SeeVisited(n),
           adjacent' = adjacent \ {n},
           UNCHANGED <<adjacency_lists, roots, current_node, cycle_nodes>>
    PROVE  Inv'
<1>1. /\ status[n] = "VISITED" /\ closing' = n /\ pc' = "unwind"
      /\ UNCHANGED <<status, parent, dfs_stack, found_unvisited_neighbor>>
    BY DEF SeeVisited
<1>2. n \in TransIds /\ n \in adjacency_lists[current_node]
    BY DEF Inv, TypeOK, SearchInv, Looking
<1>3. TypeOK' BY <1>1, <1>2 DEF Inv, TypeOK
<1>4. Finished' = Finished BY <1>1 DEF Finished
<1>5. Closed' /\ Path' /\ Behind'
    BY <1>1, <1>4, ClosedKept, PathKept, BehindKept
<1>6. Passed' BY <1>1 DEF Inv, SearchInv, Passed, Keys
<1>7. Unwinding'
    <2>1. PICK b \in 1..Len(dfs_stack) :
            /\ current_node = dfs_stack[b]
            /\ current_node \in Keys /\ current_node \in TransIds
            /\ \A j \in 1..Len(dfs_stack) : dfs_stack[j] \in adjacent => j <= b
        BY Position
    <2>2. n \in Elems(dfs_stack) BY <1>1, <1>2 DEF Inv, SearchInv, Path
    <2>3. PICK j \in 1..Len(dfs_stack) : n = dfs_stack[j] BY <2>2, StackFacts
    <2>4. j <= b BY <2>1, <2>3
    <2>5. Len(dfs_stack) \in Nat BY StackFacts
    <2>6. b \in 1..b /\ j \in 1..b /\ b - b = 0 /\ 1..0 = {} BY <2>4, <2>5
    <2>7. <<dfs_stack[b], dfs_stack[j]>> \in Arcs
        BY <1>2, <2>1, <2>3 DEF Arcs, Keys
    <2>8. Arcs' = Arcs BY SameGraph
    <2>9. cycle_nodes' = <<>> BY DEF Inv, SearchInv, Passed
    <2>10. UnwindingAt(b, b, j)'
        BY <1>1, <2>1, <2>3, <2>6, <2>7, <2>8, <2>9 DEF UnwindingAt
    <2> QED BY <1>1, <2>6, <2>10 DEF Unwinding
<1>8. AtRest' /\ Looking' /\ Answered' BY <1>1 DEF AtRest, Looking, Answered
<1> QED BY <1>3, <1>5, <1>6, <1>7, <1>8 DEF Inv, SearchInv

LEMMA SeeUnvisitedKeeps ==
    ASSUME Inv, pc = "adjacent", NEW n \in adjacent, SeeUnvisited(n),
           adjacent' = adjacent \ {n},
           UNCHANGED <<adjacency_lists, roots, current_node, cycle_nodes>>
    PROVE  Inv'
<1>1. /\ status[n] = "UNVISITED" /\ ~found_unvisited_neighbor
      /\ found_unvisited_neighbor' = TRUE
      /\ dfs_stack' = Append(dfs_stack, n)
      /\ status' = [status EXCEPT ![n] = "VISITED"]
      /\ parent' = [parent EXCEPT ![n] = current_node]
      /\ pc' = "adjacent" /\ closing' = closing
    BY DEF SeeUnvisited
<1> DEFINE len == Len(dfs_stack)
<1>2. /\ n \in TransIds /\ n \in adjacency_lists[current_node]
      /\ n \in Keys
    BY DEF Inv, TypeOK, SearchInv, Looking, Closed
<1>3. /\ len \in Nat /\ len >= 1 /\ current_node = dfs_stack[len]
      /\ current_node \in Keys /\ current_node \in TransIds
    <2>1. Looking BY DEF Inv, SearchInv
    <2> QED BY <1>1, <2>1, StackFacts DEF Looking, Inv, TypeOK, Keys
<1>4. /\ dfs_stack' \in Seq(TransIds) /\ Len(dfs_stack') = len + 1
      /\ dfs_stack'[len + 1] = n
      /\ \A i \in 1..len : dfs_stack'[i] = dfs_stack[i]
    BY <1>1, <1>2, Pushed DEF Inv, TypeOK
<1>5. /\ status' \in [TransIds -> {"UNVISITED", "VISITED", "FINISHED"}]
      /\ status'[n] = "VISITED"
      /\ \A m \in TransIds : m # n => status'[m] = status[m]
    BY <1>1, <1>2 DEF Inv, TypeOK
<1>6. /\ parent' \in [TransIds -> TransIds \cup {None}]
      /\ parent'[n] = current_node
      /\ \A m \in TransIds : m # n => parent'[m] = parent[m]
    BY <1>1, <1>2, <1>3 DEF Inv, TypeOK
<1>7. TypeOK' BY <1>1, <1>4, <1>5, <1>6 DEF Inv, TypeOK
<1>8. Finished' = Finished BY <1>1, <1>5 DEF Finished
<1>9. Closed' /\ Behind' BY <1>8, ClosedKept, BehindKept
<1>10. \A i \in 1..len : /\ dfs_stack[i] \in Keys /\ dfs_stack[i] \in TransIds
                         /\ status[dfs_stack[i]] = "VISITED"
                         /\ dfs_stack[i] # n
    BY <1>1, StackFacts DEF Inv, SearchInv, Path
<1>11. Path'
    <2>1. Keys' = Keys BY SameGraph
    <2>2. \A i \in 1..len + 1 : i \in 1..len \/ i = len + 1 BY <1>3
    <2>3. \A i \in 1..len + 1 :
             dfs_stack'[i] \in Keys /\ status'[dfs_stack'[i]] = "VISITED"
        BY <1>2, <1>4, <1>5, <1>10, <2>2
    <2>4. ASSUME NEW m \in TransIds, status'[m] = "VISITED"
          PROVE  m \in Elems(dfs_stack')
        <3>1. Elems(dfs_stack') = {dfs_stack'[i] : i \in 1..len + 1}
            BY <1>4, OnStack
        <3>2. CASE m = n
            <4>1. len + 1 \in 1..len + 1 BY <1>3
            <4> QED BY <1>4, <3>1, <3>2, <4>1
        <3>3. CASE m # n
            <4>1. m \in Elems(dfs_stack)
                BY <1>5, <2>4, <3>3 DEF Inv, SearchInv, Path
            <4>2. PICK i \in 1..len : m = dfs_stack[i] BY <4>1, StackFacts
            <4>3. i \in 1..len + 1 BY <1>3
            <4> QED BY <1>4, <3>1, <4>2, <4>3
        <3> QED BY <3>2, <3>3
    <2>5. \A i, j \in 1..len + 1 : dfs_stack'[i] = dfs_stack'[j] => i = j
        <3>1. \A i, j \in 1..len : dfs_stack[i] = dfs_stack[j] => i = j
            BY DEF Inv, SearchInv, Path
        <3> QED BY <1>4, <1>10, <2>2, <3>1
    <2>6. ASSUME NEW i \in 1..len
          PROVE  /\ parent'[dfs_stack'[i + 1]] = dfs_stack'[i]
                 /\ dfs_stack'[i + 1] \in adjacency_lists'[dfs_stack'[i]]
        <3>1. CASE i = len BY <1>2, <1>3, <1>4, <1>6, <3>1
        <3>2. CASE i # len
            <4>1. i \in 1..len - 1 /\ i + 1 \in 1..len BY <1>3, <3>2
            <4>2. /\ parent[dfs_stack[i + 1]] = dfs_stack[i]
                  /\ dfs_stack[i + 1] \in adjacency_lists[dfs_stack[i]]
                BY <4>1 DEF Inv, SearchInv, Path
            <4> QED BY <1>4, <1>6, <1>10, <4>1, <4>2
        <3> QED BY <3>1, <3>2
    <2>7. 1..Len(dfs_stack') - 1 = 1..len BY <1>3, <1>4
    <2> QED BY <1>4, <2>1, <2>3, <2>4, <2>5, <2>6, <2>7 DEF Path
<1>12. Passed'
    <2>1. roots' \subseteq Keys' /\ cycle_nodes' = <<>>
        BY DEF Inv, SearchInv, Passed, Keys
    <2>2. \A m \in Keys' \ roots' : status'[m] # "UNVISITED"
        BY <1>5 DEF Inv, TypeOK, SearchInv, Passed, Keys
    <2> QED BY <1>1, <2>1, <2>2 DEF Passed
<1>13. Looking'
    <2>1. adjacent' \subseteq adjacency_lists'[current_node']
        BY DEF Inv, SearchInv, Looking
    <2>2. Len(dfs_stack') >= 2 /\ Len(dfs_stack') - 1 = len BY <1>3, <1>4
    <2>3. current_node' = dfs_stack'[len] BY <1>3, <1>4
    <2> QED BY <1>1, <1>3, <1>4, <2>1, <2>2, <2>3 DEF Looking, Keys
<1>14. AtRest' /\ Unwinding' /\ Answered'
    BY <1>1 DEF AtRest, Unwinding, Answered
<1> QED BY <1>7, <1>9, <1>11, <1>12, <1>13, <1>14 DEF Inv, SearchInv

LEMMA PassNeighborKeeps ==
    ASSUME Inv, pc = "adjacent", NEW n \in adjacent, PassNeighbor(n),
           adjacent' = adjacent \ {n},
           UNCHANGED <<adjacency_lists, roots, current_node, cycle_nodes>>
    PROVE  Inv'
<1>1. /\ status[n] = "FINISHED" \/ found_unvisited_neighbor
      /\ UNCHANGED <<pc, status, parent, dfs_stack, found_unvisited_neighbor, closing>>
    BY DEF PassNeighbor
<1>2. TypeOK' BY <1>1 DEF Inv, TypeOK
<1>3. Finished' = Finished BY <1>1 DEF Finished
<1>4. Closed' /\ Path' /\ Behind'
    BY <1>1, <1>3, ClosedKept, PathKept, BehindKept
<1>5. Passed' BY <1>1 DEF Inv, SearchInv, Passed, Keys
<1>6. Looking'
    <2>1. n \in TransIds BY DEF Inv, TypeOK
    <2>2. Looking BY DEF Inv, SearchInv
    <2>3. CASE found_unvisited_neighbor BY <1>1, <2>2, <2>3 DEF Looking, Keys
    <2>4. CASE ~found_unvisited_neighbor
        <3>1. n \in Finished BY <1>1, <2>1, <2>4 DEF Finished
        <3>2. adjacency_lists[current_node] \ (adjacent \ {n}) \subseteq Finished
            BY <2>2, <2>4, <3>1 DEF Looking
        <3> QED BY <1>1, <1>3, <2>2, <2>4, <3>2 DEF Looking, Keys
    <2> QED BY <2>3, <2>4
<1>7. AtRest' /\ Unwinding' /\ Answered'
    BY <1>1 DEF AtRest, Unwinding, Answered
<1> QED BY <1>2, <1>4, <1>5, <1>6, <1>7 DEF Inv, SearchInv

LEMMA NextAdjacentKeeps ==
    ASSUME Inv, NextAdjacent
    PROVE  Inv'
BY SeeVisitedKeeps, SeeUnvisitedKeeps, PassNeighborKeeps DEF NextAdjacent

LEMMA LeaveNodeKeeps ==
    ASSUME Inv, LeaveNode
    PROVE  Inv'
<1>1. /\ pc = "adjacent" /\ adjacent = {} /\ pc' = "node"
      /\ IF found_unvisited_neighbor THEN UNCHANGED <<status, dfs_stack>>
         ELSE /\ status' = [status EXCEPT ![current_node] = "FINISHED"]
              /\ dfs_stack' = Pop(dfs_stack)
      /\ UNCHANGED <<adjacency_lists, roots, parent, current_node, adjacent,
                     found_unvisited_neighbor, closing, cycle_nodes>>
    BY DEF LeaveNode
<1>2. Closed' BY <1>1, ClosedKept
<1>3. AtRest' /\ Looking' /\ Unwinding' /\ Answered'
    BY <1>1 DEF AtRest, Looking, Unwinding, Answered
<1>4. Keys' = Keys /\ Arcs' = Arcs BY <1>1, SameGraph
<1>5. CASE found_unvisited_neighbor
    <2>1. TypeOK' BY <1>1, <1>5 DEF Inv, TypeOK
    <2>2. Finished' = Finished BY <1>1, <1>5 DEF Finished
    <2>3. Path' /\ Behind' BY <1>1, <1>5, <2>2, PathKept, BehindKept
    <2>4. Passed' BY <1>1, <1>5 DEF Inv, SearchInv, Passed, Keys
    <2> QED BY <1>2, <1>3, <2>1, <2>3, <2>4 DEF Inv, SearchInv
<1>6. CASE ~found_unvisited_neighbor
    <2> DEFINE n == current_node
               len == Len(dfs_stack)
    <2>1. /\ len \in Nat /\ len >= 1 /\ n = dfs_stack[len]
          /\ n \in Keys /\ n \in TransIds
          /\ adjacency_lists[n] \subseteq Finished
        <3>1. Looking /\ TypeOK BY DEF Inv, SearchInv
        <3> QED BY <1>1, <1>6, <3>1, StackFacts DEF Looking, TypeOK, Keys
    <2>2. status[n] = "VISITED"
        <3>1. len \in 1..len BY <2>1
        <3> QED BY <2>1, <3>1 DEF Inv, SearchInv, Path
    <2>3. /\ status' \in [TransIds -> {"UNVISITED", "VISITED", "FINISHED"}]
          /\ status'[n] = "FINISHED"
          /\ \A m \in TransIds : m # n => status'[m] = status[m]
        BY <1>1, <1>6, <2>1 DEF Inv, TypeOK
    <2>4. /\ dfs_stack' \in Seq(TransIds) /\ Len(dfs_stack') = len - 1
          /\ \A i \in 1..len - 1 : dfs_stack'[i] = dfs_stack[i]
        <3>1. dfs_stack # <<>> /\ dfs_stack \in Seq(TransIds)
            BY <2>1, StackFacts DEF Inv, TypeOK
        <3> QED BY <1>1, <1>6, <3>1, Popped
    <2>5. TypeOK' BY <1>1, <2>3, <2>4 DEF Inv, TypeOK
    <2>6. Finished' = Finished \cup {n} BY <2>1, <2>3 DEF Finished
    <2>7. n \notin Finished BY <2>2 DEF Finished
    <2>8. Behind'
        <3>1. \A m \in Finished' : m \in Keys /\ adjacency_lists[m] \subseteq Finished'
            BY <2>1, <2>6 DEF Inv, SearchInv, Behind
        <3>2. ASSUME NEW S \in SUBSET Finished', S # {}, Abstract!IsCycle(Arcs, S)
              PROVE  FALSE
            <4>1. n \in S BY <2>6, <3>2 DEF Inv, SearchInv, Behind
            <4>2. PICK p \in S : <<p, n>> \in Arcs BY <3>2, <4>1, Predecessor
            <4>3. n \in adjacency_lists[p] BY <4>2 DEF Arcs
            <4>4. p \in Finished \/ p = n BY <2>6, <4>2
            <4>5. adjacency_lists[p] \subseteq Finished
                BY <2>1, <4>4 DEF Inv, SearchInv, Behind
            <4> QED BY <2>7, <4>3, <4>5
        <3>3. adjacency_lists' = adjacency_lists BY <1>1
        <3> QED BY <1>4, <3>1, <3>2, <3>3 DEF Behind
    <2>9. Path'
        <3>1. \A i \in 1..len - 1 : i \in 1..len /\ i # len BY <2>1
        <3>2. \A i \in 1..len : i \in 1..len - 1 \/ i = len BY <2>1
        <3>3. \A i \in 1..len - 1 :
                 /\ dfs_stack[i] # n /\ dfs_stack[i] \in TransIds
                 /\ dfs_stack[i] \in Keys /\ status[dfs_stack[i]] = "VISITED"
            <4>1. len \in 1..len BY <2>1
            <4> QED BY <2>1, <3>1, <4>1, StackFacts DEF Inv, SearchInv, Path
        <3>4. ASSUME NEW m \in TransIds, status'[m] = "VISITED"
              PROVE  m \in Elems(dfs_stack')
            <4>1. m # n /\ status[m] = "VISITED" BY <2>3, <3>4
            <4>2. m \in Elems(dfs_stack) BY <4>1 DEF Inv, SearchInv, Path
            <4>3. PICK i \in 1..len : m = dfs_stack[i] BY <4>2, StackFacts
            <4>4. i \in 1..len - 1 BY <2>1, <3>2, <4>1, <4>3
            <4>5. Elems(dfs_stack') = {dfs_stack'[k] : k \in 1..len - 1}
                BY <2>4, OnStack
            <4> QED BY <2>4, <4>3, <4>4, <4>5
        <3>5. \A i, j \in 1..len - 1 : dfs_stack'[i] = dfs_stack'[j] => i = j
            BY <2>4, <3>1 DEF Inv, SearchInv, Path
        <3>6. ASSUME NEW i \in 1..(len - 1) - 1
              PROVE  /\ parent'[dfs_stack'[i + 1]] = dfs_stack'[i]
                     /\ dfs_stack'[i + 1] \in adjacency_lists'[dfs_stack'[i]]
            <4>1. i \in 1..len - 1 /\ i + 1 \in 1..len - 1 BY <2>1
            <4> QED BY <1>1, <2>4, <4>1 DEF Inv, SearchInv, Path
        <3>7. \A i \in 1..len - 1 :
                 dfs_stack'[i] \in Keys' /\ status'[dfs_stack'[i]] = "VISITED"
            BY <1>4, <2>3, <2>4, <3>3
        <3> QED BY <2>4, <3>4, <3>5, <3>6, <3>7 DEF Path
    <2>10. Passed'
        <3>1. roots' \subseteq Keys' /\ cycle_nodes' = <<>>
            BY <1>1, <1>4 DEF Inv, SearchInv, Passed
        <3>2. \A m \in Keys' \ roots' : status'[m] # "UNVISITED"
            BY <1>1, <1>4, <2>3 DEF Inv, TypeOK, SearchInv, Passed, Keys
        <3> QED BY <1>1, <3>1, <3>2 DEF Passed
    <2> QED BY <1>2, <1>3, <2>5, <2>8, <2>9, <2>10 DEF Inv, SearchInv
<1> QED BY <1>5, <1>6

\* Where the cycle is while it is read off, with all names in TransIds.
LEMMA CycleFacts ==
    ASSUME Inv, pc = "unwind",
           NEW b \in 1..Len(dfs_stack), NEW k \in 1..b, NEW j \in 1..k,
           UnwindingAt(b, k, j)
    PROVE  /\ Len(dfs_stack) \in Nat /\ b \in Nat /\ k \in Nat /\ j \in Nat
           /\ 1 <= j /\ j <= k /\ k <= b /\ b <= Len(dfs_stack)
           /\ j \in 1..Len(dfs_stack) /\ k \in 1..Len(dfs_stack)
           /\ current_node \in TransIds /\ closing \in TransIds
           /\ current_node = closing => j = k
<1>1. /\ Len(dfs_stack) \in Nat /\ b \in Nat /\ k \in Nat /\ j \in Nat
      /\ 1 <= j /\ j <= k /\ k <= b /\ b <= Len(dfs_stack)
      /\ j \in 1..Len(dfs_stack) /\ k \in 1..Len(dfs_stack)
    BY StackFacts
<1>2. current_node \in TransIds /\ closing \in TransIds
    BY <1>1, StackFacts DEF UnwindingAt
<1>3. current_node = closing => j = k
    BY <1>1 DEF UnwindingAt, Inv, SearchInv, Path
<1> QED BY <1>1, <1>2, <1>3

LEMMA UnwindKeeps ==
    ASSUME Inv, Unwind
    PROVE  Inv'
<1>1. /\ pc = "unwind" /\ pc' = "unwind" /\ current_node # closing
      /\ cycle_nodes' = Append(cycle_nodes, current_node)
      /\ current_node' = parent[current_node]
      /\ UNCHANGED <<adjacency_lists, roots, status, parent, dfs_stack,
                     adjacent, found_unvisited_neighbor, closing>>
    BY DEF Unwind
<1>2. PICK b \in 1..Len(dfs_stack) : \E k \in 1..b : \E j \in 1..k : UnwindingAt(b, k, j)
    BY <1>1 DEF Inv, SearchInv, Unwinding
<1>3. PICK k \in 1..b : \E j \in 1..k : UnwindingAt(b, k, j) BY <1>2
<1>4. PICK j \in 1..k : UnwindingAt(b, k, j) BY <1>3
<1>5. /\ Len(dfs_stack) \in Nat /\ b \in Nat /\ k \in Nat /\ j \in Nat
      /\ 1 <= j /\ j <= k /\ k <= b /\ b <= Len(dfs_stack)
      /\ j \in 1..Len(dfs_stack) /\ k \in 1..Len(dfs_stack)
      /\ current_node \in TransIds
    BY <1>1, <1>4, CycleFacts
<1>6. j # k BY <1>1, <1>4 DEF UnwindingAt
<1>7. /\ k - 1 \in 1..Len(dfs_stack) - 1 /\ k - 1 \in 1..b /\ j \in 1..k - 1
      /\ (k - 1) + 1 = k /\ k - 1 \in 1..Len(dfs_stack)
    BY <1>5, <1>6
<1>8. current_node' = dfs_stack[k - 1]
    BY <1>1, <1>4, <1>7 DEF UnwindingAt, Inv, SearchInv, Path
<1>9. current_node' \in TransIds BY <1>7, <1>8, StackFacts
<1>10. /\ cycle_nodes' \in Seq(TransIds)
       /\ Len(cycle_nodes') = (b - k) + 1
       /\ cycle_nodes'[(b - k) + 1] = current_node
       /\ \A i \in 1..b - k : cycle_nodes'[i] = cycle_nodes[i]
    <2>1. cycle_nodes \in Seq(TransIds) /\ Len(cycle_nodes) = b - k
        BY <1>4 DEF UnwindingAt, Inv, TypeOK
    <2> QED BY <1>1, <1>5, <2>1, Pushed
<1>11. TypeOK' BY <1>1, <1>9, <1>10 DEF Inv, TypeOK
<1>12. Finished' = Finished BY <1>1 DEF Finished
<1>13. Closed' /\ Path' /\ Behind'
    BY <1>1, <1>12, ClosedKept, PathKept, BehindKept
<1>14. Passed' BY <1>1 DEF Inv, SearchInv, Passed, Keys
<1>15. Unwinding'
    <2>1. Arcs' = Arcs BY <1>1, SameGraph
    <2>2. (b - k) + 1 = b - (k - 1) /\ b + 1 - ((b - k) + 1) = k BY <1>5
    <2>3. \A i \in 1..b - (k - 1) : cycle_nodes'[i] = dfs_stack[b + 1 - i]
        <3>1. \A i \in 1..b - (k - 1) : i \in 1..b - k \/ i = (b - k) + 1 BY <1>5
        <3> QED BY <1>4, <1>10, <2>2, <3>1 DEF UnwindingAt
    <2>4. UnwindingAt(b, k - 1, j)'
        BY <1>1, <1>4, <1>8, <1>10, <2>1, <2>2, <2>3 DEF UnwindingAt
    <2> QED BY <1>1, <1>7, <2>4 DEF Unwinding
<1>16. AtRest' /\ Looking' /\ Answered' BY <1>1 DEF AtRest, Looking, Answered
<1> QED BY <1>11, <1>13, <1>14, <1>15, <1>16 DEF Inv, SearchInv

LEMMA FoundCycleKeeps ==
    ASSUME Inv, FoundCycle
    PROVE  Inv'
<1>1. /\ pc = "unwind" /\ pc' = "answer" /\ current_node = closing
      /\ cycle_nodes' = Append(cycle_nodes, closing)
      /\ UNCHANGED <<adjacency_lists, roots, status, parent, dfs_stack,
                     current_node, adjacent, found_unvisited_neighbor, closing>>
    BY DEF FoundCycle
<1>2. PICK b \in 1..Len(dfs_stack) : \E k \in 1..b : \E j \in 1..k : UnwindingAt(b, k, j)
    BY <1>1 DEF Inv, SearchInv, Unwinding
<1>3. PICK k \in 1..b : \E j \in 1..k : UnwindingAt(b, k, j) BY <1>2
<1>4. PICK j \in 1..k : UnwindingAt(b, k, j) BY <1>3
<1>5. /\ Len(dfs_stack) \in Nat /\ b \in Nat /\ j \in Nat
      /\ 1 <= j /\ j <= b /\ b <= Len(dfs_stack)
      /\ closing \in TransIds /\ j = k
    BY <1>1, <1>4, CycleFacts
<1>6. UnwindingAt(b, j, j) BY <1>4, <1>5
<1>7. /\ cycle_nodes' \in Seq(TransIds)
      /\ Len(cycle_nodes') = (b - j) + 1
      /\ cycle_nodes'[(b - j) + 1] = dfs_stack[j]
      /\ \A i \in 1..b - j : cycle_nodes'[i] = dfs_stack[b + 1 - i]
    <2>1. /\ cycle_nodes \in Seq(TransIds) /\ Len(cycle_nodes) = b - j
          /\ closing = dfs_stack[j]
          /\ \A i \in 1..b - j : cycle_nodes[i] = dfs_stack[b + 1 - i]
        BY <1>6 DEF UnwindingAt, Inv, TypeOK
    <2>2. closing \in TransIds /\ cycle_nodes' = Append(cycle_nodes, closing)
        BY <1>1, <1>5
    <2>3. /\ cycle_nodes' \in Seq(TransIds)
          /\ Len(cycle_nodes') = Len(cycle_nodes) + 1
          /\ cycle_nodes'[Len(cycle_nodes) + 1] = closing
          /\ \A i \in 1..Len(cycle_nodes) : cycle_nodes'[i] = cycle_nodes[i]
        BY <2>1, <2>2, Pushed
    <2> QED BY <2>1, <2>3
<1>8. TypeOK' BY <1>1, <1>7 DEF Inv, TypeOK
<1>9. Finished' = Finished BY <1>1 DEF Finished
<1>10. Closed' /\ Path' /\ Behind'
    BY <1>1, <1>9, ClosedKept, PathKept, BehindKept
<1>11. Passed' BY <1>1 DEF Inv, SearchInv, Passed, Keys
<1>12. Answered'
    <2>1. \A i \in 1..(b - j) + 1 : cycle_nodes'[i] = dfs_stack[b + 1 - i]
        <3>1. \A i \in 1..(b - j) + 1 : i \in 1..b - j \/ i = (b - j) + 1 BY <1>5
        <3>2. b + 1 - ((b - j) + 1) = j BY <1>5
        <3> QED BY <1>7, <3>1, <3>2
    <2>2. Elems(cycle_nodes') = {dfs_stack[i] : i \in j..b}
        <3>1. Elems(cycle_nodes') = {cycle_nodes'[i] : i \in 1..(b - j) + 1}
            BY <1>7, OnStack
        <3>2. \A i \in 1..(b - j) + 1 : b + 1 - i \in j..b BY <1>5
        <3>3. \A i \in j..b : /\ b + 1 - i \in 1..(b - j) + 1
                              /\ b + 1 - (b + 1 - i) = i
            BY <1>5
        <3>4. ASSUME NEW x \in Elems(cycle_nodes')
              PROVE  x \in {dfs_stack[i] : i \in j..b}
            BY <2>1, <3>1, <3>2
        <3>5. ASSUME NEW i \in j..b PROVE dfs_stack[i] \in Elems(cycle_nodes')
            <4>1. cycle_nodes'[b + 1 - i] = dfs_stack[i] BY <2>1, <3>3
            <4> QED BY <3>1, <3>3, <4>1
        <3> QED BY <3>4, <3>5
    <2>3. ASSUME NEW i \in 1..Len(dfs_stack) - 1
          PROVE  <<dfs_stack[i], dfs_stack[i + 1]>> \in Arcs
        <3>1. i \in 1..Len(dfs_stack) /\ i + 1 \in 1..Len(dfs_stack) BY <1>5
        <3> QED BY <3>1, StackFacts DEF Arcs, Keys, Inv, SearchInv, Path
    <2>4. /\ dfs_stack \in Seq(TransIds) /\ j \in 1..b
          /\ \A i, m \in 1..Len(dfs_stack) : dfs_stack[i] = dfs_stack[m] => i = m
          /\ <<dfs_stack[b], dfs_stack[j]>> \in Arcs
        BY <1>5, <1>6 DEF UnwindingAt, Inv, TypeOK, SearchInv, Path
    <2>5. {dfs_stack[i] : i \in j..b} \in Abstract!FindDeadlockNodes(Arcs)
        BY <2>3, <2>4, PathCloses
    <2>6. Arcs' = Arcs BY <1>1, SameGraph
    <2> QED BY <2>2, <2>5, <2>6 DEF Answered
<1>13. AtRest' /\ Looking' /\ Unwinding' BY <1>1 DEF AtRest, Looking, Unwinding
<1> QED BY <1>8, <1>10, <1>11, <1>12, <1>13 DEF Inv, SearchInv

LEMMA NoCycleKeeps ==
    ASSUME Inv, NoCycle
    PROVE  Inv'
<1>1. /\ pc = "roots" /\ roots = {} /\ pc' = "answer"
      /\ UNCHANGED adjacency_lists /\ UNCHANGED search
    BY DEF NoCycle
<1>2. TypeOK' BY <1>1 DEF Inv, TypeOK, search
<1>3. Finished' = Finished BY <1>1 DEF Finished, search
<1>4. Closed' /\ Path' /\ Behind'
    BY <1>1, <1>3, ClosedKept, PathKept, BehindKept DEF search
<1>5. Passed' BY <1>1 DEF Inv, SearchInv, Passed, Keys, search
<1>6. Answered'
    <2>1. dfs_stack = <<>> /\ cycle_nodes = <<>> BY <1>1 DEF Inv, SearchInv, Passed
    <2>2. Elems(dfs_stack) = {} BY <2>1, StackFacts
    <2>3. ASSUME NEW n \in Keys PROVE n \in Finished
        <3>1. n \in TransIds BY DEF Keys, Inv, TypeOK
        <3>2. status[n] # "UNVISITED" BY <1>1 DEF Inv, SearchInv, Passed
        <3>3. status[n] # "VISITED" BY <2>2, <3>1 DEF Inv, SearchInv, Path
        <3> QED BY <3>1, <3>2, <3>3 DEF Finished, Inv, TypeOK
    <2>4. \A a \in Arcs : a[1] \in Keys /\ a[2] \in Keys
        BY DEF Arcs, Keys, Inv, SearchInv, Closed
    <2>5. Abstract!Nodes(Arcs) \subseteq Finished
        BY <2>3, <2>4 DEF Abstract!Nodes
    <2>6. Abstract!Cycles(Arcs) = {}
        BY <2>5 DEF Abstract!Cycles, Inv, SearchInv, Behind
    <2>7. Elems(cycle_nodes') = {} BY <1>1, <2>1, <2>2 DEF search
    <2>8. Arcs' = Arcs BY <1>1, SameGraph
    <2> QED BY <2>6, <2>7, <2>8 DEF Answered, Abstract!FindDeadlockNodes
<1>7. AtRest' /\ Looking' /\ Unwinding' BY <1>1 DEF AtRest, Looking, Unwinding
<1> QED BY <1>2, <1>4, <1>5, <1>6, <1>7 DEF Inv, SearchInv

-----------------------------------------------------------------------------
(* The theorems.                                                            *)

LEMMA NextKeeps == Inv /\ [Next]_vars => Inv'
<1> SUFFICES ASSUME Inv, [Next]_vars PROVE Inv' OBVIOUS
<1>1. ASSUME NEW n \in TransIds, AddNode(n) PROVE Inv' BY <1>1, AddNodeKeeps
<1>2. ASSUME NEW n \in TransIds, RemoveNode(n) PROVE Inv'
    BY <1>2, RemoveNodeKeeps
<1>3. ASSUME NEW s \in TransIds, NEW t \in TransIds, AddArc(s, t) PROVE Inv'
    BY <1>3, AddArcKeeps
<1>4. ASSUME NEW s \in TransIds, NEW t \in TransIds, RemoveArc(s, t) PROVE Inv'
    BY <1>4, RemoveArcKeeps
<1>5. CASE Call BY <1>5, CallKeeps
<1>6. CASE Return BY <1>6, ReturnKeeps
<1>7. CASE NextRoot BY <1>7, NextRootKeeps
<1>8. CASE ExploreTop BY <1>8, ExploreTopKeeps
<1>9. CASE NextAdjacent BY <1>9, NextAdjacentKeeps
<1>10. CASE LeaveNode BY <1>10, LeaveNodeKeeps
<1>11. CASE SearchedRoot BY <1>11, SearchedRootKeeps
<1>12. CASE Unwind BY <1>12, UnwindKeeps
<1>13. CASE FoundCycle BY <1>13, FoundCycleKeeps
<1>14. CASE NoCycle BY <1>14, NoCycleKeeps
<1>15. CASE UNCHANGED vars
    <2>1. /\ UNCHANGED <<adjacency_lists, pc, roots, status, parent, dfs_stack,
                         current_node, adjacent, found_unvisited_neighbor,
                         closing, cycle_nodes>>
        BY <1>15 DEF vars, search
    <2>2. TypeOK' BY <2>1 DEF Inv, TypeOK
    <2>3. Finished' = Finished /\ Arcs' = Arcs /\ Keys' = Keys
        BY <2>1, SameGraph DEF Finished
    <2>4. Closed' /\ Path' /\ Behind'
        BY <2>1, <2>3, ClosedKept, PathKept, BehindKept
    <2>5. AtRest' /\ Passed' /\ Looking'
        BY <2>1, <2>3 DEF Inv, SearchInv, AtRest, Passed, Looking
    <2>6. Unwinding'
        BY <2>1, <2>3 DEF Inv, SearchInv, Unwinding, UnwindingAt
    <2>7. Answered' BY <2>1, <2>3 DEF Inv, SearchInv, Answered, Elems
    <2> QED BY <2>2, <2>4, <2>5, <2>6, <2>7 DEF Inv, SearchInv
<1> QED
    BY <1>1, <1>2, <1>3, <1>4, <1>5, <1>6, <1>7, <1>8, <1>9, <1>10, <1>11,
       <1>12, <1>13, <1>14, <1>15 DEF Next, Search

\* The invariant holds in every state, of every graph.
THEOREM SearchStaysOnPath == Spec => []Inv
<1>1. Init => Inv BY InitHolds
<1>2. Inv /\ [Next]_vars => Inv' BY NextKeeps
<1> QED BY <1>1, <1>2, PTL DEF Spec

\* The members of the graph and the locals of its search keep their types
\* through every call, whatever the transaction ids: the stack, the maps and
\* the reconstructed cycle hold transaction ids only.
THEOREM GraphTypeCorrect == Spec => []TypeOK
<1>1. Inv => TypeOK BY DEF Inv
<1> QED BY <1>1, SearchStaysOnPath, PTL

\* The search never follows an arc out of the map or a parent that is not
\* there: neither adjacency_lists.at nor parent.value() throws.
THEOREM NeverDangles == Spec => []NothingDangles
<1>1. ASSUME Inv PROVE NothingDangles
    <2>1. \A n \in DOMAIN adjacency_lists :
             adjacency_lists[n] \subseteq DOMAIN adjacency_lists
        BY <1>1 DEF Inv, SearchInv, Closed, Keys
    <2>2. ASSUME pc = "unwind" PROVE current_node # None
        <3>1. PICK b \in 1..Len(dfs_stack) :
                 \E k \in 1..b : \E j \in 1..k : UnwindingAt(b, k, j)
            BY <1>1, <2>2 DEF Inv, SearchInv, Unwinding
        <3>2. PICK k \in 1..b : \E j \in 1..k : UnwindingAt(b, k, j) BY <3>1
        <3>3. current_node \in TransIds BY <1>1, <2>2, <3>2, CycleFacts
        <3> QED BY <3>3, NoneAssumption
    <2> QED BY <2>1, <2>2 DEF NothingDangles
<1> QED BY <1>1, SearchStaysOnPath, PTL

\* The depth-first search of waitfor.cpp answers with the nodes of a cycle, or
\* with none exactly when the graph has no cycle, whatever the graph and the
\* order in which it is walked.
THEOREM SearchImplemented == Spec => ImplementsSearch
<1>1. Init => Abstract!Init
    <2> SUFFICES ASSUME Init PROVE Abstract!Init OBVIOUS
    <2>1. Arcs = {} BY DEF Init, Arcs
    <2>2. Returned = {} BY DEF Init, Returned
    <2> QED BY <2>1, <2>2 DEF Abstract!Init
<1>2. ASSUME Inv, Inv', [Next]_vars PROVE [Abstract!Next]_<<Arcs, Returned>>
    <2>1. ASSUME NEW n \in TransIds, AddNode(n) PROVE UNCHANGED <<Arcs, Returned>>
        <3>1. Arcs' = Arcs
            BY <2>1 DEF AddNode, Emplace, Arcs
        <3>2. Returned' = Returned BY <2>1 DEF AddNode, Returned
        <3> QED BY <3>1, <3>2
    <2>2. ASSUME NEW n \in TransIds, RemoveNode(n) PROVE Abstract!Remove(n)
        <3>1. Arcs' = {a \in Arcs : n \notin {a[1], a[2]}}
            BY <2>2 DEF RemoveNode, Arcs
        <3>2. Returned' = {} BY <2>2 DEF RemoveNode, Returned
        <3> QED BY <3>1, <3>2 DEF Abstract!Remove, Abstract!RemoveNode
    <2>3. ASSUME NEW s \in TransIds, NEW t \in TransIds, AddArc(s, t)
          PROVE  Abstract!Add(s, t)
        <3>1. Arcs' = Arcs \cup {<<s, t>>}
            BY <2>3 DEF AddArc, Emplace, Arcs
        <3>2. Returned' = {} BY <2>3 DEF AddArc, Returned
        <3> QED BY <3>1, <3>2 DEF Abstract!Add, Abstract!AddArcs
    <2>4. ASSUME NEW s \in TransIds, NEW t \in TransIds, RemoveArc(s, t)
          PROVE  Abstract!RemoveOne(s, t)
        <3>1. Arcs' = Arcs \ {<<s, t>>}
            BY <2>4 DEF RemoveArc, Arcs
        <3>2. Returned' = {} BY <2>4 DEF RemoveArc, Returned
        <3> QED BY <3>1, <3>2 DEF Abstract!RemoveOne
    <2>5. CASE Call \/ NextRoot \/ ExploreTop \/ NextAdjacent \/ LeaveNode
               \/ SearchedRoot \/ Unwind
        <3>1. UNCHANGED adjacency_lists /\ pc # "answer" /\ pc' # "answer"
            BY <2>5 DEF Call, NextRoot, ExploreTop, NextAdjacent, SeeVisited,
                        SeeUnvisited, PassNeighbor, LeaveNode, SearchedRoot, Unwind
        <3> QED BY <3>1, SameGraph DEF Returned
    <2>6. CASE FoundCycle \/ NoCycle
        <3>1. UNCHANGED adjacency_lists /\ pc' = "answer"
            BY <2>6 DEF FoundCycle, NoCycle
        <3>2. Arcs' = Arcs BY <3>1, SameGraph
        <3>3. Elems(cycle_nodes') \in Abstract!FindDeadlockNodes(Arcs)
            BY <1>2, <3>1, <3>2 DEF Inv, SearchInv, Answered
        <3> QED BY <3>1, <3>2, <3>3 DEF Abstract!Find, Abstract!Next, Returned
    <2>7. CASE Return
        <3>1. Arcs' = Arcs /\ Returned' = {}
            BY <2>7, SameGraph DEF Return, Returned
        <3> QED BY <3>1 DEF Abstract!Take, Abstract!Next
    <2>8. CASE UNCHANGED vars
        BY <2>8 DEF vars, search, Arcs, Returned, Elems
    <2> QED
        BY <1>2, <2>1, <2>2, <2>3, <2>4, <2>5, <2>6, <2>7, <2>8
        DEF Next, Search, Abstract!Next
<1> QED BY <1>1, <1>2, SearchStaysOnPath, PTL DEF Spec, ImplementsSearch, Abstract!Spec

-----------------------------------------------------------------------------
(* Every step of a search leaves less of it.                                *)

Phase == IF pc \in {"roots", "node", "adjacent"} THEN 2 ELSE IF pc = "unwind" THEN 1 ELSE 0
Unseen == {n \in TransIds : status[n] = "UNVISITED"}
Unread == Len(dfs_stack) - Len(cycle_nodes)
Returning == IF pc = "adjacent" /\ found_unvisited_neighbor THEN 1 ELSE 0
AtTop == IF pc = "node" THEN 1 ELSE 0

LEMMA PartsOfRemaining ==
    /\ DOMAIN SearchRemaining = 1..7
    /\ SearchRemaining[1] = Phase
    /\ SearchRemaining[2] = Cardinality(Unseen)
    /\ SearchRemaining[3] = Cardinality(roots)
    /\ SearchRemaining[4] = Unread
    /\ SearchRemaining[5] = Returning
    /\ SearchRemaining[6] = AtTop
    /\ SearchRemaining[7] = Cardinality(adjacent)
<1> DEFINE p == Phase
           u == Unseen
           l == Unread
           r == Returning
           t == AtTop
<1>1. SearchRemaining = <<p, Cardinality(u), Cardinality(roots), l, r, t,
                          Cardinality(adjacent)>>
    BY DEF SearchRemaining, Phase, Unseen, Unread, Returning, AtTop
<1> HIDE DEF p, u, l, r, t
<1>2. /\ DOMAIN SearchRemaining = 1..7
      /\ SearchRemaining[1] = p
      /\ SearchRemaining[2] = Cardinality(u)
      /\ SearchRemaining[3] = Cardinality(roots)
      /\ SearchRemaining[4] = l
      /\ SearchRemaining[5] = r
      /\ SearchRemaining[6] = t
      /\ SearchRemaining[7] = Cardinality(adjacent)
    BY <1>1
<1> QED BY <1>2 DEF p, u, l, r, t

LEMMA NextPartsOfRemaining ==
    /\ DOMAIN SearchRemaining' = 1..7
    /\ SearchRemaining'[1] = Phase'
    /\ SearchRemaining'[2] = Cardinality(Unseen')
    /\ SearchRemaining'[3] = Cardinality(roots')
    /\ SearchRemaining'[4] = Unread'
    /\ SearchRemaining'[5] = Returning'
    /\ SearchRemaining'[6] = AtTop'
    /\ SearchRemaining'[7] = Cardinality(adjacent')
<1>1. (/\ DOMAIN SearchRemaining = 1..7
       /\ SearchRemaining[1] = Phase
       /\ SearchRemaining[2] = Cardinality(Unseen)
       /\ SearchRemaining[3] = Cardinality(roots)
       /\ SearchRemaining[4] = Unread
       /\ SearchRemaining[5] = Returning
       /\ SearchRemaining[6] = AtTop
       /\ SearchRemaining[7] = Cardinality(adjacent))'
    BY PartsOfRemaining, PTL
<1> QED BY <1>1

\* The parts before k stay, and k falls.
LEMMA LessAt ==
    ASSUME NEW k \in 1..7,
           SearchRemaining'[k] < SearchRemaining[k],
           \A j \in 1..k - 1 : SearchRemaining'[j] = SearchRemaining[j]
    PROVE  Less(SearchRemaining', SearchRemaining)
<1>1. k \in DOMAIN SearchRemaining BY PartsOfRemaining
<1> QED BY <1>1 DEF Less

\* The sets of a search are finite, and a set without one of its members is
\* smaller.
LEMMA SetsCounted ==
    ASSUME Inv, IsFiniteSet(TransIds)
    PROVE  /\ IsFiniteSet(Unseen) /\ Cardinality(Unseen) \in Nat
           /\ IsFiniteSet(roots) /\ Cardinality(roots) \in Nat
           /\ IsFiniteSet(adjacent) /\ Cardinality(adjacent) \in Nat
<1>1. /\ Unseen \in SUBSET TransIds /\ roots \in SUBSET TransIds
      /\ adjacent \in SUBSET TransIds
    BY DEF Unseen, Inv, TypeOK
<1>2. IsFiniteSet(Unseen) /\ IsFiniteSet(roots) /\ IsFiniteSet(adjacent)
    BY <1>1, FS_Subset
<1> QED BY <1>2, FS_CardinalityType

LEMMA OneLess ==
    ASSUME NEW S, NEW T, NEW x \in S, T = S \ {x}, IsFiniteSet(S)
    PROVE  Cardinality(T) < Cardinality(S)
<1>1. Cardinality(S) \in Nat BY FS_CardinalityType
<1>2. Cardinality(T) = Cardinality(S) - 1 BY FS_RemoveElement
<1> QED BY <1>1, <1>2

\* A cycle that is being read off is shorter than the stack.
LEMMA ReadSoFarShorter ==
    ASSUME Inv, pc # "answer"
    PROVE  Unread \in Nat
<1>1. Len(dfs_stack) \in Nat BY StackFacts
<1>2. CASE pc = "unwind"
    <2>1. PICK b \in 1..Len(dfs_stack) : \E k \in 1..b : \E j \in 1..k : UnwindingAt(b, k, j)
        BY <1>2 DEF Inv, SearchInv, Unwinding
    <2>2. PICK k \in 1..b : \E j \in 1..k : UnwindingAt(b, k, j) BY <2>1
    <2>3. Len(cycle_nodes) = b - k BY <2>2 DEF UnwindingAt
    <2> QED BY <1>1, <2>3 DEF Unread
<1>3. CASE pc # "unwind"
    <2>1. pc \in {"idle", "roots", "node", "adjacent"} BY <1>3 DEF Inv, TypeOK
    <2>2. cycle_nodes = <<>> BY <2>1 DEF Inv, SearchInv, AtRest, Passed
    <2>3. Len(cycle_nodes) = 0 BY <2>2
    <2> QED BY <1>1, <2>3 DEF Unread
<1> QED BY <1>2, <1>3

\* Nor is a complete one longer.
LEMMA FoundNoLonger ==
    ASSUME Inv, FoundCycle
    PROVE  Unread' \in Nat
<1>1. /\ pc = "unwind" /\ cycle_nodes' = Append(cycle_nodes, closing)
      /\ dfs_stack' = dfs_stack
    BY DEF FoundCycle
<1>2. PICK b \in 1..Len(dfs_stack) : \E k \in 1..b : \E j \in 1..k : UnwindingAt(b, k, j)
    BY <1>1 DEF Inv, SearchInv, Unwinding
<1>3. PICK k \in 1..b : \E j \in 1..k : UnwindingAt(b, k, j) BY <1>2
<1>4. PICK j \in 1..k : UnwindingAt(b, k, j) BY <1>3
<1>5. Len(cycle_nodes) = b - k BY <1>4 DEF UnwindingAt
<1>6. closing \in TransIds /\ cycle_nodes \in Seq(TransIds)
    BY <1>1, <1>4, CycleFacts DEF Inv, TypeOK
<1>7. Len(cycle_nodes') = (b - k) + 1 BY <1>1, <1>5, <1>6, Pushed
<1>8. Len(dfs_stack) \in Nat BY StackFacts
<1> QED BY <1>1, <1>7, <1>8 DEF Unread

LEMMA PartsNeverNegative ==
    ASSUME Inv, Inv', IsFiniteSet(TransIds), Search
    PROVE  \A k \in DOMAIN SearchRemaining : SearchRemaining'[k] >= 0
<1>1. (Inv /\ IsFiniteSet(TransIds) =>
          /\ Cardinality(Unseen) \in Nat /\ Cardinality(roots) \in Nat
          /\ Cardinality(adjacent) \in Nat)'
    BY SetsCounted, PTL
<1>2. /\ Cardinality(Unseen') \in Nat /\ Cardinality(roots') \in Nat
      /\ Cardinality(adjacent') \in Nat
    BY <1>1
<1>3. Unread' \in Nat
    <2>1. CASE FoundCycle BY <2>1, FoundNoLonger
    <2>2. CASE NoCycle
        <3>1. Unread' = Unread /\ pc # "answer" BY <2>2 DEF NoCycle, search, Unread
        <3> QED BY <3>1, ReadSoFarShorter
    <2>3. CASE ~FoundCycle /\ ~NoCycle
        <3>1. pc' # "answer"
            BY <2>3 DEF Search, NextRoot, ExploreTop, NextAdjacent, SeeVisited,
                        SeeUnvisited, PassNeighbor, LeaveNode, SearchedRoot, Unwind
        <3>2. (Inv /\ pc # "answer" => Unread \in Nat)' BY ReadSoFarShorter, PTL
        <3> QED BY <3>1, <3>2
    <2> QED BY <2>1, <2>2, <2>3
<1>4. Phase' >= 0 /\ Returning' >= 0 /\ AtTop' >= 0 BY DEF Phase, Returning, AtTop
<1>5. \A k \in 1..7 : k = 1 \/ k = 2 \/ k = 3 \/ k = 4 \/ k = 5 \/ k = 6 \/ k = 7
    OBVIOUS
<1> HIDE DEF Inv
<1>6. \A k \in 1..7 : SearchRemaining'[k] >= 0
    BY <1>2, <1>3, <1>4, <1>5, NextPartsOfRemaining
<1> QED BY <1>6, PartsOfRemaining

\* The outer loop sees a new node or has one root less.
LEMMA NextRootLess ==
    ASSUME Inv, IsFiniteSet(TransIds), NextRoot
    PROVE  Less(SearchRemaining', SearchRemaining)
<1>1. pc = "roots" BY DEF NextRoot
<1>2. PICK n \in roots :
        /\ roots' = roots \ {n}
        /\ IF status[n] = "UNVISITED"
           THEN /\ dfs_stack' = Append(dfs_stack, n)
                /\ status' = [status EXCEPT ![n] = "VISITED"]
                /\ pc' = "node"
           ELSE UNCHANGED <<dfs_stack, status, pc>>
    BY DEF NextRoot
<1>3. Phase' = Phase BY <1>1, <1>2 DEF Phase
<1>4. CASE status[n] = "UNVISITED"
    <2>1. n \in Unseen /\ Unseen' = Unseen \ {n}
        BY <1>2, <1>4 DEF Unseen, Inv, TypeOK
    <2>2. Cardinality(Unseen') < Cardinality(Unseen) BY <2>1, OneLess, SetsCounted
    <2>3. \A j \in 1..2 - 1 : j = 1 OBVIOUS
    <2>4. 2 \in 1..7 OBVIOUS
    <2> QED BY <1>3, <2>2, <2>3, <2>4, PartsOfRemaining, NextPartsOfRemaining, LessAt
<1>5. CASE status[n] # "UNVISITED"
    <2>1. Unseen' = Unseen BY <1>2, <1>5 DEF Unseen
    <2>2. Cardinality(roots') < Cardinality(roots) BY <1>2, OneLess, SetsCounted
    <2>3. \A j \in 1..3 - 1 : j = 1 \/ j = 2 OBVIOUS
    <2>4. 3 \in 1..7 OBVIOUS
    <2> QED BY <1>3, <2>1, <2>2, <2>3, <2>4, PartsOfRemaining, NextPartsOfRemaining, LessAt
<1> QED BY <1>4, <1>5

\* Looking at a neighbour finds a cycle, a new node, or shortens the list.
LEMMA NextAdjacentLess ==
    ASSUME Inv, IsFiniteSet(TransIds), NextAdjacent
    PROVE  Less(SearchRemaining', SearchRemaining)
<1>1. pc = "adjacent" /\ UNCHANGED <<roots, cycle_nodes>> BY DEF NextAdjacent
<1>2. PICK n \in adjacent :
        adjacent' = adjacent \ {n} /\ (SeeVisited(n) \/ SeeUnvisited(n) \/ PassNeighbor(n))
    BY DEF NextAdjacent
<1>3. CASE SeeVisited(n)
    <2>1. Phase' < Phase BY <1>1, <1>3 DEF SeeVisited, Phase
    <2>2. 1 \in 1..7 /\ \A j \in 1..1 - 1 : FALSE OBVIOUS
    <2> QED BY <2>1, <2>2, PartsOfRemaining, NextPartsOfRemaining, LessAt
<1>4. CASE SeeUnvisited(n)
    <2>1. Phase' = Phase BY <1>1, <1>4 DEF SeeUnvisited, Phase
    <2>2. n \in Unseen /\ Unseen' = Unseen \ {n}
        BY <1>2, <1>4 DEF SeeUnvisited, Unseen, Inv, TypeOK
    <2>3. Cardinality(Unseen') < Cardinality(Unseen) BY <2>2, OneLess, SetsCounted
    <2>4. 2 \in 1..7 /\ \A j \in 1..2 - 1 : j = 1 OBVIOUS
    <2> QED BY <2>1, <2>3, <2>4, PartsOfRemaining, NextPartsOfRemaining, LessAt
<1>5. CASE PassNeighbor(n)
    <2>1. /\ Phase' = Phase /\ Unseen' = Unseen /\ Unread' = Unread
          /\ Returning' = Returning /\ AtTop' = AtTop
        BY <1>1, <1>5 DEF PassNeighbor, Phase, Unseen, Unread, Returning, AtTop
    <2>2. Cardinality(adjacent') < Cardinality(adjacent) BY <1>2, OneLess, SetsCounted
    <2>3. /\ 7 \in 1..7
          /\ \A j \in 1..7 - 1 : j = 1 \/ j = 2 \/ j = 3 \/ j = 4 \/ j = 5 \/ j = 6
        OBVIOUS
    <2> QED BY <1>1, <2>1, <2>2, <2>3, PartsOfRemaining, NextPartsOfRemaining, LessAt
<1> QED BY <1>2, <1>3, <1>4, <1>5

\* Leaving a node takes it off the stack, or returns from it to look at the
\* neighbour that has been pushed.
LEMMA LeaveNodeLess ==
    ASSUME Inv, LeaveNode
    PROVE  Less(SearchRemaining', SearchRemaining)
<1>1. /\ pc = "adjacent" /\ pc' = "node"
      /\ IF found_unvisited_neighbor THEN UNCHANGED <<status, dfs_stack>>
         ELSE /\ status' = [status EXCEPT ![current_node] = "FINISHED"]
              /\ dfs_stack' = Pop(dfs_stack)
      /\ UNCHANGED <<roots, cycle_nodes>>
    BY DEF LeaveNode
<1>2. Phase' = Phase BY <1>1 DEF Phase
<1>3. CASE found_unvisited_neighbor
    <2>1. Unseen' = Unseen /\ Unread' = Unread /\ Returning' < Returning
        BY <1>1, <1>3 DEF Unseen, Unread, Returning
    <2>2. 5 \in 1..7 /\ \A j \in 1..5 - 1 : j = 1 \/ j = 2 \/ j = 3 \/ j = 4 OBVIOUS
    <2> QED BY <1>1, <1>2, <2>1, <2>2, PartsOfRemaining, NextPartsOfRemaining, LessAt
<1>4. CASE ~found_unvisited_neighbor
    <2>1. /\ Len(dfs_stack) \in Nat /\ Len(dfs_stack) >= 1
          /\ current_node = dfs_stack[Len(dfs_stack)] /\ current_node \in TransIds
        <3>1. Looking /\ TypeOK BY DEF Inv, SearchInv
        <3> QED BY <1>1, <1>4, <3>1, StackFacts DEF Looking, TypeOK, Keys
    <2>2. status[current_node] = "VISITED"
        <3>1. Len(dfs_stack) \in 1..Len(dfs_stack) BY <2>1
        <3> QED BY <2>1, <3>1 DEF Inv, SearchInv, Path
    <2>3. Unseen' = Unseen BY <1>1, <1>4, <2>1, <2>2 DEF Unseen, Inv, TypeOK
    <2>4. Unread' < Unread
        <3>1. dfs_stack # <<>> /\ dfs_stack \in Seq(TransIds)
            BY <2>1, StackFacts DEF Inv, TypeOK
        <3>2. Len(dfs_stack') = Len(dfs_stack) - 1 BY <1>1, <1>4, <3>1, Popped
        <3>3. Unread \in Nat BY <1>1, ReadSoFarShorter
        <3>4. Len(cycle_nodes) = 0
            <4>1. cycle_nodes = <<>> BY <1>1 DEF Inv, SearchInv, Passed
            <4> QED BY <4>1
        <3> QED BY <1>1, <2>1, <3>2, <3>4 DEF Unread
    <2>5. 4 \in 1..7 /\ \A j \in 1..4 - 1 : j = 1 \/ j = 2 \/ j = 3 OBVIOUS
    <2> QED BY <1>1, <1>2, <2>3, <2>4, <2>5, PartsOfRemaining, NextPartsOfRemaining, LessAt
<1> QED BY <1>3, <1>4

LEMMA SearchLess ==
    ASSUME Inv, IsFiniteSet(TransIds), Search
    PROVE  Less(SearchRemaining', SearchRemaining)
<1>1. CASE NextRoot BY <1>1, NextRootLess
<1>2. CASE NextAdjacent BY <1>2, NextAdjacentLess
<1>3. CASE LeaveNode BY <1>3, LeaveNodeLess
<1>4. CASE ExploreTop \/ SearchedRoot
    <2>1. /\ Phase' = Phase /\ Unseen' = Unseen /\ roots' = roots
          /\ Unread' = Unread /\ Returning' = Returning /\ AtTop' < AtTop
        BY <1>4 DEF ExploreTop, SearchedRoot, search, Phase, Unseen, Unread,
                    Returning, AtTop
    <2>2. 6 \in 1..7 /\ \A j \in 1..6 - 1 : j = 1 \/ j = 2 \/ j = 3 \/ j = 4 \/ j = 5
        OBVIOUS
    <2> QED BY <2>1, <2>2, PartsOfRemaining, NextPartsOfRemaining, LessAt
<1>5. CASE Unwind
    <2>1. /\ pc = "unwind" /\ pc' = "unwind"
          /\ cycle_nodes' = Append(cycle_nodes, current_node)
          /\ UNCHANGED <<roots, status, dfs_stack>>
        BY <1>5 DEF Unwind
    <2>2. Phase' = Phase /\ Unseen' = Unseen BY <2>1 DEF Phase, Unseen
    <2>3. current_node \in TransIds
        BY <2>1, CycleFacts DEF Inv, SearchInv, Unwinding
    <2>4. /\ Len(cycle_nodes) \in Nat /\ Len(cycle_nodes') = Len(cycle_nodes) + 1
        BY <2>1, <2>3, Pushed DEF Inv, TypeOK
    <2>5. Unread' < Unread BY <2>1, <2>4, StackFacts DEF Unread
    <2>6. 4 \in 1..7 /\ \A j \in 1..4 - 1 : j = 1 \/ j = 2 \/ j = 3 OBVIOUS
    <2> QED BY <2>1, <2>2, <2>5, <2>6, PartsOfRemaining, NextPartsOfRemaining, LessAt
<1>6. CASE FoundCycle \/ NoCycle
    <2>1. Phase' < Phase BY <1>6 DEF FoundCycle, NoCycle, Phase
    <2>2. 1 \in 1..7 /\ \A j \in 1..1 - 1 : FALSE OBVIOUS
    <2> QED BY <2>1, <2>2, PartsOfRemaining, NextPartsOfRemaining, LessAt
<1> QED BY <1>1, <1>2, <1>3, <1>4, <1>5, <1>6 DEF Search

\* No search of the wait-for graph goes on for ever, whatever the graph and the
\* order in which it is walked: each step of find_deadlock_nodes leaves less to
\* do in an order without infinite descent.  A graph of unsigned ints is finite.
THEOREM SearchAlwaysProgresses ==
    ASSUME IsFiniteSet(TransIds)
    PROVE  Spec => SearchProgresses
<1>1. ASSUME Inv, Inv', [Next]_vars
      PROVE  [Search => /\ Less(SearchRemaining', SearchRemaining)
                        /\ \A k \in DOMAIN SearchRemaining : SearchRemaining'[k] >= 0]_vars
    <2> SUFFICES ASSUME Search
                 PROVE  /\ Less(SearchRemaining', SearchRemaining)
                        /\ \A k \in DOMAIN SearchRemaining : SearchRemaining'[k] >= 0
        OBVIOUS
    <2>1. Less(SearchRemaining', SearchRemaining) BY <1>1, SearchLess
    <2>2. \A k \in DOMAIN SearchRemaining : SearchRemaining'[k] >= 0
        BY <1>1, PartsNeverNegative
    <2> QED BY <2>1, <2>2
<1> QED BY <1>1, SearchStaysOnPath, PTL DEF Spec, SearchProgresses
=============================================================================
