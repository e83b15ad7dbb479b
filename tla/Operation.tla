------------------------------ MODULE Operation ------------------------------
(***************************************************************************)
(* The operations of a schedule (operation.cpp).  One line of the input,   *)
(* "T1: r(1.2)", becomes a record: the kind of operation, the transaction  *)
(* that issues it and the path of resource ids from the database down to   *)
(* the resource.  How the line is recognised and printed is left out.      *)
(***************************************************************************)
EXTENDS Integers, Sequences, FiniteSets

CONSTANTS
    Tids,    \* transaction ids, the number after "T"
    RscIds   \* resource ids; the same numbers name resources of every level

ASSUME TidsAssumption   == Tids \subseteq Nat
ASSUME RscIdsAssumption == RscIds \subseteq Nat

\* A path names a database, a table, a page or a tuple: one to four ids.
MaxDepth == 4
Paths == UNION {[1..n -> RscIds] : n \in 1..MaxDepth}

\* A commit has no resource: its path is empty.
Operations ==
         [type : {"Read", "Write", "UpdateLock"}, tid : Tids, path : Paths]
    \cup [type : {"Commit"}, tid : Tids, path : {<<>>}]

\* Mutant: the first id is taken, the database's.
GetFirst(op) == op.path[1]
\* The resource the operation is about is the last id of its path alone.
GetResource(op) == op.path[Len(op.path)]
GetDatabase(op) == op.path[1]

\* The granularity, and so the RscType, is the length of the path.
RscType == {"Database", "Table", "Page", "Tuple"}
GetRscType(op) == <<"Database", "Table", "Page", "Tuple">>[Len(op.path)]

\* The ids of the ascendants of the operation's resource.
Ascendants(op) == {op.path[i] : i \in 1..Len(op.path) - 1}
=============================================================================
