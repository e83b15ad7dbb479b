------------------------------- MODULE Schedule -------------------------------
(***************************************************************************)
(* Schedules (schedule.cpp): sequences of operations, the choice of the    *)
(* transaction to abort, the filtering of a vector by transaction that     *)
(* abort_transaction does three times, and the report of main.cpp.         *)
(***************************************************************************)
EXTENDS Operation

\* `return -1' in a function returning unsigned: 2^32 - 1, no operation's id.
NoTid == -1

Elems(s) == {s[i] : i \in DOMAIN s}

\* The transactions with an operation in the vector s.
TidsOf(s) == {s[i].tid : i \in DOMAIN s}

\* How often the operation op occurs in the vector s.
Times(s, op) == Cardinality({i \in DOMAIN s : s[i] = op})

\* Mutant: the element after it goes too.
EraseTwo(s, i) == SubSeq(s, 1, i - 1) \o SubSeq(s, i + 2, Len(s))
\* The vector s with the element at position i erased.
EraseAt(s, i) == SubSeq(s, 1, i - 1) \o SubSeq(s, i + 1, Len(s))

\* The elements of the vector s at the positions in K, in order: the k-th of
\* them is the one that k positions of K precede or are.
Rank(K, i) == Cardinality({j \in K : j <= i})
Select(s, K) ==
    [k \in 1..Cardinality(K) |-> s[CHOOSE i \in K : Rank(K, i) = k]]

\* The vector s with every operation of transaction t erased, as the three loops
\* of abort_transaction leave it.
Without(s, t) == Select(s, {i \in DOMAIN s : s[i].tid # t})

\* A Schedule object: its operations, and the list of the transactions that
\* have one.
EmptySchedule == [schedule |-> <<>>, transaction_ids |-> <<>>]

\* Mutant: an id is added for every operation.
AddOperationAndId(sch, op) ==
    [schedule |-> Append(sch.schedule, op),
     transaction_ids |-> Append(sch.transaction_ids, op.tid)]
AddOperation(sch, op) ==
    [schedule |-> Append(sch.schedule, op),
     transaction_ids |-> IF op.tid \in Elems(sch.transaction_ids)
                         THEN sch.transaction_ids
                         ELSE Append(sch.transaction_ids, op.tid)]

\* The object after the operations of s have been added: the ids are in the
\* order in which the transactions first appear.
ScheduleOf(s) ==
    LET firsts == Select(s, {i \in DOMAIN s : \A j \in 1..i - 1 : s[j].tid # s[i].tid})
    IN [schedule |-> s, transaction_ids |-> [k \in DOMAIN firsts |-> firsts[k].tid]]

\* Mutant: the indexes go up, and the operation behind an erased one, which has
\* moved to its place, is not looked at.
EraseFromFront(s, t) ==
    LET left[i \in 0..Len(s)] ==
            IF i = 0 THEN s
            ELSE IF i <= Len(left[i - 1]) /\ left[i - 1][i].tid = t
                 THEN EraseAt(left[i - 1], i) ELSE left[i - 1]
    IN left[Len(s)]
\* The operations of transaction t erased from the vector s, by index and from
\* the end: left[i] is what is left when only the first i are not looked at.
EraseFromBack(s, t) ==
    LET left[i \in 0..Len(s)] ==
            IF i = Len(s) THEN s
            ELSE IF left[i + 1][i + 1].tid = t
                 THEN EraseAt(left[i + 1], i + 1) ELSE left[i + 1]
    IN left[0]

\* remove_most_recent_transaction purges its receiver, unless none was found.
Purge(sch, t) ==
    IF t = NoTid THEN sch
    ELSE [schedule |-> EraseFromBack(sch.schedule, t),
          transaction_ids |->
              Select(sch.transaction_ids,
                     {i \in DOMAIN sch.transaction_ids : sch.transaction_ids[i] # t})]

\* The first transaction of the chronology, most recent first, that is one
\* of the nodes; position 0 when there is none.
MostRecent(chronology, nodes) ==
    IF Elems(chronology) \cap nodes = {} THEN 0
    ELSE CHOOSE i \in DOMAIN chronology :
            /\ chronology[i] \in nodes
            /\ \A j \in 1..i - 1 : chronology[j] \notin nodes

\* Mutant: the front of the chronology is erased instead of the victim.
RemoveFront(nodes, chronology) ==
    LET i == MostRecent(chronology, nodes) IN
    IF i = 0 THEN [tid |-> NoTid, chronology |-> chronology]
    ELSE [tid |-> IF chronology[i] = 0 THEN NoTid ELSE chronology[i],
          chronology |-> EraseAt(chronology, 1)]

\* Mutant: everything from the victim on is erased.
RemoveTail(nodes, chronology) ==
    LET i == MostRecent(chronology, nodes) IN
    IF i = 0 THEN [tid |-> NoTid, chronology |-> chronology]
    ELSE [tid |-> IF chronology[i] = 0 THEN NoTid ELSE chronology[i],
          chronology |-> SubSeq(chronology, 1, i - 1)]

\* Mutant: the transaction of the deadlock that is seen longest is taken.
RemoveOldest(nodes, chronology) ==
    LET inside == {i \in DOMAIN chronology : chronology[i] \in nodes} IN
    IF inside = {} THEN [tid |-> NoTid, chronology |-> chronology]
    ELSE LET i == CHOOSE k \in inside : \A j \in inside : j <= k
         IN [tid |-> IF chronology[i] = 0 THEN NoTid ELSE chronology[i],
             chronology |-> EraseAt(chronology, i)]

\* It is erased from the chronology and returned, except that id 0 doubles as
\* "none found": transaction 0 is erased from the chronology and not returned.
RemoveMostRecentTransaction(nodes, chronology) ==
    LET i == MostRecent(chronology, nodes) IN
    IF i = 0 THEN [tid |-> NoTid, chronology |-> chronology]
    ELSE [tid |-> IF chronology[i] = 0 THEN NoTid ELSE chronology[i],
          chronology |-> EraseAt(chronology, i)]

\* What the command line prints after "Aborted transactions:".
GetAbortedTrans(in_tids, out) == in_tids \ TidsOf(out)
=============================================================================
