----------------------------- MODULE Synchronizer -----------------------------
(***************************************************************************)
(* What schedule() promises whoever calls it, without locks and loops: it  *)
(* puts operations of the schedule in the output or puts them off, nobody  *)
(* is cancelled but the youngest transaction of a circle of transactions   *)
(* that wait for each other, and whoever is cancelled leaves no trace.     *)
(***************************************************************************)
EXTENDS Schedule, WaitFor

VARIABLES
    schedule,   \* the operations of the transactions not cancelled
    output,     \* what has been scheduled so far
    waiting,    \* the operations put off
    seen,       \* the transactions met, most recently met first
    waits,      \* <<t, u>>: transaction t waits for transaction u
    returned    \* the output has been handed over

Init ==
    /\ schedule \in Seq(Operations)
    /\ output = <<>>
    /\ waiting = {}
    /\ seen = <<>>
    /\ waits = {}
    /\ returned = FALSE

\* An operation of the schedule is looked at, of a transaction met before or
\* met now.
Meet(op) ==
    /\ ~returned
    /\ op \in Elems(schedule)
    /\ seen' = IF op.tid \in Elems(seen) THEN seen ELSE <<op.tid>> \o seen
    /\ UNCHANGED <<schedule, returned>>

\* It goes to the end of the output.  Nobody starts to wait, and after a
\* commit its transaction neither waits nor is waited for.
PutOut(op) ==
    /\ Meet(op)
    /\ output' = Append(output, op)
    /\ waiting' \in {waiting, waiting \ {op}}
    /\ waits' = IF op.type = "Commit" THEN RemoveNode(waits, op.tid) ELSE waits

\* Or it is put off, because one transaction (not always its own) waits for
\* others that have been met.
PutOff(op) ==
    /\ Meet(op)
    /\ waiting' = waiting \cup {op}
    /\ \E t \in Elems(seen') : \E holders \in SUBSET (Elems(seen') \ {t}) :
          waits' = AddArcs(waits, t, holders)
    /\ UNCHANGED output

\* The youngest transaction of a circle is cancelled.
Cancel(i) ==
    /\ \E circle \in Cycles(waits) :
          seen[i] \in circle /\ \A j \in 1..i - 1 : seen[j] \notin circle
    /\ schedule' = Without(schedule, seen[i])
    /\ output' = Without(output, seen[i])
    /\ waiting' = {op \in waiting : op.tid # seen[i]}
    /\ waits' = RemoveNode(waits, seen[i])
    /\ seen' = EraseAt(seen, i)
    /\ UNCHANGED returned

\* The output is returned when nothing is left to be looked at.
HandOver ==
    /\ ~returned
    /\ Elems(schedule) \subseteq Elems(output) \cup waiting
    /\ returned' = TRUE
    /\ UNCHANGED <<schedule, output, waiting, seen, waits>>

Next ==
    \/ \E op \in Elems(schedule) : PutOut(op) \/ PutOff(op)
    \/ \E i \in DOMAIN seen : ~returned /\ Cancel(i)
    \/ HandOver

Spec == Init /\ [][Next]_<<schedule, output, waiting, seen, waits, returned>>
=============================================================================
