------------------------- MODULE Scheduler2V2PLProofs -------------------------
(***************************************************************************)
(* Invariants of the scheduler for every set of transactions, resources    *)
(* and input schedules.                                                    *)
(***************************************************************************)
EXTENDS LockingProofs, ScheduleProofs

\* The nodes of a deadlock are nodes of the graph, and there are some.
LEMMA DeadlockNodes ==
    ASSUME NEW arcs, NEW nodes \in FindDeadlockNodes(arcs) \ {{}}
    PROVE  nodes \subseteq Nodes(arcs) /\ nodes # {}
BY DEF FindDeadlockNodes, Cycles

\* A scheduled operation, committed or not.
LEMMA AfterSchedulingKnown ==
    ASSUME NEW X, NEW op \in Operations, NEW o, Known(X, o.tuples, o.arcs),
           AfterScheduling(op, o)
    PROVE  Known(X, tuples', wait_for')
<1>1. CASE op.type = "Commit"
    <2>1. Known(X \ {op.tid}, tuples', wait_for')
        BY <1>1, ReleaseKnown DEF AfterScheduling
    <2> QED BY <2>1, KnownMonotone
<1>2. CASE op.type # "Commit" BY <1>2 DEF AfterScheduling
<1> QED BY <1>1, <1>2

\* The choice of the victim, a transaction of the chronology.  Without a
\* transaction 0 in it, only the victim leaves the chronology, and one is found
\* if any node of the deadlock is in it.
LEMMA Victim ==
    ASSUME NEW seen \in Seq(Tids), NEW nodes, NEW v,
           v = RemoveMostRecentTransaction(nodes, seen)
    PROVE  /\ v.tid \in Tids \cup {NoTid}
           /\ v.chronology \in Seq(Tids)
           /\ v.tid \in Elems(seen) \cup {NoTid}
           /\ Elems(v.chronology) \subseteq Elems(seen)
           /\ 0 \notin Elems(seen) => Elems(seen) \ {v.tid} \subseteq Elems(v.chronology)
           /\ 0 \notin Elems(seen) /\ Elems(seen) \cap nodes # {} => v.tid # NoTid
<1> DEFINE i == MostRecent(seen, nodes)
<1>1. i = 0 \/ i \in 1..Len(seen) BY MostRecentFound
<1>2. Elems(seen) \cap nodes # {} => i # 0 BY MostRecentFound
<1>3. NoTid \notin Tids BY TidsAssumption DEF NoTid
<1>4. CASE i = 0
    <2>1. v.tid = NoTid /\ v.chronology = seen
        BY <1>4 DEF RemoveMostRecentTransaction
    <2> QED BY <1>2, <1>4, <2>1
<1>5. CASE i \in 1..Len(seen)
    <2>1. i # 0 /\ Len(seen) \in Nat BY <1>5, ElemsOfSeq
    <2>2. /\ v.tid = IF seen[i] = 0 THEN NoTid ELSE seen[i]
          /\ v.chronology = EraseAt(seen, i)
        BY <2>1 DEF RemoveMostRecentTransaction
    <2>3. seen[i] \in Tids /\ seen[i] \in Elems(seen) BY <1>5, ElemsOfSeq
    <2> HIDE DEF i
    <2>4. /\ EraseAt(seen, i) \in Seq(Tids)
          /\ Elems(EraseAt(seen, i)) \subseteq Elems(seen)
          /\ \A j \in 1..Len(seen) : j # i => seen[j] \in Elems(EraseAt(seen, i))
        BY <1>5, ElemsOfEraseAt
    <2>5. Elems(seen) \ {seen[i]} \subseteq Elems(EraseAt(seen, i))
        BY <2>4, ElemsOfSeq
    <2> QED BY <1>3, <2>2, <2>3, <2>4, <2>5
<1> QED BY <1>1, <1>4, <1>5

-----------------------------------------------------------------------------

\* The facts of an attempt that the invariants share: whatever set the owners
\* and the graph were within, they still are, given the operation's own
\* transaction.
LEMMA AttemptKnown ==
    ASSUME NEW X, Known(X, tuples, wait_for),
           NEW op \in Operations, op.tid \in X,
           NEW o \in CanBeScheduled(op, tuples, wait_for),
           \/ AfterScheduling(op, o)
           \/ tuples' = o.tuples /\ wait_for' = o.arcs
    PROVE  Known(X, tuples', wait_for')
<1>1. Known(X, o.tuples, o.arcs) BY CanBeScheduledKnown
<1> QED BY <1>1, AfterSchedulingKnown

\* Every step either leaves the lock table and the graph alone, or tries an
\* operation of the schedule or of the waiting list, or aborts.
LEMMA StepKnown ==
    ASSUME NEW X, Known(X, tuples, wait_for), Next,
           operations \in Seq(Operations), waiting_list \in Seq(Operations),
           it_wl \in Nat \ {0},
           TidsOf(operations) \cup TidsOf(waiting_list) \subseteq X
    PROVE  Known(X, tuples', wait_for')
<1> DEFINE Tries(op) ==
        \E o \in CanBeScheduled(op, tuples, wait_for) :
            AfterScheduling(op, o) \/ (tuples' = o.tuples /\ wait_for' = o.arcs)
<1>1. ASSUME NEW op \in Operations, op.tid \in X, Tries(op)
      PROVE  Known(X, tuples', wait_for')
    BY <1>1, AttemptKnown
<1>2. ASSUME NEW op \in Elems(operations) PROVE op \in Operations /\ op.tid \in X
    BY ElemsOfSeq DEF TidsOf, Elems
<1>3. ASSUME it_wl <= Len(waiting_list)
      PROVE  waiting_list[it_wl] \in Operations /\ waiting_list[it_wl].tid \in X
    <2>1. it_wl \in 1..Len(waiting_list) BY <1>3, ElemsOfSeq
    <2> QED BY <2>1, ElemsOfSeq DEF TidsOf
<1> HIDE DEF Tries
<1>4. CASE ScheduleNext \/ PutNextInWaitingList
    <2>1. \E op \in Elems(operations) : Tries(op)
        BY <1>4 DEF ScheduleNext, PutNextInWaitingList, Tries
    <2> QED BY <1>1, <1>2, <2>1
<1>5. CASE ScheduleWaiting \/ KeepWaiting
    <2>1. it_wl <= Len(waiting_list) /\ Tries(waiting_list[it_wl])
        BY <1>5 DEF ScheduleWaiting, KeepWaiting, Tries
    <2> QED BY <1>1, <1>3, <2>1
<1>6. CASE ResolveDeadlock
    <2>1. PICK nodes : AbortTransaction(nodes) BY <1>6 DEF ResolveDeadlock
    <2> DEFINE tid == RemoveMostRecentTransaction(nodes, chronology).tid
    <2>2. tuples' = RmTransactionLocks(tuples, tid) /\ wait_for' = RemoveNode(wait_for, tid)
        BY <2>1 DEF AbortTransaction
    <2> HIDE DEF tid
    <2>3. Known(X \ {tid}, tuples', wait_for') BY <2>2, ReleaseKnown
    <2> QED BY <2>3, KnownMonotone
<1>7. CASE Defer \/ StartScan \/ ContinueScan \/ EndScan \/ Return \/ Terminated
    <2>1. tuples' = tuples /\ wait_for' = wait_for
        BY <1>7 DEF Defer, StartScan, ContinueScan, EndScan, Return, Terminated, vars
    <2> QED BY <2>1
<1> QED BY <1>4, <1>5, <1>6, <1>7 DEF Next, Step

-----------------------------------------------------------------------------
(* Typing.                                                                  *)

\* schedule() is entered with any schedule, the object passed in made of it.
Begun ==
    /\ operations \in Seq(Operations)
    /\ incoming_schedule = ScheduleOf(operations)
    /\ Locals

LEMMA BegunTypeOK == Begun => TypeOK
<1> SUFFICES ASSUME Begun PROVE TypeOK OBVIOUS
<1>1. <<>> \in Seq(Operations) /\ <<>> \in Seq(Tids) OBVIOUS
<1>2. incoming_schedule \in [schedule : Seq(Operations), transaction_ids : Seq(Tids)]
    BY ScheduleOfType DEF Begun
<1> QED BY <1>1, <1>2 DEF Begun, Locals, TypeOK

LEMMA InitTypeOK == Init => Begun /\ TypeOK
<1>1. Init => Begun BY InputsAssumption DEF Init, Begun
<1> QED BY <1>1, BegunTypeOK

LEMMA TypedKnown ==
    ASSUME TypeOK
    PROVE  /\ Known(Tids, tuples, wait_for)
           /\ TidsOf(operations) \cup TidsOf(waiting_list) \subseteq Tids
           /\ \A op \in Elems(operations) : op \in Operations
           /\ it_wl <= Len(waiting_list) => it_wl \in 1..Len(waiting_list)
<1>1. \A op \in Operations : op.tid \in Tids BY DEF Operations
<1>2. \A s \in Seq(Operations) : TidsOf(s) \subseteq Tids
    BY <1>1, ElemsOfSeq DEF TidsOf
<1>3. Known(Tids, tuples, wait_for) BY DEF TypeOK, Known, IsLockInfoTuple
<1>4. \A op \in Elems(operations) : op \in Operations
    BY ElemsOfSeq DEF TypeOK, Elems
<1>5. it_wl <= Len(waiting_list) => it_wl \in 1..Len(waiting_list)
    BY ElemsOfSeq DEF TypeOK
<1> QED BY <1>2, <1>3, <1>4, <1>5 DEF TypeOK

\* The variables a main-loop step sets whatever becomes of the operation.
LEMMA TakeNextTypeOK ==
    ASSUME TypeOK, NEW op \in Elems(operations), TakeNext(op)
    PROVE  /\ op \in Operations /\ op.tid \in Tids
           /\ incoming_schedule' \in [schedule : Seq(Operations), transaction_ids : Seq(Tids)]
           /\ operations' \in Seq(Operations)
           /\ it' \in Nat \ {0}
           /\ it_wl' \in Nat \ {0}
           /\ chronology' \in Seq(Tids)
           /\ Elems(chronology') = Elems(chronology) \cup {op.tid}
           /\ aborted' \subseteq Tids \cup {NoTid}
<1>1. op \in Operations BY TypedKnown
<1>2. op.tid \in Tids BY <1>1 DEF Operations
<1>3. chronology \in Seq(Tids) BY DEF TypeOK
<1>4. /\ <<op.tid>> \o chronology \in Seq(Tids)
      /\ Elems(<<op.tid>> \o chronology) = Elems(chronology) \cup {op.tid}
    BY <1>2, <1>3, ElemsOfPushFront
<1>5. /\ chronology' \in Seq(Tids)
      /\ Elems(chronology') = Elems(chronology) \cup {op.tid}
    <2>1. CASE op.tid \in Elems(chronology) BY <1>3, <2>1 DEF TakeNext
    <2>2. CASE op.tid \notin Elems(chronology)
        <3>1. chronology' = <<op.tid>> \o chronology BY <2>2 DEF TakeNext
        <3> QED BY <1>4, <3>1
    <2> QED BY <2>1, <2>2
<1> QED BY <1>1, <1>2, <1>5 DEF TakeNext, TypeOK

LEMMA NextTypeOK == TypeOK /\ [Next]_vars => TypeOK'
<1> SUFFICES ASSUME TypeOK, [Next]_vars PROVE TypeOK' OBVIOUS
<1>1. CASE UNCHANGED vars BY <1>1 DEF vars, TypeOK
<1>2. ASSUME Next
      PROVE  (\A l \in tuples' : IsLockInfoTuple(l)) /\ wait_for' \subseteq Tids \X Tids
    BY <1>2, TypedKnown, StepKnown DEF TypeOK, Known
<1>3. CASE Defer
    <2>1. PICK op \in Elems(operations) :
            /\ TakeNext(op)
            /\ waiting_list' = Append(waiting_list, op)
            /\ UNCHANGED <<final_operations, waiting_transactions, tuples, wait_for, pc>>
        BY <1>3 DEF Defer
    <2>2. op \in Operations BY <2>1, TakeNextTypeOK
    <2>3. waiting_list' \in Seq(Operations) BY <2>1, <2>2 DEF TypeOK
    <2> QED BY <2>1, <2>3, TakeNextTypeOK DEF TypeOK
<1>4. CASE ScheduleNext
    <2>1. PICK op \in Elems(operations) :
            /\ TakeNext(op)
            /\ final_operations' = Append(final_operations, op)
            /\ pc' = "check"
            /\ UNCHANGED <<waiting_list, waiting_transactions>>
        BY <1>4 DEF ScheduleNext
    <2>2. op \in Operations BY <2>1, TakeNextTypeOK
    <2>3. final_operations' \in Seq(Operations) BY <2>1, <2>2 DEF TypeOK
    <2>4. Next BY <1>4 DEF Next, Step
    <2> QED BY <1>2, <2>1, <2>3, <2>4, TakeNextTypeOK DEF TypeOK
<1>5. CASE PutNextInWaitingList
    <2>1. PICK op \in Elems(operations) :
            /\ TakeNext(op)
            /\ waiting_list' = Append(waiting_list, op)
            /\ waiting_transactions' = waiting_transactions \cup {op.tid}
            /\ pc' = "check"
            /\ UNCHANGED final_operations
        BY <1>5 DEF PutNextInWaitingList
    <2>2. op \in Operations /\ op.tid \in Tids BY <2>1, TakeNextTypeOK
    <2>3. waiting_list' \in Seq(Operations) BY <2>1, <2>2 DEF TypeOK
    <2>4. Next BY <1>5 DEF Next, Step
    <2> QED BY <1>2, <2>1, <2>2, <2>3, <2>4, TakeNextTypeOK DEF TypeOK
<1>6. CASE ResolveDeadlock
    <2>1. PICK nodes : AbortTransaction(nodes) BY <1>6 DEF ResolveDeadlock
    <2> DEFINE v == RemoveMostRecentTransaction(nodes, chronology)
    <2>2. /\ chronology' = v.chronology
          /\ final_operations' = Without(final_operations, v.tid)
          /\ waiting_list' = Without(waiting_list, v.tid)
          /\ operations' = Without(operations, v.tid)
          /\ incoming_schedule' = Purge(incoming_schedule, v.tid)
          /\ it' = 1 /\ it_wl' = 1 /\ pc' = "scan"
          /\ aborted' = aborted \cup {v.tid}
          /\ UNCHANGED waiting_transactions
        BY <2>1 DEF AbortTransaction
    <2>3. v.tid \in Tids \cup {NoTid} /\ v.chronology \in Seq(Tids)
        BY Victim DEF TypeOK
    <2> HIDE DEF v
    <2>4. /\ Without(final_operations, v.tid) \in Seq(Operations)
          /\ Without(waiting_list, v.tid) \in Seq(Operations)
          /\ Without(operations, v.tid) \in Seq(Operations)
          /\ Purge(incoming_schedule, v.tid)
                \in [schedule : Seq(Operations), transaction_ids : Seq(Tids)]
        BY ElemsOfWithout, PurgeType DEF TypeOK
    <2>5. Next BY <1>6 DEF Next, Step
    <2> QED BY <1>2, <2>2, <2>3, <2>4, <2>5 DEF TypeOK
<1>7. CASE ScheduleWaiting
    <2>1. /\ it_wl \in 1..Len(waiting_list)
          /\ final_operations' = Append(final_operations, waiting_list[it_wl])
          /\ waiting_list' = EraseAt(waiting_list, it_wl)
          /\ UNCHANGED <<incoming_schedule, operations, it, it_wl, chronology,
                         waiting_transactions, pc, aborted>>
        BY <1>7, TypedKnown DEF ScheduleWaiting
    <2>2. waiting_list[it_wl] \in Operations BY <2>1, ElemsOfSeq DEF TypeOK
    <2>3. final_operations' \in Seq(Operations) BY <2>1, <2>2 DEF TypeOK
    <2>4. waiting_list' \in Seq(Operations) BY <2>1, ElemsOfEraseAt DEF TypeOK
    <2>5. Next BY <1>7 DEF Next, Step
    <2> QED BY <1>2, <2>1, <2>3, <2>4, <2>5 DEF TypeOK
<1>8. CASE KeepWaiting
    <2>1. Next BY <1>8 DEF Next, Step
    <2> QED BY <1>2, <1>8, <2>1 DEF KeepWaiting, TypeOK
<1>9. CASE StartScan BY <1>9 DEF StartScan, TypeOK
<1>10. CASE ContinueScan BY <1>10 DEF ContinueScan, TypeOK
<1>11. CASE EndScan BY <1>11 DEF EndScan, TypeOK
<1>12. CASE Return BY <1>12 DEF Return, TypeOK
<1>13. CASE Terminated BY <1>13 DEF Terminated, vars, TypeOK
<1> QED
    BY <1>1, <1>3, <1>4, <1>5, <1>6, <1>7, <1>8, <1>9, <1>10, <1>11, <1>12, <1>13
    DEF Next, Step

\* Every variable of schedule() keeps its type, whatever the transactions, the
\* resources and the schedules: abort and scan leave well-formed vectors and
\* iterators, and no lock or arc outside the transactions appears.
THEOREM TypeCorrect == Spec => []TypeOK
BY InitTypeOK, NextTypeOK, PTL DEF Spec

-----------------------------------------------------------------------------
(* Nothing comes from nowhere: operations, and the transactions the         *)
(* scheduler names, only ever get fewer.                                    *)

Given == Elems(operations) \cup Elems(waiting_list) \cup Elems(final_operations)
Named == TidsOf(operations) \cup TidsOf(waiting_list) \cup Elems(chronology)
            \cup (aborted \ {NoTid})

LEMMA InitNamed == Locals => Named = TidsOf(operations) /\ Given = Elems(operations)
BY DEF Locals, Named, Given, Elems, TidsOf

\* Appending an operation adds its transaction, erasing adds none, and only a
\* purge takes one out for certain.
LEMMA TidsOfChanged ==
    ASSUME NEW s \in Seq(Operations)
    PROVE  /\ \A op \in Operations : TidsOf(Append(s, op)) = TidsOf(s) \cup {op.tid}
           /\ \A i \in 1..Len(s) : TidsOf(EraseAt(s, i)) \subseteq TidsOf(s)
           /\ \A t : TidsOf(Without(s, t)) = TidsOf(s) \ {t}
<1>1. \A q : TidsOf(q) = {op.tid : op \in Elems(q)} BY DEF TidsOf, Elems
<1>2. \A op \in Operations : Elems(Append(s, op)) = Elems(s) \cup {op}
    BY ElemsOfAppend
<1>3. \A i \in 1..Len(s) : Elems(EraseAt(s, i)) \subseteq Elems(s)
    BY ElemsOfEraseAt
<1>4. \A t : Elems(Without(s, t)) = {op \in Elems(s) : op.tid # t} BY ElemsOfWithout
<1> QED BY <1>1, <1>2, <1>3, <1>4

LEMMA NextGiven ==
    ASSUME TypeOK, [Next]_vars
    PROVE  Given' \subseteq Given
<1>1. /\ operations \in Seq(Operations) /\ waiting_list \in Seq(Operations)
      /\ final_operations \in Seq(Operations)
    BY DEF TypeOK
<1>2. CASE Defer \/ ScheduleNext \/ PutNextInWaitingList
    <2>1. PICK op \in Elems(operations) :
            /\ operations' = operations
            /\ waiting_list' \in {waiting_list, Append(waiting_list, op)}
            /\ final_operations' \in {final_operations, Append(final_operations, op)}
        BY <1>2 DEF Defer, ScheduleNext, PutNextInWaitingList, TakeNext
    <2>2. /\ Elems(Append(waiting_list, op)) = Elems(waiting_list) \cup {op}
          /\ Elems(Append(final_operations, op)) = Elems(final_operations) \cup {op}
        BY <1>1, TypedKnown, ElemsOfAppend
    <2> QED BY <2>1, <2>2 DEF Given
<1>3. CASE ScheduleWaiting \/ KeepWaiting
    <2>1. /\ it_wl \in 1..Len(waiting_list)
          /\ operations' = operations
          /\ waiting_list' \in {waiting_list, EraseAt(waiting_list, it_wl)}
          /\ final_operations'
                \in {final_operations, Append(final_operations, waiting_list[it_wl])}
        BY <1>3, TypedKnown DEF ScheduleWaiting, KeepWaiting
    <2>2. waiting_list[it_wl] \in Operations /\ waiting_list[it_wl] \in Elems(waiting_list)
        BY <1>1, <2>1, ElemsOfSeq
    <2>3. /\ Elems(EraseAt(waiting_list, it_wl)) \subseteq Elems(waiting_list)
          /\ Elems(Append(final_operations, waiting_list[it_wl]))
                = Elems(final_operations) \cup {waiting_list[it_wl]}
        BY <1>1, <2>1, <2>2, ElemsOfEraseAt, ElemsOfAppend
    <2> QED BY <2>1, <2>2, <2>3 DEF Given
<1>4. CASE ResolveDeadlock
    <2>1. PICK tid : /\ operations' = Without(operations, tid)
                     /\ waiting_list' = Without(waiting_list, tid)
                     /\ final_operations' = Without(final_operations, tid)
        BY <1>4 DEF ResolveDeadlock, AbortTransaction
    <2>2. /\ Elems(Without(operations, tid)) \subseteq Elems(operations)
          /\ Elems(Without(waiting_list, tid)) \subseteq Elems(waiting_list)
          /\ Elems(Without(final_operations, tid)) \subseteq Elems(final_operations)
        BY <1>1, ElemsOfWithout
    <2> QED BY <2>1, <2>2 DEF Given
<1>5. CASE StartScan \/ ContinueScan \/ EndScan \/ Return \/ Terminated \/ UNCHANGED vars
    <2>1. UNCHANGED <<operations, waiting_list, final_operations>>
        BY <1>5 DEF StartScan, ContinueScan, EndScan, Return, Terminated, vars
    <2> QED BY <2>1 DEF Given
<1> QED BY <1>2, <1>3, <1>4, <1>5 DEF Next, Step

LEMMA NextNamed ==
    ASSUME TypeOK, [Next]_vars
    PROVE  Named' \subseteq Named
<1>1. /\ operations \in Seq(Operations) /\ waiting_list \in Seq(Operations)
      /\ chronology \in Seq(Tids)
    BY DEF TypeOK
<1>2. CASE Defer \/ ScheduleNext \/ PutNextInWaitingList
    <2>1. PICK op \in Elems(operations) :
            /\ TakeNext(op)
            /\ waiting_list' \in {waiting_list, Append(waiting_list, op)}
        BY <1>2 DEF Defer, ScheduleNext, PutNextInWaitingList
    <2>2. op \in Operations /\ Elems(chronology') = Elems(chronology) \cup {op.tid}
        BY <2>1, TakeNextTypeOK
    <2>3. op.tid \in TidsOf(operations) BY DEF TidsOf, Elems
    <2>4. TidsOf(Append(waiting_list, op)) = TidsOf(waiting_list) \cup {op.tid}
        BY <1>1, <2>2, TidsOfChanged
    <2>5. operations' = operations /\ aborted' = aborted BY <2>1 DEF TakeNext
    <2> QED BY <2>1, <2>2, <2>3, <2>4, <2>5 DEF Named
<1>3. CASE ScheduleWaiting \/ KeepWaiting
    <2>1. /\ it_wl \in 1..Len(waiting_list)
          /\ waiting_list' \in {waiting_list, EraseAt(waiting_list, it_wl)}
          /\ UNCHANGED <<operations, chronology, aborted>>
        BY <1>3, TypedKnown DEF ScheduleWaiting, KeepWaiting
    <2>2. TidsOf(EraseAt(waiting_list, it_wl)) \subseteq TidsOf(waiting_list)
        BY <1>1, <2>1, TidsOfChanged
    <2> QED BY <2>1, <2>2 DEF Named
<1>4. CASE ResolveDeadlock
    <2>1. PICK nodes : AbortTransaction(nodes) BY <1>4 DEF ResolveDeadlock
    <2> DEFINE v == RemoveMostRecentTransaction(nodes, chronology)
    <2>2. /\ chronology' = v.chronology
          /\ operations' = Without(operations, v.tid)
          /\ waiting_list' = Without(waiting_list, v.tid)
          /\ aborted' = aborted \cup {v.tid}
        BY <2>1 DEF AbortTransaction
    <2>3. /\ v.tid \in Elems(chronology) \cup {NoTid}
          /\ Elems(v.chronology) \subseteq Elems(chronology)
        BY <1>1, Victim
    <2> HIDE DEF v
    <2>4. /\ TidsOf(Without(operations, v.tid)) \subseteq TidsOf(operations)
          /\ TidsOf(Without(waiting_list, v.tid)) \subseteq TidsOf(waiting_list)
        BY <1>1, TidsOfChanged
    <2> QED BY <2>2, <2>3, <2>4 DEF Named
<1>5. CASE StartScan \/ ContinueScan \/ EndScan \/ Return \/ Terminated \/ UNCHANGED vars
    <2>1. UNCHANGED <<operations, waiting_list, chronology, aborted>>
        BY <1>5 DEF StartScan, ContinueScan, EndScan, Return, Terminated, vars
    <2> QED BY <2>1 DEF Named
<1> QED BY <1>2, <1>3, <1>4, <1>5 DEF Next, Step

-----------------------------------------------------------------------------
(* Victims.  TypeOK, HoldersSeen and VictimFound are not inductive alone:   *)
(* an operation tried in the scan brings in its transaction, which must     *)
(* have been seen as well.                                                  *)

Seen == /\ Known(Elems(chronology), tuples, wait_for)
        /\ TidsOf(waiting_list) \subseteq Elems(chronology)
        /\ VictimFound

LEMMA InitSeen == Begun => Seen
BY DEF Begun, Locals, Seen, Known, Elems, TidsOf, VictimFound

\* A tried operation whose transaction has been seen.
LEMMA TriedSeen ==
    ASSUME NEW X, Known(X, tuples, wait_for), NEW op \in Operations, op.tid \in X,
           \E o \in CanBeScheduled(op, tuples, wait_for) :
               AfterScheduling(op, o) \/ (tuples' = o.tuples /\ wait_for' = o.arcs)
    PROVE  Known(X, tuples', wait_for')
BY AttemptKnown

LEMMA NextSeen ==
    ASSUME 0 \notin Named, TypeOK, Seen, [Next]_vars
    PROVE  Seen'
<1> DEFINE E == Elems(chronology)
           Tries(op) ==
             \E o \in CanBeScheduled(op, tuples, wait_for) :
                AfterScheduling(op, o) \/ (tuples' = o.tuples /\ wait_for' = o.arcs)
<1>1. Known(E, tuples, wait_for) /\ TidsOf(waiting_list) \subseteq E /\ NoTid \notin aborted
    BY DEF Seen, VictimFound
<1>2. waiting_list \in Seq(Operations) /\ chronology \in Seq(Tids) BY DEF TypeOK
<1>3. ASSUME NEW op \in Operations, op.tid \in Elems(chronology'), E \subseteq Elems(chronology'),
             Tries(op)
      PROVE  Known(Elems(chronology'), tuples', wait_for')
    BY <1>1, <1>3, KnownMonotone, TriedSeen
<1>4. CASE UNCHANGED vars
    BY <1>1, <1>4 DEF vars, Seen, VictimFound
<1>5. CASE Defer
    <2>1. PICK op \in Elems(operations) :
            /\ TakeNext(op)
            /\ waiting_list' = Append(waiting_list, op)
            /\ UNCHANGED <<tuples, wait_for>>
        BY <1>5 DEF Defer
    <2>2. op \in Operations /\ Elems(chronology') = E \cup {op.tid}
        BY <2>1, TakeNextTypeOK
    <2>3. TidsOf(waiting_list') = TidsOf(waiting_list) \cup {op.tid}
        BY <1>2, <2>1, <2>2, TidsOfChanged
    <2>4. Known(Elems(chronology'), tuples', wait_for')
        BY <1>1, <2>1, <2>2, KnownMonotone
    <2>5. aborted' = aborted BY <2>1 DEF TakeNext
    <2> QED BY <1>1, <2>2, <2>3, <2>4, <2>5 DEF Seen, VictimFound
<1>6. CASE ScheduleNext \/ PutNextInWaitingList
    <2>1. PICK op \in Elems(operations) :
            /\ TakeNext(op)
            /\ waiting_list' = waiting_list \/ waiting_list' = Append(waiting_list, op)
            /\ Tries(op)
        BY <1>6 DEF ScheduleNext, PutNextInWaitingList
    <2>2. op \in Operations /\ Elems(chronology') = E \cup {op.tid}
        BY <2>1, TakeNextTypeOK
    <2>3. TidsOf(waiting_list') \subseteq TidsOf(waiting_list) \cup {op.tid}
        BY <1>2, <2>1, <2>2, TidsOfChanged
    <2>4. Known(Elems(chronology'), tuples', wait_for')
        BY <1>3, <2>1, <2>2
    <2>5. aborted' = aborted BY <2>1 DEF TakeNext
    <2> QED BY <1>1, <2>2, <2>3, <2>4, <2>5 DEF Seen, VictimFound
<1>7. CASE ResolveDeadlock
    <2>1. PICK nodes \in FindDeadlockNodes(wait_for) \ {{}} : AbortTransaction(nodes)
        BY <1>7 DEF ResolveDeadlock
    <2> DEFINE v == RemoveMostRecentTransaction(nodes, chronology)
    <2>2. /\ chronology' = v.chronology
          /\ wait_for' = RemoveNode(wait_for, v.tid)
          /\ tuples' = RmTransactionLocks(tuples, v.tid)
          /\ waiting_list' = Without(waiting_list, v.tid)
          /\ aborted' = aborted \cup {v.tid}
        BY <2>1 DEF AbortTransaction
    <2>3. E \cap nodes # {}
        <3>1. Nodes(wait_for) \subseteq E BY <1>1 DEF Known, Nodes
        <3> QED BY <2>1, <3>1, DeadlockNodes
    <2>4. E \ {v.tid} \subseteq Elems(v.chronology) /\ v.tid # NoTid
        <3>1. 0 \notin E BY DEF Named
        <3> QED BY <1>2, <2>3, <3>1, Victim
    <2> HIDE DEF v
    <2>5. Known(E \ {v.tid}, tuples', wait_for') BY <1>1, <2>2, ReleaseKnown
    <2>6. Known(Elems(chronology'), tuples', wait_for')
        BY <2>2, <2>4, <2>5, KnownMonotone
    <2>7. TidsOf(waiting_list') \subseteq TidsOf(waiting_list) \ {v.tid}
        BY <1>2, <2>2, TidsOfChanged
    <2>8. TidsOf(waiting_list') \subseteq Elems(chronology') BY <1>1, <2>2, <2>4, <2>7
    <2> QED BY <1>1, <2>2, <2>4, <2>6, <2>8 DEF Seen, VictimFound
<1>8. CASE ScheduleWaiting \/ KeepWaiting
    <2>1. /\ it_wl \in 1..Len(waiting_list)
          /\ Tries(waiting_list[it_wl])
          /\ waiting_list' = waiting_list \/ waiting_list' = EraseAt(waiting_list, it_wl)
          /\ UNCHANGED <<chronology, aborted>>
        BY <1>8, TypedKnown DEF ScheduleWaiting, KeepWaiting
    <2>2. waiting_list[it_wl] \in Operations /\ waiting_list[it_wl].tid \in E
        BY <1>1, <1>2, <2>1, ElemsOfSeq DEF TidsOf
    <2>3. TidsOf(waiting_list') \subseteq TidsOf(waiting_list)
        BY <1>2, <2>1, TidsOfChanged
    <2>4. Known(Elems(chronology'), tuples', wait_for')
        BY <1>3, <2>1, <2>2
    <2> QED BY <1>1, <2>1, <2>3, <2>4 DEF Seen, VictimFound
<1>9. CASE StartScan \/ ContinueScan \/ EndScan \/ Return \/ Terminated
    BY <1>1, <1>9
    DEF StartScan, ContinueScan, EndScan, Return, Terminated, vars, Seen, VictimFound
<1> QED BY <1>4, <1>5, <1>6, <1>7, <1>8, <1>9 DEF Next, Step

LEMMA SeenCorrect ==
    ASSUME \A s \in Inputs : 0 \notin TidsOf(s)
    PROVE  Spec => [](TypeOK /\ Seen)
<1> DEFINE I == TypeOK /\ Seen /\ 0 \notin Named
<1>1. Init => I
    <2>1. Init => 0 \notin Named BY InitNamed DEF Init
    <2> QED BY <2>1, InitTypeOK, InitSeen
<1>2. I /\ [Next]_vars => I' BY NextTypeOK, NextSeen, NextNamed
<1> QED BY <1>1, <1>2, PTL DEF Spec

\* Whoever owns a lock or is in the wait-for graph can still be chosen as a
\* victim: it is in the chronology.  With a transaction 0 the code breaks this.
THEOREM HoldersAlwaysSeen ==
    ASSUME \A s \in Inputs : 0 \notin TidsOf(s)
    PROVE  Spec => []HoldersSeen
<1>1. Seen => HoldersSeen BY DEF Seen, HoldersSeen, Known, Owners, Nodes
<1> QED BY <1>1, SeenCorrect, PTL

\* remove_most_recent_transaction never returns its -1 to abort_transaction:
\* every cycle has a member in the chronology.
THEOREM VictimAlwaysFound ==
    ASSUME \A s \in Inputs : 0 \notin TidsOf(s)
    PROVE  Spec => []VictimFound
<1>1. Seen => VictimFound BY DEF Seen
<1> QED BY <1>1, SeenCorrect, PTL

-----------------------------------------------------------------------------
(* Aborted transactions.  The steps preserve Known(Tids \ aborted, ...)     *)
(* because no operation of an aborted transaction is left to be tried.      *)

Gone == /\ Known(Tids \ aborted, tuples, wait_for)
        /\ TidsOf(operations) \cup TidsOf(waiting_list) \cup TidsOf(final_operations)
             \subseteq Tids \ aborted

LEMMA InitGone == Begun => Gone
<1> SUFFICES ASSUME Begun PROVE Gone OBVIOUS
<1>1. TypeOK BY BegunTypeOK
<1>2. TidsOf(operations) \subseteq Tids BY <1>1, TypedKnown
<1>3. TidsOf(waiting_list) = {} /\ TidsOf(final_operations) = {}
    BY DEF Begun, Locals, TidsOf
<1>4. Known(Tids \ aborted, tuples, wait_for) BY DEF Begun, Locals, Known
<1> QED BY <1>2, <1>3, <1>4 DEF Begun, Locals, Gone

LEMMA NextGone ==
    ASSUME TypeOK, Gone, [Next]_vars
    PROVE  Gone'
<1> DEFINE X == Tids \ aborted
<1>1. /\ Known(X, tuples, wait_for)
      /\ TidsOf(operations) \subseteq X
      /\ TidsOf(waiting_list) \subseteq X
      /\ TidsOf(final_operations) \subseteq X
    BY DEF Gone
<1>2. /\ operations \in Seq(Operations) /\ waiting_list \in Seq(Operations)
      /\ final_operations \in Seq(Operations) /\ it_wl \in Nat \ {0}
    BY DEF TypeOK
<1>3. ASSUME Next PROVE Known(X, tuples', wait_for')
    BY <1>1, <1>2, <1>3, StepKnown
<1> HIDE DEF X
<1>4. ASSUME Next, aborted' = aborted, TidsOf(operations') \subseteq X,
             TidsOf(waiting_list') \subseteq X, TidsOf(final_operations') \subseteq X
      PROVE  Gone'
    BY <1>3, <1>4 DEF Gone, X
<1>5. CASE UNCHANGED vars BY <1>5 DEF vars, Gone
<1>6. CASE Defer \/ ScheduleNext \/ PutNextInWaitingList
    <2>1. PICK op \in Elems(operations) :
            /\ TakeNext(op)
            /\ waiting_list' \in {waiting_list, Append(waiting_list, op)}
            /\ final_operations' \in {final_operations, Append(final_operations, op)}
        BY <1>6 DEF Defer, ScheduleNext, PutNextInWaitingList
    <2>2. op \in Operations BY <2>1, TakeNextTypeOK
    <2>3. op.tid \in X BY <1>1 DEF TidsOf, Elems
    <2>4. /\ TidsOf(waiting_list') \subseteq X
          /\ TidsOf(final_operations') \subseteq X
        <3>1. /\ TidsOf(Append(waiting_list, op)) = TidsOf(waiting_list) \cup {op.tid}
              /\ TidsOf(Append(final_operations, op)) = TidsOf(final_operations) \cup {op.tid}
            BY <1>2, <2>2, TidsOfChanged
        <3> QED BY <1>1, <2>1, <2>3, <3>1
    <2>5. operations' = operations /\ aborted' = aborted BY <2>1 DEF TakeNext
    <2>6. Next BY <1>6 DEF Next, Step
    <2> QED BY <1>1, <1>4, <2>4, <2>5, <2>6
<1>7. CASE ResolveDeadlock
    <2>1. PICK nodes : AbortTransaction(nodes) BY <1>7 DEF ResolveDeadlock
    <2> DEFINE tid == RemoveMostRecentTransaction(nodes, chronology).tid
    <2>2. /\ wait_for' = RemoveNode(wait_for, tid)
          /\ tuples' = RmTransactionLocks(tuples, tid)
          /\ final_operations' = Without(final_operations, tid)
          /\ waiting_list' = Without(waiting_list, tid)
          /\ operations' = Without(operations, tid)
          /\ aborted' = aborted \cup {tid}
        BY <2>1 DEF AbortTransaction
    <2> HIDE DEF tid
    <2>3. Known(X \ {tid}, tuples', wait_for') BY <1>1, <2>2, ReleaseKnown
    <2>4. /\ TidsOf(operations') \subseteq X \ {tid}
          /\ TidsOf(waiting_list') \subseteq X \ {tid}
          /\ TidsOf(final_operations') \subseteq X \ {tid}
        BY <1>1, <1>2, <2>2, TidsOfChanged
    <2>5. X \ {tid} = Tids \ aborted' BY <2>2 DEF X
    <2> QED BY <2>3, <2>4, <2>5 DEF Gone
<1>8. CASE ScheduleWaiting \/ KeepWaiting
    <2>1. /\ it_wl \in 1..Len(waiting_list)
          /\ waiting_list' \in {waiting_list, EraseAt(waiting_list, it_wl)}
          /\ final_operations'
                \in {final_operations, Append(final_operations, waiting_list[it_wl])}
          /\ UNCHANGED <<operations, aborted>>
        BY <1>8, TypedKnown DEF ScheduleWaiting, KeepWaiting
    <2>2. waiting_list[it_wl] \in Operations /\ waiting_list[it_wl].tid \in X
        BY <1>1, <1>2, <2>1, ElemsOfSeq DEF TidsOf
    <2>3. /\ TidsOf(waiting_list') \subseteq X
          /\ TidsOf(final_operations') \subseteq X
        <3>1. /\ TidsOf(EraseAt(waiting_list, it_wl)) \subseteq TidsOf(waiting_list)
              /\ TidsOf(Append(final_operations, waiting_list[it_wl]))
                    = TidsOf(final_operations) \cup {waiting_list[it_wl].tid}
            BY <1>2, <2>1, <2>2, TidsOfChanged
        <3> QED BY <1>1, <2>1, <2>2, <3>1
    <2>4. Next BY <1>8 DEF Next, Step
    <2> QED BY <1>1, <1>4, <2>1, <2>3, <2>4
<1>9. CASE StartScan \/ ContinueScan \/ EndScan \/ Return \/ Terminated
    <2>1. UNCHANGED <<operations, waiting_list, final_operations, aborted>>
        BY <1>9 DEF StartScan, ContinueScan, EndScan, Return, Terminated, vars
    <2>2. Next BY <1>9 DEF Next, Step
    <2> QED BY <1>1, <1>4, <2>1, <2>2
<1> QED BY <1>5, <1>6, <1>7, <1>8, <1>9 DEF Next, Step

LEMMA GoneMeans == Gone => AbortedGone
<1> SUFFICES ASSUME Gone PROVE AbortedGone OBVIOUS
<1>1. Owners(tuples) \cup Nodes(wait_for) \subseteq Tids \ aborted
    BY DEF Gone, Known, Owners, Nodes
<1> QED BY <1>1 DEF Gone, AbortedGone

\* What abort_transaction removes never comes back: an aborted transaction has
\* no operation, no lock and no arc in any later state.
THEOREM AbortedStayGone == Spec => []AbortedGone
<1>1. Init => TypeOK /\ Gone BY InitTypeOK, InitGone
<1>2. TypeOK /\ Gone /\ [Next]_vars => (TypeOK /\ Gone)' BY NextTypeOK, NextGone
<1> QED BY <1>1, <1>2, GoneMeans, PTL DEF Spec

-----------------------------------------------------------------------------
(* Operations that were passed.                                             *)

LEMMA InitNothingLost == Begun => NothingLost
<1> SUFFICES ASSUME Begun PROVE NothingLost OBVIOUS
<1>1. \A i \in DOMAIN operations : ~(i < it) BY ElemsOfSeq DEF Begun, Locals
<1> QED BY <1>1 DEF NothingLost

LEMMA NextNothingLost ==
    ASSUME TypeOK, NothingLost, [Next]_vars
    PROVE  NothingLost'
<1> DEFINE Placed == Elems(final_operations) \cup Elems(waiting_list)
<1>1. \A i \in DOMAIN operations : i < it => operations[i] \in Placed
    BY DEF NothingLost
<1>2. /\ operations \in Seq(Operations) /\ waiting_list \in Seq(Operations)
      /\ final_operations \in Seq(Operations) /\ it \in Nat
    BY DEF TypeOK
<1>3. ASSUME operations' = operations, it' = it, Placed \subseteq Placed'
      PROVE  NothingLost'
    BY <1>1, <1>3 DEF NothingLost
<1> HIDE DEF Placed
<1>4. CASE UNCHANGED vars BY <1>3, <1>4 DEF vars, Placed
<1>5. CASE Defer \/ ScheduleNext \/ PutNextInWaitingList
    <2>1. PICK op \in Elems(operations) :
            /\ TakeNext(op)
            /\ \/ /\ waiting_list' = Append(waiting_list, op)
                  /\ final_operations' = final_operations
               \/ /\ waiting_list' = waiting_list
                  /\ final_operations' = Append(final_operations, op)
        BY <1>5 DEF Defer, ScheduleNext, PutNextInWaitingList
    <2>2. op \in Operations BY <2>1, TakeNextTypeOK
    <2>3. Placed' = Placed \cup {op}
        <3>1. /\ Elems(Append(waiting_list, op)) = Elems(waiting_list) \cup {op}
              /\ Elems(Append(final_operations, op)) = Elems(final_operations) \cup {op}
            BY <1>2, <2>2, ElemsOfAppend
        <3> QED BY <2>1, <3>1 DEF Placed
    <2>4. operations' = operations /\ it' = it + 1 /\ operations[it] = op
        BY <2>1 DEF TakeNext
    <2>5. ASSUME NEW i \in DOMAIN operations, i < it + 1 PROVE operations[i] \in Placed'
        <3>1. i < it \/ i = it BY <1>2, <2>5, ElemsOfSeq
        <3> QED BY <1>1, <2>3, <2>4, <3>1
    <2> QED BY <2>4, <2>5 DEF NothingLost, Placed
<1>6. CASE ResolveDeadlock
    <2>1. operations' \in Seq(Operations) /\ it' = 1
        BY <1>6, NextTypeOK DEF ResolveDeadlock, AbortTransaction, Next, Step, TypeOK
    <2>2. \A i \in DOMAIN operations' : ~(i < it') BY <2>1, ElemsOfSeq
    <2> QED BY <2>2 DEF NothingLost
<1>7. CASE ScheduleWaiting
    <2>1. /\ it_wl \in 1..Len(waiting_list)
          /\ final_operations' = Append(final_operations, waiting_list[it_wl])
          /\ waiting_list' = EraseAt(waiting_list, it_wl)
          /\ UNCHANGED <<operations, it>>
        BY <1>7, TypedKnown DEF ScheduleWaiting
    <2>2. waiting_list[it_wl] \in Operations BY <1>2, <2>1, ElemsOfSeq
    <2>3. Elems(final_operations') = Elems(final_operations) \cup {waiting_list[it_wl]}
        BY <1>2, <2>1, <2>2, ElemsOfAppend
    <2>4. Elems(waiting_list) \subseteq Elems(waiting_list') \cup {waiting_list[it_wl]}
        <3>1. \A j \in 1..Len(waiting_list) :
                 j # it_wl => waiting_list[j] \in Elems(waiting_list')
            BY <1>2, <2>1, ElemsOfEraseAt
        <3> QED BY <1>2, <3>1, ElemsOfSeq
    <2> QED BY <1>3, <2>1, <2>3, <2>4 DEF Placed
<1>8. CASE KeepWaiting \/ StartScan \/ ContinueScan \/ EndScan \/ Return \/ Terminated
    <2>1. UNCHANGED <<operations, it, waiting_list, final_operations>>
        BY <1>8 DEF KeepWaiting, StartScan, ContinueScan, EndScan, Return, Terminated, vars
    <2> QED BY <1>3, <2>1 DEF Placed
<1> QED BY <1>4, <1>5, <1>6, <1>7, <1>8 DEF Next, Step

\* Whatever the scan erases and however often both loops start over, every
\* operation the main loop has passed is in the output or still waits.
THEOREM NothingEverLost == Spec => []NothingLost
<1>1. Init => TypeOK /\ NothingLost BY InitTypeOK, InitNothingLost
<1>2. TypeOK /\ NothingLost /\ [Next]_vars => (TypeOK /\ NothingLost)'
    BY NextTypeOK, NextNothingLost
<1> QED BY <1>1, <1>2, PTL DEF Spec

-----------------------------------------------------------------------------
(* The lock table against the wait-for graph.                               *)

LEMMA InitOrderly == Begun => Orderly(tuples, wait_for)
BY DEF Begun, Locals, Orderly, Known, Requests

LEMMA NextOrderly ==
    ASSUME TypeOK, Orderly(tuples, wait_for), [Next]_vars
    PROVE  Orderly(tuples', wait_for')
<1> DEFINE Tries(op) ==
        \E o \in CanBeScheduled(op, tuples, wait_for) :
            AfterScheduling(op, o) \/ (tuples' = o.tuples /\ wait_for' = o.arcs)
<1>1. ASSUME NEW op \in Operations, Tries(op)
      PROVE  Orderly(tuples', wait_for')
    <2>1. PICK o \in CanBeScheduled(op, tuples, wait_for) :
            AfterScheduling(op, o) \/ (tuples' = o.tuples /\ wait_for' = o.arcs)
        BY <1>1
    <2>2. Orderly(o.tuples, o.arcs) BY CanBeScheduledOrderly
    <2> QED BY <2>1, <2>2, ReleaseOrderly DEF AfterScheduling
<1> HIDE DEF Tries
<1>2. CASE ScheduleNext \/ PutNextInWaitingList
    <2>1. \E op \in Elems(operations) : Tries(op)
        BY <1>2 DEF ScheduleNext, PutNextInWaitingList, Tries
    <2> QED BY <1>1, <2>1, TypedKnown
<1>3. CASE ScheduleWaiting \/ KeepWaiting
    <2>1. it_wl <= Len(waiting_list) /\ Tries(waiting_list[it_wl])
        BY <1>3 DEF ScheduleWaiting, KeepWaiting, Tries
    <2>2. waiting_list[it_wl] \in Operations
        BY <2>1, TypedKnown, ElemsOfSeq DEF TypeOK
    <2> QED BY <1>1, <2>1, <2>2
<1>4. CASE ResolveDeadlock
    <2>1. \E tid : tuples' = RmTransactionLocks(tuples, tid) /\ wait_for' = RemoveNode(wait_for, tid)
        BY <1>4 DEF ResolveDeadlock, AbortTransaction
    <2> QED BY <2>1, ReleaseOrderly
<1>5. CASE Defer \/ StartScan \/ ContinueScan \/ EndScan \/ Return \/ Terminated
           \/ UNCHANGED vars
    <2>1. tuples' = tuples /\ wait_for' = wait_for
        BY <1>5 DEF Defer, StartScan, ContinueScan, EndScan, Return, Terminated, vars
    <2> QED BY <2>1
<1> QED BY <1>2, <1>3, <1>4, <1>5 DEF Next, Step

LEMMA OrderlyCorrect == Spec => []Orderly(tuples, wait_for)
<1>1. Init => TypeOK /\ Orderly(tuples, wait_for) BY InitTypeOK, InitOrderly
<1>2. TypeOK /\ Orderly(tuples, wait_for) /\ [Next]_vars
        => (TypeOK /\ Orderly(tuples, wait_for))'
    BY NextTypeOK, NextOrderly
<1> QED BY <1>1, <1>2, PTL DEF Spec

LEMMA OrderlyMeans == Orderly(tuples, wait_for) => OneRequest /\ ArcsLeadToHolders
<1>1. Orderly(tuples, wait_for) => OneRequest
    BY DEF Orderly, OneRequest, Requests, SameRequest
<1>2. Orderly(tuples, wait_for) => ArcsLeadToHolders
    BY DEF Orderly, ArcsLeadToHolders, Owners
<1> QED BY <1>1, <1>2

\* try_to_lock may be called for a waiting operation after every attempt of
\* another one, yet a transaction never has two equal requests.
THEOREM RequestsSingle == Spec => []OneRequest
BY OrderlyMeans, OrderlyCorrect, PTL

\* No arc outlives the locks it was added for: whoever is waited for holds a
\* lock, whatever was converted, committed, aborted or inherited since.
THEOREM ArcsAlwaysLeadToHolders == Spec => []ArcsLeadToHolders
BY OrderlyMeans, OrderlyCorrect, PTL

-----------------------------------------------------------------------------
(* Readers and certifiers.  The waiting list holds operations of the        *)
(* schedule, so it is as flat as the schedule is.                           *)

Excluded == /\ Exclusive(tuples)
            /\ FlatOps(operations) /\ FlatOps(waiting_list)

LEMMA InitExcluded == Begun /\ FlatOps(operations) => Excluded
BY DEF Begun, Locals, Excluded, Exclusive, FlatOps, Elems

LEMMA NextExcluded ==
    ASSUME TypeOK, Excluded, [Next]_vars
    PROVE  Excluded'
<1> DEFINE Tries(op) ==
        \E o \in CanBeScheduled(op, tuples, wait_for) :
            AfterScheduling(op, o) \/ (tuples' = o.tuples /\ wait_for' = o.arcs)
<1>1. /\ Exclusive(tuples) /\ FlatOps(operations) /\ FlatOps(waiting_list)
      /\ operations \in Seq(Operations) /\ waiting_list \in Seq(Operations)
      /\ Known(Tids, tuples, wait_for)
    BY TypedKnown DEF Excluded, TypeOK
<1>2. ASSUME NEW locks, Exclusive(locks), NEW tid
      PROVE  Exclusive(RmTransactionLocks(locks, tid))
    BY <1>2 DEF Exclusive, RmTransactionLocks
<1>3. ASSUME NEW op \in Operations, Len(op.path) <= 1, Tries(op)
      PROVE  Exclusive(tuples')
    <2>1. PICK o \in CanBeScheduled(op, tuples, wait_for) :
            AfterScheduling(op, o) \/ (tuples' = o.tuples /\ wait_for' = o.arcs)
        BY <1>3
    <2>2. Exclusive(o.tuples) BY <1>1, <1>3, CanBeScheduledExclusive
    <2> QED BY <1>2, <2>1, <2>2 DEF AfterScheduling
<1> HIDE DEF Tries
<1>4. CASE Defer \/ ScheduleNext \/ PutNextInWaitingList
    <2>1. PICK op \in Elems(operations) :
            /\ TakeNext(op)
            /\ waiting_list' \in {waiting_list, Append(waiting_list, op)}
            /\ Tries(op) \/ tuples' = tuples
        BY <1>4 DEF Defer, ScheduleNext, PutNextInWaitingList, Tries
    <2>2. op \in Operations /\ Len(op.path) <= 1 BY <1>1, TypedKnown DEF FlatOps
    <2>3. Exclusive(tuples') BY <1>1, <1>3, <2>1, <2>2
    <2>4. FlatOps(waiting_list')
        <3>1. Elems(Append(waiting_list, op)) = Elems(waiting_list) \cup {op}
            BY <1>1, <2>2, ElemsOfAppend
        <3> QED BY <1>1, <2>1, <2>2, <3>1 DEF FlatOps
    <2>5. operations' = operations BY <2>1 DEF TakeNext
    <2> QED BY <1>1, <2>3, <2>4, <2>5 DEF Excluded, FlatOps
<1>5. CASE ScheduleWaiting \/ KeepWaiting
    <2>1. /\ it_wl \in 1..Len(waiting_list)
          /\ Tries(waiting_list[it_wl])
          /\ waiting_list' \in {waiting_list, EraseAt(waiting_list, it_wl)}
          /\ operations' = operations
        BY <1>5, TypedKnown DEF ScheduleWaiting, KeepWaiting, Tries
    <2>2. waiting_list[it_wl] \in Operations /\ Len(waiting_list[it_wl].path) <= 1
        BY <1>1, <2>1, ElemsOfSeq DEF FlatOps
    <2>3. Exclusive(tuples') BY <1>3, <2>1, <2>2
    <2>4. Elems(EraseAt(waiting_list, it_wl)) \subseteq Elems(waiting_list)
        BY <1>1, <2>1, ElemsOfEraseAt
    <2> QED BY <1>1, <2>1, <2>3, <2>4 DEF Excluded, FlatOps
<1>6. CASE ResolveDeadlock
    <2>1. PICK tid : /\ tuples' = RmTransactionLocks(tuples, tid)
                     /\ operations' = Without(operations, tid)
                     /\ waiting_list' = Without(waiting_list, tid)
        BY <1>6 DEF ResolveDeadlock, AbortTransaction
    <2>2. /\ Elems(Without(operations, tid)) \subseteq Elems(operations)
          /\ Elems(Without(waiting_list, tid)) \subseteq Elems(waiting_list)
        BY <1>1, ElemsOfWithout
    <2> QED BY <1>1, <1>2, <2>1, <2>2 DEF Excluded, FlatOps
<1>7. CASE StartScan \/ ContinueScan \/ EndScan \/ Return \/ Terminated \/ UNCHANGED vars
    <2>1. UNCHANGED <<tuples, operations, waiting_list>>
        BY <1>7 DEF StartScan, ContinueScan, EndScan, Return, Terminated, vars
    <2> QED BY <1>1, <2>1 DEF Excluded, FlatOps
<1> QED BY <1>4, <1>5, <1>6, <1>7 DEF Next, Step

LEMMA ExcludedMeans == Excluded => ReadersExcludeCertifiers
BY DEF Excluded, Exclusive, ReadersExcludeCertifiers

\* On schedules whose resources are all databases a reader and a certifier
\* never hold one resource together, although failed commits leave locks
\* Converting and stale read requests set them Granted again (try_to_lock).
\* Other inputs break it: an inherited lock is granted without a check.
THEOREM ReadersNeverMeetCertifiers ==
    ASSUME \A s \in Inputs : FlatOps(s)
    PROVE  Spec => []ReadersExcludeCertifiers
<1>1. Init => TypeOK /\ Excluded
    <2>1. Init => FlatOps(operations) BY DEF Init
    <2> QED BY <2>1, InitTypeOK, InitExcluded
<1>2. TypeOK /\ Excluded /\ [Next]_vars => (TypeOK /\ Excluded)'
    BY NextTypeOK, NextExcluded
<1> QED BY <1>1, <1>2, ExcludedMeans, PTL DEF Spec

-----------------------------------------------------------------------------
(* The object passed in against the scheduler's own operations.             *)

\* Only an abort changes either, and it takes the same transaction out.
LEMMA NextCopyMatches ==
    ASSUME TypeOK, CopyMatches, [Next]_vars
    PROVE  CopyMatches'
<1>1. CASE ResolveDeadlock
    <2>1. PICK tid : /\ operations' = Without(operations, tid)
                     /\ incoming_schedule' = Purge(incoming_schedule, tid)
        BY <1>1 DEF ResolveDeadlock, AbortTransaction
    <2>2. operations \in Seq(Operations) BY DEF TypeOK
    <2> QED BY <2>1, <2>2, PurgeMatches DEF CopyMatches
<1>2. CASE \/ Defer \/ ScheduleNext \/ PutNextInWaitingList \/ StartScan
           \/ ScheduleWaiting \/ KeepWaiting \/ ContinueScan \/ EndScan
           \/ Return \/ Terminated \/ UNCHANGED vars
    <2>1. UNCHANGED <<operations, incoming_schedule>>
        BY <1>2 DEF Defer, ScheduleNext, PutNextInWaitingList, TakeNext, StartScan,
                    ScheduleWaiting, KeepWaiting, ContinueScan, EndScan, Return,
                    Terminated, vars
    <2> QED BY <2>1 DEF CopyMatches
<1> QED BY <1>1, <1>2 DEF Next, Step

\* The two purges of an abort, which schedule.cpp and 2v2pl.cpp write apart,
\* never disagree: the object stays the one its remaining operations would
\* make, each transaction listed once, in order of first appearance, through
\* any number of aborts and even when no victim is found.
THEOREM CopyAlwaysMatches == Spec => []CopyMatches
<1>1. Init => TypeOK /\ CopyMatches BY InitTypeOK DEF Begun, CopyMatches
<1>2. TypeOK /\ CopyMatches /\ [Next]_vars => (TypeOK /\ CopyMatches)'
    BY NextTypeOK, NextCopyMatches
<1> QED BY <1>1, <1>2, PTL DEF Spec

-----------------------------------------------------------------------------
(* The waiting list is part of the schedule.                                *)

WaitingRead == Elems(waiting_list) \subseteq Elems(operations)

LEMMA NextWaitingRead ==
    ASSUME TypeOK, WaitingRead, [Next]_vars
    PROVE  WaitingRead'
<1>1. /\ operations \in Seq(Operations) /\ waiting_list \in Seq(Operations)
      /\ Elems(waiting_list) \subseteq Elems(operations)
    BY DEF TypeOK, WaitingRead
<1>2. CASE Defer \/ ScheduleNext \/ PutNextInWaitingList
    <2>1. PICK op \in Elems(operations) :
            /\ TakeNext(op)
            /\ waiting_list' \in {waiting_list, Append(waiting_list, op)}
        BY <1>2 DEF Defer, ScheduleNext, PutNextInWaitingList
    <2>2. Elems(Append(waiting_list, op)) = Elems(waiting_list) \cup {op}
        BY <1>1, TypedKnown, ElemsOfAppend
    <2>3. operations' = operations BY <2>1 DEF TakeNext
    <2> QED BY <1>1, <2>1, <2>2, <2>3 DEF WaitingRead
<1>3. CASE ResolveDeadlock
    <2>1. PICK tid : /\ operations' = Without(operations, tid)
                     /\ waiting_list' = Without(waiting_list, tid)
        BY <1>3 DEF ResolveDeadlock, AbortTransaction
    <2>2. /\ Elems(Without(operations, tid)) = {x \in Elems(operations) : x.tid # tid}
          /\ Elems(Without(waiting_list, tid)) = {x \in Elems(waiting_list) : x.tid # tid}
        BY <1>1, ElemsOfWithout
    <2> QED BY <1>1, <2>1, <2>2 DEF WaitingRead
<1>4. CASE ScheduleWaiting
    <2>1. /\ it_wl \in 1..Len(waiting_list)
          /\ waiting_list' = EraseAt(waiting_list, it_wl)
          /\ operations' = operations
        BY <1>4, TypedKnown DEF ScheduleWaiting
    <2>2. Elems(EraseAt(waiting_list, it_wl)) \subseteq Elems(waiting_list)
        BY <1>1, <2>1, ElemsOfEraseAt
    <2> QED BY <1>1, <2>1, <2>2 DEF WaitingRead
<1>5. CASE KeepWaiting \/ StartScan \/ ContinueScan \/ EndScan \/ Return
           \/ Terminated \/ UNCHANGED vars
    <2>1. UNCHANGED <<operations, waiting_list>>
        BY <1>5 DEF KeepWaiting, StartScan, ContinueScan, EndScan, Return, Terminated, vars
    <2> QED BY <1>1, <2>1 DEF WaitingRead
<1> QED BY <1>2, <1>3, <1>4, <1>5 DEF Next, Step

-----------------------------------------------------------------------------
(* Who waits for whom.                                                      *)

\* The resource of q is that of p, or contains it.
Above(q, p) ==
    /\ q.path # <<>>
    /\ \A k \in DOMAIN q.path : k \in DOMAIN p.path /\ q.path[k] = p.path[k]

\* A transaction has business with the resource of any operation of the input,
\* when it has an operation on that resource, or above it, itself.
Business(G, O) ==
    {b \in Tids \X RscIds :
        \E p \in G, q \in O :
            q.tid = b[1] /\ p.path # <<>> /\ GetResource(p) = b[2] /\ Above(q, p)}

LEMMA PathIndex ==
    ASSUME NEW p \in Operations
    PROVE  /\ p.path # <<>> <=> p.type # "Commit"
           /\ p.path # <<>> =>
                /\ Len(p.path) \in Nat \ {0}
                /\ DOMAIN p.path = 1..Len(p.path)
                /\ Len(p.path) \in DOMAIN p.path
<1>1. CASE p.type = "Commit"
    <2>1. p.path = <<>> BY <1>1 DEF Operations
    <2> QED BY <1>1, <2>1
<1>2. CASE p.type # "Commit"
    <2>1. p.path \in Paths BY <1>2 DEF Operations
    <2>2. PICK n \in 1..4 : p.path \in [1..n -> RscIds] BY <2>1 DEF Paths, MaxDepth
    <2>3. p.path # <<>>
        <3>1. 1 \in DOMAIN p.path BY <2>2
        <3>2. 1 \notin DOMAIN <<>> OBVIOUS
        <3> QED BY <3>1, <3>2
    <2>4. DOMAIN p.path = 1..n /\ Len(p.path) = n BY <2>2
    <2> QED BY <1>2, <2>3, <2>4
<1> QED BY <1>1, <1>2

\* Where each id names one place, operations that reach the same id agree on the
\* way to it.
LEMMA OnePlace ==
    ASSUME NEW G \in SUBSET Operations, DistinctIds(G),
           NEW p \in G, p.path # <<>>, NEW q \in G, NEW j \in DOMAIN q.path,
           GetResource(p) = q.path[j]
    PROVE  /\ DOMAIN p.path = 1..j
           /\ \A k \in DOMAIN p.path : p.path[k] = q.path[k]
<1>1. Len(p.path) \in DOMAIN p.path /\ DOMAIN p.path = 1..Len(p.path) BY PathIndex
<1>2. p.path[Len(p.path)] = q.path[j] BY DEF GetResource
<1>3. Len(p.path) = j /\ \A k \in 1..Len(p.path) : p.path[k] = q.path[k]
    BY <1>1, <1>2 DEF DistinctIds
<1> QED BY <1>1, <1>3

LEMMA BusinessAllows ==
    ASSUME NEW G \in SUBSET Operations, DistinctIds(G), NEW O \in SUBSET G, NEW op \in O
    PROVE  Allows(Business(G, O), op)
<1> DEFINE B == Business(G, O)
<1>1. op \in Operations OBVIOUS
<1>2. SUFFICES ASSUME op.type # "Commit"
               PROVE  /\ <<op.tid, GetResource(op)>> \in B
                      /\ \A t, r : r \in Ascendants(op) /\ <<t, r>> \in B
                                        => <<t, GetResource(op)>> \in B
    BY DEF Allows
<1>3. op.tid \in Tids /\ GetResource(op) \in RscIds BY <1>1, <1>2, Resource
<1>4. op.path # <<>> /\ Len(op.path) \in Nat /\ DOMAIN op.path = 1..Len(op.path)
    BY <1>1, <1>2, PathIndex
<1>5. <<op.tid, GetResource(op)>> \in B
    <2>1. Above(op, op) BY <1>4 DEF Above
    <2> QED BY <1>3, <1>4, <2>1 DEF Business
<1>6. ASSUME NEW t, NEW r, r \in Ascendants(op), <<t, r>> \in B
      PROVE  <<t, GetResource(op)>> \in B
    <2>1. PICK p \in G, q \in O :
            t \in Tids /\ q.tid = t /\ p.path # <<>> /\ GetResource(p) = r /\ Above(q, p)
        BY <1>6 DEF Business
    <2>2. PICK i \in 1..Len(op.path) - 1 : r = op.path[i] BY <1>6 DEF Ascendants
    <2>3. i \in DOMAIN op.path /\ \A k \in 1..i : k \in DOMAIN op.path BY <1>4, <2>2
    <2>4. /\ DOMAIN p.path = 1..i
          /\ \A k \in DOMAIN p.path : p.path[k] = op.path[k]
        <3>1. op \in G /\ GetResource(p) = op.path[i] BY <2>1, <2>2
        <3> QED BY <2>1, <2>3, <3>1, OnePlace
    <2>5. Above(q, op) BY <2>1, <2>3, <2>4 DEF Above
    <2> QED BY <1>3, <1>4, <2>1, <2>5 DEF Business
<1> QED BY <1>5, <1>6

LEMMA BusinessOverlaps ==
    ASSUME NEW G \in SUBSET Operations, DistinctIds(G), NEW O,
           NEW t, NEW u, NEW r, <<t, r>> \in Business(G, O), <<u, r>> \in Business(G, O)
    PROVE  \E p, q \in O : p.tid = t /\ q.tid = u /\ Overlap(p, q)
<1>1. PICK p1 \in G, q1 \in O :
        q1.tid = t /\ p1.path # <<>> /\ GetResource(p1) = r /\ Above(q1, p1)
    BY DEF Business
<1>2. PICK p2 \in G, q2 \in O :
        q2.tid = u /\ p2.path # <<>> /\ GetResource(p2) = r /\ Above(q2, p2)
    BY DEF Business
<1>3. Len(p2.path) \in DOMAIN p2.path /\ p2.path[Len(p2.path)] = r
    BY <1>2, PathIndex DEF GetResource
<1>4. \A k \in DOMAIN p1.path : p1.path[k] = p2.path[k] BY <1>1, <1>3, OnePlace
<1>5. Overlap(q1, q2) BY <1>1, <1>2, <1>4 DEF Overlap, Above
<1> QED BY <1>1, <1>2, <1>5

\* The locks and arcs go back to operations of one input, those of aborted
\* transactions among them: a lock inherited for an aborted operation stays with
\* its owner.
Traced ==
    \E s \in Inputs :
        /\ DistinctIds(Elems(s))
        /\ Elems(operations) \subseteq Elems(s)
        /\ Justified(Business(Elems(s), Elems(operations)), tuples, wait_for)

LEMMA InitTraced == Init /\ DistinctIds(Elems(operations)) => Traced
BY DEF Init, Locals, Traced, Justified

LEMMA TracedMeans ==
    ASSUME Traced
    PROVE  WaitersOverlap
<1>1. PICK s \in Inputs :
        /\ DistinctIds(Elems(s))
        /\ Justified(Business(Elems(s), Elems(operations)), tuples, wait_for)
    BY DEF Traced
<1>2. Elems(s) \in SUBSET Operations
    <2>1. s \in Seq(Operations) BY InputsAssumption
    <2> QED BY <2>1, ElemsOfSeq DEF Elems
<1> SUFFICES ASSUME NEW a \in wait_for
             PROVE  \E p, q \in Elems(operations) :
                        p.tid = a[1] /\ q.tid = a[2] /\ Overlap(p, q)
    BY DEF WaitersOverlap
<1>3. PICK r : /\ <<a[1], r>> \in Business(Elems(s), Elems(operations))
               /\ <<a[2], r>> \in Business(Elems(s), Elems(operations))
    BY <1>1 DEF Justified
<1> QED BY <1>1, <1>2, <1>3, BusinessOverlaps

\* An abort takes what goes back to the victim's operations, and the rest goes
\* back to the operations of others.
LEMMA ReleaseJustified ==
    ASSUME NEW G, NEW O, NEW Q, NEW tid, \A q \in O : q.tid # tid => q \in Q,
           NEW locks, NEW arcs, Justified(Business(G, O), locks, arcs)
    PROVE  Justified(Business(G, Q), RmTransactionLocks(locks, tid), RemoveNode(arcs, tid))
<1>1. ASSUME NEW t, NEW r, <<t, r>> \in Business(G, O), t # tid
      PROVE  <<t, r>> \in Business(G, Q)
    BY <1>1 DEF Business
<1>2. \A l \in RmTransactionLocks(locks, tid) : <<l.req_tid, l.rsc_id>> \in Business(G, Q)
    BY <1>1 DEF RmTransactionLocks, Justified
<1>3. ASSUME NEW a \in RemoveNode(arcs, tid)
      PROVE  \E r : <<a[1], r>> \in Business(G, Q) /\ <<a[2], r>> \in Business(G, Q)
    <2>1. a \in arcs /\ a[1] # tid /\ a[2] # tid BY DEF RemoveNode
    <2>2. PICK r : <<a[1], r>> \in Business(G, O) /\ <<a[2], r>> \in Business(G, O)
        BY <2>1 DEF Justified
    <2> QED BY <1>1, <2>1, <2>2
<1> QED BY <1>2, <1>3 DEF Justified

LEMMA NextTraced ==
    ASSUME TypeOK, WaitingRead, Traced, [Next]_vars
    PROVE  Traced'
<1> DEFINE E == Elems(operations)
           Tries(op) ==
             \E o \in CanBeScheduled(op, tuples, wait_for) :
                AfterScheduling(op, o) \/ (tuples' = o.tuples /\ wait_for' = o.arcs)
<1>1. PICK s \in Inputs :
        /\ DistinctIds(Elems(s))
        /\ E \subseteq Elems(s)
        /\ Justified(Business(Elems(s), E), tuples, wait_for)
    BY DEF Traced
<1>2. Elems(s) \in SUBSET Operations
    <2>1. s \in Seq(Operations) BY InputsAssumption
    <2> QED BY <2>1, ElemsOfSeq DEF Elems
<1> DEFINE B == Business(Elems(s), E)
<1>3. /\ operations \in Seq(Operations) /\ waiting_list \in Seq(Operations)
      /\ Known(Tids, tuples, wait_for) /\ Elems(waiting_list) \subseteq E
    BY TypedKnown DEF TypeOK, WaitingRead
<1>4. ASSUME NEW op \in E, Tries(op)
      PROVE  Justified(B, tuples', wait_for')
    <2>1. PICK o \in CanBeScheduled(op, tuples, wait_for) :
            AfterScheduling(op, o) \/ (tuples' = o.tuples /\ wait_for' = o.arcs)
        BY <1>4
    <2>2. op \in Operations /\ op.tid \in Tids BY <1>1, <1>2 DEF Operations
    <2>3. Allows(B, op)
        <3> HIDE DEF E
        <3> QED BY <1>1, <1>2, BusinessAllows
    <2> HIDE DEF B
    <2>4. Justified(B, tuples, wait_for) BY <1>1 DEF B
    <2>5. Justified(B, o.tuples, o.arcs)
        BY <1>3, <2>2, <2>3, <2>4, CanBeScheduledJustified
    <2>6. Justified(B, RmTransactionLocks(o.tuples, op.tid), RemoveNode(o.arcs, op.tid))
        BY <2>5 DEF Justified, RmTransactionLocks, RemoveNode
    <2> QED BY <2>1, <2>5, <2>6 DEF AfterScheduling
<1>5. ASSUME operations' = operations, Justified(B, tuples', wait_for')
      PROVE  Traced'
    BY <1>1, <1>5 DEF Traced
<1> HIDE DEF B, Tries
<1>6. Justified(B, tuples, wait_for) BY <1>1 DEF B
<1>7. CASE Defer \/ ScheduleNext \/ PutNextInWaitingList
    <2>1. PICK op \in E : /\ operations' = operations
                          /\ Tries(op) \/ UNCHANGED <<tuples, wait_for>>
        BY <1>7 DEF Defer, ScheduleNext, PutNextInWaitingList, TakeNext, Tries
    <2> QED BY <1>4, <1>5, <1>6, <2>1
<1>8. CASE ScheduleWaiting \/ KeepWaiting
    <2>1. /\ it_wl \in 1..Len(waiting_list) /\ Tries(waiting_list[it_wl])
          /\ operations' = operations
        BY <1>8, TypedKnown DEF ScheduleWaiting, KeepWaiting, Tries
    <2>2. waiting_list[it_wl] \in E BY <1>3, <2>1, ElemsOfSeq
    <2> QED BY <1>4, <1>5, <2>1, <2>2
<1>9. CASE ResolveDeadlock
    <2>1. PICK tid : /\ operations' = Without(operations, tid)
                     /\ tuples' = RmTransactionLocks(tuples, tid)
                     /\ wait_for' = RemoveNode(wait_for, tid)
        BY <1>9 DEF ResolveDeadlock, AbortTransaction
    <2>2. Elems(Without(operations, tid)) = {op \in E : op.tid # tid}
        BY <1>3, ElemsOfWithout
    <2>3. Justified(Business(Elems(s), Elems(Without(operations, tid))),
                    RmTransactionLocks(tuples, tid), RemoveNode(wait_for, tid))
        BY <1>1, <2>2, ReleaseJustified
    <2> QED BY <1>1, <2>1, <2>2, <2>3 DEF Traced
<1>10. CASE StartScan \/ ContinueScan \/ EndScan \/ Return \/ Terminated \/ UNCHANGED vars
    <2>1. UNCHANGED <<operations, tuples, wait_for>>
        BY <1>10 DEF StartScan, ContinueScan, EndScan, Return, Terminated, vars
    <2> QED BY <1>5, <1>6, <2>1
<1> QED BY <1>7, <1>8, <1>9, <1>10 DEF Next, Step

\* On a schedule in which each id names one place a transaction waits only for
\* one that has an operation on a resource of its own, above it or below it
\* (can_be_scheduled finds locks by a bare id; get_rsc_locks compares no more).
\* On other schedules it is false: two resources may share an id.
THEOREM WaitersAlwaysOverlap ==
    ASSUME \A s \in Inputs : DistinctIds(Elems(s))
    PROVE  Spec => []WaitersOverlap
<1>1. Init => TypeOK /\ WaitingRead /\ Traced
    <2>1. Init => WaitingRead BY DEF Init, Locals, WaitingRead, Elems
    <2>2. Init => DistinctIds(Elems(operations)) BY DEF Init
    <2> QED BY <2>1, <2>2, InitTypeOK, InitTraced
<1>2. TypeOK /\ WaitingRead /\ Traced /\ [Next]_vars => (TypeOK /\ WaitingRead /\ Traced)'
    BY NextTypeOK, NextWaitingRead, NextTraced
<1>3. Traced => WaitersOverlap BY TracedMeans
<1> QED BY <1>1, <1>2, <1>3, PTL DEF Spec

-----------------------------------------------------------------------------
(* Progress.                                                                *)

\* Locks and arcs belong to transactions that still have an operation.
Active == Known(TidsOf(operations), tuples, wait_for)

LEMMA NextActive ==
    ASSUME TypeOK, WaitingRead, Active, [Next]_vars
    PROVE  Active'
<1> DEFINE X == TidsOf(operations)
<1>1. operations \in Seq(Operations) /\ waiting_list \in Seq(Operations) BY DEF TypeOK
<1>2. X \cup TidsOf(waiting_list) \subseteq X
    <2>1. \A s : TidsOf(s) = {op.tid : op \in Elems(s)} BY DEF TidsOf, Elems
    <2> QED BY <2>1 DEF WaitingRead
<1>3. CASE UNCHANGED vars BY <1>3 DEF vars, Active
<1>4. CASE ResolveDeadlock
    <2>1. PICK tid : /\ operations' = Without(operations, tid)
                     /\ wait_for' = RemoveNode(wait_for, tid)
                     /\ tuples' = RmTransactionLocks(tuples, tid)
        BY <1>4 DEF ResolveDeadlock, AbortTransaction
    <2>2. Known(X \ {tid}, tuples', wait_for') BY <2>1, ReleaseKnown DEF Active
    <2>3. X \ {tid} \subseteq TidsOf(Without(operations, tid))
        <3>1. \A s : TidsOf(s) = {op.tid : op \in Elems(s)} BY DEF TidsOf, Elems
        <3>2. \A op \in Elems(operations) :
                op.tid # tid => op \in Elems(Without(operations, tid))
            BY <1>1, ElemsOfWithout
        <3> QED BY <3>1, <3>2
    <2> QED BY <2>1, <2>2, <2>3, KnownMonotone DEF Active
<1>5. CASE Next /\ ~ResolveDeadlock
    <2>1. Known(X, tuples', wait_for')
        BY <1>1, <1>2, <1>5, StepKnown DEF Active, TypeOK
    <2>2. operations' = operations
        BY <1>5 DEF Next, Step, Defer, ScheduleNext, PutNextInWaitingList, TakeNext,
                    StartScan, ScheduleWaiting, KeepWaiting, ContinueScan, EndScan,
                    Return, Terminated, vars
    <2> QED BY <2>1, <2>2 DEF Active
<1> QED BY <1>3, <1>4, <1>5

\* The iterators are not past end(), and the scan looks at an operation.
InRange ==
    /\ it <= Len(operations) + 1
    /\ it_wl <= Len(waiting_list) + 1
    /\ pc = "scancheck" => it_wl <= Len(waiting_list)

\* A victim is found among the transactions with an operation.
LEMMA VictimActive ==
    ASSUME NEW seen \in Seq(Tids), NEW nodes, NEW v,
           v = RemoveMostRecentTransaction(nodes, seen), v.tid # NoTid
    PROVE  v.tid \in nodes
<1> DEFINE i == MostRecent(seen, nodes)
<1>1. i = 0 \/ seen[i] \in nodes BY MostRecentFound
<1> QED BY <1>1 DEF RemoveMostRecentTransaction

\* Five numbers, the first that differ decide.
LEMMA LessFirst ==
    ASSUME NEW a1, NEW a2, NEW a3, NEW a4, NEW a5,
           NEW b1, NEW b2, NEW b3, NEW b4, NEW b5,
           \/ a1 < b1
           \/ a1 = b1 /\ a2 < b2
           \/ a1 = b1 /\ a2 = b2 /\ a3 < b3
           \/ a1 = b1 /\ a2 = b2 /\ a3 = b3 /\ a4 < b4
           \/ a1 = b1 /\ a2 = b2 /\ a3 = b3 /\ a4 = b4 /\ a5 < b5
    PROVE  Less(<<a1, a2, a3, a4, a5>>, <<b1, b2, b3, b4, b5>>)
<1> DEFINE a == <<a1, a2, a3, a4, a5>>
           b == <<b1, b2, b3, b4, b5>>
<1>1. \E k \in 1..5 : a[k] < b[k] /\ \A j \in 1..k - 1 : a[j] = b[j]
    <2>1. CASE a1 < b1
        <3>1. a[1] < b[1] /\ \A j \in 1..1 - 1 : a[j] = b[j] BY <2>1
        <3> QED BY <3>1
    <2>2. CASE a1 = b1 /\ a2 < b2
        <3>1. a[2] < b[2] /\ \A j \in 1..2 - 1 : a[j] = b[j] BY <2>2
        <3> QED BY <3>1
    <2>3. CASE a1 = b1 /\ a2 = b2 /\ a3 < b3
        <3>1. a[3] < b[3] /\ \A j \in 1..3 - 1 : a[j] = b[j] BY <2>3
        <3> QED BY <3>1
    <2>4. CASE a1 = b1 /\ a2 = b2 /\ a3 = b3 /\ a4 < b4
        <3>1. a[4] < b[4] /\ \A j \in 1..4 - 1 : a[j] = b[j] BY <2>4
        <3> QED BY <3>1
    <2>5. CASE a1 = b1 /\ a2 = b2 /\ a3 = b3 /\ a4 = b4 /\ a5 < b5
        <3>1. a[5] < b[5] /\ \A j \in 1..5 - 1 : a[j] = b[j] BY <2>5
        <3> QED BY <3>1
    <2> QED BY <2>1, <2>2, <2>3, <2>4, <2>5
<1>2. DOMAIN b = 1..5 OBVIOUS
<1> QED BY <1>1, <1>2 DEF Less

\* The places in schedule(), as far as an iteration has to go.
LEMMA PlacesRanked ==
    ASSUME NEW f, f = [check |-> 3, scan |-> 2, scancheck |-> 2, main |-> 1, done |-> 0]
    PROVE  /\ f["check"] = 3 /\ f["scan"] = 2 /\ f["scancheck"] = 2
           /\ f["main"] = 1 /\ f["done"] = 0
OBVIOUS

LEMMA RemainingCounted ==
    TypeOK /\ InRange => DOMAIN Remaining = 1..5 /\ \A k \in 1..5 : Remaining[k] >= 0
<1> SUFFICES ASSUME TypeOK, InRange
             PROVE  DOMAIN Remaining = 1..5 /\ \A k \in 1..5 : Remaining[k] >= 0
    OBVIOUS
<1> DEFINE f == [check |-> 3, scan |-> 2, scancheck |-> 2, main |-> 1, done |-> 0]
           b == IF pc = "scan" THEN 1 ELSE 0
<1>1. Len(operations) \in Nat /\ Len(waiting_list) \in Nat BY ElemsOfSeq DEF TypeOK
<1>2. it \in Nat /\ it_wl \in Nat BY DEF TypeOK
<1>3. Len(operations) + 1 - it >= 0 /\ Len(waiting_list) + 1 - it_wl >= 0
    BY <1>1, <1>2 DEF InRange
<1>4. f[pc] >= 0
    <2>1. pc \in {"main", "check", "scan", "scancheck", "done"} BY DEF TypeOK
    <2> QED BY <2>1, PlacesRanked
<1>5. b >= 0 OBVIOUS
<1> HIDE DEF f, b
<1>6. Remaining = <<Len(operations), Len(operations) + 1 - it, f[pc],
                    Len(waiting_list) + 1 - it_wl, b>>
    BY DEF Remaining, f, b
<1> QED BY <1>1, <1>3, <1>4, <1>5, <1>6

\* What each step takes away.
LEMMA StepLess ==
    ASSUME TypeOK, InRange, WaitingRead, Active, VictimFound', Step
    PROVE  InRange' /\ Less(Remaining', Remaining)
<1> DEFINE f == [check |-> 3, scan |-> 2, scancheck |-> 2, main |-> 1, done |-> 0]
           n == Len(operations)
           m == Len(waiting_list)
<1>1. /\ operations \in Seq(Operations) /\ waiting_list \in Seq(Operations)
      /\ n \in Nat /\ m \in Nat /\ it \in Nat \ {0} /\ it_wl \in Nat \ {0}
    BY ElemsOfSeq DEF TypeOK
<1>2. it <= n + 1 /\ it_wl <= m + 1 /\ (pc = "scancheck" => it_wl <= m)
    BY DEF InRange
<1>3. /\ f["check"] = 3 /\ f["scan"] = 2 /\ f["scancheck"] = 2
      /\ f["main"] = 1 /\ f["done"] = 0
    BY PlacesRanked
<1>4. /\ Remaining = <<n, n + 1 - it, f[pc], m + 1 - it_wl, IF pc = "scan" THEN 1 ELSE 0>>
      /\ Remaining' = <<n', n' + 1 - it', f[pc'], m' + 1 - it_wl',
                        IF pc' = "scan" THEN 1 ELSE 0>>
    BY DEF Remaining
<1> HIDE DEF f
<1>5. CASE Defer \/ ScheduleNext \/ PutNextInWaitingList
    <2>1. PICK op \in Elems(operations) :
            /\ TakeNext(op)
            /\ waiting_list' \in {waiting_list, Append(waiting_list, op)}
            /\ pc' \in {"main", "check"}
        BY <1>5 DEF Defer, ScheduleNext, PutNextInWaitingList, TakeNext
    <2>2. /\ it <= n /\ it' = it + 1 /\ operations' = operations /\ it_wl' = it_wl
        BY <2>1 DEF TakeNext
    <2>3. Len(Append(waiting_list, op)) = m + 1 BY <1>1, AppendProperties, <2>1, TypedKnown
    <2>4. n' = n /\ m' \in {m, m + 1} /\ n' + 1 - it' < n + 1 - it
        BY <1>1, <2>1, <2>2, <2>3
    <2>5. InRange'
        <3>1. it' <= n' + 1 /\ it_wl' <= m' + 1 BY <1>1, <1>2, <2>2, <2>4
        <3> QED BY <2>1, <3>1 DEF InRange
    <2> QED BY <1>4, <2>4, <2>5, LessFirst
<1>6. CASE ResolveDeadlock
    <2>1. PICK nodes \in FindDeadlockNodes(wait_for) \ {{}} : AbortTransaction(nodes)
        BY <1>6 DEF ResolveDeadlock
    <2> DEFINE v == RemoveMostRecentTransaction(nodes, chronology)
    <2>2. /\ operations' = Without(operations, v.tid)
          /\ waiting_list' = Without(waiting_list, v.tid)
          /\ it' = 1 /\ it_wl' = 1 /\ pc' = "scan"
          /\ aborted' = aborted \cup {v.tid}
        BY <2>1 DEF AbortTransaction
    <2>3. v.tid # NoTid BY <2>2 DEF VictimFound
    <2>4. v.tid \in TidsOf(operations)
        <3>1. v.tid \in nodes BY <2>3, VictimActive DEF TypeOK
        <3>2. nodes \subseteq Nodes(wait_for) BY <2>1, DeadlockNodes
        <3> QED BY <3>1, <3>2 DEF Active, Known, Nodes
    <2> HIDE DEF v
    <2>5. n' < n BY <1>1, <2>2, <2>4, LenOfWithout
    <2>6. InRange'
        <3>1. operations' \in Seq(Operations) /\ waiting_list' \in Seq(Operations)
            BY <1>1, <2>2, ElemsOfWithout
        <3>2. n' \in Nat /\ m' \in Nat BY <3>1, ElemsOfSeq
        <3> QED BY <2>2, <3>2 DEF InRange
    <2> QED BY <1>4, <2>5, <2>6, LessFirst
<1>7. CASE ScheduleWaiting
    <2>1. /\ it_wl <= m /\ waiting_list' = EraseAt(waiting_list, it_wl)
          /\ UNCHANGED <<operations, it, it_wl, pc>>
          /\ pc = "scan"
        BY <1>7 DEF ScheduleWaiting
    <2>2. m' = m - 1 BY <1>1, <2>1, ElemsOfEraseAt
    <2>3. InRange' BY <1>1, <1>2, <2>1, <2>2 DEF InRange
    <2>4. m' + 1 - it_wl' < m + 1 - it_wl BY <1>1, <2>1, <2>2
    <2> QED BY <1>4, <2>1, <2>3, <2>4, LessFirst
<1>8. CASE KeepWaiting
    <2>1. /\ UNCHANGED <<operations, it, waiting_list, it_wl>>
          /\ it_wl <= m /\ pc = "scan" /\ pc' = "scancheck"
        BY <1>8 DEF KeepWaiting
    <2>2. InRange' BY <1>2, <2>1 DEF InRange
    <2> QED BY <1>3, <1>4, <2>1, <2>2, LessFirst
<1>9. CASE ContinueScan
    <2>1. /\ UNCHANGED <<operations, it, waiting_list>>
          /\ it_wl' = it_wl + 1 /\ pc = "scancheck" /\ pc' = "scan"
        BY <1>9 DEF ContinueScan
    <2>2. m' = m /\ m' + 1 - it_wl' < m + 1 - it_wl BY <1>1, <2>1
    <2>3. InRange' BY <1>1, <1>2, <2>1 DEF InRange
    <2> QED BY <1>3, <1>4, <2>1, <2>2, <2>3, LessFirst
<1>10. CASE StartScan \/ EndScan \/ Return
    <2>1. /\ UNCHANGED <<operations, it, waiting_list>>
          /\ it_wl' \in {1, it_wl}
          /\ \/ pc = "check" /\ pc' = "scan"
             \/ pc = "scan" /\ pc' = "main"
             \/ pc = "main" /\ pc' = "done"
        BY <1>10 DEF StartScan, EndScan, Return
    <2>2. f[pc'] < f[pc] BY <1>3, <2>1
    <2>3. InRange' BY <1>1, <1>2, <2>1 DEF InRange
    <2> QED BY <1>4, <2>1, <2>2, <2>3, LessFirst
<1> QED BY <1>5, <1>6, <1>7, <1>8, <1>9, <1>10 DEF Step

Ongoing == TypeOK /\ InRange /\ WaitingRead /\ Active

LEMMA BegunOngoing == Begun => Ongoing
<1> SUFFICES ASSUME Begun PROVE Ongoing OBVIOUS
<1>1. TypeOK BY BegunTypeOK
<1>2. Len(operations) \in Nat /\ Len(waiting_list) \in Nat
    BY <1>1, ElemsOfSeq DEF TypeOK
<1>3. InRange BY <1>2 DEF Begun, Locals, InRange
<1>4. WaitingRead BY DEF Begun, Locals, WaitingRead, Elems
<1>5. Active BY DEF Begun, Locals, Active, Known
<1> QED BY <1>1, <1>3, <1>4, <1>5 DEF Ongoing

LEMMA NextOngoing ==
    ASSUME Ongoing, VictimFound', [Next]_vars
    PROVE  /\ Ongoing'
           /\ [/\ Less(Remaining', Remaining)
               /\ \A k \in DOMAIN Remaining : Remaining'[k] >= 0]_vars
<1> USE DEF Ongoing
<1>1. TypeOK' /\ WaitingRead' /\ Active' BY NextTypeOK, NextWaitingRead, NextActive
<1>2. CASE UNCHANGED vars \/ Terminated
    <2>1. InRange' /\ UNCHANGED vars BY <1>2 DEF vars, Terminated, InRange
    <2> QED BY <1>1, <2>1
<1>3. CASE Step
    <2>1. InRange' /\ Less(Remaining', Remaining) BY <1>3, StepLess
    <2>2. (TypeOK /\ InRange
            => DOMAIN Remaining = 1..5 /\ \A k \in 1..5 : Remaining[k] >= 0)'
        BY RemainingCounted, PTL
    <2>3. DOMAIN Remaining = 1..5 BY RemainingCounted
    <2> QED BY <1>1, <2>1, <2>2, <2>3
<1> QED BY <1>2, <1>3 DEF Next

\* Unless an input has a transaction 0, each step of schedule() leaves less to
\* do in a well-founded order, though an abort makes both loops start over:
\* the victim has an operation, and all of its operations go.  And the
\* iterators stay within the vectors that shrink under them.
THEOREM AlwaysProgresses ==
    ASSUME \A s \in Inputs : 0 \notin TidsOf(s)
    PROVE  Spec => Progresses
<1> DEFINE Progress == /\ Less(Remaining', Remaining)
                       /\ \A k \in DOMAIN Remaining : Remaining'[k] >= 0
<1>1. Init => Ongoing BY InitTypeOK, BegunOngoing
<1>2. Ongoing /\ VictimFound' /\ [Next]_vars => Ongoing' /\ [Progress]_vars
    BY NextOngoing
<1>3. Spec => []VictimFound BY VictimAlwaysFound
<1>4. Progresses <=> [][Progress]_vars BY DEF Progresses
<1> QED BY <1>1, <1>2, <1>3, <1>4, PTL DEF Spec

-----------------------------------------------------------------------------
(* How often an operation is kept.                                          *)

PassedPlaces(x) == {i \in DOMAIN operations : i < it /\ operations[i] = x}
Kept(x) == Times(final_operations, x) + Times(waiting_list, x)

\* Times RepeatsBounded allows.
Bounded(x) ==
    /\ Cardinality(PassedPlaces(x)) <= Kept(x)
    /\ Kept(x) <= Cardinality(PassedPlaces(x)) + Cardinality(aborted) * Times(operations, x)
Balanced == IsFiniteSet(aborted) /\ \A x \in Elems(operations) : Bounded(x)

LEMMA BalancedMeans == Balanced => RepeatsBounded
BY DEF Balanced, Bounded, RepeatsBounded, PassedPlaces, Kept

LEMMA PassedCounted ==
    ASSUME TypeOK, NEW x
    PROVE  /\ IsFiniteSet(PassedPlaces(x)) /\ Cardinality(PassedPlaces(x)) \in Nat
           /\ Cardinality(PassedPlaces(x)) <= Times(operations, x)
           /\ Times(operations, x) \in Nat
           /\ Times(final_operations, x) \in Nat
           /\ Times(waiting_list, x) \in Nat
<1>1. PassedPlaces(x) \in SUBSET Places(operations, x) BY DEF PassedPlaces, Places
<1>2. /\ IsFiniteSet(Places(operations, x)) /\ Times(operations, x) \in Nat
      /\ Times(operations, x) = Cardinality(Places(operations, x))
    BY PlacesCounted DEF TypeOK
<1>3. Times(final_operations, x) \in Nat /\ Times(waiting_list, x) \in Nat
    BY PlacesCounted DEF TypeOK
<1> QED BY <1>1, <1>2, <1>3, FS_Subset, FS_CardinalityType

\* Taking an operation puts it into one of the vectors.
LEMMA TakingKeepsBalance ==
    ASSUME TypeOK, Balanced, Defer \/ ScheduleNext \/ PutNextInWaitingList
    PROVE  Balanced'
<1>1. PICK op \in Elems(operations) :
        /\ TakeNext(op)
        /\ \/ /\ waiting_list' = Append(waiting_list, op)
              /\ final_operations' = final_operations
           \/ /\ final_operations' = Append(final_operations, op)
              /\ waiting_list' = waiting_list
    BY DEF Defer, ScheduleNext, PutNextInWaitingList
<1>2. /\ it <= Len(operations) /\ op = operations[it] /\ it' = it + 1
      /\ operations' = operations /\ aborted' = aborted
    BY <1>1 DEF TakeNext
<1>3. /\ it \in Nat /\ Len(operations) \in Nat /\ it \in DOMAIN operations
      /\ DOMAIN operations = 1..Len(operations)
    BY <1>2, ElemsOfSeq DEF TypeOK
<1> SUFFICES ASSUME NEW x \in Elems(operations) PROVE Bounded(x)'
    BY <1>2 DEF Balanced
<1>4. Kept(x)' = Kept(x) + (IF op = x THEN 1 ELSE 0)
    <2>1. /\ Times(Append(waiting_list, op), x)
                = Times(waiting_list, x) + (IF op = x THEN 1 ELSE 0)
          /\ Times(Append(final_operations, op), x)
                = Times(final_operations, x) + (IF op = x THEN 1 ELSE 0)
        BY TypedKnown, TimesOfAppend DEF TypeOK
    <2> DEFINE w == Times(waiting_list, x)
               f == Times(final_operations, x)
               d == IF op = x THEN 1 ELSE 0
    <2>2. w \in Nat /\ f \in Nat /\ d \in Nat BY PassedCounted
    <2>3. Kept(x)' = Times(final_operations', x) + Times(waiting_list', x) BY DEF Kept
    <2>4. \/ Times(waiting_list', x) = w + d /\ Times(final_operations', x) = f
          \/ Times(final_operations', x) = f + d /\ Times(waiting_list', x) = w
        BY <1>1, <2>1
    <2>5. Kept(x) = f + w BY DEF Kept
    <2> HIDE DEF w, f, d
    <2>6. Kept(x)' = Kept(x) + d BY <2>2, <2>3, <2>4, <2>5
    <2> QED BY <2>6 DEF d
<1>5. Cardinality(PassedPlaces(x)') =
         Cardinality(PassedPlaces(x)) + (IF op = x THEN 1 ELSE 0)
    <2>1. \A i \in DOMAIN operations : i < it + 1 <=> i < it \/ i = it BY <1>3
    <2>2. PassedPlaces(x)' = IF op = x THEN PassedPlaces(x) \cup {it} ELSE PassedPlaces(x)
        BY <1>2, <1>3, <2>1 DEF PassedPlaces
    <2>3. it \notin PassedPlaces(x) BY <1>3 DEF PassedPlaces
    <2>4. IsFiniteSet(PassedPlaces(x)) /\ Cardinality(PassedPlaces(x)) \in Nat
        BY PassedCounted
    <2>5. Cardinality(PassedPlaces(x) \cup {it}) = Cardinality(PassedPlaces(x)) + 1
        BY <2>3, <2>4, FS_AddElement
    <2> QED BY <2>2, <2>4, <2>5
<1>6. Bounded(x) BY DEF Balanced
<1>7. Kept(x) \in Nat /\ Cardinality(PassedPlaces(x)) \in Nat BY PassedCounted DEF Kept
<1> DEFINE more == Cardinality(aborted) * Times(operations, x)
<1>8. more \in Nat /\ Cardinality(aborted)' * Times(operations, x)' = more
    <2>1. Cardinality(aborted) \in Nat BY FS_CardinalityType DEF Balanced
    <2>2. Times(operations, x) \in Nat BY PassedCounted
    <2> QED BY <1>2, <2>1, <2>2
<1> HIDE DEF more
<1>9. /\ Cardinality(PassedPlaces(x)) <= Kept(x)
      /\ Kept(x) <= Cardinality(PassedPlaces(x)) + more
    BY <1>6 DEF Bounded, more
<1>10. /\ Cardinality(PassedPlaces(x)') <= Kept(x)'
       /\ Kept(x)' <= Cardinality(PassedPlaces(x)') + more
    BY <1>4, <1>5, <1>7, <1>8, <1>9
<1> QED BY <1>8, <1>10 DEF Bounded

\* An abort leaves what is kept of the others, to be read once more.
LEMMA AbortKeepsBalance ==
    ASSUME Ongoing, Gone, VictimFound', Balanced, ResolveDeadlock
    PROVE  Balanced'
<1>1. PICK nodes \in FindDeadlockNodes(wait_for) \ {{}} : AbortTransaction(nodes)
    BY DEF ResolveDeadlock
<1> DEFINE v == RemoveMostRecentTransaction(nodes, chronology).tid
           A == Cardinality(aborted)
<1>2. /\ operations' = Without(operations, v)
      /\ waiting_list' = Without(waiting_list, v)
      /\ final_operations' = Without(final_operations, v)
      /\ aborted' = aborted \cup {v} /\ it' = 1
    BY <1>1 DEF AbortTransaction
<1>3. TypeOK /\ Active BY DEF Ongoing
<1>4. v \in TidsOf(operations)
    <2>1. v # NoTid BY <1>2 DEF VictimFound
    <2>2. v \in nodes BY <1>3, <2>1, VictimActive DEF TypeOK
    <2>3. nodes \subseteq Nodes(wait_for) BY <1>1, DeadlockNodes
    <2> QED BY <1>3, <2>2, <2>3 DEF Active, Known, Nodes
<1>5. v \notin aborted BY <1>4 DEF Gone
<1> HIDE DEF v
<1>6. IsFiniteSet(aborted') /\ Cardinality(aborted') = A + 1 /\ A \in Nat
    BY <1>2, <1>5, FS_AddElement, FS_CardinalityType DEF Balanced
<1> HIDE DEF A
<1> SUFFICES ASSUME NEW x \in Elems(operations') PROVE Bounded(x)'
    BY <1>6 DEF Balanced
<1>7. x \in Elems(operations) /\ x.tid # v
    BY <1>2, <1>3, ElemsOfWithout DEF TypeOK
<1>8. /\ Times(operations, x)' = Times(operations, x)
      /\ Kept(x)' = Kept(x)
    <2>1. /\ Times(operations', x) = Times(operations, x)
          /\ Times(waiting_list', x) = Times(waiting_list, x)
          /\ Times(final_operations', x) = Times(final_operations, x)
        BY <1>2, <1>3, <1>7, TimesOfWithout DEF TypeOK
    <2> QED BY <2>1 DEF Kept
<1>9. Cardinality(PassedPlaces(x)') = 0
    <2>1. operations' \in Seq(Operations) BY <1>2, <1>3, ElemsOfWithout DEF TypeOK
    <2>2. Len(operations') \in Nat /\ DOMAIN operations' = 1..Len(operations')
        BY <2>1, ElemsOfSeq
    <2>3. PassedPlaces(x)' = {} BY <1>2, <2>2 DEF PassedPlaces
    <2> QED BY <2>3, FS_EmptySet
<1> DEFINE p == Cardinality(PassedPlaces(x))
           k == Kept(x)
           t == Times(operations, x)
<1>10. p \in Nat /\ k \in Nat /\ t \in Nat /\ p <= t BY <1>3, PassedCounted DEF Kept
<1>11. k <= p + A * t BY <1>7 DEF Balanced, Bounded, A
<1> HIDE DEF p, k, t
<1>12. A * t \in Nat /\ (A + 1) * t = A * t + t BY <1>6, <1>10
<1>13. 0 <= k /\ k <= 0 + (A + 1) * t BY <1>10, <1>11, <1>12
<1>14. /\ Kept(x)' = k /\ Times(operations, x)' = t /\ Cardinality(aborted)' = A + 1
       /\ Cardinality(PassedPlaces(x))' = 0
    BY <1>6, <1>8, <1>9 DEF k, t
<1> QED BY <1>13, <1>14 DEF Bounded

\* A scan moves an operation from one vector to the other.
LEMMA MovingKeepsBalance ==
    ASSUME TypeOK, Balanced, ScheduleWaiting
    PROVE  Balanced'
<1>1. /\ it_wl <= Len(waiting_list) /\ it_wl \in Nat \ {0}
      /\ waiting_list' = EraseAt(waiting_list, it_wl)
      /\ final_operations' = Append(final_operations, waiting_list[it_wl])
      /\ UNCHANGED <<operations, it, aborted>>
    BY DEF ScheduleWaiting, TypeOK
<1>2. /\ waiting_list \in Seq(Operations) /\ final_operations \in Seq(Operations)
      /\ it_wl \in 1..Len(waiting_list) /\ waiting_list[it_wl] \in Operations
    BY <1>1, ElemsOfSeq DEF TypeOK
<1>3. ASSUME NEW x PROVE Kept(x)' = Kept(x)
    <2>1. /\ Times(waiting_list', x)
                = Times(waiting_list, x) - (IF waiting_list[it_wl] = x THEN 1 ELSE 0)
          /\ Times(final_operations', x)
                = Times(final_operations, x) + (IF waiting_list[it_wl] = x THEN 1 ELSE 0)
        BY <1>1, <1>2, TimesOfAppend, TimesOfEraseAt
    <2> QED BY <2>1, PassedCounted DEF Kept
<1> QED BY <1>1, <1>3 DEF Balanced, Bounded, PassedPlaces, Times

LEMMA NextBalanced ==
    ASSUME Ongoing, Gone, VictimFound', Balanced, [Next]_vars
    PROVE  Balanced'
<1>1. TypeOK BY DEF Ongoing
<1>2. CASE Defer \/ ScheduleNext \/ PutNextInWaitingList
    BY <1>1, <1>2, TakingKeepsBalance
<1>3. CASE ResolveDeadlock BY <1>3, AbortKeepsBalance
<1>4. CASE ScheduleWaiting BY <1>1, <1>4, MovingKeepsBalance
<1>5. CASE StartScan \/ KeepWaiting \/ ContinueScan \/ EndScan \/ Return
           \/ Terminated \/ UNCHANGED vars
    <2>1. UNCHANGED <<operations, it, waiting_list, final_operations, aborted>>
        BY <1>5 DEF StartScan, KeepWaiting, ContinueScan, EndScan, Return, Terminated, vars
    <2> QED BY <2>1 DEF Balanced, Bounded, PassedPlaces, Kept, Times
<1> QED BY <1>2, <1>3, <1>4, <1>5 DEF Next, Step

LEMMA BegunBalanced == Begun => Balanced
<1> SUFFICES ASSUME Begun PROVE Balanced OBVIOUS
<1>1. aborted = {} /\ waiting_list = <<>> /\ final_operations = <<>> /\ it = 1
    BY DEF Begun, Locals
<1>2. TypeOK BY BegunTypeOK
<1>3. IsFiniteSet(aborted) /\ Cardinality(aborted) = 0 BY <1>1, FS_EmptySet
<1> SUFFICES ASSUME NEW x \in Elems(operations) PROVE Bounded(x)
    BY <1>3 DEF Balanced
<1>4. Cardinality(PassedPlaces(x)) = 0
    <2>1. Len(operations) \in Nat /\ DOMAIN operations = 1..Len(operations)
        BY <1>2, ElemsOfSeq DEF TypeOK
    <2>2. PassedPlaces(x) = {} BY <1>1, <2>1 DEF PassedPlaces
    <2> QED BY <2>2, FS_EmptySet
<1>5. Times(<<>>, x) = 0
    <2>1. {i \in DOMAIN <<>> : <<>>[i] = x} = {} OBVIOUS
    <2> QED BY <2>1, FS_EmptySet DEF Times
<1>6. Kept(x) = 0 BY <1>1, <1>5 DEF Kept
<1>7. Cardinality(aborted) * Times(operations, x) = 0
    BY <1>2, <1>3, PassedCounted
<1> QED BY <1>4, <1>6, <1>7 DEF Bounded

\* Unless an input has a transaction 0, nothing that has been read since the
\* last abort is missing, as often as it has been read, and an operation is put
\* out again at most once for each abort, whatever the order of the retries.
THEOREM RepeatsAlwaysBounded ==
    ASSUME \A s \in Inputs : 0 \notin TidsOf(s)
    PROVE  Spec => []RepeatsBounded
<1> DEFINE I == Ongoing /\ Gone /\ Balanced
<1>1. Init => I BY InitTypeOK, BegunOngoing, InitGone, BegunBalanced
<1>2. I /\ VictimFound' /\ [Next]_vars => I'
    BY NextOngoing, NextGone, NextBalanced DEF Ongoing
<1>3. Spec => []VictimFound BY VictimAlwaysFound
<1>4. I => RepeatsBounded BY BalancedMeans
<1> QED BY <1>1, <1>2, <1>3, <1>4, PTL DEF Spec
=============================================================================
