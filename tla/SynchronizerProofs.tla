-------------------------- MODULE SynchronizerProofs --------------------------
(***************************************************************************)
(* schedule() implements Synchronizer, for every set of transactions,      *)
(* resources and input schedules without a transaction 0.                  *)
(***************************************************************************)
EXTENDS Scheduler2V2PLProofs

\* The operators of Synchronizer are the scheduler's own.
LEMMA SameOperators ==
    /\ Promise!Operations = Operations
    /\ \A s : Promise!Elems(s) = Elems(s)
    /\ \A s, i : Promise!EraseAt(s, i) = EraseAt(s, i)
    /\ \A s, t : Promise!Without(s, t) = Without(s, t)
    /\ \A arcs : Promise!Cycles(arcs) = Cycles(arcs)
    /\ \A arcs, t : Promise!RemoveNode(arcs, t) = RemoveNode(arcs, t)
    /\ \A arcs, t, holders : Promise!AddArcs(arcs, t, holders) = AddArcs(arcs, t, holders)
<1>1. Promise!Operations = Operations
    BY DEF Promise!Operations, Promise!Paths, Promise!MaxDepth, Operations, Paths, MaxDepth
<1>2. \A s : Promise!Elems(s) = Elems(s) BY DEF Promise!Elems, Elems
<1>3. \A s, i : Promise!EraseAt(s, i) = EraseAt(s, i) BY DEF Promise!EraseAt, EraseAt
<1>4. \A s, t : Promise!Without(s, t) = Without(s, t)
    BY Zenon DEF Promise!Without, Promise!Select, Promise!Rank, Promise!Cardinality,
                 Without, Select, Rank, Cardinality
<1>5. \A arcs : Promise!Cycles(arcs) = Cycles(arcs)
    BY DEF Promise!Cycles, Promise!IsCycle, Promise!Nodes, Cycles, IsCycle, Nodes
<1>6. \A arcs, t : Promise!RemoveNode(arcs, t) = RemoveNode(arcs, t)
    BY DEF Promise!RemoveNode, RemoveNode
<1>7. \A arcs, t, holders : Promise!AddArcs(arcs, t, holders) = AddArcs(arcs, t, holders)
    BY DEF Promise!AddArcs, AddArcs
<1> QED BY <1>1, <1>2, <1>3, <1>4, <1>5, <1>6, <1>7

-----------------------------------------------------------------------------
(* What an attempt does to the graph: nothing when it succeeds; when it     *)
(* fails, one of the transactions X now waits for some others of X.         *)

Answer(X, arcs, o) ==
    \/ o.ok /\ o.arcs = arcs
    \/ /\ ~o.ok
       /\ \E t \in X : \E holders \in SUBSET (X \ {t}) : o.arcs = AddArcs(arcs, t, holders)

\* try_to_convert_lock on locks of one transaction.
LEMMA ConvertAnswer ==
    ASSUME NEW X, NEW locks, NEW arcs, Known(X, locks, arcs),
           NEW tid \in X, NEW convert \in SUBSET locks,
           \A l \in convert : l.req_tid = tid,
           NEW o, o = TryToConvertLocks(locks, arcs, convert)
    PROVE  Answer(X, arcs, o)
<1> DEFINE rivals(l) == ConvertRivals(locks, l)
           holders == UNION {Owners(rivals(l)) : l \in convert}
<1>1. /\ o.ok = (\A l \in convert : rivals(l) = {})
      /\ o.arcs = arcs \cup UNION {{l.req_tid} \X Owners(rivals(l)) : l \in convert}
    BY DEF TryToConvertLocks, Outcome
<1>2. ASSUME NEW l \in convert PROVE Owners(rivals(l)) \subseteq X \ {tid}
    <2>1. \A r \in rivals(l) : r \in locks /\ r.req_tid # tid
        BY DEF ConvertRivals, GetRscLocks
    <2> QED BY <2>1 DEF Owners, Known
<1>3. o.arcs = arcs \cup ({tid} \X holders)
    <2>1. UNION {{l.req_tid} \X Owners(rivals(l)) : l \in convert} = {tid} \X holders
        <3> HIDE DEF rivals
        <3> QED OBVIOUS
    <2> QED BY <1>1, <2>1
<1>4. holders \in SUBSET (X \ {tid})
    <2> HIDE DEF rivals
    <2> QED BY <1>2
<1>5. o.ok \in BOOLEAN BY <1>1
<1>6. CASE o.ok
    <2>1. \A l \in convert : Owners(rivals(l)) = {} BY <1>1, <1>6 DEF Owners
    <2>2. holders = {}
        <3> HIDE DEF rivals
        <3> QED BY <2>1
    <2> HIDE DEF holders
    <2> QED BY <1>3, <1>6, <2>2 DEF Answer
<1>7. CASE ~o.ok
    <2> HIDE DEF holders
    <2> QED BY <1>3, <1>4, <1>7 DEF Answer, AddArcs
<1> QED BY <1>5, <1>6, <1>7

LEMMA TryToLockAnswer ==
    ASSUME NEW X, NEW locks, NEW arcs, Known(X, locks, arcs),
           NEW new, new.req_tid \in X,
           NEW o \in TryToReadLock(locks, arcs, new) \cup TryToWriteLock(locks, arcs, new)
    PROVE  Answer(X, arcs, o)
<1> DEFINE Others == {l \in locks : l.req_tid # new.req_tid}
<1>1. ASSUME NEW rivals \in SUBSET Others, o \in TryToLock(locks, arcs, new, rivals)
      PROVE  Answer(X, arcs, o)
    <2>1. CASE rivals = {}
        <3>1. o.ok /\ o.arcs = arcs BY <1>1, <2>1 DEF TryToLock, Grant, Outcome
        <3> QED BY <3>1 DEF Answer
    <2>2. CASE rivals # {}
        <3>1. ~o.ok /\ o.arcs = AddArcs(arcs, new.req_tid, Owners(rivals))
            BY <1>1, <2>2 DEF TryToLock, Wait, Outcome
        <3>2. Owners(rivals) \in SUBSET (X \ {new.req_tid}) BY DEF Owners, Known
        <3> QED BY <3>1, <3>2 DEF Answer
    <2> QED BY <2>1, <2>2
<1>2. CASE o \in TryToReadLock(locks, arcs, new)
    <2>1. \/ o = Outcome(TRUE, locks, arcs)
          \/ \E rivals \in SUBSET Others : o \in TryToLock(locks, arcs, new, rivals)
        BY <1>2 DEF TryToReadLock, GetRscLocks
    <2>2. CASE o = Outcome(TRUE, locks, arcs) BY <2>2 DEF Outcome, Answer
    <2> QED BY <1>1, <2>1, <2>2
<1>3. CASE o \in TryToWriteLock(locks, arcs, new)
    <2>1. \/ \E l \in locks : o = TryToConvertLocks(locks, arcs, {l})
          \/ \E rivals \in SUBSET Others : o \in TryToLock(locks, arcs, new, rivals)
        BY <1>3 DEF TryToWriteLock, GetRscLocks
    <2>2. ASSUME NEW l \in locks, o = TryToConvertLocks(locks, arcs, {l})
          PROVE  Answer(X, arcs, o)
        <3>1. {l} \in SUBSET locks /\ \A k \in {l} : k.req_tid = l.req_tid OBVIOUS
        <3>2. l.req_tid \in X BY DEF Known
        <3> QED BY <2>2, <3>1, <3>2, ConvertAnswer
    <2> QED BY <1>1, <2>1, <2>2
<1> QED BY <1>2, <1>3

LEMMA CanBeScheduledAnswer ==
    ASSUME NEW X, X \subseteq Tids, NEW locks, NEW arcs, Known(X, locks, arcs),
           NEW op \in Operations, op.tid \in X,
           NEW o \in CanBeScheduled(op, locks, arcs)
    PROVE  Answer(X, arcs, o)
<1>1. op.type \in {"Read", "Write", "Commit", "UpdateLock"} BY DEF Operations
<1> DEFINE L == Inherit(locks, op)
           new(type) == NewLock(L, op, op.tid, "Granted", type)
<1>2. CASE op.type = "Commit"
    <2> DEFINE retried == {l \in GetTransactionLocks(locks, op.tid) :
                      l.req_lock_type = "Certify" /\ l.req_status = "Converting"}
               reset(l) == [l EXCEPT !.req_lock_type = "Write", !.req_status = "Granted"]
               M == (locks \ retried) \cup {reset(l) : l \in retried}
               W == {l \in GetTransactionLocks(M, op.tid) :
                       l.req_lock_type = "Write" /\ l.req_status = "Granted"}
    <2>1. o = TryToConvertLocks(M, arcs, W)
        BY <1>2 DEF CanBeScheduled, TryToCommit
    <2>2. Known(X, M, arcs)
        <3>1. retried \subseteq locks BY DEF GetTransactionLocks
        <3>2. "Granted" \in ReqStatus /\ "Write" \in LockType BY DEF ReqStatus, LockType
        <3>3. ASSUME NEW l \in retried PROVE IsLockInfoTuple(reset(l)) /\ reset(l).req_tid \in X
            <4>1. IsLockInfoTuple(l) /\ l.req_tid \in X BY <3>1 DEF Known
            <4> QED BY <3>2, <4>1, ChangedLock
        <3> HIDE DEF retried, reset
        <3> QED BY <3>1, <3>3 DEF Known
    <2>3. W \in SUBSET M /\ \A l \in W : l.req_tid = op.tid BY DEF GetTransactionLocks
    <2> HIDE DEF M, W
    <2> QED BY <2>1, <2>2, <2>3, ConvertAnswer
<1>3. CASE op.type # "Commit"
    <2>1. Known(X, L, arcs) BY <1>3, InheritKnown
    <2>2. \A type : new(type).req_tid = op.tid BY DEF NewLock
    <2>3. \/ o \in TryToReadLock(L, arcs, new("Read"))
          \/ o \in TryToWriteLock(L, arcs, new("Write"))
          \/ o = Outcome(FALSE, L, arcs)
        BY <1>1, <1>3 DEF CanBeScheduled
    <2> HIDE DEF L, new
    <2>4. CASE o = Outcome(FALSE, L, arcs)
        <3>1. ~o.ok /\ o.arcs = AddArcs(arcs, op.tid, {}) BY <2>4 DEF Outcome, AddArcs
        <3>2. {} \in SUBSET (X \ {op.tid}) OBVIOUS
        <3> QED BY <3>1, <3>2 DEF Answer
    <2>5. CASE o \in TryToReadLock(L, arcs, new("Read")) \cup TryToWriteLock(L, arcs, new("Write"))
        BY <2>1, <2>2, <2>5, TryToLockAnswer
    <2> QED BY <2>3, <2>4, <2>5
<1> QED BY <1>2, <1>3

-----------------------------------------------------------------------------
(* The steps.                                                               *)

Image == <<operations, final_operations, Elems(waiting_list), chronology,
           wait_for, pc = "done">>

\* A main-loop step looks at the operation, whatever becomes of it.
LEMMA TakeNextMeets ==
    ASSUME TypeOK, NEW op \in Elems(operations), TakeNext(op), pc' # "done"
    PROVE  Promise!Meet(op)
BY SameOperators DEF TakeNext, Promise!Meet

\* Each step of the scheduler is a step of Synchronizer or none.
LEMMA StepPromised ==
    ASSUME 0 \notin Named, TypeOK, Seen, WaitingRead, NothingLost, [Next]_vars
    PROVE  [Promise!Next]_Image
<1> DEFINE E == Elems(chronology)
<1>1. /\ operations \in Seq(Operations) /\ waiting_list \in Seq(Operations)
      /\ chronology \in Seq(Tids) /\ it \in Nat
      /\ Known(E, tuples, wait_for) /\ TidsOf(waiting_list) \subseteq E
      /\ Elems(waiting_list) \subseteq Elems(operations)
    BY DEF TypeOK, Seen, WaitingRead
<1>2. \A op \in Elems(operations) :
         Promise!PutOut(op) \/ Promise!PutOff(op) => Promise!Next
    BY SameOperators DEF Promise!Next
<1>3. ASSUME NEW op \in Elems(operations), TakeNext(op)
      PROVE  /\ op \in Operations
             /\ Elems(Append(waiting_list, op)) = Elems(waiting_list) \cup {op}
             /\ Elems(chronology') = E \cup {op.tid}
             /\ Elems(chronology') \subseteq Tids
             /\ Known(Elems(chronology'), tuples, wait_for)
    <2>1. op \in Operations /\ chronology' \in Seq(Tids) /\ Elems(chronology') = E \cup {op.tid}
        BY <1>3, TakeNextTypeOK
    <2>2. Elems(Append(waiting_list, op)) = Elems(waiting_list) \cup {op}
        BY <1>1, <2>1, ElemsOfAppend
    <2>3. Elems(chronology') \subseteq Tids BY <2>1, ElemsOfSeq
    <2>4. Known(Elems(chronology'), tuples, wait_for)
        <3> HIDE DEF E
        <3> QED BY <1>1, <2>1, KnownMonotone
    <2> QED BY <2>1, <2>2, <2>3, <2>4
<1>4. CASE UNCHANGED vars BY <1>4 DEF vars, Image
<1>5. CASE Defer
    <2>1. PICK op \in Elems(operations) :
            /\ TakeNext(op)
            /\ waiting_list' = Append(waiting_list, op)
            /\ UNCHANGED <<final_operations, wait_for, pc>>
        BY <1>5 DEF Defer
    <2>2. Promise!Meet(op) BY <2>1, TakeNextMeets DEF TakeNext
    <2>3. /\ op.tid \in Elems(chronology')
          /\ {} \in SUBSET (Elems(chronology') \ {op.tid})
          /\ wait_for' = AddArcs(wait_for, op.tid, {})
        BY <1>3, <2>1 DEF AddArcs
    <2>4. Elems(waiting_list') = Elems(waiting_list) \cup {op} BY <1>3, <2>1
    <2>5. Promise!PutOff(op)
        BY <2>1, <2>2, <2>3, <2>4, SameOperators DEF Promise!PutOff
    <2> QED BY <1>2, <2>5
<1>6. CASE ScheduleNext
    <2>1. PICK op \in Elems(operations) :
            /\ TakeNext(op)
            /\ \E o \in CanBeScheduled(op, tuples, wait_for) : o.ok /\ AfterScheduling(op, o)
            /\ final_operations' = Append(final_operations, op)
            /\ pc' = "check"
            /\ waiting_list' = waiting_list
        BY <1>6 DEF ScheduleNext
    <2>2. PICK o \in CanBeScheduled(op, tuples, wait_for) : o.ok /\ AfterScheduling(op, o)
        BY <2>1
    <2>3. Promise!Meet(op) BY <2>1, TakeNextMeets
    <2>4. Answer(Elems(chronology'), wait_for, o)
        BY <1>3, <2>1, CanBeScheduledAnswer
    <2>5. wait_for' = IF op.type = "Commit" THEN RemoveNode(wait_for, op.tid) ELSE wait_for
        BY <2>2, <2>4 DEF Answer, AfterScheduling
    <2>6. Promise!PutOut(op) BY <2>1, <2>3, <2>5, SameOperators DEF Promise!PutOut
    <2> QED BY <1>2, <2>6
<1>7. CASE PutNextInWaitingList
    <2>1. PICK op \in Elems(operations) :
            /\ TakeNext(op)
            /\ \E o \in CanBeScheduled(op, tuples, wait_for) : ~o.ok /\ wait_for' = o.arcs
            /\ waiting_list' = Append(waiting_list, op)
            /\ pc' = "check"
            /\ final_operations' = final_operations
        BY <1>7 DEF PutNextInWaitingList
    <2>2. PICK o \in CanBeScheduled(op, tuples, wait_for) : ~o.ok /\ wait_for' = o.arcs
        BY <2>1
    <2>3. Promise!Meet(op) BY <2>1, TakeNextMeets
    <2>4. Answer(Elems(chronology'), wait_for, o)
        BY <1>3, <2>1, CanBeScheduledAnswer
    <2>5. Elems(waiting_list') = Elems(waiting_list) \cup {op} BY <1>3, <2>1
    <2>6. Promise!PutOff(op)
        BY <2>1, <2>2, <2>3, <2>4, <2>5, SameOperators DEF Promise!PutOff, Answer
    <2> QED BY <1>2, <2>6
<1>8. CASE ResolveDeadlock
    <2>1. PICK nodes \in FindDeadlockNodes(wait_for) \ {{}} : AbortTransaction(nodes)
        BY <1>8 DEF ResolveDeadlock
    <2> DEFINE i == MostRecent(chronology, nodes)
               v == RemoveMostRecentTransaction(nodes, chronology)
    <2>2. nodes \in Cycles(wait_for) BY <2>1 DEF FindDeadlockNodes
    <2>3. E \cap nodes # {}
        <3>1. Nodes(wait_for) \subseteq E BY <1>1 DEF Known, Nodes
        <3> QED BY <2>1, <3>1, DeadlockNodes
    <2>4. /\ i \in 1..Len(chronology) /\ i # 0
          /\ chronology[i] \in nodes
          /\ \A j \in 1..i - 1 : chronology[j] \notin nodes
        BY <1>1, <2>3, MostRecentFound
    <2>5. DOMAIN chronology = 1..Len(chronology) /\ chronology[i] # 0
        BY <1>1, <2>4, ElemsOfSeq DEF Named
    <2>6. v.tid = chronology[i] /\ v.chronology = EraseAt(chronology, i)
        BY <2>4, <2>5 DEF RemoveMostRecentTransaction
    <2> HIDE DEF i
    <2>7. /\ chronology' = EraseAt(chronology, i)
          /\ operations' = Without(operations, chronology[i])
          /\ final_operations' = Without(final_operations, chronology[i])
          /\ waiting_list' = Without(waiting_list, chronology[i])
          /\ wait_for' = RemoveNode(wait_for, chronology[i])
          /\ pc # "done" /\ pc' # "done"
        BY <1>8, <2>1, <2>6 DEF ResolveDeadlock, AbortTransaction
    <2>8. Elems(waiting_list') = {op \in Elems(waiting_list) : op.tid # chronology[i]}
        BY <1>1, <2>7, ElemsOfWithout
    <2>9. Promise!Cancel(i)
        BY <2>2, <2>4, <2>7, <2>8, SameOperators DEF Promise!Cancel
    <2> QED BY <2>4, <2>5, <2>7, <2>9 DEF Promise!Next
<1>9. CASE ScheduleWaiting \/ KeepWaiting
    <2> DEFINE op == waiting_list[it_wl]
    <2>1. /\ it_wl \in 1..Len(waiting_list)
          /\ pc = "scan" /\ pc' # "done"
          /\ UNCHANGED <<operations, chronology>>
          /\ \E o \in CanBeScheduled(op, tuples, wait_for) :
                \/ /\ o.ok /\ AfterScheduling(op, o)
                   /\ final_operations' = Append(final_operations, op)
                   /\ waiting_list' = EraseAt(waiting_list, it_wl)
                \/ /\ ~o.ok /\ wait_for' = o.arcs
                   /\ UNCHANGED <<final_operations, waiting_list>>
        BY <1>9, TypedKnown DEF ScheduleWaiting, KeepWaiting
    <2>2. op \in Operations /\ op \in Elems(waiting_list) BY <1>1, <2>1, ElemsOfSeq
    <2>3. op.tid \in E BY <1>1, <2>1, ElemsOfSeq DEF TidsOf
    <2>4. op \in Elems(operations) BY <1>1, <2>2
    <2>5. /\ Elems(EraseAt(waiting_list, it_wl)) \subseteq Elems(waiting_list)
          /\ Elems(waiting_list) \ {op} \subseteq Elems(EraseAt(waiting_list, it_wl))
        <3>1. /\ Elems(EraseAt(waiting_list, it_wl)) \subseteq Elems(waiting_list)
              /\ \A j \in 1..Len(waiting_list) :
                    j # it_wl => waiting_list[j] \in Elems(EraseAt(waiting_list, it_wl))
            BY <1>1, <2>1, ElemsOfEraseAt
        <3> QED BY <1>1, <3>1, ElemsOfSeq
    <2> HIDE DEF op
    <2>6. Promise!Meet(op) BY <2>1, <2>3, <2>4, SameOperators DEF Promise!Meet
    <2>7. E \subseteq Tids BY <1>1, ElemsOfSeq
    <2>8. PICK o \in CanBeScheduled(op, tuples, wait_for) :
            \/ /\ o.ok /\ AfterScheduling(op, o)
               /\ final_operations' = Append(final_operations, op)
               /\ waiting_list' = EraseAt(waiting_list, it_wl)
            \/ /\ ~o.ok /\ wait_for' = o.arcs
               /\ UNCHANGED <<final_operations, waiting_list>>
        BY <2>1
    <2>9. Answer(E, wait_for, o)
        <3> HIDE DEF E
        <3> QED BY <1>1, <2>2, <2>3, <2>7, CanBeScheduledAnswer
    <2>10. CASE o.ok
        <3>1. wait_for' = IF op.type = "Commit" THEN RemoveNode(wait_for, op.tid) ELSE wait_for
            BY <2>8, <2>9, <2>10 DEF Answer, AfterScheduling
        <3>2. Elems(waiting_list') \in {Elems(waiting_list), Elems(waiting_list) \ {op}}
            BY <2>2, <2>5, <2>8, <2>10
        <3>3. Promise!PutOut(op)
            BY <2>6, <2>8, <2>10, <3>1, <3>2, SameOperators DEF Promise!PutOut
        <3> QED BY <1>2, <2>4, <3>3
    <2>11. CASE ~o.ok
        <3>1. Elems(waiting_list') = Elems(waiting_list) \cup {op}
            BY <2>2, <2>8, <2>11
        <3>2. \E t \in E : \E holders \in SUBSET (E \ {t}) :
                 wait_for' = AddArcs(wait_for, t, holders)
            BY <2>8, <2>9, <2>11 DEF Answer
        <3>3. Promise!PutOff(op)
            BY <2>1, <2>6, <2>8, <2>11, <3>1, <3>2, SameOperators DEF Promise!PutOff
        <3> QED BY <1>2, <2>4, <3>3
    <2>12. o.ok \/ ~o.ok OBVIOUS
    <2> QED BY <2>10, <2>11, <2>12
<1>10. CASE StartScan \/ ContinueScan \/ EndScan
    <2>1. /\ UNCHANGED <<operations, final_operations, waiting_list, chronology, wait_for>>
          /\ pc # "done" /\ pc' # "done"
        BY <1>10 DEF StartScan, ContinueScan, EndScan
    <2> QED BY <2>1 DEF Image
<1>11. CASE Return
    <2>1. Elems(operations) \subseteq Elems(final_operations) \cup Elems(waiting_list)
        <3>1. \A i \in 1..Len(operations) : i < it
            BY <1>1, <1>11, ElemsOfSeq DEF Return
        <3> QED BY <1>1, <3>1, ElemsOfSeq DEF NothingLost
    <2>2. Promise!HandOver
        BY <1>11, <2>1, SameOperators DEF Return, Promise!HandOver
    <2> QED BY <2>2 DEF Promise!Next
<1>12. CASE Terminated BY <1>12 DEF Terminated, vars, Image
<1> QED
    BY <1>4, <1>5, <1>6, <1>7, <1>8, <1>9, <1>10, <1>11, <1>12 DEF Next, Step

\* The scheduler implements Synchronizer: whatever the locks and the loops do,
\* each step puts an operation out or off, or cancels the youngest transaction
\* of a circle of waiting transactions with everything it had, and the output
\* is returned only when every operation left is out or put off.
THEOREM SchedulePromised ==
    ASSUME \A s \in Inputs : 0 \notin TidsOf(s)
    PROVE  Spec => Synchronizes
<1> DEFINE I == TypeOK /\ Seen /\ 0 \notin Named /\ WaitingRead /\ NothingLost
<1>1. Init => I
    <2> SUFFICES ASSUME Init PROVE I OBVIOUS
    <2>1. TypeOK /\ Seen BY InitTypeOK, InitSeen
    <2>2. NothingLost
        <3>1. \A i \in DOMAIN operations : ~(i < it)
            BY <2>1, ElemsOfSeq DEF Init, Locals, TypeOK
        <3> QED BY <3>1 DEF NothingLost
    <2>3. WaitingRead BY DEF Init, Locals, WaitingRead, Elems
    <2>4. 0 \notin Named BY InitNamed DEF Init
    <2> QED BY <2>1, <2>2, <2>3, <2>4
<1>2. I /\ [Next]_vars => I'
    BY NextTypeOK, NextSeen, NextNamed, NextWaitingRead, NextNothingLost
<1>3. Init => Promise!Init
    BY SameOperators, InputsAssumption DEF Init, Locals, Promise!Init, Elems
<1>4. I /\ [Next]_vars => [Promise!Next]_Image BY StepPromised
<1> HIDE DEF I
<1> QED BY <1>1, <1>2, <1>3, <1>4, PTL DEF Spec, Synchronizes, Promise!Spec, Image
=============================================================================
