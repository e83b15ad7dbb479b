---------------------------- MODULE Scheduler2V2PL ----------------------------
(***************************************************************************)
(* The two-version two-phase-locking scheduler (2v2pl.cpp).  It reads a    *)
(* schedule operation by operation, decides for each whether its lock can  *)
(* be had, keeps the others in a waiting list that it scans after every    *)
(* attempt, and aborts a transaction whenever the wait-for graph has a     *)
(* cycle.  The program is sequential: pc says where in schedule() it is.   *)
(***************************************************************************)
EXTENDS LockInfo, Schedule, WaitFor, Measures

CONSTANT Inputs   \* the schedules given to the program

ASSUME InputsAssumption == Inputs \subseteq Seq(Operations)

VARIABLES
    incoming_schedule,    \* the Schedule object passed in, by value
    operations,           \* the schedule, purged of aborted transactions
    it,                   \* the next operation: it > Len(operations) is end()
    waiting_list,         \* operations that could not be scheduled
    it_wl,                \* position of the scan of waiting_list
    final_operations,     \* the output
    chronology,           \* transactions, most recently seen first
    waiting_transactions, \* transactions marked as waiting
    tuples,               \* the lock table, syslockinfo
    wait_for,             \* the arcs of wait_for_graph
    pc,                   \* "main", "check", "scan", "scancheck" or "done"
    aborted               \* history: every abort_transaction argument

vars == <<incoming_schedule, operations, it, waiting_list, it_wl,
          final_operations, chronology, waiting_transactions, tuples, wait_for,
          pc, aborted>>

-----------------------------------------------------------------------------
(* Locking.  A call that may take or refuse a lock yields a set of possible *)
(* outcomes: the answer, the lock table and the arcs it leaves behind.      *)

Outcome(ok, locks, arcs) == [ok |-> ok, tuples |-> locks, arcs |-> arcs]

\* Mutant: the type to convert a write lock to is never set.
StrongerUnset(type) == IF type = "Read" THEN "Write" ELSE "Unset"
Stronger(type) == IF type = "Read" THEN "Write" ELSE "Certify"
IStronger(type) == IF type = "Read" THEN "IWrite" ELSE "ICertify"

\* The granted locks of others that stop lock l from becoming stronger.
ConvertRivals(locks, l) ==
    {r \in GetRscLocks(locks, l.rsc_id,
                       IF l.req_lock_type = "Read"
                       THEN {"Write", "IWrite", "Certify", "ICertify"}
                       ELSE {"Read", "IRead"}) :
        r.req_tid # l.req_tid /\ r.req_status = "Granted"}

\* A refused conversion keeps the lock's type and marks it Converting.
Converted(locks, l) ==
    IF ConvertRivals(locks, l) = {}
    THEN [l EXCEPT !.req_lock_type = Stronger(@), !.req_status = "Granted"]
    ELSE [l EXCEPT !.req_status = "Converting"]

\* try_to_convert_lock on each of some locks of one transaction, all Read or
\* Write.  Their rivals are locks of others, so the order does not matter.
TryToConvertLocks(locks, arcs, convert) ==
    Outcome(\A l \in convert : ConvertRivals(locks, l) = {},
            (locks \ convert) \cup {Converted(locks, l) : l \in convert},
            arcs \cup UNION {{l.req_tid} \X Owners(ConvertRivals(locks, l)) :
                                l \in convert})

\* No incompatible lock is in the way of new: a granted lock already there is
\* enough, a waiting one is granted, else new is added.  Two things depend on
\* the enumeration: which of the own granted and waiting locks is seen, and
\* that an own stronger lock being converted takes the waiting one's place.
Grant(locks, arcs, new) ==
    LET own == {l \in GetTransactionLocks(locks, new.req_tid) :
                    l.rsc_id = new.rsc_id}
        held == {l \in own : /\ l.req_lock_type = new.req_lock_type
                             /\ l.req_status \in {"Granted", "Waiting"}}
        converting(type) == {l \in own : /\ l.req_lock_type = type
                                         /\ l.req_status = "Converting"}
        upgrade == converting(Stronger(new.req_lock_type))
        iupgrade == converting(IStronger(new.req_lock_type))
        promoted(h) == IF upgrade = {} THEN {h} ELSE upgrade
        after(h) ==
            IF h.req_status = "Granted" THEN {locks}
            ELSE {Replace(locks, l, [l EXCEPT !.req_status = "Granted"]) :
                     l \in promoted(h)}
        tables == IF held # {} THEN UNION {after(h) : h \in held}
                  ELSE IF upgrade \cup iupgrade # {} THEN {locks}
                  ELSE {locks \cup {new}}
    IN {Outcome(TRUE, L, arcs) : L \in tables}

\* Mutant: a retry adds one more waiting lock.
WaitAgain(locks, arcs, new, rivals) ==
    Outcome(FALSE,
            locks \cup {[new EXCEPT !.req_status = "Waiting"]},
            AddArcs(arcs, new.req_tid, Owners(rivals)))

\* Locks of others are in the way: remember whom new waits for, and keep one
\* waiting lock.
Wait(locks, arcs, new, rivals) ==
    LET waiting == {l \in GetTransactionLocks(locks, new.req_tid) :
                        /\ l.rsc_id = new.rsc_id
                        /\ l.req_lock_type = new.req_lock_type
                        /\ l.req_status = "Waiting"}
    IN Outcome(FALSE,
               IF waiting = {}
               THEN locks \cup {[new EXCEPT !.req_status = "Waiting"]}
               ELSE locks,
               AddArcs(arcs, new.req_tid, Owners(rivals)))

TryToLock(locks, arcs, new, rivals) ==
    IF rivals = {} THEN Grant(locks, arcs, new)
    ELSE {Wait(locks, arcs, new, rivals)}

\* Mutant: a read does not look at who certifies the resource.
TryToReadAlways(locks, arcs, new) == TryToLock(locks, arcs, new, {})
\* try_to_lock for a read.
TryToReadLock(locks, arcs, new) ==
    LET strong == {l \in GetRscLocks(locks, new.rsc_id, {"Certify", "Write"}) :
                      l.req_tid = new.req_tid /\ l.req_status = "Granted"}
        rivals == {l \in GetRscLocks(locks, new.rsc_id, {"Certify", "ICertify"}) :
                      l.req_tid # new.req_tid /\ l.req_status = "Granted"}
    IN IF strong # {} THEN {Outcome(TRUE, locks, arcs)}
       ELSE TryToLock(locks, arcs, new, rivals)

\* try_to_lock for a write.  When ANOTHER transaction holds a granted read
\* lock, that lock is converted and the answer is whether it could be; the
\* writer gets no lock.
TryToWriteLock(locks, arcs, new) ==
    LET others == {l \in GetRscLocks(locks, new.rsc_id, LockType) :
                      l.req_tid # new.req_tid}
        readers == {l \in others : /\ l.req_lock_type = "Read"
                                   /\ l.req_status = "Granted"}
        rivals == {l \in others :
                      \/ /\ l.req_lock_type \in {"Write", "IWrite"}
                         /\ l.req_status = "Granted"
                      \/ /\ l.req_lock_type \in {"Certify", "ICertify"}
                         /\ l.req_status \in {"Granted", "Converting"}}
    IN IF readers # {}
       THEN {TryToConvertLocks(locks, arcs, {l}) : l \in readers}
       ELSE TryToLock(locks, arcs, new, rivals)

\* Every granted lock on an ascendant of the resource, whoever holds it, gives
\* its transaction a granted lock of the same type on the resource itself,
\* unless it has a lock of that type there already.  No rival is looked for.
Inherit(locks, op) ==
    LET above == {l \in locks :
                    /\ l.rsc_id \in Ascendants(op)
                    /\ l.req_status = "Granted"
                    /\ l.req_lock_type \in {"Read", "Write", "Update", "Certify"}}
        inherited == {l \in GetRscLocks(locks, GetResource(op), LockType) :
                        \E a \in above : /\ a.req_tid = l.req_tid
                                         /\ a.req_lock_type = l.req_lock_type}
        pairs(ls) == {<<l.req_tid, l.req_lock_type>> : l \in ls}
    IN locks \cup {NewLock(locks, op, p[1], "Granted", p[2]) :
                      p \in pairs(above) \ pairs(inherited)}

\* A commit converts every granted write lock of its transaction to a certify
\* lock.  A write lock whose conversion already failed is Converting and is
\* passed over; a converting certify lock would be tried again from Write.
TryToCommit(locks, arcs, tid) ==
    LET retried == {l \in GetTransactionLocks(locks, tid) :
                      l.req_lock_type = "Certify" /\ l.req_status = "Converting"}
        reset(l) == [l EXCEPT !.req_lock_type = "Write", !.req_status = "Granted"]
        L == (locks \ retried) \cup {reset(l) : l \in retried}
    IN TryToConvertLocks(L, arcs,
           {l \in GetTransactionLocks(L, tid) :
               l.req_lock_type = "Write" /\ l.req_status = "Granted"})

\* The possible outcomes of can_be_scheduled; an unlock is never granted.
CanBeScheduled(op, locks, arcs) ==
    CASE op.type = "Commit" -> {TryToCommit(locks, arcs, op.tid)}
      [] op.type = "Read" ->
            LET L == Inherit(locks, op)
            IN TryToReadLock(L, arcs, NewLock(L, op, op.tid, "Granted", "Read"))
      [] op.type = "Write" ->
            LET L == Inherit(locks, op)
            IN TryToWriteLock(L, arcs, NewLock(L, op, op.tid, "Granted", "Write"))
      [] op.type = "UpdateLock" -> {Outcome(FALSE, Inherit(locks, op), arcs)}

-----------------------------------------------------------------------------
(* The scheduler's loops.                                                   *)

\* The locals before the first operation.
Locals ==
    /\ it = 1
    /\ waiting_list = <<>>
    /\ it_wl = 1
    /\ final_operations = <<>>
    /\ chronology = <<>>
    /\ waiting_transactions = {}
    /\ tuples = {}
    /\ wait_for = {}
    /\ pc = "main"
    /\ aborted = {}

Init ==
    /\ operations \in Inputs
    /\ incoming_schedule = ScheduleOf(operations)
    /\ Locals

\* A scheduled commit takes its transaction out of the graph and the table.
AfterScheduling(op, outcome) ==
    IF op.type = "Commit"
    THEN /\ wait_for' = RemoveNode(outcome.arcs, op.tid)
         /\ tuples' = RmTransactionLocks(outcome.tuples, op.tid)
    ELSE /\ wait_for' = outcome.arcs
         /\ tuples' = outcome.tuples

\* The main loop takes the next operation and notes its transaction.
TakeNext(op) ==
    /\ pc = "main"
    /\ it <= Len(operations)
    /\ op = operations[it]
    /\ it' = it + 1
    /\ chronology' = IF op.tid \in Elems(chronology) THEN chronology
                     ELSE <<op.tid>> \o chronology
    /\ UNCHANGED <<incoming_schedule, operations, it_wl, aborted>>

\* An operation of a transaction marked as waiting is put off untried, and
\* the waiting list is not scanned.
Defer ==
    \E op \in Elems(operations) :
        /\ TakeNext(op)
        /\ op.tid \in waiting_transactions
        /\ waiting_list' = Append(waiting_list, op)
        /\ UNCHANGED <<final_operations, waiting_transactions, tuples,
                       wait_for, pc>>

\* The next operation is tried and goes to the output...
ScheduleNext ==
    \E op \in Elems(operations) :
        /\ TakeNext(op)
        /\ op.tid \notin waiting_transactions
        /\ \E outcome \in CanBeScheduled(op, tuples, wait_for) :
              outcome.ok /\ AfterScheduling(op, outcome)
        /\ final_operations' = Append(final_operations, op)
        /\ pc' = "check"
        /\ UNCHANGED <<waiting_list, waiting_transactions>>

\* ... or to the waiting list, marking its transaction as waiting.
PutNextInWaitingList ==
    \E op \in Elems(operations) :
        /\ TakeNext(op)
        /\ op.tid \notin waiting_transactions
        /\ \E outcome \in CanBeScheduled(op, tuples, wait_for) :
              /\ ~outcome.ok
              /\ tuples' = outcome.tuples
              /\ wait_for' = outcome.arcs
        /\ waiting_list' = Append(waiting_list, op)
        /\ waiting_transactions' = waiting_transactions \cup {op.tid}
        /\ pc' = "check"
        /\ UNCHANGED final_operations

\* The victim leaves the graph, the lock table and the three vectors, but not
\* waiting_transactions; both iterations start over, and what the others had
\* in the output stays there.
AbortTransaction(nodes) ==
    LET victim == RemoveMostRecentTransaction(nodes, chronology) IN
    /\ chronology' = victim.chronology
    /\ wait_for' = RemoveNode(wait_for, victim.tid)
    /\ tuples' = RmTransactionLocks(tuples, victim.tid)
    /\ final_operations' = Without(final_operations, victim.tid)
    /\ waiting_list' = Without(waiting_list, victim.tid)
    /\ operations' = Without(operations, victim.tid)
    /\ incoming_schedule' = Purge(incoming_schedule, victim.tid)
    /\ it' = 1
    /\ it_wl' = 1
    /\ pc' = "scan"
    /\ aborted' = aborted \cup {victim.tid}
    /\ UNCHANGED waiting_transactions

\* A deadlock after an attempt of the main loop or of the scan.
ResolveDeadlock ==
    /\ pc \in {"check", "scancheck"}
    /\ \E nodes \in FindDeadlockNodes(wait_for) \ {{}} : AbortTransaction(nodes)

\* No deadlock after the main loop's attempt: the waiting list is scanned.
StartScan ==
    /\ pc = "check"
    /\ {} \in FindDeadlockNodes(wait_for)
    /\ it_wl' = 1
    /\ pc' = "scan"
    /\ UNCHANGED <<incoming_schedule, operations, it, waiting_list,
                   final_operations, chronology, waiting_transactions, tuples,
                   wait_for, aborted>>

\* Mutant: the iterator that erase returns is advanced once more.
ScheduleWaitingSkips ==
    /\ pc = "scan"
    /\ it_wl <= Len(waiting_list)
    /\ \E outcome \in CanBeScheduled(waiting_list[it_wl], tuples, wait_for) :
          outcome.ok /\ AfterScheduling(waiting_list[it_wl], outcome)
    /\ final_operations' = Append(final_operations, waiting_list[it_wl])
    /\ waiting_list' = EraseAt(waiting_list, it_wl)
    /\ it_wl' = it_wl + 1
    /\ UNCHANGED <<incoming_schedule, operations, it, chronology,
                   waiting_transactions, pc, aborted>>

\* Mutant: a scheduled operation is not erased from the waiting list.
ScheduleWaitingCopies ==
    /\ pc = "scan"
    /\ it_wl <= Len(waiting_list)
    /\ \E outcome \in CanBeScheduled(waiting_list[it_wl], tuples, wait_for) :
          outcome.ok /\ AfterScheduling(waiting_list[it_wl], outcome)
    /\ final_operations' = Append(final_operations, waiting_list[it_wl])
    /\ it_wl' = it_wl + 1
    /\ UNCHANGED <<incoming_schedule, operations, it, waiting_list, chronology,
                   waiting_transactions, pc, aborted>>

\* A waiting operation is tried again and leaves the list for the output...
ScheduleWaiting ==
    /\ pc = "scan"
    /\ it_wl <= Len(waiting_list)
    /\ \E outcome \in CanBeScheduled(waiting_list[it_wl], tuples, wait_for) :
          outcome.ok /\ AfterScheduling(waiting_list[it_wl], outcome)
    /\ final_operations' = Append(final_operations, waiting_list[it_wl])
    /\ waiting_list' = EraseAt(waiting_list, it_wl)
    /\ UNCHANGED <<incoming_schedule, operations, it, it_wl, chronology,
                   waiting_transactions, pc, aborted>>

\* ... or stays, and the graph is searched again.
KeepWaiting ==
    /\ pc = "scan"
    /\ it_wl <= Len(waiting_list)
    /\ \E outcome \in CanBeScheduled(waiting_list[it_wl], tuples, wait_for) :
          /\ ~outcome.ok
          /\ tuples' = outcome.tuples
          /\ wait_for' = outcome.arcs
    /\ pc' = "scancheck"
    /\ UNCHANGED <<incoming_schedule, operations, it, waiting_list, it_wl,
                   final_operations, chronology, waiting_transactions,
                   aborted>>

\* Mutant: the iterator is not advanced past an operation that stays.
ContinueScanHere ==
    /\ pc = "scancheck"
    /\ {} \in FindDeadlockNodes(wait_for)
    /\ pc' = "scan"
    /\ UNCHANGED <<incoming_schedule, operations, it, waiting_list, it_wl,
                   final_operations, chronology, waiting_transactions, tuples,
                   wait_for, aborted>>

\* No deadlock after the scan's attempt: on to the next waiting operation.
ContinueScan ==
    /\ pc = "scancheck"
    /\ {} \in FindDeadlockNodes(wait_for)
    /\ it_wl' = it_wl + 1
    /\ pc' = "scan"
    /\ UNCHANGED <<incoming_schedule, operations, it, waiting_list,
                   final_operations, chronology, waiting_transactions, tuples,
                   wait_for, aborted>>

EndScan ==
    /\ pc = "scan"
    /\ it_wl > Len(waiting_list)
    /\ it_wl' = 1
    /\ pc' = "main"
    /\ UNCHANGED <<incoming_schedule, operations, it, waiting_list,
                   final_operations, chronology, waiting_transactions, tuples,
                   wait_for, aborted>>

\* The schedule is used up: final_operations is returned.
Return ==
    /\ pc = "main"
    /\ it > Len(operations)
    /\ pc' = "done"
    /\ UNCHANGED <<incoming_schedule, operations, it, waiting_list, it_wl,
                   final_operations, chronology, waiting_transactions, tuples,
                   wait_for, aborted>>

Terminated == pc = "done" /\ UNCHANGED vars

Step ==
    \/ Defer \/ ScheduleNext \/ PutNextInWaitingList
    \/ ResolveDeadlock \/ StartScan
    \/ ScheduleWaiting \/ KeepWaiting \/ ContinueScan \/ EndScan
    \/ Return

Next == Step \/ Terminated

Spec == Init /\ [][Next]_vars

\* One thread runs schedule() and nothing in it blocks.
FairSpec == Spec /\ WF_vars(Step)

-----------------------------------------------------------------------------
(* What the scheduler gets right.                                           *)

\* Every variable keeps the type it has in schedule(), with both iterators at
\* valid positions and the wait-for graph over transactions only.
TypeOK ==
    /\ incoming_schedule \in [schedule : Seq(Operations), transaction_ids : Seq(Tids)]
    /\ operations \in Seq(Operations)
    /\ it \in Nat \ {0}
    /\ waiting_list \in Seq(Operations)
    /\ it_wl \in Nat \ {0}
    /\ final_operations \in Seq(Operations)
    /\ chronology \in Seq(Tids)
    /\ waiting_transactions \subseteq Tids
    /\ \A l \in tuples : IsLockInfoTuple(l)
    /\ wait_for \subseteq Tids \X Tids
    /\ pc \in {"main", "check", "scan", "scancheck", "done"}
    /\ aborted \subseteq Tids \cup {NoTid}

\* An aborted transaction is gone for good: no operation of it is left to be
\* read, waits or is in the output, it has no lock, not even an inherited one,
\* and nobody waits for it (abort_transaction against everything run later).
AbortedGone ==
    /\ aborted \cap (TidsOf(operations) \cup TidsOf(waiting_list)
                        \cup TidsOf(final_operations)) = {}
    /\ aborted \cap (Owners(tuples) \cup Nodes(wait_for)) = {}

\* Whoever has a lock or is in the graph is in the chronology, from which the
\* victim is taken: a victim leaves the chronology (remove_most_recent_
\* transaction) only together with its locks and arcs (abort_transaction).
HoldersSeen == Owners(tuples) \cup Nodes(wait_for) \subseteq Elems(chronology)

\* Every deadlock has a victim: the search of the chronology never comes back
\* from a cycle with "none found", its -1.
VictimFound == NoTid \notin aborted

\* Every operation the main loop has passed is in the output or still waits,
\* through a scan that erases while it iterates and restarts of both loops.
NothingLost ==
    \A i \in DOMAIN operations :
        i < it => operations[i] \in Elems(final_operations) \cup Elems(waiting_list)

\* Reading an operation puts it into one of the two vectors, a scan at most moves
\* it, and only a restart reads it again: what is left in the output and in the
\* waiting list of an operation is never less than has been read of it since
\* the last abort, and each abort adds at most what the schedule has of it.
RepeatsBounded ==
    \A op \in Elems(operations) :
        LET read == Cardinality({i \in DOMAIN operations : i < it /\ operations[i] = op})
            kept == Times(final_operations, op) + Times(waiting_list, op)
        IN /\ read <= kept
           /\ kept <= read + Cardinality(aborted) * Times(operations, op)

\* A transaction asks for a lock once, however often try_to_lock is retried.
OneRequest ==
    \A l, m \in {k \in tuples : k.req_status = "Waiting"} :
        /\ l.req_tid = m.req_tid
        /\ l.rsc_id = m.rsc_id
        /\ l.req_lock_type = m.req_lock_type
        => l = m

\* Nobody waits for a transaction that holds nothing: the target of every arc
\* has a lock that was granted to it, and whoever waits is known to the lock
\* table (add_arc in try_to_lock against commits, aborts and conversions).
ArcsLeadToHolders ==
    \A a \in wait_for :
        /\ a[2] \in Owners({l \in tuples : l.req_status # "Waiting"})
        /\ a[1] \in Owners(tuples)

\* The two purges of an abort, remove_most_recent_transaction's of the object
\* passed in and abort_transaction's of its operations, take the same ones out,
\* and the object's list names the transactions that are left, each once.
CopyMatches == incoming_schedule = ScheduleOf(operations)

\* A reader and a certifier never hold one resource together, through failed
\* and repeated conversions, stale requests and restarts.  (Schedules whose
\* resources are all databases; inherited locks are granted unchecked.)
ReadersExcludeCertifiers ==
    \A l, m \in {k \in tuples : k.req_status = "Granted"} :
        /\ l.req_lock_type = "Read"
        /\ m.req_lock_type = "Certify"
        /\ l.rsc_id = m.rsc_id
        => l.req_tid = m.req_tid

\* Every id in the paths of the operations G names one place, whose path is what
\* comes before it and the id.
DistinctIds(G) ==
    LET paths == {op.path : op \in G}
    IN \A p, q \in paths :
          \A i \in DOMAIN p, j \in DOMAIN q :
             p[i] = q[j] => i = j /\ \A k \in 1..i : p[k] = q[k]

\* One of the two resources is the other, or contains it.
Overlap(p, q) ==
    /\ p.path # <<>> /\ q.path # <<>>
    /\ \A k \in DOMAIN p.path \cap DOMAIN q.path : p.path[k] = q.path[k]

\* A transaction waits only for one that has an operation in its way: on the same
\* resource as one of its own, or on one above or below it.  Locks are found by
\* a bare id, copied to resources below, converted for others and outlive
\* refusals; an abort takes operations, locks and arcs together.  (Schedules in
\* which each id names one place.  On others the code breaks what lockinfo.hpp:102
\* says, that it is the locks of a given resource that get_rsc_locks finds.)
WaitersOverlap ==
    \A a \in wait_for :
        \E p, q \in Elems(operations) :
            p.tid = a[1] /\ q.tid = a[2] /\ Overlap(p, q)

\* schedule() keeps the promises of Synchronizer: whatever it does is putting
\* an operation out or off, or cancelling the youngest transaction of a circle.
Promise == INSTANCE Synchronizer WITH
    schedule <- operations,
    output <- final_operations,
    waiting <- Elems(waiting_list),
    seen <- chronology,
    waits <- wait_for,
    returned <- (pc = "done")
Synchronizes == Promise!Spec

\* What is left to do, the most significant first: the operations that are not
\* cancelled, those the main loop has not passed, the rest of its iteration,
\* the operations the scan has not passed, the attempt of the scan.
Remaining ==
    <<Len(operations),
      Len(operations) + 1 - it,
      [check |-> 3, scan |-> 2, scancheck |-> 2, main |-> 1, done |-> 0][pc],
      Len(waiting_list) + 1 - it_wl,
      IF pc = "scan" THEN 1 ELSE 0>>

\* Every step leaves less to do, also one that sends both loops back to the
\* start: an abort always takes operations out.  And neither iterator ever
\* passes end(), though the vectors shrink under them.
Progresses ==
    [][/\ Less(Remaining', Remaining)
       /\ \A k \in DOMAIN Remaining : Remaining'[k] >= 0]_vars

\* However often aborts send both loops back to the start, schedule() returns.
Termination == <>(pc = "done")

-----------------------------------------------------------------------------
(* What the code's documentation says and the code does not do.             *)

\* 2v2pl.cpp:710: the waiting list is checked for operations that can be
\* scheduled now, so none is left behind in it when the scheduler returns.
NoneLeftSchedulable ==
    pc = "done" =>
        \A op \in Elems(waiting_list) :
            \A outcome \in CanBeScheduled(op, tuples, wait_for) : ~outcome.ok

\* The operation that a step puts in the output.
Schedules(op) == final_operations' = Append(final_operations, op)

\* 2v2pl.cpp:622: a commit converts all its write locks to certify locks, so
\* none of them has a rival left when the commit is scheduled.
CommitsCertified ==
    [][\A op \in Elems(operations) :
          Schedules(op) /\ op.type = "Commit" =>
              \A l \in GetTransactionLocks(tuples, op.tid) :
                  l.req_lock_type = "Write" => ConvertRivals(tuples, l) = {}]_vars

\* README.md:15: the 2V2PL protocol: a write is scheduled only when its
\* transaction holds a write lock, or a stronger one, on the resource.
WritesLocked ==
    [][\A op \in Elems(operations) :
          Schedules(op) /\ op.type = "Write" =>
              \E l \in GetTransactionLocks(tuples', op.tid) :
                  /\ l.rsc_id = GetResource(op)
                  /\ l.req_lock_type \in {"Write", "Certify"}
                  /\ l.req_status # "Waiting"]_vars

\* README.md:10: the operations within the schedule are synchronized: none is
\* in the output more often than in the schedule.
Count(op, s) == Cardinality({i \in DOMAIN s : s[i] = op})
NoDuplicates ==
    \A op \in Elems(final_operations) :
        Count(op, final_operations) <= Count(op, operations)

\* 2v2pl.cpp:689 and 716: a scheduled commit removes the locks of its
\* transaction and takes it out of the graph, so a committed transaction has
\* no lock and cannot be in a deadlock.
CommittedReleased ==
    \A op \in Elems(final_operations) :
        op.type = "Commit" => op.tid \notin Owners(tuples) \cup Nodes(wait_for)

\* 2v2pl.cpp:702: the graph is searched after every change, so when the main
\* loop takes its next operation, and at the end, no deadlock is left.
NoDeadlockLeft == pc \in {"main", "done"} => Acyclic(wait_for)

\* README.md:17: operations are synchronized to prevent data anomalies: two
\* transactions never hold incompatible granted locks on one resource.
\* Readers and one writer may coexist, a certifier is alone.
Incompatible ==
    {<<"Write", "Write">>, <<"Certify", "Certify">>, <<"Write", "Certify">>,
     <<"Certify", "Write">>, <<"Read", "Certify">>, <<"Certify", "Read">>}
GrantedCompatible ==
    \A l, m \in {k \in tuples : k.req_status = "Granted"} :
        l.rsc_id = m.rsc_id /\ l.req_tid # m.req_tid =>
            <<l.req_lock_type, m.req_lock_type>> \notin Incompatible
=============================================================================
