---------------------------- MODULE LockingProofs ----------------------------
(***************************************************************************)
(* What one call of can_be_scheduled may do to the lock table and to the   *)
(* wait-for graph: it brings in no transaction but the operation's, and    *)
(* every lock it makes or changes is a lock; requests stay single and arcs *)
(* lead to holders; of databases, nobody reads what another certifies.     *)
(***************************************************************************)
EXTENDS Scheduler2V2PL, TLAPS

\* The locks are locks, and owned by members of X; the arcs are between
\* members of X.
Known(X, locks, arcs) ==
    /\ \A l \in locks : IsLockInfoTuple(l) /\ l.req_tid \in X
    /\ arcs \subseteq X \X X

\* An operation with a resource: its path gives a database, a resource and a
\* type.
LEMMA Resource ==
    ASSUME NEW op \in Operations, op.type # "Commit"
    PROVE  /\ op.tid \in Tids
           /\ GetDatabase(op) \in RscIds
           /\ GetResource(op) \in RscIds
           /\ GetRscType(op) \in RscType
<1>1. op \in [type : {"Read", "Write", "UpdateLock"}, tid : Tids, path : Paths]
    BY DEF Operations
<1>2. PICK n \in 1..4 : op.path \in [1..n -> RscIds]
    BY <1>1 DEF Paths, MaxDepth
<1>3. Len(op.path) = n BY <1>2
<1>4. n = 1 \/ n = 2 \/ n = 3 \/ n = 4 BY <1>2
<1> QED BY <1>1, <1>2, <1>3, <1>4 DEF GetDatabase, GetResource, GetRscType, RscType

LEMMA NewLockKnown ==
    ASSUME NEW op \in Operations, op.type # "Commit", NEW locks,
           NEW tid \in Tids, NEW status \in ReqStatus, NEW type \in LockType
    PROVE  /\ IsLockInfoTuple(NewLock(locks, op, tid, status, type))
           /\ NewLock(locks, op, tid, status, type).req_tid = tid
BY Resource DEF NewLock, IsLockInfoTuple

\* A lock whose status or type changes is still a lock, of the same owner.
LEMMA ChangedLock ==
    ASSUME NEW l, IsLockInfoTuple(l), NEW status \in ReqStatus, NEW type \in LockType
    PROVE  /\ IsLockInfoTuple([l EXCEPT !.req_status = status])
           /\ [l EXCEPT !.req_status = status].req_tid = l.req_tid
           /\ IsLockInfoTuple([l EXCEPT !.req_lock_type = type, !.req_status = status])
           /\ [l EXCEPT !.req_lock_type = type, !.req_status = status].req_tid = l.req_tid
BY DEF IsLockInfoTuple

LEMMA ConvertedKnown ==
    ASSUME NEW locks, NEW l, IsLockInfoTuple(l)
    PROVE  IsLockInfoTuple(Converted(locks, l)) /\ Converted(locks, l).req_tid = l.req_tid
<1>1. "Granted" \in ReqStatus /\ "Converting" \in ReqStatus BY DEF ReqStatus
<1>2. Stronger(l.req_lock_type) \in LockType BY DEF Stronger, LockType
<1>3. l.req_lock_type \in LockType BY DEF IsLockInfoTuple
<1> QED BY <1>1, <1>2, <1>3, ChangedLock DEF Converted

LEMMA TryToConvertLocksKnown ==
    ASSUME NEW X, NEW locks, NEW arcs, Known(X, locks, arcs), NEW convert \in SUBSET locks,
           NEW o, o = TryToConvertLocks(locks, arcs, convert)
    PROVE  Known(X, o.tuples, o.arcs)
<1>1. o.tuples = (locks \ convert) \cup {Converted(locks, l) : l \in convert}
    BY DEF TryToConvertLocks, Outcome
<1>2. o.arcs = arcs \cup UNION {{l.req_tid} \X Owners(ConvertRivals(locks, l)) : l \in convert}
    BY DEF TryToConvertLocks, Outcome
<1>3. ASSUME NEW l \in convert
      PROVE  {l.req_tid} \X Owners(ConvertRivals(locks, l)) \subseteq X \X X
    <2>1. ConvertRivals(locks, l) \subseteq locks BY DEF ConvertRivals, GetRscLocks
    <2> QED BY <2>1 DEF Known, Owners
<1>4. o.arcs \subseteq X \X X BY <1>2, <1>3 DEF Known
<1>5. \A l \in o.tuples : IsLockInfoTuple(l) /\ l.req_tid \in X
    BY <1>1, ConvertedKnown DEF Known
<1> QED BY <1>4, <1>5 DEF Known

LEMMA GrantKnown ==
    ASSUME NEW X, NEW locks, NEW arcs, Known(X, locks, arcs),
           NEW new, IsLockInfoTuple(new), new.req_tid \in X,
           NEW o \in Grant(locks, arcs, new)
    PROVE  Known(X, o.tuples, o.arcs)
<1> DEFINE changed(l) == Replace(locks, l, [l EXCEPT !.req_status = "Granted"])
<1>1. /\ o.arcs = arcs
      /\ \/ o.tuples = locks
         \/ o.tuples = locks \cup {new}
         \/ \E l \in locks : o.tuples = changed(l)
    BY DEF Grant, Outcome, GetTransactionLocks
<1>2. "Granted" \in ReqStatus /\ "Read" \in LockType BY DEF ReqStatus, LockType
<1>3. ASSUME NEW l \in locks PROVE Known(X, changed(l), arcs)
    <2>1. IsLockInfoTuple(l) /\ l.req_tid \in X BY DEF Known
    <2>2. /\ IsLockInfoTuple([l EXCEPT !.req_status = "Granted"])
          /\ [l EXCEPT !.req_status = "Granted"].req_tid = l.req_tid
        BY <1>2, <2>1, ChangedLock
    <2> QED BY <2>1, <2>2 DEF Known, Replace
<1>4. Known(X, locks \cup {new}, arcs) BY DEF Known
<1> QED BY <1>1, <1>3, <1>4

LEMMA WaitKnown ==
    ASSUME NEW X, NEW locks, NEW arcs, Known(X, locks, arcs),
           NEW new, IsLockInfoTuple(new), new.req_tid \in X, NEW rivals \in SUBSET locks,
           NEW o, o = Wait(locks, arcs, new, rivals)
    PROVE  Known(X, o.tuples, o.arcs)
<1>1. /\ o.arcs = arcs \cup ({new.req_tid} \X Owners(rivals))
      /\ \/ o.tuples = locks
         \/ o.tuples = locks \cup {[new EXCEPT !.req_status = "Waiting"]}
    BY DEF Wait, Outcome, AddArcs
<1>2. Owners(rivals) \subseteq X BY DEF Owners, Known
<1>3. "Waiting" \in ReqStatus /\ "Read" \in LockType BY DEF ReqStatus, LockType
<1>4. /\ IsLockInfoTuple([new EXCEPT !.req_status = "Waiting"])
      /\ [new EXCEPT !.req_status = "Waiting"].req_tid = new.req_tid
    BY <1>3, ChangedLock
<1> QED BY <1>1, <1>2, <1>4 DEF Known

LEMMA TryToLockKnown ==
    ASSUME NEW X, NEW locks, NEW arcs, Known(X, locks, arcs),
           NEW new, IsLockInfoTuple(new), new.req_tid \in X,
           NEW o \in TryToReadLock(locks, arcs, new) \cup TryToWriteLock(locks, arcs, new)
    PROVE  Known(X, o.tuples, o.arcs)
<1>1. ASSUME NEW rivals \in SUBSET locks, o \in TryToLock(locks, arcs, new, rivals)
      PROVE  Known(X, o.tuples, o.arcs)
    <2>1. CASE rivals = {} BY <1>1, <2>1, GrantKnown DEF TryToLock
    <2>2. CASE rivals # {} BY <1>1, <2>2, WaitKnown DEF TryToLock
    <2> QED BY <2>1, <2>2
<1>2. CASE o \in TryToReadLock(locks, arcs, new)
    <2>1. \/ o = Outcome(TRUE, locks, arcs)
          \/ \E rivals \in SUBSET locks : o \in TryToLock(locks, arcs, new, rivals)
        BY <1>2 DEF TryToReadLock, GetRscLocks
    <2> QED BY <1>1, <2>1 DEF Outcome
<1>3. CASE o \in TryToWriteLock(locks, arcs, new)
    <2>1. \/ \E l \in locks : o = TryToConvertLocks(locks, arcs, {l})
          \/ \E rivals \in SUBSET locks : o \in TryToLock(locks, arcs, new, rivals)
        BY <1>3 DEF TryToWriteLock, GetRscLocks
    <2>2. CASE \E l \in locks : o = TryToConvertLocks(locks, arcs, {l})
        <3>1. PICK l \in locks : o = TryToConvertLocks(locks, arcs, {l}) BY <2>2
        <3>2. {l} \in SUBSET locks OBVIOUS
        <3> QED BY <3>1, <3>2, TryToConvertLocksKnown
    <2> QED BY <1>1, <2>1, <2>2
<1> QED BY <1>2, <1>3

LEMMA InheritKnown ==
    ASSUME NEW X, NEW locks, NEW arcs, Known(X, locks, arcs),
           NEW op \in Operations, op.type # "Commit"
    PROVE  Known(X, Inherit(locks, op), arcs)
<1> SUFFICES ASSUME NEW l \in Inherit(locks, op)
             PROVE  IsLockInfoTuple(l) /\ l.req_tid \in X
    BY DEF Known
<1>1. l \in locks
        \/ \E a \in locks : l = NewLock(locks, op, a.req_tid, "Granted", a.req_lock_type)
    BY DEF Inherit, GetRscLocks
<1>2. CASE l \in locks BY <1>2 DEF Known
<1>3. ASSUME NEW a \in locks, l = NewLock(locks, op, a.req_tid, "Granted", a.req_lock_type)
      PROVE  IsLockInfoTuple(l) /\ l.req_tid \in X
    <2>1. a.req_tid \in Tids /\ a.req_tid \in X /\ a.req_lock_type \in LockType
        BY DEF Known, IsLockInfoTuple
    <2>2. "Granted" \in ReqStatus BY DEF ReqStatus
    <2> QED BY <1>3, <2>1, <2>2, NewLockKnown
<1> QED BY <1>1, <1>2, <1>3

LEMMA TryToCommitKnown ==
    ASSUME NEW X, NEW locks, NEW arcs, Known(X, locks, arcs), NEW tid,
           NEW o, o = TryToCommit(locks, arcs, tid)
    PROVE  Known(X, o.tuples, o.arcs)
<1> DEFINE retried == {l \in GetTransactionLocks(locks, tid) :
                      l.req_lock_type = "Certify" /\ l.req_status = "Converting"}
           reset(l) == [l EXCEPT !.req_lock_type = "Write", !.req_status = "Granted"]
           L == (locks \ retried) \cup {reset(l) : l \in retried}
           W == {l \in GetTransactionLocks(L, tid) :
               l.req_lock_type = "Write" /\ l.req_status = "Granted"}
<1>1. retried \subseteq locks BY DEF GetTransactionLocks
<1>2. "Granted" \in ReqStatus /\ "Write" \in LockType BY DEF ReqStatus, LockType
<1>3. Known(X, L, arcs)
    <2>1. ASSUME NEW l \in retried PROVE IsLockInfoTuple(reset(l)) /\ reset(l).req_tid \in X
        <3>1. IsLockInfoTuple(l) /\ l.req_tid \in X BY <1>1 DEF Known
        <3> QED BY <1>2, <3>1, ChangedLock
    <2> HIDE DEF retried, reset
    <2> QED BY <1>1, <2>1 DEF Known
<1>4. W \subseteq L BY DEF GetTransactionLocks
<1>5. o = TryToConvertLocks(L, arcs, W) BY DEF TryToCommit
<1> QED BY <1>3, <1>4, <1>5, TryToConvertLocksKnown

\* One call of can_be_scheduled keeps owners and graph within X, when the
\* operation's transaction is in X.
LEMMA CanBeScheduledKnown ==
    ASSUME NEW X, NEW locks, NEW arcs, Known(X, locks, arcs),
           NEW op \in Operations, op.tid \in X,
           NEW o \in CanBeScheduled(op, locks, arcs)
    PROVE  Known(X, o.tuples, o.arcs)
<1>1. op.type \in {"Read", "Write", "Commit", "UpdateLock"} /\ op.tid \in Tids
    BY DEF Operations
<1> DEFINE L == Inherit(locks, op)
           new(type) == NewLock(L, op, op.tid, "Granted", type)
<1>2. CASE op.type = "Commit"
    <2>1. o = TryToCommit(locks, arcs, op.tid) BY <1>2 DEF CanBeScheduled
    <2> QED BY <2>1, TryToCommitKnown
<1>3. CASE op.type # "Commit"
    <2>1. Known(X, L, arcs) BY <1>3, InheritKnown
    <2>2. \A type \in {"Read", "Write"} :
             IsLockInfoTuple(new(type)) /\ new(type).req_tid = op.tid
        <3>1. "Granted" \in ReqStatus /\ {"Read", "Write"} \subseteq LockType
            BY DEF ReqStatus, LockType
        <3> QED BY <1>1, <1>3, <3>1, NewLockKnown
    <2>3. \/ o \in TryToReadLock(L, arcs, new("Read"))
          \/ o \in TryToWriteLock(L, arcs, new("Write"))
          \/ o = Outcome(FALSE, L, arcs)
        BY <1>1, <1>3 DEF CanBeScheduled
    <2> HIDE DEF L, new
    <2>4. CASE o = Outcome(FALSE, L, arcs) BY <2>1, <2>4 DEF Outcome
    <2>5. CASE o \in TryToReadLock(L, arcs, new("Read"))
        BY <2>1, <2>2, <2>5, TryToLockKnown
    <2>6. CASE o \in TryToWriteLock(L, arcs, new("Write"))
        BY <2>1, <2>2, <2>6, TryToLockKnown
    <2> QED BY <2>3, <2>4, <2>5, <2>6
<1> QED BY <1>2, <1>3

\* Releasing a transaction leaves no lock and no arc of it.
LEMMA ReleaseKnown ==
    ASSUME NEW X, NEW locks, NEW arcs, Known(X, locks, arcs), NEW tid
    PROVE  Known(X \ {tid}, RmTransactionLocks(locks, tid), RemoveNode(arcs, tid))
<1>1. \A l \in RmTransactionLocks(locks, tid) :
         IsLockInfoTuple(l) /\ l.req_tid \in X \ {tid}
    BY DEF Known, RmTransactionLocks
<1>2. RemoveNode(arcs, tid) \subseteq (X \ {tid}) \X (X \ {tid})
    <2> SUFFICES ASSUME NEW a \in RemoveNode(arcs, tid)
                 PROVE  a \in (X \ {tid}) \X (X \ {tid})
        OBVIOUS
    <2>1. a \in X \X X /\ tid # a[1] /\ tid # a[2] BY DEF RemoveNode, Known
    <2> QED BY <2>1
<1> QED BY <1>1, <1>2 DEF Known

LEMMA KnownMonotone ==
    ASSUME NEW X, NEW Y, X \subseteq Y, NEW locks, NEW arcs, Known(X, locks, arcs)
    PROVE  Known(Y, locks, arcs)
BY DEF Known

-----------------------------------------------------------------------------
(* Requests are single and arcs lead to holders.                            *)

Requests(locks) == {l \in locks : l.req_status = "Waiting"}
SameRequest(l, m) == /\ l.req_tid = m.req_tid
                     /\ l.rsc_id = m.rsc_id
                     /\ l.req_lock_type = m.req_lock_type

\* OneRequest and ArcsLeadToHolders of any table and graph.
Orderly(locks, arcs) ==
    /\ Known(Tids, locks, arcs)
    /\ \A l, m \in Requests(locks) : SameRequest(l, m) => l = m
    /\ \A a \in arcs : \E l, m \in locks :
          a[1] = l.req_tid /\ a[2] = m.req_tid /\ m.req_status # "Waiting"

\* A change keeps the order if it adds no request, leaves every owner a lock
\* (every holder one that is held), and adds arcs to holders only.
LEMMA OrderlyChange ==
    ASSUME NEW locks, NEW arcs, Orderly(locks, arcs),
           NEW L, NEW A, Known(Tids, L, A),
           Requests(L) \subseteq locks,
           \A l \in locks : \E m \in L :
              m.req_tid = l.req_tid /\ (l.req_status # "Waiting" => m.req_status # "Waiting"),
           \A a \in A : a \in arcs \/ \E l, m \in locks :
              a[1] = l.req_tid /\ a[2] = m.req_tid /\ m.req_status # "Waiting"
    PROVE  Orderly(L, A)
<1>1. \A l, m \in Requests(L) : SameRequest(l, m) => l = m
    <2>1. Requests(L) \subseteq Requests(locks) BY DEF Requests
    <2> QED BY <2>1 DEF Orderly
<1>2. ASSUME NEW a \in A
      PROVE  \E l, m \in L : a[1] = l.req_tid /\ a[2] = m.req_tid /\ m.req_status # "Waiting"
    <2>1. PICK l \in locks, m \in locks :
            a[1] = l.req_tid /\ a[2] = m.req_tid /\ m.req_status # "Waiting"
        BY DEF Orderly
    <2>2. PICK l1 \in L : l1.req_tid = l.req_tid OBVIOUS
    <2>3. PICK m1 \in L : m1.req_tid = m.req_tid /\ m1.req_status # "Waiting" BY <2>1
    <2> QED BY <2>1, <2>2, <2>3
<1> QED BY <1>1, <1>2 DEF Orderly

\* A commit or an abort takes locks and arcs of one transaction together.
LEMMA ReleaseOrderly ==
    ASSUME NEW locks, NEW arcs, Orderly(locks, arcs), NEW tid
    PROVE  Orderly(RmTransactionLocks(locks, tid), RemoveNode(arcs, tid))
<1> DEFINE L == RmTransactionLocks(locks, tid)
           A == RemoveNode(arcs, tid)
<1>1. Known(Tids, L, A) BY ReleaseKnown, KnownMonotone DEF Orderly
<1>2. L \subseteq locks /\ \A l \in locks : l \in L <=> l.req_tid # tid
    BY DEF RmTransactionLocks
<1>3. \A a \in A : a \in arcs /\ a[1] # tid /\ a[2] # tid BY DEF RemoveNode
<1> HIDE DEF L, A
<1>4. \A l, m \in Requests(L) : SameRequest(l, m) => l = m
    BY <1>2 DEF Orderly, Requests
<1>5. \A a \in A : \E l, m \in L :
         a[1] = l.req_tid /\ a[2] = m.req_tid /\ m.req_status # "Waiting"
    <2> SUFFICES ASSUME NEW a \in A
                 PROVE  \E l, m \in L :
                    a[1] = l.req_tid /\ a[2] = m.req_tid /\ m.req_status # "Waiting"
        OBVIOUS
    <2>1. PICK l \in locks, m \in locks :
            a[1] = l.req_tid /\ a[2] = m.req_tid /\ m.req_status # "Waiting"
        BY <1>3 DEF Orderly
    <2>2. l \in L /\ m \in L BY <1>2, <1>3, <2>1
    <2> QED BY <2>1, <2>2
<1> QED BY <1>1, <1>4, <1>5 DEF Orderly, L, A

LEMMA ConvertOrderly ==
    ASSUME NEW locks, NEW arcs, Orderly(locks, arcs), NEW convert \in SUBSET locks,
           NEW o, o = TryToConvertLocks(locks, arcs, convert)
    PROVE  Orderly(o.tuples, o.arcs)
<1>1. Known(Tids, o.tuples, o.arcs) BY TryToConvertLocksKnown DEF Orderly
<1>2. o.tuples = (locks \ convert) \cup {Converted(locks, l) : l \in convert}
    BY DEF TryToConvertLocks, Outcome
<1>3. o.arcs = arcs \cup UNION {{l.req_tid} \X Owners(ConvertRivals(locks, l)) : l \in convert}
    BY DEF TryToConvertLocks, Outcome
<1>4. ASSUME NEW l \in convert
      PROVE  Converted(locks, l).req_tid = l.req_tid /\ Converted(locks, l).req_status # "Waiting"
    <2>1. IsLockInfoTuple(l) BY DEF Orderly, Known
    <2>2. Converted(locks, l).req_tid = l.req_tid BY <2>1, ConvertedKnown
    <2> QED BY <2>1, <2>2 DEF Converted, IsLockInfoTuple
<1>5. Requests(o.tuples) \subseteq locks BY <1>2, <1>4 DEF Requests
<1>6. \A l \in locks : \E m \in o.tuples :
         m.req_tid = l.req_tid /\ (l.req_status # "Waiting" => m.req_status # "Waiting")
    BY <1>2, <1>4
<1>7. ASSUME NEW a \in o.arcs, a \notin arcs
      PROVE  \E l, m \in locks :
                a[1] = l.req_tid /\ a[2] = m.req_tid /\ m.req_status # "Waiting"
    <2>1. PICK l \in convert : a \in {l.req_tid} \X Owners(ConvertRivals(locks, l))
        BY <1>3, <1>7
    <2>2. PICK m \in ConvertRivals(locks, l) : a[2] = m.req_tid BY <2>1 DEF Owners
    <2>3. m \in locks /\ m.req_status = "Granted" BY DEF ConvertRivals, GetRscLocks
    <2>4. a[1] = l.req_tid BY <2>1
    <2> QED BY <2>2, <2>3, <2>4
<1> QED BY <1>1, <1>5, <1>6, <1>7, OrderlyChange

LEMMA GrantOrderly ==
    ASSUME NEW locks, NEW arcs, Orderly(locks, arcs),
           NEW new, IsLockInfoTuple(new), new.req_status = "Granted",
           NEW o \in Grant(locks, arcs, new)
    PROVE  Orderly(o.tuples, o.arcs)
<1> DEFINE granted(l) == [l EXCEPT !.req_status = "Granted"]
<1>1. /\ o.arcs = arcs
      /\ \/ o.tuples = locks
         \/ o.tuples = locks \cup {new}
         \/ \E l \in locks : o.tuples = Replace(locks, l, granted(l))
    BY DEF Grant, Outcome, GetTransactionLocks
<1>2. new.req_tid \in Tids BY DEF IsLockInfoTuple
<1>3. Known(Tids, o.tuples, o.arcs) BY <1>2, GrantKnown DEF Orderly
<1>4. CASE o.tuples = locks BY <1>1, <1>4
<1>5. CASE o.tuples = locks \cup {new}
    <2> HIDE DEF granted
    <2>1. Requests(o.tuples) \subseteq locks BY <1>5 DEF Requests
    <2>2. \A l \in locks : l \in o.tuples BY <1>5
    <2>3. \A l \in locks : \E m \in o.tuples :
             m.req_tid = l.req_tid /\ (l.req_status # "Waiting" => m.req_status # "Waiting")
        BY <2>2
    <2>4. o.arcs = arcs BY <1>1
    <2> QED BY <1>3, <2>1, <2>3, <2>4, OrderlyChange
<1>6. ASSUME NEW l \in locks, o.tuples = Replace(locks, l, granted(l))
      PROVE  Orderly(o.tuples, o.arcs)
    <2>1. IsLockInfoTuple(l) BY DEF Orderly, Known
    <2>2. granted(l).req_tid = l.req_tid /\ granted(l).req_status = "Granted"
        BY <2>1 DEF IsLockInfoTuple
    <2>3. o.tuples = (locks \ {l}) \cup {granted(l)} BY <1>6 DEF Replace
    <2> HIDE DEF granted
    <2>4. Requests(o.tuples) \subseteq locks BY <2>2, <2>3 DEF Requests
    <2>5. \A k \in locks : \E m \in o.tuples :
             m.req_tid = k.req_tid /\ (k.req_status # "Waiting" => m.req_status # "Waiting")
        BY <2>2, <2>3
    <2> QED BY <1>1, <1>3, <2>4, <2>5, OrderlyChange
<1> QED BY <1>1, <1>4, <1>5, <1>6

LEMMA WaitOrderly ==
    ASSUME NEW locks, NEW arcs, Orderly(locks, arcs),
           NEW new, IsLockInfoTuple(new), NEW rivals \in SUBSET locks,
           \A m \in rivals : m.req_status # "Waiting",
           NEW o, o = Wait(locks, arcs, new, rivals)
    PROVE  Orderly(o.tuples, o.arcs)
<1> DEFINE n == [new EXCEPT !.req_status = "Waiting"]
           waiting == {l \in locks : l.req_status = "Waiting" /\ SameRequest(l, new)}
<1>1. /\ o.arcs = arcs \cup ({new.req_tid} \X Owners(rivals))
      /\ o.tuples = IF waiting = {} THEN locks \cup {n} ELSE locks
    <2>1. waiting = {l \in GetTransactionLocks(locks, new.req_tid) :
                        /\ l.rsc_id = new.rsc_id
                        /\ l.req_lock_type = new.req_lock_type
                        /\ l.req_status = "Waiting"}
        BY DEF GetTransactionLocks, SameRequest
    <2> HIDE DEF waiting
    <2> QED BY <2>1 DEF Wait, Outcome, AddArcs
<1>2. n.req_status = "Waiting" /\ n.req_tid = new.req_tid
      /\ \A l : SameRequest(l, n) <=> SameRequest(l, new)
    BY DEF IsLockInfoTuple, SameRequest
<1>3. new.req_tid \in Tids BY DEF IsLockInfoTuple
<1>4. Known(Tids, o.tuples, o.arcs) BY <1>3, WaitKnown DEF Orderly
<1> HIDE DEF n
<1>5. \E l \in o.tuples : l.req_tid = new.req_tid BY <1>1, <1>2 DEF SameRequest
<1>6. \A l, m \in Requests(o.tuples) : SameRequest(l, m) => l = m
    <2>1. CASE waiting # {} BY <1>1, <2>1 DEF Orderly
    <2>2. CASE waiting = {}
        <3>1. Requests(o.tuples) \subseteq Requests(locks) \cup {n}
            BY <1>1, <2>2 DEF Requests
        <3>2. \A l \in Requests(locks) : ~SameRequest(l, n) /\ ~SameRequest(n, l)
            BY <1>2, <2>2 DEF Requests, SameRequest
        <3> QED BY <3>1, <3>2 DEF Orderly
    <2> QED BY <2>1, <2>2
<1>7. ASSUME NEW a \in o.arcs
      PROVE  \E l, m \in o.tuples :
                a[1] = l.req_tid /\ a[2] = m.req_tid /\ m.req_status # "Waiting"
    <2>1. locks \subseteq o.tuples BY <1>1
    <2>2. CASE a \in arcs BY <2>1, <2>2 DEF Orderly
    <2>3. CASE a \in {new.req_tid} \X Owners(rivals)
        <3>1. PICK m \in rivals : a[2] = m.req_tid BY <2>3 DEF Owners
        <3>2. a[1] = new.req_tid /\ m \in o.tuples BY <2>1, <2>3
        <3> QED BY <1>5, <3>1, <3>2
    <2> QED BY <1>1, <2>2, <2>3
<1> QED BY <1>4, <1>6, <1>7 DEF Orderly

LEMMA TryToLockOrderly ==
    ASSUME NEW locks, NEW arcs, Orderly(locks, arcs),
           NEW new, IsLockInfoTuple(new), new.req_status = "Granted",
           NEW o \in TryToReadLock(locks, arcs, new) \cup TryToWriteLock(locks, arcs, new)
    PROVE  Orderly(o.tuples, o.arcs)
<1> DEFINE Held == {l \in locks : l.req_status # "Waiting"}
<1>1. ASSUME NEW rivals \in SUBSET Held, o \in TryToLock(locks, arcs, new, rivals)
      PROVE  Orderly(o.tuples, o.arcs)
    <2>1. CASE rivals = {} BY <1>1, <2>1, GrantOrderly DEF TryToLock
    <2>2. CASE rivals # {} BY <1>1, <2>2, WaitOrderly DEF TryToLock
    <2> QED BY <2>1, <2>2
<1>2. CASE o \in TryToReadLock(locks, arcs, new)
    <2>1. \/ o = Outcome(TRUE, locks, arcs)
          \/ \E rivals \in SUBSET Held : o \in TryToLock(locks, arcs, new, rivals)
        BY <1>2 DEF TryToReadLock, GetRscLocks
    <2> QED BY <1>1, <2>1 DEF Outcome
<1>3. CASE o \in TryToWriteLock(locks, arcs, new)
    <2>1. \/ \E l \in locks : o = TryToConvertLocks(locks, arcs, {l})
          \/ \E rivals \in SUBSET Held : o \in TryToLock(locks, arcs, new, rivals)
        BY <1>3 DEF TryToWriteLock, GetRscLocks
    <2>2. ASSUME NEW l \in locks, o = TryToConvertLocks(locks, arcs, {l})
          PROVE  Orderly(o.tuples, o.arcs)
        <3>1. {l} \in SUBSET locks OBVIOUS
        <3> QED BY <2>2, <3>1, ConvertOrderly
    <2> QED BY <1>1, <2>1, <2>2
<1> QED BY <1>2, <1>3

\* Inherited locks are granted; nothing else changes.
LEMMA InheritOrderly ==
    ASSUME NEW locks, NEW arcs, Orderly(locks, arcs),
           NEW op \in Operations, op.type # "Commit"
    PROVE  Orderly(Inherit(locks, op), arcs)
<1> DEFINE L == Inherit(locks, op)
<1>1. Known(Tids, L, arcs) BY InheritKnown DEF Orderly
<1>2. locks \subseteq L BY DEF Inherit
<1>3. \A l \in L : l \in locks \/ l.req_status = "Granted" BY DEF Inherit, NewLock
<1> HIDE DEF L
<1>4. Requests(L) \subseteq locks BY <1>3 DEF Requests
<1>5. Orderly(L, arcs) BY <1>1, <1>2, <1>4, OrderlyChange
<1> QED BY <1>5 DEF L

LEMMA CommitOrderly ==
    ASSUME NEW locks, NEW arcs, Orderly(locks, arcs), NEW tid,
           NEW o, o = TryToCommit(locks, arcs, tid)
    PROVE  Orderly(o.tuples, o.arcs)
<1> DEFINE retried == {l \in GetTransactionLocks(locks, tid) :
                      l.req_lock_type = "Certify" /\ l.req_status = "Converting"}
           reset(l) == [l EXCEPT !.req_lock_type = "Write", !.req_status = "Granted"]
           L == (locks \ retried) \cup {reset(l) : l \in retried}
           W == {l \in GetTransactionLocks(L, tid) :
               l.req_lock_type = "Write" /\ l.req_status = "Granted"}
<1>1. retried \subseteq locks BY DEF GetTransactionLocks
<1>2. ASSUME NEW l \in retried
      PROVE  /\ IsLockInfoTuple(reset(l)) /\ reset(l).req_tid = l.req_tid
             /\ reset(l).req_status = "Granted"
    <2>1. IsLockInfoTuple(l) BY <1>1 DEF Orderly, Known
    <2>2. "Granted" \in ReqStatus /\ "Write" \in LockType BY DEF ReqStatus, LockType
    <2>3. IsLockInfoTuple(reset(l)) /\ reset(l).req_tid = l.req_tid
        BY <2>1, <2>2, ChangedLock
    <2>4. reset(l).req_status = "Granted" BY <2>1 DEF IsLockInfoTuple
    <2> QED BY <2>3, <2>4
<1>3. Orderly(L, arcs)
    <2> HIDE DEF retried, reset
    <2>1. Known(Tids, L, arcs) BY <1>1, <1>2 DEF Orderly, Known
    <2>2. Requests(L) \subseteq locks BY <1>2 DEF Requests
    <2>3. \A l \in locks : \E m \in L :
             m.req_tid = l.req_tid /\ (l.req_status # "Waiting" => m.req_status # "Waiting")
        BY <1>2
    <2> HIDE DEF L
    <2> QED BY <2>1, <2>2, <2>3, OrderlyChange
<1>4. W \subseteq L BY DEF GetTransactionLocks
<1>5. o = TryToConvertLocks(L, arcs, W) BY DEF TryToCommit
<1> QED BY <1>3, <1>4, <1>5, ConvertOrderly

LEMMA CanBeScheduledOrderly ==
    ASSUME NEW locks, NEW arcs, Orderly(locks, arcs),
           NEW op \in Operations, NEW o \in CanBeScheduled(op, locks, arcs)
    PROVE  Orderly(o.tuples, o.arcs)
<1>1. op.type \in {"Read", "Write", "Commit", "UpdateLock"} /\ op.tid \in Tids
    BY DEF Operations
<1> DEFINE L == Inherit(locks, op)
           new(type) == NewLock(L, op, op.tid, "Granted", type)
<1>2. CASE op.type = "Commit"
    <2>1. o = TryToCommit(locks, arcs, op.tid) BY <1>2 DEF CanBeScheduled
    <2> QED BY <2>1, CommitOrderly
<1>3. CASE op.type # "Commit"
    <2>1. Orderly(L, arcs) BY <1>3, InheritOrderly
    <2>2. \A type \in {"Read", "Write"} :
             IsLockInfoTuple(new(type)) /\ new(type).req_status = "Granted"
        <3>1. "Granted" \in ReqStatus /\ {"Read", "Write"} \subseteq LockType
            BY DEF ReqStatus, LockType
        <3>2. \A type \in {"Read", "Write"} : IsLockInfoTuple(new(type))
            BY <1>1, <1>3, <3>1, NewLockKnown
        <3> QED BY <3>2 DEF NewLock
    <2>3. \/ o \in TryToReadLock(L, arcs, new("Read"))
          \/ o \in TryToWriteLock(L, arcs, new("Write"))
          \/ o = Outcome(FALSE, L, arcs)
        BY <1>1, <1>3 DEF CanBeScheduled
    <2> HIDE DEF L, new
    <2>4. CASE o = Outcome(FALSE, L, arcs) BY <2>1, <2>4 DEF Outcome
    <2>5. CASE o \in TryToReadLock(L, arcs, new("Read"))
        BY <2>1, <2>2, <2>5, TryToLockOrderly
    <2>6. CASE o \in TryToWriteLock(L, arcs, new("Write"))
        BY <2>1, <2>2, <2>6, TryToLockOrderly
    <2> QED BY <2>3, <2>4, <2>5, <2>6
<1> QED BY <1>2, <1>3

-----------------------------------------------------------------------------
(* Readers and certifiers of one resource, when every resource is a         *)
(* database: then no lock is inherited.                                     *)

FlatOps(s) == \A op \in Elems(s) : Len(op.path) <= 1

\* ReadersExcludeCertifiers of any table.  A commit that fails leaves a write
\* lock Converting, never a certify lock: otherwise the next commit would turn
\* it into a granted write lock before it looks for readers.
Exclusive(locks) ==
    /\ \A l \in locks : l.req_lock_type = "Certify" => l.req_status # "Converting"
    /\ \A l, m \in locks :
          /\ l.req_status = "Granted" /\ l.req_lock_type = "Read"
          /\ m.req_status = "Granted" /\ m.req_lock_type = "Certify"
          /\ l.rsc_id = m.rsc_id
          => l.req_tid = m.req_tid

\* Without ascendants there is nothing to inherit.
LEMMA FlatInherit ==
    ASSUME NEW op \in Operations, Len(op.path) <= 1, NEW locks
    PROVE  Inherit(locks, op) = locks
<1>1. Len(op.path) \in Nat
    <2>1. op.path = <<>> \/ op.path \in Paths BY DEF Operations
    <2>2. ASSUME op.path \in Paths PROVE Len(op.path) \in Nat
        <3>1. PICK n \in 1..4 : op.path \in [1..n -> RscIds] BY <2>2 DEF Paths, MaxDepth
        <3> QED BY <3>1
    <2> QED BY <2>1, <2>2
<1>2. 1..Len(op.path) - 1 = {} BY <1>1
<1>3. Ascendants(op) = {} BY <1>2 DEF Ascendants
<1> QED BY <1>3 DEF Inherit

\* Conversions: a read lock becomes a write lock, and a write lock a certify
\* lock only when nobody else reads.
LEMMA ConvertExclusive ==
    ASSUME NEW X, NEW locks, NEW arcs, Known(X, locks, arcs), Exclusive(locks),
           NEW convert \in SUBSET locks,
           \A l \in convert : l.req_lock_type \in {"Read", "Write"},
           NEW o, o = TryToConvertLocks(locks, arcs, convert)
    PROVE  Exclusive(o.tuples)
<1>1. o.tuples = (locks \ convert) \cup {Converted(locks, l) : l \in convert}
    BY DEF TryToConvertLocks, Outcome
<1>2. ASSUME NEW l \in convert
      PROVE  /\ Converted(locks, l).req_tid = l.req_tid
             /\ Converted(locks, l).rsc_id = l.rsc_id
             /\ \/ /\ ConvertRivals(locks, l) = {}
                   /\ Converted(locks, l).req_lock_type = Stronger(l.req_lock_type)
                   /\ Converted(locks, l).req_status = "Granted"
                \/ /\ Converted(locks, l).req_lock_type = l.req_lock_type
                   /\ Converted(locks, l).req_status = "Converting"
    <2>1. IsLockInfoTuple(l) BY DEF Known
    <2> QED BY <2>1 DEF Converted, IsLockInfoTuple
<1>3. ASSUME NEW l \in o.tuples, l.req_lock_type = "Read", l.req_status = "Granted"
      PROVE  l \in locks
    BY <1>1, <1>2, <1>3 DEF Stronger
<1>4. ASSUME NEW l \in o.tuples, l.req_lock_type = "Certify", l \notin locks
      PROVE  /\ l.req_status = "Granted"
             /\ \A m \in o.tuples : /\ m.req_lock_type = "Read"
                                    /\ m.req_status = "Granted"
                                    /\ m.rsc_id = l.rsc_id
                                    => m.req_tid = l.req_tid
    <2>1. PICK k \in convert : l = Converted(locks, k) BY <1>1, <1>4
    <2>2. k.req_lock_type = "Write" /\ ConvertRivals(locks, k) = {}
            /\ l.req_status = "Granted" /\ l.req_tid = k.req_tid /\ l.rsc_id = k.rsc_id
        BY <1>2, <1>4, <2>1 DEF Stronger
    <2>3. \A m \in locks : /\ m.req_lock_type = "Read"
                           /\ m.req_status = "Granted"
                           /\ m.rsc_id = k.rsc_id
                           => m.req_tid = k.req_tid
        BY <2>2 DEF ConvertRivals, GetRscLocks
    <2> QED BY <1>3, <2>2, <2>3
<1>5. ASSUME NEW l \in o.tuples, l.req_lock_type = "Read", l \notin locks
      PROVE  l.req_status = "Converting"
    BY <1>1, <1>2, <1>5 DEF Stronger
<1> QED BY <1>3, <1>4, <1>5 DEF Exclusive

\* A lock is granted to a reader when nobody else certifies; what else may be
\* granted instead is a write lock of its transaction.
LEMMA GrantExclusive ==
    ASSUME NEW X, NEW locks, NEW arcs, Known(X, locks, arcs), Exclusive(locks),
           NEW new, new.req_lock_type \in {"Read", "Write"},
           new.req_lock_type = "Read" =>
              \A m \in locks : /\ m.req_lock_type = "Certify"
                               /\ m.req_status = "Granted"
                               /\ m.rsc_id = new.rsc_id
                               => m.req_tid = new.req_tid,
           NEW o \in Grant(locks, arcs, new)
    PROVE  Exclusive(o.tuples)
<1> DEFINE granted(l) == [l EXCEPT !.req_status = "Granted"]
           own == {l \in GetTransactionLocks(locks, new.req_tid) : l.rsc_id = new.rsc_id}
<1>1. \/ o.tuples = locks
      \/ o.tuples = locks \cup {new}
      \/ \E l \in own :
            /\ o.tuples = Replace(locks, l, granted(l))
            /\ \/ l.req_lock_type = new.req_lock_type
               \/ /\ l.req_lock_type = Stronger(new.req_lock_type)
                  /\ l.req_status = "Converting"
    BY DEF Grant, Outcome
<1>2. own \subseteq locks /\ \A l \in own : l.req_tid = new.req_tid /\ l.rsc_id = new.rsc_id
    BY DEF GetTransactionLocks
<1> HIDE DEF own
<1>3. CASE o.tuples = locks BY <1>3
<1>4. CASE o.tuples = locks \cup {new}
    <2> HIDE DEF granted
    <2> QED BY <1>4 DEF Exclusive
<1>5. ASSUME NEW l \in own,
             o.tuples = Replace(locks, l, granted(l)),
             \/ l.req_lock_type = new.req_lock_type
             \/ /\ l.req_lock_type = Stronger(new.req_lock_type)
                /\ l.req_status = "Converting"
      PROVE  Exclusive(o.tuples)
    <2>1. IsLockInfoTuple(l) BY <1>2 DEF Known
    <2>2. /\ granted(l).req_lock_type = l.req_lock_type
          /\ granted(l).req_tid = new.req_tid /\ granted(l).rsc_id = new.rsc_id
        BY <1>2, <2>1 DEF IsLockInfoTuple
    <2>3. o.tuples = (locks \ {l}) \cup {granted(l)} BY <1>5 DEF Replace
    <2>4. l.req_lock_type # "Certify" BY <1>2, <1>5 DEF Exclusive
    <2>5. l.req_lock_type \in {"Read", "Write"} BY <1>5, <2>4 DEF Stronger
    <2>6. l.req_lock_type = "Read" => new.req_lock_type = "Read" BY <1>5 DEF Stronger
    <2> HIDE DEF granted
    <2> QED BY <2>2, <2>3, <2>5, <2>6 DEF Exclusive
<1> QED BY <1>1, <1>3, <1>4, <1>5

LEMMA TryToLockExclusive ==
    ASSUME NEW X, NEW locks, NEW arcs, Known(X, locks, arcs), Exclusive(locks),
           NEW new, new.req_lock_type \in {"Read", "Write"}, IsLockInfoTuple(new),
           NEW o \in IF new.req_lock_type = "Read" THEN TryToReadLock(locks, arcs, new)
                                                   ELSE TryToWriteLock(locks, arcs, new)
    PROVE  Exclusive(o.tuples)
<1>1. ASSUME NEW rivals, rivals # {}, o \in TryToLock(locks, arcs, new, rivals)
      PROVE  Exclusive(o.tuples)
    <2> DEFINE n == [new EXCEPT !.req_status = "Waiting"]
    <2>1. o.tuples = locks \/ o.tuples = locks \cup {n}
        BY <1>1 DEF TryToLock, Wait, Outcome
    <2>2. n.req_status = "Waiting" BY DEF IsLockInfoTuple
    <2> HIDE DEF n
    <2> QED BY <2>1, <2>2 DEF Exclusive
<1>2. CASE new.req_lock_type = "Read"
    <2> DEFINE rivals == {l \in GetRscLocks(locks, new.rsc_id, {"Certify", "ICertify"}) :
                             l.req_tid # new.req_tid /\ l.req_status = "Granted"}
    <2>1. o = Outcome(TRUE, locks, arcs) \/ o \in TryToLock(locks, arcs, new, rivals)
        BY <1>2 DEF TryToReadLock
    <2>2. ASSUME rivals = {}
          PROVE  \A m \in locks : /\ m.req_lock_type = "Certify"
                                  /\ m.req_status = "Granted"
                                  /\ m.rsc_id = new.rsc_id
                                  => m.req_tid = new.req_tid
        BY <2>2 DEF GetRscLocks
    <2> HIDE DEF rivals
    <2>3. CASE rivals = {} /\ o \in TryToLock(locks, arcs, new, rivals)
        <3>1. o \in Grant(locks, arcs, new) BY <2>3 DEF TryToLock
        <3> QED BY <2>2, <2>3, <3>1, GrantExclusive
    <2> QED BY <1>1, <2>1, <2>3 DEF Outcome
<1>3. CASE new.req_lock_type = "Write"
    <2>1. \/ \E l \in locks : /\ l.req_lock_type = "Read"
                              /\ o = TryToConvertLocks(locks, arcs, {l})
          \/ \E rivals : o \in TryToLock(locks, arcs, new, rivals)
        BY <1>3 DEF TryToWriteLock, GetRscLocks
    <2>2. ASSUME NEW l \in locks, l.req_lock_type = "Read",
                 o = TryToConvertLocks(locks, arcs, {l})
          PROVE  Exclusive(o.tuples)
        <3>1. {l} \in SUBSET locks OBVIOUS
        <3>2. \A k \in {l} : k.req_lock_type \in {"Read", "Write"} BY <2>2
        <3> HIDE DEF Known, Exclusive
        <3> QED BY <2>2, <3>1, <3>2, ConvertExclusive
    <2>3. ASSUME o \in TryToLock(locks, arcs, new, {}) PROVE Exclusive(o.tuples)
        <3>1. o \in Grant(locks, arcs, new) BY <2>3 DEF TryToLock
        <3> QED BY <1>3, <3>1, GrantExclusive
    <2> QED BY <1>1, <2>1, <2>2, <2>3
<1> QED BY <1>2, <1>3

LEMMA CanBeScheduledExclusive ==
    ASSUME NEW X, NEW locks, NEW arcs, Known(X, locks, arcs), Exclusive(locks),
           NEW op \in Operations, Len(op.path) <= 1,
           NEW o \in CanBeScheduled(op, locks, arcs)
    PROVE  Exclusive(o.tuples)
<1>1. op.type \in {"Read", "Write", "Commit", "UpdateLock"} /\ op.tid \in Tids
    BY DEF Operations
<1> DEFINE new(type) == NewLock(locks, op, op.tid, "Granted", type)
<1>2. CASE op.type = "Commit"
    <2> DEFINE retried == {l \in GetTransactionLocks(locks, op.tid) :
                      l.req_lock_type = "Certify" /\ l.req_status = "Converting"}
               W == {l \in GetTransactionLocks(locks, op.tid) :
                       l.req_lock_type = "Write" /\ l.req_status = "Granted"}
    <2>1. retried = {} BY DEF Exclusive, GetTransactionLocks
    <2>2. o = TryToConvertLocks(locks, arcs, W)
        BY <1>2, <2>1 DEF CanBeScheduled, TryToCommit
    <2>3. W \in SUBSET locks /\ \A l \in W : l.req_lock_type \in {"Read", "Write"}
        BY DEF GetTransactionLocks
    <2> QED BY <2>2, <2>3, ConvertExclusive
<1>3. CASE op.type # "Commit"
    <2>1. \A type \in {"Read", "Write"} :
             IsLockInfoTuple(new(type)) /\ new(type).req_lock_type = type
        <3>1. "Granted" \in ReqStatus /\ {"Read", "Write"} \subseteq LockType
            BY DEF ReqStatus, LockType
        <3> QED BY <1>1, <1>3, <3>1, NewLockKnown DEF NewLock
    <2>2. Inherit(locks, op) = locks BY FlatInherit
    <2>3. \/ o \in TryToReadLock(locks, arcs, new("Read"))
          \/ o \in TryToWriteLock(locks, arcs, new("Write"))
          \/ o = Outcome(FALSE, locks, arcs)
        BY <1>1, <1>3, <2>2 DEF CanBeScheduled
    <2> HIDE DEF new
    <2>4. CASE o = Outcome(FALSE, locks, arcs) BY <2>4 DEF Outcome
    <2>5. CASE o \in TryToReadLock(locks, arcs, new("Read"))
        BY <2>1, <2>5, TryToLockExclusive
    <2>6. CASE o \in TryToWriteLock(locks, arcs, new("Write"))
        BY <2>1, <2>6, TryToLockExclusive
    <2> QED BY <2>3, <2>4, <2>5, <2>6
<1> QED BY <1>2, <1>3

-----------------------------------------------------------------------------
(* Who may wait for whom.                                                   *)

\* Each lock is of a transaction that has business with the resource, and the
\* two transactions of each arc both have, with one resource: B is the set of
\* the pairs of a transaction and a resource it has business with.
Justified(B, locks, arcs) ==
    /\ \A l \in locks : <<l.req_tid, l.rsc_id>> \in B
    /\ \A a \in arcs : \E r : <<a[1], r>> \in B /\ <<a[2], r>> \in B

\* Whoever has business with an ascendant of the operation's resource, and the
\* transaction of the operation itself, have business with the resource.
Allows(B, op) ==
    op.type # "Commit" =>
        /\ <<op.tid, GetResource(op)>> \in B
        /\ \A t, r : r \in Ascendants(op) /\ <<t, r>> \in B => <<t, GetResource(op)>> \in B

\* Locks on one resource justify arcs between their owners.
LEMMA ArcsJustified ==
    ASSUME NEW B, NEW t, NEW r, <<t, r>> \in B,
           NEW rivals, \A m \in rivals : <<m.req_tid, m.rsc_id>> \in B /\ m.rsc_id = r,
           NEW a \in {t} \X Owners(rivals)
    PROVE  \E s : <<a[1], s>> \in B /\ <<a[2], s>> \in B
<1>1. a[1] = t /\ a[2] \in Owners(rivals) OBVIOUS
<1>2. PICK m \in rivals : a[2] = m.req_tid BY <1>1 DEF Owners
<1>3. <<a[2], r>> \in B BY <1>2
<1> QED BY <1>1, <1>3

LEMMA ConvertJustified ==
    ASSUME NEW X, NEW B, NEW locks, NEW arcs, Known(X, locks, arcs), Justified(B, locks, arcs),
           NEW convert \in SUBSET locks, NEW o, o = TryToConvertLocks(locks, arcs, convert)
    PROVE  Justified(B, o.tuples, o.arcs)
<1>1. o.tuples = (locks \ convert) \cup {Converted(locks, l) : l \in convert}
    BY DEF TryToConvertLocks, Outcome
<1>2. o.arcs = arcs \cup UNION {{l.req_tid} \X Owners(ConvertRivals(locks, l)) : l \in convert}
    BY DEF TryToConvertLocks, Outcome
<1>3. ASSUME NEW l \in convert
      PROVE  Converted(locks, l).req_tid = l.req_tid /\ Converted(locks, l).rsc_id = l.rsc_id
    <2>1. IsLockInfoTuple(l) BY DEF Known
    <2> QED BY <2>1 DEF Converted, IsLockInfoTuple
<1>4. \A l \in o.tuples : <<l.req_tid, l.rsc_id>> \in B BY <1>1, <1>3 DEF Justified
<1>5. ASSUME NEW l \in convert, NEW a \in {l.req_tid} \X Owners(ConvertRivals(locks, l))
      PROVE  \E r : <<a[1], r>> \in B /\ <<a[2], r>> \in B
    <2>1. \A m \in ConvertRivals(locks, l) : m \in locks /\ m.rsc_id = l.rsc_id
        BY DEF ConvertRivals, GetRscLocks
    <2>2. \A m \in locks : <<m.req_tid, m.rsc_id>> \in B BY DEF Justified
    <2> QED BY <2>1, <2>2, ArcsJustified
<1>6. \A a \in o.arcs : \E r : <<a[1], r>> \in B /\ <<a[2], r>> \in B
    BY <1>2, <1>5 DEF Justified
<1> QED BY <1>4, <1>6 DEF Justified

LEMMA GrantJustified ==
    ASSUME NEW X, NEW B, NEW locks, NEW arcs, Known(X, locks, arcs), Justified(B, locks, arcs),
           NEW new, <<new.req_tid, new.rsc_id>> \in B, NEW o \in Grant(locks, arcs, new)
    PROVE  Justified(B, o.tuples, o.arcs)
<1> DEFINE granted(l) == [l EXCEPT !.req_status = "Granted"]
<1>1. /\ o.arcs = arcs
      /\ \/ o.tuples = locks
         \/ o.tuples = locks \cup {new}
         \/ \E l \in locks : o.tuples = Replace(locks, l, granted(l))
    BY DEF Grant, Outcome, GetTransactionLocks
<1>2. ASSUME NEW l \in locks PROVE <<granted(l).req_tid, granted(l).rsc_id>> \in B
    <2>1. IsLockInfoTuple(l) BY DEF Known
    <2>2. granted(l).req_tid = l.req_tid /\ granted(l).rsc_id = l.rsc_id
        BY <2>1 DEF IsLockInfoTuple
    <2> QED BY <2>2 DEF Justified
<1> HIDE DEF granted
<1> QED BY <1>1, <1>2 DEF Justified, Replace

LEMMA WaitJustified ==
    ASSUME NEW B, NEW locks, NEW arcs, Justified(B, locks, arcs),
           NEW new, IsLockInfoTuple(new), <<new.req_tid, new.rsc_id>> \in B,
           NEW rivals \in SUBSET locks, \A m \in rivals : m.rsc_id = new.rsc_id,
           NEW o, o = Wait(locks, arcs, new, rivals)
    PROVE  Justified(B, o.tuples, o.arcs)
<1> DEFINE request == [new EXCEPT !.req_status = "Waiting"]
<1>1. /\ o.arcs = arcs \cup ({new.req_tid} \X Owners(rivals))
      /\ o.tuples = locks \/ o.tuples = locks \cup {request}
    BY DEF Wait, Outcome, AddArcs
<1>2. request.req_tid = new.req_tid /\ request.rsc_id = new.rsc_id
    BY DEF IsLockInfoTuple
<1> HIDE DEF request
<1>3. \A l \in o.tuples : <<l.req_tid, l.rsc_id>> \in B BY <1>1, <1>2 DEF Justified
<1>4. \A a \in {new.req_tid} \X Owners(rivals) : \E r : <<a[1], r>> \in B /\ <<a[2], r>> \in B
    <2>1. \A m \in rivals : <<m.req_tid, m.rsc_id>> \in B /\ m.rsc_id = new.rsc_id
        BY DEF Justified
    <2> QED BY <2>1, ArcsJustified
<1> QED BY <1>1, <1>3, <1>4 DEF Justified

LEMMA TryToLockJustified ==
    ASSUME NEW X, NEW B, NEW locks, NEW arcs, Known(X, locks, arcs), Justified(B, locks, arcs),
           NEW new, IsLockInfoTuple(new), <<new.req_tid, new.rsc_id>> \in B,
           NEW o \in TryToReadLock(locks, arcs, new) \cup TryToWriteLock(locks, arcs, new)
    PROVE  Justified(B, o.tuples, o.arcs)
<1>1. ASSUME NEW rivals \in SUBSET locks, \A m \in rivals : m.rsc_id = new.rsc_id,
             o \in TryToLock(locks, arcs, new, rivals)
      PROVE  Justified(B, o.tuples, o.arcs)
    <2>1. CASE rivals = {} BY <1>1, <2>1, GrantJustified DEF TryToLock
    <2>2. CASE rivals # {} BY <1>1, <2>2, WaitJustified DEF TryToLock
    <2> QED BY <2>1, <2>2
<1>2. CASE o \in TryToReadLock(locks, arcs, new)
    <2>1. \/ o = Outcome(TRUE, locks, arcs)
          \/ \E rivals \in SUBSET locks : /\ \A m \in rivals : m.rsc_id = new.rsc_id
                                          /\ o \in TryToLock(locks, arcs, new, rivals)
        BY <1>2 DEF TryToReadLock, GetRscLocks
    <2> QED BY <1>1, <2>1 DEF Outcome
<1>3. CASE o \in TryToWriteLock(locks, arcs, new)
    <2>1. \/ \E l \in locks : o = TryToConvertLocks(locks, arcs, {l})
          \/ \E rivals \in SUBSET locks : /\ \A m \in rivals : m.rsc_id = new.rsc_id
                                          /\ o \in TryToLock(locks, arcs, new, rivals)
        BY <1>3 DEF TryToWriteLock, GetRscLocks
    <2>2. ASSUME NEW l \in locks, o = TryToConvertLocks(locks, arcs, {l})
          PROVE  Justified(B, o.tuples, o.arcs)
        <3>1. {l} \in SUBSET locks OBVIOUS
        <3> HIDE DEF Known, Justified
        <3> QED BY <2>2, <3>1, ConvertJustified
    <2> QED BY <1>1, <2>1, <2>2
<1> QED BY <1>2, <1>3

\* An inherited lock is on the operation's resource, and its owner has one on an
\* ascendant.
LEMMA InheritJustified ==
    ASSUME NEW B, NEW locks, NEW arcs, Justified(B, locks, arcs),
           NEW op, op.type # "Commit", Allows(B, op)
    PROVE  Justified(B, Inherit(locks, op), arcs)
<1> SUFFICES ASSUME NEW l \in Inherit(locks, op) PROVE <<l.req_tid, l.rsc_id>> \in B
    BY DEF Justified
<1>1. l \in locks
        \/ \E a \in locks :
              /\ a.rsc_id \in Ascendants(op)
              /\ l = NewLock(locks, op, a.req_tid, "Granted", a.req_lock_type)
    BY DEF Inherit, GetRscLocks
<1>2. CASE l \in locks BY <1>2 DEF Justified
<1>3. ASSUME NEW a \in locks, a.rsc_id \in Ascendants(op),
             l = NewLock(locks, op, a.req_tid, "Granted", a.req_lock_type)
      PROVE  <<l.req_tid, l.rsc_id>> \in B
    <2>1. <<a.req_tid, GetResource(op)>> \in B BY <1>3 DEF Justified, Allows
    <2>2. l.req_tid = a.req_tid /\ l.rsc_id = GetResource(op) BY <1>3 DEF NewLock
    <2> QED BY <2>1, <2>2
<1> QED BY <1>1, <1>2, <1>3

LEMMA CommitJustified ==
    ASSUME NEW X, NEW B, NEW locks, NEW arcs, Known(X, locks, arcs), Justified(B, locks, arcs),
           NEW tid, NEW o, o = TryToCommit(locks, arcs, tid)
    PROVE  Justified(B, o.tuples, o.arcs)
<1> DEFINE retried == {l \in GetTransactionLocks(locks, tid) :
                      l.req_lock_type = "Certify" /\ l.req_status = "Converting"}
           reset(l) == [l EXCEPT !.req_lock_type = "Write", !.req_status = "Granted"]
           L == (locks \ retried) \cup {reset(l) : l \in retried}
           W == {l \in GetTransactionLocks(L, tid) :
               l.req_lock_type = "Write" /\ l.req_status = "Granted"}
<1>1. retried \subseteq locks BY DEF GetTransactionLocks
<1>2. ASSUME NEW l \in retried
      PROVE  /\ IsLockInfoTuple(reset(l))
             /\ reset(l).req_tid = l.req_tid /\ reset(l).rsc_id = l.rsc_id
    <2>1. IsLockInfoTuple(l) BY <1>1 DEF Known
    <2>2. "Granted" \in ReqStatus /\ "Write" \in LockType BY DEF ReqStatus, LockType
    <2>3. IsLockInfoTuple(reset(l)) /\ reset(l).req_tid = l.req_tid
        BY <2>1, <2>2, ChangedLock
    <2>4. reset(l).rsc_id = l.rsc_id BY <2>1 DEF IsLockInfoTuple
    <2> QED BY <2>3, <2>4
<1> HIDE DEF retried, reset
<1>3. Known(X, L, arcs) BY <1>1, <1>2 DEF Known
<1>4. Justified(B, L, arcs) BY <1>1, <1>2 DEF Justified
<1>5. W \in SUBSET L BY DEF GetTransactionLocks
<1>6. o = TryToConvertLocks(L, arcs, W) BY DEF TryToCommit, retried, reset
<1> HIDE DEF L, W
<1> QED BY <1>3, <1>4, <1>5, <1>6, ConvertJustified

LEMMA CanBeScheduledJustified ==
    ASSUME NEW X, NEW B, NEW locks, NEW arcs, Known(X, locks, arcs), Justified(B, locks, arcs),
           NEW op \in Operations, Allows(B, op),
           NEW o \in CanBeScheduled(op, locks, arcs), op.tid \in X
    PROVE  Justified(B, o.tuples, o.arcs)
<1>1. op.type \in {"Read", "Write", "Commit", "UpdateLock"} /\ op.tid \in Tids
    BY DEF Operations
<1> DEFINE L == Inherit(locks, op)
           new(type) == NewLock(L, op, op.tid, "Granted", type)
<1>2. CASE op.type = "Commit"
    <2>1. o = TryToCommit(locks, arcs, op.tid) BY <1>2 DEF CanBeScheduled
    <2> QED BY <2>1, CommitJustified
<1>3. CASE op.type # "Commit"
    <2>1. Known(X, L, arcs) BY <1>3, InheritKnown
    <2>2. Justified(B, L, arcs) BY <1>3, InheritJustified
    <2>3. \A type \in {"Read", "Write"} :
             IsLockInfoTuple(new(type)) /\ <<new(type).req_tid, new(type).rsc_id>> \in B
        <3>1. "Granted" \in ReqStatus /\ {"Read", "Write"} \subseteq LockType
            BY DEF ReqStatus, LockType
        <3>2. \A type : new(type).req_tid = op.tid /\ new(type).rsc_id = GetResource(op)
            BY DEF NewLock
        <3>3. <<op.tid, GetResource(op)>> \in B BY <1>3 DEF Allows
        <3>4. \A type \in {"Read", "Write"} : IsLockInfoTuple(new(type))
            BY <1>1, <1>3, <3>1, NewLockKnown
        <3> HIDE DEF new
        <3> QED BY <3>2, <3>3, <3>4
    <2>4. \/ o \in TryToReadLock(L, arcs, new("Read"))
          \/ o \in TryToWriteLock(L, arcs, new("Write"))
          \/ o = Outcome(FALSE, L, arcs)
        BY <1>1, <1>3 DEF CanBeScheduled
    <2> HIDE DEF L, new
    <2>5. CASE o = Outcome(FALSE, L, arcs) BY <2>2, <2>5 DEF Outcome
    <2>6. CASE o \in TryToReadLock(L, arcs, new("Read"))
        BY <2>1, <2>2, <2>3, <2>6, TryToLockJustified
    <2>7. CASE o \in TryToWriteLock(L, arcs, new("Write"))
        BY <2>1, <2>2, <2>3, <2>7, TryToLockJustified
    <2> QED BY <2>4, <2>5, <2>6, <2>7
<1> QED BY <1>2, <1>3
=============================================================================
