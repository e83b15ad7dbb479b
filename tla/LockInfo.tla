------------------------------- MODULE LockInfo -------------------------------
(***************************************************************************)
(* The lock table (lockinfo.cpp).  The C++ map from lock id to lock is a   *)
(* set of records here, each with its id.  A query is the subset of the    *)
(* table it returns; its order is the order of an unordered_map, so code   *)
(* that takes the first match takes any of them.                           *)
(***************************************************************************)
EXTENDS Operation

LockType == {"Read", "Write", "Certify", "Update",
             "IRead", "IWrite", "ICertify", "IUpdate"}
ReqStatus == {"Granted", "Converting", "Waiting"}

\* The id of a lock is opaque: only its uniqueness matters.
IsLockInfoTuple(l) ==
    l \in [id : {l.id}, db_id : RscIds, rsc_id : RscIds, rsc_type : RscType,
           req_tid : Tids, req_status : ReqStatus, req_lock_type : LockType]

\* The counter behind the ids is folded to the least stamp no lock carries:
\* ids stay unique in the table and the counter adds no states.  One call of
\* the scheduler makes at most one lock per transaction and type from a stamp.
FreshStamp(tuples) ==
    CHOOSE n \in 0..Cardinality(tuples) : \A l \in tuples : l.id[1] # n

NewLock(tuples, op, tid, status, type) ==
    [id |-> <<FreshStamp(tuples), tid, type>>,
     db_id |-> GetDatabase(op), rsc_id |-> GetResource(op),
     rsc_type |-> GetRscType(op), req_tid |-> tid,
     req_status |-> status, req_lock_type |-> type]

\* Locks are found by the bare resource id: neither the database nor the
\* level of the resource is compared.
GetRscLocks(tuples, rsc, types) ==
    {l \in tuples : l.rsc_id = rsc /\ l.req_lock_type \in types}
GetTransactionLocks(tuples, tid) == {l \in tuples : l.req_tid = tid}
\* Mutant: only the granted locks are released.
RmGrantedLocks(tuples, tid) ==
    {l \in tuples : l.req_tid = tid => l.req_status # "Granted"}
RmTransactionLocks(tuples, tid) == {l \in tuples : l.req_tid # tid}

Owners(locks) == {l.req_tid : l \in locks}

\* Change a lock in place.
Replace(tuples, l, m) == (tuples \ {l}) \cup {m}
=============================================================================
