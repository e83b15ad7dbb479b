# TLA+ models of Chronista

Chronista reads a schedule (operations of several transactions, one per line),
runs it through a two-version two-phase-locking (2V2PL) scheduler and prints
the schedule it makes of it, followed by the transactions it takes for aborted.
It is one sequential C++ program. What makes it hard is not threads but the
interplay of four pieces of mutable state (lock table, wait-for graph, waiting
list, chronology) that every step of two nested loops changes, while a deadlock
may cancel a transaction in the middle of either loop and send both of them
back to the start.

Paths below are relative to the repository.

## Inventory

| component | state | operations | talks to |
|---|---|---|---|
| Scheduler (`src/chronista/2v2pl.cpp`) | `operations`, `waiting_list`, `final_operations`, `chronology`, `waiting_transactions`, the iterators `it` and `it_wl` | `schedule`, `can_be_scheduled`, `try_to_lock`, `try_to_convert_lock`, `abort_transaction` | owns a lock table and a wait-for graph and calls both on every attempt; asks the schedule for a victim |
| Lock table (`src/chronista/lockinfo.cpp`) | a map from lock id to lock; the counter of ids | `add`, `get_rsc_locks`, `get_transaction_locks`, `get_lock`, `rm_transaction_locks`; locks are changed in place through shared pointers | called by the scheduler |
| Wait-for graph (`src/chronista/waitfor.cpp`) | one adjacency list per transaction | `add_node`, `add_arc`, `remove_node`, `remove_arc`, `find_deadlock_nodes` | called by the scheduler |
| Schedule (`src/chronista/schedule.cpp`) | the vector of operations, the list of transaction ids | `parse`, `add`, `remove_most_recent_transaction` | called by the scheduler and the command line |
| Operation (`src/chronista/operation.cpp`) | kind, transaction, resource path | the parser of one line | input of everything else |
| Command line (`exe/main.cpp`) | the schedule that was read | options, `handle_trans_input`, `get_aborted_trans`, printing | reads the schedule, calls the scheduler with a copy of it, compares the two |
| Tests, build files, vendored doctest | none | | not modelled |

What is hard, and what makes each component correct:

* **Scheduler.** An operation is tried in the main loop and, if refused, again
  after every other attempt. A try that fails still changes the lock table (a
  waiting request, a `Converting` mark, inherited locks) and the graph (arcs),
  so what a retry finds is what the failures before it left. An abort removes a
  transaction from six places, restarts both loops and keeps everything the
  surviving transactions hold. Correct: nothing of an aborted transaction comes
  back; no operation is lost or doubled; every deadlock is broken by a victim
  that is there to be found; locks granted together are compatible; the loops
  end.
* **Lock table.** Locks are found by the last id of a path alone, and in the
  unspecified order of an `unordered_map`. Correct: one request per transaction,
  resource and type; a release takes all locks of the transaction; locks come
  between transactions only where their operations do (the code keeps this as
  long as no two resources share an id: `WaitersOverlap`, and the run
  `shared_ids`).
* **Wait-for graph.** A depth-first search with parent links, written as one
  loop. Correct: it answers with the nodes of a cycle exactly when there is one,
  and arcs never outlive the locks they were added for.
* **Schedule.** `0` and `-1` both mean "no transaction" on the way through
  `remove_most_recent_transaction`, which also purges the object it is called
  on, by index from the end, while `abort_transaction` purges a vector copied from it
  with an iterator from the front. Correct: a deadlock yields a victim, only it
  leaves the chronology, and the two purges agree.
* **Operation.** A line is matched as a whole and then taken apart by three
  separate scans, for the kind and depth, the path, and the resource. Correct:
  the scans agree, each accepted line is what one would write for the operation,
  and the scheduler gets no path it cannot handle.
* **Command line.** The constructor of an operation may throw in the middle of
  the input. Aborted transactions are inferred from what is missing in the
  output. Correct: all lines are scheduled or none; the report names the aborted
  transactions, all of them and only them (the code names those of which
  everything was left waiting as well: `ReportExplained`); the program ends.

## Modules

| module | models | extends |
|---|---|---|
| `Operation` | parsed operations and their resource paths | |
| `OperationParser` | from the tokens of a line to an operation: the two expressions, the three scans, the exceptions | `Schedule` |
| `LockInfo` | the lock table, as a set of lock records | `Operation` |
| `WaitFor` | what the wait-for graph promises: a set of arcs, and a search that returns the nodes of some cycle | |
| `Schedule` | `Schedule` objects, erasing from vectors, choosing the victim, the report | `Operation` |
| `Measures` | the order in which loops get shorter: tuples of numbers, the most significant first | |
| `Scheduler2V2PL` | the locking protocol and the two loops: the state machine | `LockInfo`, `Schedule`, `WaitFor`, `Measures` |
| `Synchronizer` | what `schedule()` promises its caller, without locks and loops; `Scheduler2V2PL` implements it | `Schedule`, `WaitFor` |
| `Chronista` | the whole program: command line, input, scheduler, report | `Scheduler2V2PL`, `OperationParser` |
| `MCScheduler`, `MCChronista` | inputs and calls for TLC | `Scheduler2V2PL`, `Chronista` |
| `DeadlockSearch` | `WaitFor` as a state machine: arcs change, a search answers with a cycle or with none | `WaitFor` |
| `WaitForGraph` | the graph as the code has it: adjacency lists, and the depth-first search step by step; it implements `DeadlockSearch` | `Measures` |
| `NatLemmas`, `ScheduleProofs` | lemmas about sets of naturals, and about vectors and `Schedule` objects | `Schedule` |
| `LockingProofs` | lemmas about one attempt: the lock table and the graph it leaves | `Scheduler2V2PL` |
| `Scheduler2V2PLProofs` | theorems about the scheduler | `LockingProofs`, `ScheduleProofs` |
| `SynchronizerProofs` | the scheduler implements `Synchronizer` | `Scheduler2V2PLProofs` |
| `ParserProofs` | lemmas about the parser of a line | `OperationParser`, `ScheduleProofs` |
| `ChronistaProofs` | theorems about the whole program | `Chronista`, `Scheduler2V2PLProofs`, `ParserProofs` |
| `WaitForGraphProofs` | the depth-first search implements the abstract one, and ends | `WaitForGraph` |

`Scheduler2V2PL` uses `WaitFor` and not the search itself: every answer
`FindDeadlockNodes` allows may come, and `WaitForGraph` is shown, by TLC and by
proof, to give no other.

### How state and actions correspond to the code

The variables of `Scheduler2V2PL` carry the names of the locals of `schedule()`;
`tuples` is the content of `syslockinfo` and `wait_for` the arcs of
`wait_for_graph`. Iterators are positions, and `end()` is the length plus one.
`incoming_schedule` is the object passed in, by value.
Two variables are not in the code: `pc` says where in `schedule()` the program
is, and `aborted` remembers every argument of `abort_transaction`.

| `pc` | place in `schedule()` | actions |
|---|---|---|
| `main` | the head of the main loop | `Defer` (the transaction is marked as waiting), `ScheduleNext`, `PutNextInWaitingList` (the attempt succeeds or not), `Return` |
| `check` | the deadlock search after the attempt | `ResolveDeadlock`, `StartScan` |
| `scan` | the head of the loop over the waiting list | `ScheduleWaiting`, `KeepWaiting`, `EndScan` |
| `scancheck` | the deadlock search after a failed retry | `ResolveDeadlock`, `ContinueScan` |

A call of `can_be_scheduled` is one operator, `CanBeScheduled`, that yields the
set of its possible outcomes: the answer with the lock table and the arcs it
leaves. There is more than one outcome where the code takes the first match of
an enumeration whose order the standard library leaves open. `Inherit`,
`TryToReadLock`, `TryToWriteLock`, `TryToCommit` and `TryToConvertLocks` are
its parts; `Grant` and `Wait` are the two ends of `try_to_lock`.

`Chronista` puts the program around this. `stage` says how far `main` is:

| `stage` | place in the program | actions |
|---|---|---|
| `start` | `main` looks at its arguments | `OpenInput`, `Help`, `Refuse` |
| `reading` | the loop of `Schedule::parse` | `ReadLine`, `Throw` (the constructor of `Operation` throws, nobody catches), `CallScheduler` |
| `scheduling` | `handle_trans_input` after the input is read | `RunScheduler` (a step of `Scheduler2V2PL`), `Report` |
| `exit0`, `exit1`, `terminated` | the program has ended | |

`Synchronizer` sees five of the scheduler's variables, and the waiting list as a
set. The refinement (`Promise` in `Scheduler2V2PL`) maps `schedule` to
`operations`, `output` to `final_operations`, `seen` to `chronology`, `waits` to
`wait_for`, and `returned` to `pc = "done"`. Retries, arcs that are already
there, and both deadlock searches without a result are stutters or repeat a
`PutOff`. The promise says neither that an operation is put out once nor that
those put off are tried again: the code does not do that (see below).

`WaitForGraph` has the locals of `find_deadlock_nodes` as variables. `pc` is
`idle` between searches, when `AddNode`, `AddArc`, `RemoveNode` and `RemoveArc`
may change the lists, and otherwise says which loop the search is in:

| `pc` | place in `find_deadlock_nodes` | actions |
|---|---|---|
| `roots` | the outer loop over all nodes | `NextRoot`, `NoCycle` |
| `node` | the head of the loop over the stack | `ExploreTop`, `SearchedRoot` |
| `adjacent` | the loop over the neighbours of the node on top | `NextAdjacent` (`SeeVisited`, `SeeUnvisited` or `PassNeighbor`), `LeaveNode` |
| `unwind` | the loop that reads the cycle off the parent links | `Unwind`, `FoundCycle` |
| `answer` | the caller has the answer | `Return` |

The flag `found_cycle` is part of `pc`: when it is set, all loops end. The code
still marks one node as finished then; nothing reads it, so the step is left
out. The order of nodes and of neighbours is open, and duplicates in a list do
not occur, because `add_arc` looks for the target first.

The loops that erase a transaction are modelled where their order could matter.
`EraseFromBack` is the loop by index of `remove_most_recent_transaction`, which is
right only because it goes backwards (its mutant `EraseFromFront` goes forwards).
`Without` stands for the three loops of `abort_transaction`, which advance an
iterator or take the one that `erase` returns, and is given by its result, the
elements kept. `CopyMatches` compares the two, and the ids.

### Abstractions

* The counter behind lock ids is folded to the least stamp that no lock carries
  (`FreshStamp`): ids stay unique in the table, and two states that differ only
  in how many locks were ever made are one. The wrap of the counter at 2^32 is
  out of reach of any schedule that fits in memory beside it.
* `unordered_map` order and the order of adjacency lists are nondeterministic:
  a query is a set, a first match is any match, and a deadlock search may return
  any simple cycle of the graph.
* `NoTid` stands for the `unsigned` 2^32 - 1 that `return -1` produces. No
  operation carries it.
* An `ul` operation is parsed and never granted, as in the code: it waits for
  ever, and its transaction with it.
* A line of input is a sequence of tokens: a run of digits is one token with its
  value, `ul` is one token, every other character its own. Leading zeros are not
  told apart. `IntMax` stands for `INT_MAX`, so that numbers too large for `stoi`
  are in the model; ids are the numbers up to it. A read error looks like the end
  of the input, as it does to `getline`.
* `apply_intention_locks` has no caller and `try_to_lock_old` no body. Neither is
  modelled, so intention types occur in comparisons only, as in the running code.
* What is printed is the operations of the result and the set of aborted
  transactions; the text made of them (`Operation::to_string`,
  `Schedule::to_string`, messages) is left out.

The locking operators were compared with the program itself: for every
interleaving of the two-transaction and three-transaction programs of
`MCScheduler` and further ones of the same shape (10720 flat and 7920
hierarchical schedules), the output the compiled command line prints is among
the outputs the model allows. The traces of the runs `unbroken` and `regranted`
were found in the program first, instrumented and fed with random schedules, and
then reproduced in the model.

## Runs

The inputs are *every* interleaving of a few small programs, one per
transaction; `MCScheduler` lists them. Ids mean nothing to the code beyond being
equal or not (and 0), so inputs that differ by a renaming are taken once: pairs
start with transaction 1 and, when they are flat, with resource `x`; of the
three rotations of the ring and of the two equal programs of `Twins` one is
taken.

Two transactions with two accesses each to two resources give every conflict
pair, both orders of a deadlock and every conversion; three are needed for cycles
of three, for two cycles closed at once, for victims that are not the last to
arrive, and for waiting operations that survive somebody else's abort. The
hierarchical programs use databases with tables and pages, so that locks are
inherited over one level and over two; in a triple among them two transactions
write different tables of a database that the third writes as a whole: they must
not meet, although each meets the third. In each of these schedules an id names
one place, as `WaitersOverlap` needs it; schedules in which ids are shared by
databases and tables are the subject of the run `shared_ids`, and of all theorems
but `WaitersAlwaysOverlap`. `Certifying` keeps a
transaction that has certified one resource and failed on another waiting behind
somebody's read of the first: a failed commit is otherwise retried, and succeeds,
before anybody else is tried. One schedule of five transactions (`Regrant`) takes
a lock through a failed conversion and a stale request. `Terminated` makes
the end of `schedule()` a stutter, so deadlock is checked everywhere.

The run `program` calls the program with every option, one to four words, and a
file that opens or not (no input among them has a deadlock of a transaction 0,
for which there is the run `zero`); with every line that is one token dropped, changed or
added away from five written operations of each kind and depth; with a path of
five ids; and with whole inputs of flat schedules, among them ones that break off
at a bad line. Its ids are 0 to 3, with 3 as `IntMax` and 4 beyond it.

The run `search` goes through every graph of three nodes, loops included, by every
sequence of changes, with a search from each in every order: three nodes have
cycles of each length up to three, cycles beside and behind the root of the
search, and nodes that are finished before a cycle is found.

| run | checks | shows |
|---|---|---|
| `schedules` | `TypeOK`, `AbortedGone`, `HoldersSeen`, `VictimFound`, `NothingLost`, `RepeatsBounded`, `OneRequest`, `ArcsLeadToHolders`, `CopyMatches`, `WaitersOverlap`, `Synchronizes`, `Progresses`, `Termination` | on all inputs, flat and hierarchical, the bookkeeping of the scheduler is consistent, a transaction waits only for one that has an operation on the same resource, above it or below it, whatever is inherited, converted or left behind, each abort repeats an operation at most once more, it keeps the promises of `Synchronizer`, every step leaves less to do, and so aborts restart both loops finitely often |
| `program` | `ProgramTypeOK`, `ReadAsWritten`, `ScansAgree`, `ReportExplained`, `CopyMatches`, `ReadersExcludeCertifiers`, `Exits` | lines become the operations they are written for, or nothing is scheduled; the report names every aborted transaction, those left waiting with nothing in the output, and no other; readers and certifiers exclude each other on flat inputs; the program ends, with every option and number of arguments, on all these inputs |
| `search` | `TypeOK`, `NothingDangles`, `ImplementsSearch`, `SearchProgresses`, `Answers` | the depth-first search is a correct search for a cycle: it follows no missing node or parent, its answers are those of `WaitFor`, every step leaves less to search, and it ends |

The remaining runs each show that the code does not do what its own comments or
README say, with a shortest trace:

| run | property violated | because |
|---|---|---|
| `left_behind` | `NoneLeftSchedulable` | putting off skips the scan of the waiting list, also at the end |
| `certified` | `CommitsCertified` | a commit that could not convert its write lock finds, on retry, nothing to convert and succeeds |
| `locked` | `WritesLocked` | a write upgrades *another* transaction's read lock and gets none itself |
| `duplicates` | `NoDuplicates` | after an abort the survivors' operations are scheduled and output again |
| `committed` | `CommittedReleased` | a commit overtakes waiting operations of its transaction, or a restart replays them: locks after the commit |
| `unbroken` | `NoDeadlockLeft` | one attempt closes two cycles and one abort breaks one of them; the scan that follows searches again only if it refuses something, and the main loop goes on to its next attempt before it does |
| `regranted` | `GrantedCompatible` | a stale read request, granted, turns a write lock that is being converted into a granted one, next to another transaction's |
| `zero` | `VictimFound` | transaction 0 is taken for "none found" |
| `shared_ids` | `WaitersOverlap` | locks are found by a bare id: a write of database 2 keeps a write of table 1.2 waiting |

The inputs of `unbroken` and `regranted` are flat: neither needs a hierarchy. With
one, `GrantedCompatible` and `ReadersExcludeCertifiers` are broken by inheritance
as well (2v2pl.cpp:576 adds inherited locks as granted without looking for
rivals).

Three smaller disagreements have no run. The comment at `src/exe/main.cpp:25-26`
says that the set of transactions is reduced "leaving only the aborted
transations"; those of which everything was left waiting stay in it as well, and
`ReportExplained` says so. `src/tests/chronista/schedule.cpp` calls
`remove_most_recent_transaction` with one argument, which the header no longer
declares; and the examples of `operation.hpp` (`T1: r(a.b.c)`) use letters where
the parser accepts digits only.

### Fairness

`FairSpec` adds `WF_vars(Step)`: one thread runs `schedule()`, nothing in it
waits for anything, so as long as a step is possible one is taken. No stronger
assumption is made: a nondeterministic choice (which cycle, which match) may
always go the worst way. `ProgramSpec` has `WF_allvars(ProgramStep)` for the same
reason; it takes for granted that the input is finite and that whoever writes to
stdin closes it. Likewise `FairSpec` of `WaitForGraph` has
`WF_vars(Search)`: a search that has been called runs, whether or not anybody
ever calls one or changes the graph again.

## Proofs

Checked by TLAPS for every set of transactions and resources, every set of input
schedules of any length, every call of the program with lines of any length, and
every choice of the nondeterministic parts. The assumptions are those the modules
declare: `Tids` and `RscIds` are sets of naturals; `Inputs` is a set of sequences
of operations; in `OperationParser` both sets of ids are the numbers up to
`IntMax` (`IdsAssumption`), and `Calls` are calls whose lines are sequences of
tokens (`CallsAssumption`). In `WaitForGraph`, `None` must not be a node, and
only `SearchAlwaysProgresses` needs the set of nodes to be finite. Conditions of
single theorems are in the table: "no transaction 0" is `0 \notin TidsOf(s)` for
every input `s`, or for whatever the lines of a call parse to. The run `zero`
shows why it is needed.

About `schedule()`:

| theorem | says |
|---|---|
| `TypeCorrect` | `[]TypeOK` |
| `HoldersAlwaysSeen`, `VictimAlwaysFound` | `[]HoldersSeen`, `[]VictimFound`, if no input has a transaction 0 |
| `AbortedStayGone` | `[]AbortedGone` |
| `NothingEverLost` | `[]NothingLost` |
| `RepeatsAlwaysBounded` | `[]RepeatsBounded`, if no input has a transaction 0 |
| `RequestsSingle` | `[]OneRequest` |
| `ArcsAlwaysLeadToHolders` | `[]ArcsLeadToHolders` |
| `WaitersAlwaysOverlap` | `[]WaitersOverlap`, if in each input every id names one place (`DistinctIds`) |
| `CopyAlwaysMatches` | `[]CopyMatches` |
| `AlwaysProgresses` | `Progresses`, if no input has a transaction 0: every step leaves less to do |
| `SchedulePromised` | `Synchronizes`: every behaviour of `Scheduler2V2PL` is one of `Synchronizer`, if no input has a transaction 0 |
| `ReadersNeverMeetCertifiers` | `[]ReadersExcludeCertifiers`, if every resource of the inputs is a database |

About the wait-for graph:

| theorem | says |
|---|---|
| `SearchStaysOnPath`, `GraphTypeCorrect` | the invariant `Inv` of the search, and its first part, `TypeOK` |
| `NeverDangles` | `[]NothingDangles` |
| `SearchImplemented` | `ImplementsSearch`: every behaviour of `WaitForGraph` is one of `DeadlockSearch` |
| `SearchAlwaysProgresses` | `SearchProgresses`: on a finite graph every step of the search leaves less of it |

About the program:

| theorem | says |
|---|---|
| `ProgramTypeCorrect` | `[]ProgramTypeOK` |
| `AlwaysReadAsWritten`, `ScansAlwaysAgree` | `[]ReadAsWritten`, `[]ScansAgree`, for lines of any length and numbers of any size |
| `GuaranteesHoldInProgram` | `TypeOK`, `AbortedGone`, `NothingLost`, `OneRequest`, `ArcsLeadToHolders` and `CopyMatches` hold for everything that can be read |
| `ReportAlwaysExplained` | `[]ReportExplained`, if no line names a transaction 0 |
| `VictimsFoundInProgram`, `ProgressesInProgram`, `RepeatsBoundedInProgram` | `HoldersSeen`, `VictimFound`, the progress of the scheduler and `RepeatsBounded` hold for everything that can be read without a transaction 0 |
| `ReadersNeverMeetCertifiersInProgram` | `[]ReadersExcludeCertifiers`, if every line that parses has at most one id in its path |

The arguments:

* **`Known(X, locks, arcs)`** (`LockingProofs`): every lock is well formed and
  owned by a member of `X`, every arc is between members of `X`. The lemma
  `CanBeScheduledKnown` says that an attempt keeps it for *any* `X` that contains
  the operation's transaction. It is used three times: with all transactions, it
  is the part of `TypeOK` about locks and arcs; with the elements of the
  chronology, it is `HoldersSeen`; with the transactions not aborted, it is the
  second half of `AbortedGone`.
* **`Seen`** strengthens `HoldersSeen` and `VictimFound`, neither of which is
  inductive: the scan retries operations without touching the chronology, so
  their transactions must be in it already. A victim exists because a cycle is
  not empty and its nodes are in the chronology; only the victim leaves the
  chronology, and its locks and arcs leave with it.
* **`Gone`** strengthens `AbortedGone`: all that is left to be tried, output or
  held belongs to transactions not aborted.
* **`Orderly`** (`LockingProofs`) is `OneRequest` and `ArcsLeadToHolders` of any
  table and graph. `OrderlyChange` says which changes keep it: no request is
  added, every owner keeps a lock and every holder one that is held, new arcs
  lead to holders. Only `Wait` adds a request, and only when there is none.
* **`Traced`** strengthens `WaitersOverlap`. A transaction has `Business` with the
  resource of an operation when it has an operation there or above itself, and every
  lock and arc is `Justified` by it: a lock is asked for by its owner's operation or
  inherited from a lock above, and an arc joins owners of locks on one id. Whose
  operation made a lock be inherited does not matter and may be aborted since, so
  the places are those of the whole input, and the operations that justify are those
  left. When each id names one place (`OnePlace`), business with an id above an
  operation is business with its resource (`BusinessAllows`), and two transactions
  with business at one id have operations on one path down to it
  (`BusinessOverlaps`).
* **`SchedulePromised`** (`SynchronizerProofs`). `Answer` is what an attempt does
  to the graph: nothing when it succeeds, and when it fails one transaction gets
  arcs to some others; that a conversion gives arcs to the *holder* of the lock
  it converts is why the promise does not say whose operation it was. A step of
  the scan meets an operation of the schedule because the waiting list is part of
  it (`WaitingRead`) and its transaction has been seen (`Seen`). An abort is a
  `Cancel` because the search of the chronology stops at the first member of the
  cycle (`MostRecentFound`), and `Return` is a `HandOver` by `NothingLost`.
* **`Exclusive`** (`LockingProofs`) adds to `ReadersExcludeCertifiers` that no
  certify lock is ever `Converting`. `Stronger` makes certify locks of write locks
  without granted readers only, and a grant never makes one; but a certify lock
  that was `Converting` would be set back to a granted write lock by the next
  commit (`TryToCommit`), and set to `Granted` by a write request, without a look
  at the readers. `FlatInherit` says why the inputs must be flat.
* **`Ongoing`** (`Scheduler2V2PLProofs`) is what `AlwaysProgresses` needs. The
  measure `Remaining` is a tuple: operations, operations not passed, the place in
  the iteration, waiting operations not passed, and whether the scan is at its
  head. An abort sets both iterators back, which only the first number pays for,
  so it must take an operation out. It does: whoever has a lock or an arc still has
  an operation (`Active`; `Known` once more, with the transactions of
  `operations`), and a victim has an arc. `InRange` keeps the numbers from going
  below zero. The order of such tuples has no infinite descent, so with weak
  fairness `Termination` follows; that last step is beyond the provers and is left
  to TLC.
* **`Balanced`** strengthens `RepeatsBounded` by the finiteness of `aborted`. Each
  step counts the positions of one operation before and after: `Append` adds one
  to the output, `EraseAt` takes one from the waiting list, passing an operation
  puts it into one of them. An abort resets what has been read to nothing, and adds
  a new member to `aborted` (`Active` again: the victim has an operation, and an
  aborted transaction has none), which pays for what stays of the others.
* **Vectors and Schedule objects** (`ScheduleProofs`). `CopyAlwaysMatches` is that
  filtering commutes with collecting the ids in order of first appearance. A
  selection is read along the only increasing enumeration of its positions
  (`EnumerationUnique`), enumerations compose (`EnumerationComposed`), so choosing
  among what was chosen is choosing at once (`SelectSelect`), and
  `PurgeScheduleOf` compares the two orders of doing it. That the loop from the
  end leaves what is kept (`EraseFromBackIsWithout`): before it looks at position
  `i` the vector is the selection of the first `i` positions and of those kept behind
  them, and the `i`-th element chosen is the `i`-th of the vector (`EraseChosen`), so
  one more step leaves the selection for `i - 1`. There is no induction over data in
  the provers; the greatest position at which this fails is found with the least
  element of a set of naturals instead.
* `ScheduleProofs` also has the plain facts about vectors: what erasing one position, erasing
  a transaction and searching the chronology return. The one that takes work is
  that the filtered vector is a vector of just the elements kept (`RankReached`,
  `RankDistinct`: counting the kept positions passes through every number, once).
* **`SearchInv`** (`WaitForGraphProofs`): the stack is a path of the graph without
  repetition, its nodes are the visited ones and each has the one below as parent
  (`Path`); a finished node has only finished neighbours and no cycle lies among
  the finished (`Behind`); what the loops have passed is not unvisited (`Passed`,
  `Looking`); while the cycle is read off, it is a part of the stack (`Unwinding`).
  A node is finished when its neighbours are, so a cycle through it would need a
  predecessor among the finished that leads to it (`Predecessor`), and there is
  none. A visited neighbour is on the stack, so the stack from there on is a
  cycle (`PathCloses`). When all nodes have been passed, all are finished, and
  there is no cycle. `TypeOK` is inductive only together with this: the search
  reads the list of a node and the parent of a node without asking whether they
  are there.
* **`SearchRemaining`** (`WaitForGraphProofs`) is the phase, the nodes not visited,
  the roots not tried, the stack less the cycle read so far, whether a neighbour
  was pushed, whether a node is about to be looked at, and the neighbours not
  passed. A node that comes back to the top of the stack has its whole list before
  it again, which the shorter stack pays for; a push makes the stack longer, which
  the node no longer unvisited pays for. That the cycle is never longer than the
  stack (`ReadSoFarShorter`, `FoundNoLonger`) is where `SearchInv` is needed.
* **The parser** (`ParserProofs`). What the expressions admit is exactly the lines of
  a commit, and those of six tokens, `n` ids with `n - 1` dots between them, and a
  closing parenthesis, for `n` from 1 to 4 (`RecognisedShapes`). On such a line each
  scan is computed by itself (`FirstScan`, `SecondScan`, `ThirdScan`), and they agree
  because the dots are at the even places (`EvensCounted`). `WrittenBack` and
  `WrittenParses` are the two directions of `ReadAsWritten`.
* **The program** (`ChronistaProofs`). `ReadSoFar` says that what is in the schedule
  is what the lines before this one parse to. Until the scheduler is called its
  variables are `Idle`; the call establishes `Begun`, of which `Init` is a special
  case, and every invariant of the scheduler is proved from `Begun`
  (`CallsOrSteps`), so it holds for schedules read from lines as for `Inputs`. The
  report is explained by `Accounted`: whoever was read has an operation left or was
  aborted, and at the end all operations left have been passed, so by `NothingLost`
  they are in the output or wait, while `AbortedGone` keeps the aborted ones out
  of both.
* `NatLemmas` has the least element of a set of naturals, which both of the
  arguments about positions need.

Model-checked only: `Termination`, `Answers` and `Exits`. They are liveness under
fairness, which the provers do not do; for the first two what decreases is proved,
and for `Exits` the part of it that the scheduler plays. The properties that are
violated are refuted by TLC and need no proof. That the measures have no infinite
descent is the usual fact about tuples of naturals and is not proved here either.

## Not modelled

* The text that is printed, and the wording of messages.
* `apply_intention_locks`, `try_to_lock_old`, the flag `was_scheduled`,
  `get_rsc_locks` by database and `rm` by id: no part of the program calls them.
* The test program, the build, and the vendored test framework `doctest.h`. The
  latter has 7106 of the 8790 lines under `src/`; nearly every line of Chronista's
  own code that does anything is modelled.

## Plan

1. Flat schedules: how far `GrantedCompatible` holds when no transaction reads a
   resource after it has written it, as an invariant with that condition, checked
   and proved.
2. A measure of the whole program (lines not read, then the scheduler's), so that
   what `Exits` rests on is proved as well.
3. Four transactions: inheritance closing a cycle behind the scan.
