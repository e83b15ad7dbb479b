----------------------------- MODULE MCScheduler -----------------------------
(***************************************************************************)
(* Inputs for TLC: every interleaving of a few small programs, one program *)
(* per transaction.                                                        *)
(***************************************************************************)
EXTENDS Scheduler2V2PL

r(p) == [type |-> "Read", path |-> p]
w(p) == [type |-> "Write", path |-> p]
ul(p) == [type |-> "UpdateLock", path |-> p]
c == [type |-> "Commit", path |-> <<>>]

line(t, o) == [type |-> o.type, tid |-> t, path |-> o.path]

\* The schedules that run the program prog[t] of every transaction t.
RECURSIVE Interleavings(_)
Interleavings(prog) ==
    LET left == {t \in DOMAIN prog : prog[t] # <<>>}
    IN IF left = {} THEN {<<>>}
       ELSE UNION {{<<line(t, Head(prog[t]))>> \o s :
                       s \in Interleavings([prog EXCEPT ![t] = Tail(@)])} : t \in left}

x == <<1>>
y == <<2>>
z == <<3>>

\* Two transactions, two accesses each to two databases, then a commit.  Ids
\* mean nothing to the code, so transaction 1 starts and x is accessed first.
TwoAccesses == {<<a, b, c>> : a, b \in {r(x), w(x), r(y), w(y)}}
FlatPairs ==
    {s \in UNION {Interleavings(<<p, q>>) : p, q \in TwoAccesses} :
        s[1].tid = 1 /\ s[1].path = x}

\* Three transactions.  In the first case each can wait for the next, in a
\* ring, and any of them may stand for the one that starts; in the second the
\* first two run the same program.
Rings == Interleavings(<< <<w(x), w(y), c>>, <<w(y), w(z), c>>, <<w(z), w(x), c>> >>)
Twins == Interleavings(<< <<r(x), w(x), c>>, <<r(x), w(x), c>>, <<w(x), c>> >>)
FirstOf(s, t, u) ==
    \E i \in DOMAIN s : s[i].tid = t /\ \A j \in 1..i - 1 : s[j].tid # u
FlatTriples ==
    {s \in Rings : s[1].tid = 1} \cup {s \in Twins : FirstOf(s, 1, 2)} \cup
    UNION {Interleavings(prog) : prog \in
        {<< <<w(x), w(y), c>>, <<w(y), w(x), c>>, <<r(x), w(y), c>> >>,
         << <<r(x), r(y), c>>, <<w(x), w(y), c>>, <<r(y), w(x), c>> >>,
         << <<w(x), r(y), c>>, <<w(y), r(x), c>>, <<ul(x), w(x), c>> >>}}

\* A commit certifies x, fails on y, and waits behind a read of x that was put
\* off: until its retry the transaction has both a certify lock and a rival.
Certifying == Interleavings(<< <<w(x), w(y), c>>, <<r(y), w(z), r(x)>>, <<w(z)>> >>)

FlatInputs == FlatPairs \cup FlatTriples

\* Resources on two levels of one database: a lock on database 1 is inherited
\* by its tables.
xy == <<1, 2>>
xz == <<1, 3>>
HierPairs ==
    {s \in UNION {Interleavings(<<p, q>>) : p, q \in
        {<<a, b, c>> : a, b \in {r(x), w(x), r(xy), w(xy)}}} : s[1].tid = 1}
HierTriples ==
    UNION {Interleavings(prog) : prog \in
        {<< <<r(x), w(xy), c>>, <<w(xy), r(xz), c>>, <<w(x), c>> >>,
         << <<w(xy), w(xz), c>>, <<w(xz), r(x), c>>, <<r(xy), w(x), c>> >>,
         << <<r(z), w(xy), c>>, <<w(x), r(xy), c>>, <<w(z), c>> >>}}

\* Pairs on three levels, and a triple whose first two transactions only share
\* the database of their tables.
xyz == <<1, 2, 3>>
xu == <<1, 4>>
DeepInputs ==
    UNION {{s \in Interleavings(<<p, q>>) : s[1].tid = 1} : p, q \in
        {<<a, b, c>> : a, b \in {w(x), r(xy), w(xy), w(xyz)}}} \cup
    Interleavings(<< <<w(xy), w(z), c>>, <<w(xu), c>>, <<r(z), w(x), c>> >>)

HierInputs == HierPairs \cup HierTriples \cup DeepInputs

\* An attempt that closes two cycles at once.
TwoCycles ==
    Interleavings(<< <<w(y), r(z), w(x)>>, <<w(z), r(y)>>, <<w(z), w(x), w(y)>> >>)

\* Five transactions.  A Write lock whose conversion failed comes to life again
\* when a read request that its transaction left behind is granted.
Regrant ==
    {<<line(5, w(z)), line(5, r(y)), line(5, w(x)), line(3, w(y)), line(3, w(x)),
       line(1, w(z)), line(1, r(y)), line(2, w(z)), line(2, w(y)), line(3, r(y)),
       line(3, r(z)), line(2, r(z)), line(2, c), line(5, c), line(4, w(y))>>}

\* In every schedule among these an id names one place.
AllInputs == FlatInputs \cup HierInputs \cup Certifying \cup TwoCycles \cup Regrant

\* Here it does not: 2 is a database and a table of database 1.
SharedInputs == Interleavings(<< <<w(y), c>>, <<w(xy), c>> >>)

\* Transaction 0 among them, in place of 2.
FromZero(s) == [i \in DOMAIN s |-> [s[i] EXCEPT !.tid = 2 - @]]
ZeroInputs == {FromZero(s) : s \in FlatPairs}
=============================================================================
