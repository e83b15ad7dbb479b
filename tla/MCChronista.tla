----------------------------- MODULE MCChronista -----------------------------
(***************************************************************************)
(* Calls of the program for TLC: every command line with an empty input,   *)
(* single lines one token away from an operation, and whole schedules.     *)
(***************************************************************************)
EXTENDS Chronista, MCScheduler

CommandLines ==
    [option : {"-f", "-i", "-h", "other"}, argc : 1..4, opens : BOOLEAN, lines : {<<>>}]

\* Lines one token away from written operations, with a number too large for
\* an int and with symbols no line may have.
Samples ==
    {Written(line(t, o)) : t \in {0, 1}, o \in
        {r(x), w(<<1, 2>>), ul(<<0, 2, 3>>), r(<<3, 2, 1, 0>>), c}}
Slips == {Num(0), Num(IntMax + 1)} \cup
    {Sym(s) : s \in {"T", ":", " ", "r", "w", "ul", "c", "(", ".", ")", "other"}}
Drop(l, i) == EraseAt(l, i)
Change(l, i) == {[l EXCEPT ![i] = t] : t \in Slips}
Put(l, i) == {SubSeq(l, 1, i - 1) \o <<t>> \o SubSeq(l, i, Len(l)) : t \in Slips}
\* Two runs of digits side by side are one.
OneRun(l) ==
    \A i \in 1..Len(l) - 1 : ~(l[i].sym = "digits" /\ l[i + 1].sym = "digits")
NearLines ==
    {l \in UNION {UNION {{Drop(s, i)} \cup Change(s, i) \cup Put(s, i) :
                            i \in DOMAIN s} : s \in Samples} : OneRun(l)}

\* Five components: one more than a path can have.
Lines(s) == [i \in DOMAIN s |-> Written(s[i])]
Deep == <<Written(line(1, r(<<1, 2, 3, 1, 2>>)))>>

\* A schedule that breaks off at a bad line.
Broken(s) == Lines(s) \o <<<<Sym("other")>>>>

Files ==
    {<<l>> : l \in NearLines} \cup {Deep}
    \cup {Lines(s) : s \in FlatPairs \cup Twins \cup Certifying \cup TwoCycles}
    \cup {Broken(s) : s \in TwoCycles}

SomeCalls ==
    CommandLines \cup
    [option : {"-i"}, argc : {2}, opens : {FALSE}, lines : Files]
=============================================================================
