------------------------------ MODULE ParserProofs ------------------------------
(***************************************************************************)
(* What the constructor of Operation makes of a line, for lines of any     *)
(* length and numbers of any size: the two expressions admit the written   *)
(* operations and nothing else, and the three scans of a line agree.       *)
(***************************************************************************)
EXTENDS OperationParser, ScheduleProofs

LEMMA SameLength ==
    ASSUME NEW a \in Nat, NEW b \in Nat, 1..a = 1..b
    PROVE  a = b
<1>1. ~(a < b)
    <2>1. ASSUME a < b PROVE b \in 1..b /\ b \notin 1..a BY <2>1
    <2> QED BY <2>1
<1>2. ~(b < a)
    <2>1. ASSUME b < a PROVE a \in 1..a /\ a \notin 1..b BY <2>1
    <2> QED BY <2>1
<1> QED BY <1>1, <1>2

\* Three pieces put after each other, and the four pieces of a line.
Closed(a, b, e) == a \o b \o <<e>>
Frame(x, y, b, e) == Closed(x \o y, b, e)

\* What stands where in them.
ClosedAt(a, b, e, q) ==
    /\ Len(q) = Len(a) + Len(b) + 1
    /\ \A i \in 1..Len(a) : q[i] = a[i]
    /\ \A i \in 1..Len(b) : q[Len(a) + i] = b[i]
    /\ q[Len(a) + Len(b) + 1] = e
FrameAt(x, y, b, e, q) ==
    /\ Len(q) = Len(b) + 7
    /\ \A i \in 1..4 : q[i] = x[i]
    /\ q[5] = y[1] /\ q[6] = y[2]
    /\ \A i \in 1..Len(b) : q[6 + i] = b[i]
    /\ q[Len(b) + 7] = e

LEMMA Pieces ==
    ASSUME NEW S, NEW a \in Seq(S), NEW b \in Seq(S), NEW e \in S
    PROVE  Closed(a, b, e) \in Seq(S) /\ ClosedAt(a, b, e, Closed(a, b, e))
<1> DEFINE p == a \o b
           last == <<e>>
           q == Closed(a, b, e)
<1>1. Len(a) \in Nat /\ Len(b) \in Nat BY LenProperties
<1>2. last \in Seq(S) /\ Len(last) = 1 /\ last[1] = e OBVIOUS
<1>3. /\ p \in Seq(S) /\ Len(p) = Len(a) + Len(b)
      /\ \A i \in 1..Len(a) + Len(b) : p[i] = IF i <= Len(a) THEN a[i] ELSE b[i - Len(a)]
    BY ConcatProperties
<1>0. q = p \o last BY DEF Closed
<1> HIDE DEF p, last, q
<1>4. /\ q \in Seq(S) /\ Len(q) = Len(p) + Len(last)
      /\ \A i \in 1..Len(p) + Len(last) :
            q[i] = IF i <= Len(p) THEN p[i] ELSE last[i - Len(p)]
    <2>1. last \in Seq(S) /\ p \in Seq(S) BY <1>2, <1>3
    <2> QED BY <1>0, <2>1, ConcatProperties
<1>8. Len(q) = Len(a) + Len(b) + 1 BY <1>2, <1>3, <1>4
<1>5. ASSUME NEW i \in 1..Len(a) PROVE q[i] = a[i]
    <2>1. /\ i \in 1..Len(p) + Len(last) /\ i <= Len(p)
          /\ i \in 1..Len(a) + Len(b) /\ i <= Len(a)
        BY <1>1, <1>2, <1>3
    <2> QED BY <1>3, <1>4, <2>1
<1>6. ASSUME NEW i \in 1..Len(b) PROVE q[Len(a) + i] = b[i]
    <2>1. /\ Len(a) + i \in 1..Len(a) + Len(b) /\ Len(a) + i \in 1..Len(p) + Len(last)
          /\ ~(Len(a) + i <= Len(a)) /\ Len(a) + i - Len(a) = i
          /\ Len(a) + i <= Len(p)
        BY <1>1, <1>2, <1>3
    <2> QED BY <1>3, <1>4, <2>1
<1>7. q[Len(a) + Len(b) + 1] = e
    <2>1. /\ Len(p) + 1 \in 1..Len(p) + Len(last) /\ ~(Len(p) + 1 <= Len(p))
          /\ Len(p) + 1 - Len(p) = 1
        BY <1>1, <1>2, <1>3
    <2> QED BY <1>2, <1>3, <1>4, <2>1
<1> QED BY <1>4, <1>5, <1>6, <1>7, <1>8 DEF q, ClosedAt

\* What stands where in two tokens and in four.
LEMMA Two ==
    ASSUME NEW S, NEW a \in S, NEW b \in S
    PROVE  /\ <<a, b>> \in Seq(S) /\ Len(<<a, b>>) = 2
           /\ <<a, b>>[1] = a /\ <<a, b>>[2] = b
OBVIOUS

LEMMA Four ==
    ASSUME NEW S, NEW a \in S, NEW b \in S, NEW c \in S, NEW d \in S
    PROVE  /\ <<a, b, c, d>> \in Seq(S) /\ Len(<<a, b, c, d>>) = 4
           /\ <<a, b, c, d>>[1] = a /\ <<a, b, c, d>>[2] = b
           /\ <<a, b, c, d>>[3] = c /\ <<a, b, c, d>>[4] = d
OBVIOUS

\* What stands where in a line of four tokens, two, some others and a last one.
LEMMA Framed ==
    ASSUME NEW S, NEW x \in Seq(S), Len(x) = 4, NEW y \in Seq(S), Len(y) = 2,
           NEW b \in Seq(S), NEW e \in S
    PROVE  Frame(x, y, b, e) \in Seq(S) /\ FrameAt(x, y, b, e, Frame(x, y, b, e))
<1> DEFINE a == x \o y
           q == Frame(x, y, b, e)
<1>1. /\ a \in Seq(S) /\ Len(a) = 6
      /\ \A i \in 1..6 : a[i] = IF i <= 4 THEN x[i] ELSE y[i - 4]
    <2>1. /\ a \in Seq(S) /\ Len(a) = Len(x) + Len(y)
          /\ \A i \in 1..Len(x) + Len(y) :
                a[i] = IF i <= Len(x) THEN x[i] ELSE y[i - Len(x)]
        BY ConcatProperties
    <2>2. Len(x) = 4 /\ Len(x) + Len(y) = 6 OBVIOUS
    <2> QED BY <2>1, <2>2
<1>2. q = Closed(a, b, e) BY DEF Frame
<1> HIDE DEF a, q
<1>3. /\ q \in Seq(S) /\ Len(q) = Len(a) + Len(b) + 1
      /\ \A i \in 1..Len(a) : q[i] = a[i]
      /\ \A i \in 1..Len(b) : q[Len(a) + i] = b[i]
      /\ q[Len(a) + Len(b) + 1] = e
    <2>1. q \in Seq(S) /\ ClosedAt(a, b, e, q) BY <1>1, <1>2, Pieces
    <2> QED BY <2>1 DEF ClosedAt
<1>4. Len(a) = 6 /\ Len(b) \in Nat /\ Len(a) + Len(b) + 1 = Len(b) + 7
    BY <1>1, LenProperties
<1>5. \A i \in 1..6 : q[i] = a[i] BY <1>3, <1>4
<1>6. \A i \in 1..4 : i \in 1..6 /\ a[i] = x[i] BY <1>1
<1>7. a[5] = y[1] /\ a[6] = y[2] /\ 5 \in 1..6 /\ 6 \in 1..6 BY <1>1
<1>8. \A i \in 1..Len(b) : q[6 + i] = b[i] BY <1>3, <1>4
<1> QED BY <1>3, <1>4, <1>5, <1>6, <1>7, <1>8 DEF q, FrameAt

-----------------------------------------------------------------------------
(* The two expressions.                                                     *)

\* The tokens of a read, a write or an update lock with n ids, and of a commit.
Begins(line) ==
    line[1].sym = "T" /\ line[2].sym = "digits" /\ line[3].sym = ":" /\ line[4].sym = " "
IsAccess(line, n) ==
    /\ Len(line) = 2 * n + 6
    /\ Begins(line)
    /\ line[5].sym \in {"r", "w", "ul"}
    /\ line[6].sym = "("
    /\ \A k \in 1..n : line[2 * k + 5].sym = "digits"
    /\ \A k \in 1..n - 1 : line[2 * k + 6].sym = "."
    /\ line[2 * n + 6].sym = ")"
IsCommit(line) == Len(line) = 5 /\ Begins(line) /\ line[5].sym = "c"

\* The odd and the even positions between the parentheses.
LEMMA Positioned ==
    ASSUME NEW n \in Nat \ {0}
    PROVE  /\ 2 * n - 1 \in Nat /\ 6 + (2 * n - 1) + 1 = 2 * n + 6
           /\ \A k \in 1..n :
                 /\ 2 * k - 1 \in 1..2 * n - 1 /\ 6 + (2 * k - 1) = 2 * k + 5
                 /\ (2 * k - 1) % 2 = 1 /\ ((2 * k - 1) + 1) \div 2 = k
           /\ \A k \in 1..n - 1 :
                 2 * k \in 1..2 * n - 1 /\ 6 + 2 * k = 2 * k + 6 /\ (2 * k) % 2 = 0
           /\ \A i \in 1..2 * n - 1 :
                 \/ \E k \in 1..n : i = 2 * k - 1
                 \/ \E k \in 1..n - 1 : i = 2 * k
<1>1. ASSUME NEW k \in 1..n
      PROVE  /\ 2 * k - 1 \in 1..2 * n - 1 /\ 6 + (2 * k - 1) = 2 * k + 5
             /\ (2 * k - 1) % 2 = 1 /\ ((2 * k - 1) + 1) \div 2 = k
    OBVIOUS
<1>2. ASSUME NEW k \in 1..n - 1
      PROVE  2 * k \in 1..2 * n - 1 /\ 6 + 2 * k = 2 * k + 6 /\ (2 * k) % 2 = 0
    OBVIOUS
<1>3. ASSUME NEW i \in 1..2 * n - 1
      PROVE  \/ \E k \in 1..n : i = 2 * k - 1
             \/ \E k \in 1..n - 1 : i = 2 * k
    <2>1. CASE i % 2 = 1
        <3>1. (i + 1) \div 2 \in 1..n /\ i = 2 * ((i + 1) \div 2) - 1 BY <2>1
        <3> QED BY <3>1
    <2>2. CASE i % 2 = 0
        <3>1. i \div 2 \in 1..n - 1 /\ i = 2 * (i \div 2) BY <2>2
        <3> QED BY <3>1
    <2> QED BY <2>1, <2>2
<1> QED BY <1>1, <1>2, <1>3

\* What Forms makes of one kind and number of ids.
Access(k, n) == <<"T", "digits", ":", " ">> \o <<k, "(">> \o Dotted(n) \o <<")">>
AccessAt(k, n, f) ==
    /\ \E S : f \in Seq(S)
    /\ DOMAIN f = 1..2 * n + 6
    /\ f[1] = "T" /\ f[2] = "digits" /\ f[3] = ":" /\ f[4] = " "
    /\ f[5] = k /\ f[6] = "("
    /\ \A j \in 1..n : f[2 * j + 5] = "digits"
    /\ \A j \in 1..n - 1 : f[2 * j + 6] = "."
    /\ f[2 * n + 6] = ")"
LEMMA FormAt ==
    ASSUME NEW k, NEW n \in Nat \ {0}
    PROVE  AccessAt(k, n, Access(k, n))
<1> DEFINE S == {"T", "digits", ":", " ", k, "(", ".", ")"}
           b == Dotted(n)
           q == Access(k, n)
<1>1. /\ 2 * n - 1 \in Nat
      /\ b = [i \in 1..2 * n - 1 |-> IF i % 2 = 1 THEN "digits" ELSE "."]
    BY Positioned DEF Dotted
<1>2. /\ "T" \in S /\ "digits" \in S /\ ":" \in S /\ " " \in S /\ k \in S
      /\ "(" \in S /\ "." \in S /\ ")" \in S
    OBVIOUS
<1> DEFINE x == <<"T", "digits", ":", " ">>
           y == <<k, "(">>
           e == ")"
<1>3. q = Frame(x, y, b, e) /\ e \in S BY <1>2 DEF Access, Frame, Closed
<1> HIDE DEF b, S, q
<1>11. /\ x \in Seq(S) /\ Len(x) = 4
       /\ x[1] = "T" /\ x[2] = "digits" /\ x[3] = ":" /\ x[4] = " "
       /\ y \in Seq(S) /\ Len(y) = 2 /\ y[1] = k /\ y[2] = "("
    BY <1>2, Two, Four, Zenon
<1> HIDE DEF x, y, e
<1>4. /\ b \in Seq(S) /\ Len(b) = 2 * n - 1
      /\ \A i \in 1..2 * n - 1 : b[i] = IF i % 2 = 1 THEN "digits" ELSE "."
    <2>1. b \in [1..2 * n - 1 -> S] BY <1>1, <1>2
    <2>2. b \in Seq(S) BY <1>1, <2>1, SeqDef
    <2>3. DOMAIN b = 1..2 * n - 1 /\ Len(b) \in Nat /\ DOMAIN b = 1..Len(b)
        BY <1>1, <2>2, ElemsOfSeq
    <2> QED BY <1>1, <2>2, <2>3
<1>5. /\ q \in Seq(S) /\ Len(q) = Len(b) + 7
      /\ \A i \in 1..4 : q[i] = x[i]
      /\ q[5] = y[1] /\ q[6] = y[2]
      /\ \A i \in 1..Len(b) : q[6 + i] = b[i]
      /\ q[Len(b) + 7] = e
    <2>1. /\ x \in Seq(S) /\ Len(x) = 4 /\ y \in Seq(S) /\ Len(y) = 2
          /\ b \in Seq(S) /\ e \in S /\ q = Frame(x, y, b, e)
        BY <1>3, <1>4, <1>11
    <2>2. q \in Seq(S) /\ FrameAt(x, y, b, e, q) BY <2>1, Framed
    <2> QED BY <2>2 DEF FrameAt
<1>12. /\ q[1] = "T" /\ q[2] = "digits" /\ q[3] = ":" /\ q[4] = " "
       /\ q[5] = k /\ q[6] = "("
    <2>1. 1 \in 1..4 /\ 2 \in 1..4 /\ 3 \in 1..4 /\ 4 \in 1..4 OBVIOUS
    <2>2. q[1] = x[1] /\ q[2] = x[2] /\ q[3] = x[3] /\ q[4] = x[4]
        BY <1>5, <2>1, Zenon
    <2> QED BY <1>5, <1>11, <2>2, Zenon
<1>6. Len(b) = 2 * n - 1 /\ Len(b) + 7 = 2 * n + 6 BY <1>1, <1>4
<1>7. DOMAIN q = 1..2 * n + 6
    <2>1. DOMAIN q = 1..Len(q) BY <1>5, ElemsOfSeq
    <2> QED BY <1>5, <1>6, <2>1
<1>8. ASSUME NEW j \in 1..n PROVE q[2 * j + 5] = "digits"
    <2>1. /\ 2 * j - 1 \in 1..2 * n - 1 /\ 6 + (2 * j - 1) = 2 * j + 5
          /\ (2 * j - 1) % 2 = 1
        BY Positioned
    <2>2. q[6 + (2 * j - 1)] = b[2 * j - 1] BY <1>5, <1>6, <2>1
    <2>3. b[2 * j - 1] = "digits" BY <1>4, <2>1
    <2> QED BY <2>1, <2>2, <2>3
<1>9. ASSUME NEW j \in 1..n - 1 PROVE q[2 * j + 6] = "."
    <2>1. 2 * j \in 1..2 * n - 1 /\ 6 + 2 * j = 2 * j + 6 /\ (2 * j) % 2 = 0
        BY Positioned
    <2>2. q[6 + 2 * j] = b[2 * j] BY <1>5, <1>6, <2>1
    <2>3. b[2 * j] = "." BY <1>4, <2>1
    <2> QED BY <2>1, <2>2, <2>3
<1>10. q[2 * n + 6] = ")" BY <1>5, <1>6 DEF e
<1>13. \E R : q \in Seq(R) BY <1>5
<1> QED BY <1>7, <1>8, <1>9, <1>10, <1>12, <1>13 DEF q, AccessAt

\* A position of a line with n ids is one of the six, an id's, a dot's or the last.
LEMMA PlacesOfLine ==
    ASSUME NEW n \in Nat \ {0}, NEW i \in 1..2 * n + 6
    PROVE  \/ i \in 1..6 \/ i = 2 * n + 6
           \/ \E j \in 1..n : i = 2 * j + 5
           \/ \E j \in 1..n - 1 : i = 2 * j + 6
<1>1. CASE i \in 7..2 * n + 5
    <2>1. i - 6 \in 1..2 * n - 1 BY <1>1
    <2>2. \/ \E j \in 1..n : i - 6 = 2 * j - 1
          \/ \E j \in 1..n - 1 : i - 6 = 2 * j
        BY <2>1, Positioned
    <2>3. ASSUME NEW j \in 1..n, i - 6 = 2 * j - 1 PROVE i = 2 * j + 5 BY <1>1, <2>3
    <2>4. ASSUME NEW j \in 1..n - 1, i - 6 = 2 * j PROVE i = 2 * j + 6 BY <1>1, <2>4
    <2> QED BY <2>2, <2>3, <2>4
<1>2. i \in 1..6 \/ i = 2 * n + 6 \/ i \in 7..2 * n + 5 OBVIOUS
<1> QED BY <1>1, <1>2

\* What Forms makes of a commit.
CommitForm == <<"T", "digits", ":", " ">> \o <<"c">>
LEMMA CommitFormAt ==
    /\ \E S : CommitForm \in Seq(S)
    /\ DOMAIN CommitForm = 1..5
    /\ CommitForm[1] = "T" /\ CommitForm[2] = "digits" /\ CommitForm[3] = ":"
    /\ CommitForm[4] = " " /\ CommitForm[5] = "c"
<1> DEFINE S == {"T", "digits", ":", " ", "c"}
           x == <<"T", "digits", ":", " ">>
           y == <<"c">>
<1>1. x \in Seq(S) /\ y \in Seq(S) BY Four
<1>2. CommitForm = x \o y BY DEF CommitForm
<1>3. /\ DOMAIN CommitForm = 1..5
      /\ CommitForm[1] = "T" /\ CommitForm[2] = "digits" /\ CommitForm[3] = ":"
      /\ CommitForm[4] = " " /\ CommitForm[5] = "c"
    BY DEF CommitForm
<1> HIDE DEF x, y, S
<1>4. CommitForm \in Seq(S) BY <1>1, <1>2, ConcatProperties
<1> QED BY <1>3, <1>4

\* The symbols of a line.
Syms(line) == [i \in DOMAIN line |-> line[i].sym]

LEMMA FormsAre ==
    \A f : f \in Forms(1..MaxDepth) <=>
              f = CommitForm \/ \E k \in {"r", "w", "ul"}, n \in 1..MaxDepth : f = Access(k, n)
<1>1. Forms(1..MaxDepth) = {CommitForm} \cup {Access(k, n) : k \in {"r", "w", "ul"}, n \in 1..MaxDepth}
    BY DEF Forms, CommitForm, Access, Frame, Closed
<1> QED BY <1>1

\* A line with the symbols of an access is one, and conversely.
LEMMA AccessShape ==
    ASSUME NEW line \in Seq(Tokens), NEW n \in Nat \ {0}
    PROVE  (\E k \in {"r", "w", "ul"} : Syms(line) = Access(k, n)) <=> IsAccess(line, n)
<1>1. DOMAIN line = 1..Len(line) /\ Len(line) \in Nat BY ElemsOfSeq
<1>2. ASSUME NEW k \in {"r", "w", "ul"}, Syms(line) = Access(k, n) PROVE IsAccess(line, n)
    <2> DEFINE f == Access(k, n)
    <2>0. AccessAt(k, n, f) /\ Syms(line) = f BY <1>2, FormAt
    <2> HIDE DEF f
    <2>1. DOMAIN f = 1..2 * n + 6 BY <2>0 DEF AccessAt
    <2>2. DOMAIN line = 1..2 * n + 6 BY <2>0, <2>1 DEF Syms
    <2>3. Len(line) = 2 * n + 6
        <3>1. 1..Len(line) = 1..2 * n + 6 BY <1>1, <2>2, Zenon
        <3>2. 2 * n + 6 \in Nat /\ Len(line) \in Nat BY <1>1
        <3> QED BY <3>1, <3>2, SameLength
    <2>4. \A i \in 1..2 * n + 6 : line[i].sym = f[i] BY <2>0, <2>2 DEF Syms
    <2>5. /\ 1 \in 1..2 * n + 6 /\ 2 \in 1..2 * n + 6 /\ 3 \in 1..2 * n + 6
          /\ 4 \in 1..2 * n + 6 /\ 5 \in 1..2 * n + 6 /\ 6 \in 1..2 * n + 6
          /\ 2 * n + 6 \in 1..2 * n + 6
        OBVIOUS
    <2>6. \A j \in 1..n : 2 * j + 5 \in 1..2 * n + 6 OBVIOUS
    <2>7. \A j \in 1..n - 1 : 2 * j + 6 \in 1..2 * n + 6 OBVIOUS
    <2>8. Begins(line) /\ line[5].sym = k /\ line[6].sym = "(" /\ line[2 * n + 6].sym = ")"
        BY <2>0, <2>4, <2>5, Zenon DEF Begins, AccessAt
    <2>9. \A j \in 1..n : line[2 * j + 5].sym = "digits"
        BY <2>0, <2>4, <2>6, Zenon DEF AccessAt
    <2>10. \A j \in 1..n - 1 : line[2 * j + 6].sym = "."
        BY <2>0, <2>4, <2>7, Zenon DEF AccessAt
    <2> QED BY <2>3, <2>8, <2>9, <2>10 DEF IsAccess
<1>3. ASSUME IsAccess(line, n)
      PROVE  \E k \in {"r", "w", "ul"} : Syms(line) = Access(k, n)
    <2>1. PICK k \in {"r", "w", "ul"} : line[5].sym = k BY <1>3 DEF IsAccess
    <2> DEFINE f == Access(k, n)
    <2>0. AccessAt(k, n, f) BY FormAt
    <2> HIDE DEF f
    <2>2. DOMAIN line = 1..2 * n + 6 BY <1>1, <1>3 DEF IsAccess
    <2>3. /\ line[1].sym = f[1] /\ line[2].sym = f[2] /\ line[3].sym = f[3]
          /\ line[4].sym = f[4] /\ line[5].sym = f[5] /\ line[6].sym = f[6]
          /\ line[2 * n + 6].sym = f[2 * n + 6]
        BY <1>3, <2>0, <2>1, Zenon DEF IsAccess, Begins, AccessAt
    <2>4. \A j \in 1..n : line[2 * j + 5].sym = f[2 * j + 5]
        BY <1>3, <2>0, Zenon DEF IsAccess, AccessAt
    <2>5. \A j \in 1..n - 1 : line[2 * j + 6].sym = f[2 * j + 6]
        BY <1>3, <2>0, Zenon DEF IsAccess, AccessAt
    <2>6. DOMAIN f = 1..2 * n + 6 BY <2>0 DEF AccessAt
    <2>7. \A i \in 1..2 * n + 6 : line[i].sym = f[i] 
        <3>1. ASSUME NEW i \in 1..2 * n + 6 PROVE line[i].sym = f[i]
            <4>1. CASE i \in 1..6
                <5>1. i = 1 \/ i = 2 \/ i = 3 \/ i = 4 \/ i = 5 \/ i = 6 BY <4>1
                <5> QED BY <2>3, <5>1
            <4> QED BY <2>3, <2>4, <2>5, <4>1, PlacesOfLine
        <3> QED BY <3>1
    <2>8. f = [i \in 1..2 * n + 6 |-> f[i]]
        <3>1. PICK S : f \in Seq(S) BY <2>0 DEF AccessAt
        <3>2. f \in [1..2 * n + 6 -> S] BY <2>6, <3>1, ElemsOfSeq
        <3> QED BY <3>2
    <2>9. Syms(line) = f BY <2>2, <2>7, <2>8 DEF Syms
    <2> QED BY <2>1, <2>9 DEF f
<1> QED BY <1>2, <1>3

\* The expressions admit commits, and accesses with one to four ids.
LEMMA RecognisedShapes ==
    ASSUME NEW line \in Seq(Tokens)
    PROVE  Recognised(line) <=> IsCommit(line) \/ \E n \in 1..MaxDepth : IsAccess(line, n)
<1>1. DOMAIN line = 1..Len(line) /\ Len(line) \in Nat BY ElemsOfSeq
<1>2. Syms(line) = CommitForm <=> IsCommit(line)
    <2>1. ASSUME Syms(line) = CommitForm PROVE IsCommit(line)
        <3>1. DOMAIN line = 1..5 BY <2>1, CommitFormAt DEF Syms
        <3>2. Len(line) = 5 BY <1>1, <3>1, SameLength
        <3>3. \A i \in 1..5 : line[i].sym = CommitForm[i] BY <2>1, <3>1 DEF Syms
        <3>4. 1 \in 1..5 /\ 2 \in 1..5 /\ 3 \in 1..5 /\ 4 \in 1..5 /\ 5 \in 1..5 OBVIOUS
        <3> QED BY <3>2, <3>3, <3>4, CommitFormAt, Zenon DEF IsCommit, Begins
    <2>2. ASSUME IsCommit(line) PROVE Syms(line) = CommitForm
        <3>1. DOMAIN line = 1..5 BY <1>1, <2>2 DEF IsCommit
        <3>2. /\ line[1].sym = CommitForm[1] /\ line[2].sym = CommitForm[2]
              /\ line[3].sym = CommitForm[3] /\ line[4].sym = CommitForm[4]
              /\ line[5].sym = CommitForm[5]
            BY <2>2, CommitFormAt, Zenon DEF IsCommit, Begins
        <3>3. \A i \in 1..5 : line[i].sym = CommitForm[i]
            <4>1. \A i \in 1..5 : i = 1 \/ i = 2 \/ i = 3 \/ i = 4 \/ i = 5 OBVIOUS
            <4> QED BY <3>2, <4>1
        <3>4. CommitForm = [i \in 1..5 |-> CommitForm[i]]
            <4>1. PICK S : CommitForm \in Seq(S) BY CommitFormAt
            <4>2. CommitForm = [i \in DOMAIN CommitForm |-> CommitForm[i]]
                BY <4>1, SeqDef
            <4> QED BY <4>2, CommitFormAt, Zenon
        <3> QED BY <3>1, <3>3, <3>4 DEF Syms
    <2> QED BY <2>1, <2>2
<1>3. Recognised(line) <=>
        Syms(line) = CommitForm \/
        \E n \in 1..MaxDepth : \E k \in {"r", "w", "ul"} : Syms(line) = Access(k, n)
    BY FormsAre DEF Recognised, Syms
<1>4. ASSUME NEW n \in 1..MaxDepth
      PROVE  (\E k \in {"r", "w", "ul"} : Syms(line) = Access(k, n)) <=> IsAccess(line, n)
    <2>1. n \in Nat \ {0} BY DEF MaxDepth
    <2> QED BY <2>1, AccessShape
<1> QED BY <1>2, <1>3, <1>4, Zenon

-----------------------------------------------------------------------------
(* The scans.                                                               *)

\* find returns the first place.
LEMMA FindFirst ==
    ASSUME NEW line \in Seq(Tokens), NEW s, NEW p \in 1..Len(line), line[p].sym = s,
           \A i \in 1..p - 1 : line[i].sym # s
    PROVE  Find(line, s) = p
<1> DEFINE at == {i \in DOMAIN line : line[i].sym = s}
<1>1. DOMAIN line = 1..Len(line) /\ Len(line) \in Nat BY ElemsOfSeq
<1>2. p \in at BY <1>1
<1>3. \A i \in at : i \in 1..Len(line) /\ line[i].sym = s BY <1>1
<1>4. Find(line, s) = IF at = {} THEN Len(line) + 1
                      ELSE CHOOSE i \in at : \A j \in at : i <= j
    BY DEF Find
<1> HIDE DEF at
<1>5. ASSUME NEW j \in at PROVE p <= j
    <2>1. CASE j < p
        <3>1. j \in 1..p - 1 BY <1>1, <1>3, <2>1
        <3> QED BY <1>3, <3>1
    <2> QED BY <1>1, <1>3, <2>1
<1>6. ASSUME NEW i \in at, \A j \in at : i <= j PROVE i = p
    BY <1>1, <1>2, <1>3, <1>5, <1>6
<1>7. (CHOOSE i \in at : \A j \in at : i <= j) = p BY <1>2, <1>5, <1>6
<1> QED BY <1>2, <1>4, <1>7

\* substr of the places from m to l.
Slice(s, m, l, r) ==
    /\ r \in Seq(Tokens)
    /\ Len(r) = l - m + 1
    /\ DOMAIN r = 1..l - m + 1
    /\ \A i \in 1..l - m + 1 : r[i] = s[m + i - 1]
LEMMA SubSeqAt ==
    ASSUME NEW s \in Seq(Tokens), NEW m \in 1..Len(s), NEW l \in m..Len(s)
    PROVE  Slice(s, m, l, SubSeq(s, m, l))
<1> DEFINE r == SubSeq(s, m, l)
<1>1. Len(s) \in Nat /\ m \in Nat /\ l \in Nat /\ m <= l /\ l <= Len(s) /\ 1 <= m
    BY LenProperties
<1>2. \A i \in m..l : s[i] \in Tokens
    <2>1. \A i \in m..l : i \in 1..Len(s) BY <1>1
    <2> QED BY <2>1, ElemsOfSeq
<1>3. /\ r \in Seq(Tokens) /\ Len(r) = IF m <= l THEN l - m + 1 ELSE 0
      /\ \A i \in 1..l - m + 1 : r[i] = s[m + i - 1]
    BY <1>1, <1>2, SubSeqProperties
<1> HIDE DEF r
<1>4. Len(r) = l - m + 1 BY <1>1, <1>3
<1>5. DOMAIN r = 1..Len(r) BY <1>3, ElemsOfSeq
<1> QED BY <1>3, <1>4, <1>5 DEF Slice, r

\* The three substrings that the constructor takes out of an access, and out
\* of a commit.
LEMMA TokensOfAccess ==
    ASSUME NEW line \in Seq(Tokens), NEW n \in Nat \ {0}, IsAccess(line, n)
    PROVE  /\ TypeToken(line) = SubSeq(line, 5, 5)
           /\ TransactionIdToken(line) = SubSeq(line, 2, 2)
           /\ GranularityToken(line) = SubSeq(line, 7, 2 * n + 5)
<1>1. Len(line) = 2 * n + 6 BY DEF IsAccess
<1>2. /\ line[1].sym = "T" /\ line[2].sym = "digits" /\ line[3].sym = ":"
      /\ line[4].sym = " " /\ line[6].sym = "("
      /\ line[5].sym = "r" \/ line[5].sym = "w" \/ line[5].sym = "ul"
      /\ line[2 * n + 6].sym = ")"
    BY DEF IsAccess, Begins
<1>3. Find(line, ":") = 3
    <2>1. 3 \in 1..Len(line) BY <1>1
    <2>2. \A i \in 1..3 - 1 : i = 1 \/ i = 2 OBVIOUS
    <2>3. \A i \in 1..3 - 1 : line[i].sym # ":" BY <1>2, <2>2
    <2> QED BY <1>2, <2>1, <2>3, FindFirst
<1>4. Find(line, "(") = 6
    <2>1. 6 \in 1..Len(line) BY <1>1
    <2>2. \A i \in 1..6 - 1 : i = 1 \/ i = 2 \/ i = 3 \/ i = 4 \/ i = 5 OBVIOUS
    <2>3. \A i \in 1..6 - 1 : line[i].sym # "(" BY <1>2, <2>2
    <2> QED BY <1>2, <2>1, <2>3, FindFirst
<1>5. Find(line, ")") = 2 * n + 6
    <2>1. 2 * n + 6 \in 1..Len(line) BY <1>1
    <2>2. ASSUME NEW i \in 1..(2 * n + 6) - 1 PROVE line[i].sym # ")"
        <3>1. i \in 1..2 * n + 6 /\ i # 2 * n + 6 OBVIOUS
        <3>2. CASE i \in 1..6
            <4>1. i = 1 \/ i = 2 \/ i = 3 \/ i = 4 \/ i = 5 \/ i = 6 BY <3>2
            <4> QED BY <1>2, <4>1
        <3>3. CASE \E j \in 1..n : i = 2 * j + 5 BY <3>3 DEF IsAccess
        <3>4. CASE \E j \in 1..n - 1 : i = 2 * j + 6 BY <3>4 DEF IsAccess
        <3> QED BY <3>1, <3>2, <3>3, <3>4, PlacesOfLine
    <2> QED BY <1>2, <2>1, <2>2, FindFirst
<1>6. 3 + 2 = 5 /\ 6 - 1 = 5 /\ 3 - 1 = 2 /\ 6 + 1 = 7 /\ (2 * n + 6) - 1 = 2 * n + 5
    OBVIOUS
<1> QED BY <1>3, <1>4, <1>5, <1>6
        DEF TypeToken, TransactionIdToken, GranularityToken

LEMMA TokensOfCommit ==
    ASSUME NEW line \in Seq(Tokens), IsCommit(line)
    PROVE  /\ TypeToken(line) = SubSeq(line, 5, 5)
           /\ TransactionIdToken(line) = SubSeq(line, 2, 2)
<1>1. Len(line) = 5 /\ DOMAIN line = 1..5 BY ElemsOfSeq DEF IsCommit
<1>2. /\ line[1].sym = "T" /\ line[2].sym = "digits" /\ line[3].sym = ":"
      /\ line[4].sym = " " /\ line[5].sym = "c"
    BY DEF IsCommit, Begins
<1>3. Find(line, ":") = 3
    <2>1. 3 \in 1..Len(line) BY <1>1
    <2>2. \A i \in 1..3 - 1 : i = 1 \/ i = 2 OBVIOUS
    <2>3. \A i \in 1..3 - 1 : line[i].sym # ":" BY <1>2, <2>2
    <2> QED BY <1>2, <2>1, <2>3, FindFirst
<1>4. Find(line, "(") = 6
    <2>1. \A i \in 1..5 : i = 1 \/ i = 2 \/ i = 3 \/ i = 4 \/ i = 5 OBVIOUS
    <2>2. \A i \in 1..5 : line[i].sym # "(" BY <1>2, <2>1
    <2>3. {i \in DOMAIN line : line[i].sym = "("} = {} BY <1>1, <2>2
    <2> QED BY <1>1, <2>3 DEF Find
<1>5. 3 + 2 = 5 /\ 6 - 1 = 5 /\ 3 - 1 = 2 OBVIOUS
<1> QED BY <1>3, <1>4, <1>5 DEF TypeToken, TransactionIdToken

\* The places of m dots.
Evens(m) == {2 * k : k \in 1..m}
LEMMA EvensCounted ==
    ASSUME NEW m \in Nat
    PROVE  Cardinality(Evens(m)) = m
<1> DEFINE f == [k \in 1..m |-> 2 * k]
<1>1. Positions(Evens(m), 2 * m) BY DEF Positions, Evens
<1>2. Enumerates(f, m, Evens(m)) BY DEF Enumerates, Evens
<1>3. /\ Cardinality(Evens(m)) \in Nat
      /\ Enumerates(Enumeration(Evens(m)), Cardinality(Evens(m)), Evens(m))
    BY <1>1, SelectEnumerates
<1>4. Evens(m) \in SUBSET Nat BY DEF Evens
<1> HIDE DEF f
<1> QED BY <1>2, <1>3, <1>4, EnumerationUnique

LEMMA EvensRanked ==
    ASSUME NEW n \in Nat \ {0}, NEW k \in 1..n
    PROVE  Rank(Evens(n - 1), 2 * k - 1) = k - 1
<1>1. {j \in Evens(n - 1) : j <= 2 * k - 1} = Evens(k - 1)
    <2>1. ASSUME NEW j \in Evens(n - 1), j <= 2 * k - 1 PROVE j \in Evens(k - 1)
        <3>1. PICK h \in 1..n - 1 : j = 2 * h BY <2>1 DEF Evens
        <3>2. h \in 1..k - 1 BY <2>1, <3>1
        <3> QED BY <3>1, <3>2 DEF Evens
    <2>2. ASSUME NEW j \in Evens(k - 1) PROVE j \in Evens(n - 1) /\ j <= 2 * k - 1
        <3>1. PICK h \in 1..k - 1 : j = 2 * h BY <2>2 DEF Evens
        <3>2. h \in 1..n - 1 /\ 2 * h <= 2 * k - 1 BY <3>1
        <3> QED BY <3>1, <3>2 DEF Evens
    <2> QED BY <2>1, <2>2
<1>2. k - 1 \in Nat OBVIOUS
<1> QED BY <1>1, <1>2, EvensCounted DEF Rank

\* A single position chosen.
LEMMA SelectOne ==
    ASSUME NEW l \in Nat, NEW s, NEW p \in 1..l
    PROVE  Select(s, {p})[1] = s[p]
<1> DEFINE f == [k \in 1..1 |-> p]
<1>1. Positions({p}, l) BY DEF Positions
<1>2. Enumerates(f, 1, {p})
    <2>1. \A j, k \in 1..1 : ~(j < k) OBVIOUS
    <2>2. 1 \in 1..1 /\ f[1] = p OBVIOUS
    <2>3. f \in [1..1 -> {p}] OBVIOUS
    <2> HIDE DEF f
    <2> QED BY <2>1, <2>2, <2>3 DEF Enumerates
<1>3. f[1] = p /\ 1 \in 1..1 OBVIOUS
<1> HIDE DEF f
<1>4. Select(s, {p}) = Along(s, f, 1) BY <1>1, <1>2, SelectBy
<1> QED BY <1>3, <1>4 DEF Along

\* What is between the parentheses: n ids and n - 1 dots.
Dotting(line, n, g) ==
    /\ DOMAIN g = 1..2 * n - 1
    /\ \A k \in 1..n : g[2 * k - 1] = line[2 * k + 5]
    /\ \A k \in 1..n : g[2 * k - 1].sym = "digits"
    /\ \A k \in 1..n - 1 : g[2 * k].sym = "."

LEMMA GranularityOfAccess ==
    ASSUME NEW line \in Seq(Tokens), NEW n \in Nat \ {0}, IsAccess(line, n)
    PROVE  Dotting(line, n, GranularityToken(line))
<1> DEFINE g == GranularityToken(line)
<1>1. Len(line) = 2 * n + 6 BY DEF IsAccess
<1>2. 7 \in 1..Len(line) /\ 2 * n + 5 \in 7..Len(line) BY <1>1
<1>3. g = SubSeq(line, 7, 2 * n + 5) BY TokensOfAccess
<1> HIDE DEF g
<1>4. Slice(line, 7, 2 * n + 5, g) BY <1>2, <1>3, SubSeqAt
<1>5. (2 * n + 5) - 7 + 1 = 2 * n - 1 OBVIOUS
<1>6. DOMAIN g = 1..2 * n - 1 BY <1>4, <1>5 DEF Slice
<1>7. \A i \in 1..2 * n - 1 : g[i] = line[7 + i - 1] BY <1>4, <1>5 DEF Slice
<1>8. ASSUME NEW k \in 1..n
      PROVE  g[2 * k - 1] = line[2 * k + 5] /\ g[2 * k - 1].sym = "digits"
    <2>1. 2 * k - 1 \in 1..2 * n - 1 /\ 7 + (2 * k - 1) - 1 = 2 * k + 5 OBVIOUS
    <2> QED BY <1>7, <2>1 DEF IsAccess
<1>9. ASSUME NEW k \in 1..n - 1 PROVE g[2 * k].sym = "."
    <2>1. 2 * k \in 1..2 * n - 1 /\ 7 + 2 * k - 1 = 2 * k + 6 OBVIOUS
    <2> QED BY <1>7, <2>1 DEF IsAccess
<1> QED BY <1>6, <1>8, <1>9 DEF Dotting, g

LEMMA DotsAre ==
    ASSUME NEW n \in Nat \ {0}, NEW line, NEW g, Dotting(line, n, g)
    PROVE  Dots(g) = Evens(n - 1)
<1>1. ASSUME NEW i \in Dots(g) PROVE i \in Evens(n - 1)
    <2>1. i \in 1..2 * n - 1 /\ g[i].sym = "." BY DEF Dots, Dotting
    <2>2. \A k \in 1..n : i # 2 * k - 1 BY <2>1 DEF Dotting
    <2>3. PICK k \in 1..n - 1 : i = 2 * k BY <2>1, <2>2, Positioned
    <2> QED BY <2>3 DEF Evens
<1>2. ASSUME NEW k \in 1..n - 1 PROVE 2 * k \in Dots(g)
    <2>1. 2 * k \in 1..2 * n - 1 OBVIOUS
    <2> QED BY <2>1 DEF Dots, Dotting
<1> QED BY <1>1, <1>2 DEF Evens

\* The first scan.
LEMMA FirstScan ==
    ASSUME NEW line \in Seq(Tokens), NEW n \in Nat \ {0}, IsAccess(line, n)
    PROVE  GetGranularity(line) = n
<1>1. Dots(GranularityToken(line)) = Evens(n - 1) BY GranularityOfAccess, DotsAre
<1>2. n - 1 \in Nat OBVIOUS
<1>3. Cardinality(Evens(n - 1)) = n - 1 BY <1>2, EvensCounted
<1>4. GetGranularity(line) = 1 + (n - 1) BY <1>1, <1>3 DEF GetGranularity
<1> QED BY <1>4

\* The second scan.
LEMMA SecondScan ==
    ASSUME NEW line \in Seq(Tokens), NEW n \in Nat \ {0}, IsAccess(line, n)
    PROVE  GetFullResourcePath(line) = [k \in 1..n |-> line[2 * k + 5].value]
<1> DEFINE g == GranularityToken(line)
           dots == Dots(g)
           at(k) == {i \in DOMAIN g \ dots : Rank(dots, i) = k - 1}
<1>1. Dotting(line, n, g) BY GranularityOfAccess
<1>2. dots = Evens(n - 1) BY <1>1, DotsAre
<1>3. n - 1 \in Nat OBVIOUS
<1>4. Cardinality(dots) = n - 1 BY <1>2, <1>3, EvensCounted
<1>5. Cardinality(dots) + 1 = n BY <1>4
<1>6. GetFullResourcePath(line) =
        [k \in 1..Cardinality(dots) + 1 |-> Stoi(Select(g, at(k)))]
    BY DEF GetFullResourcePath
<1>7. DOMAIN g = 1..2 * n - 1 BY <1>1 DEF Dotting
<1> HIDE DEF g, dots
<1>8. ASSUME NEW i \in DOMAIN g \ dots PROVE \E k \in 1..n : i = 2 * k - 1
    <2>1. i \in 1..2 * n - 1 BY <1>7
    <2>2. \A k \in 1..n - 1 : i # 2 * k BY <1>2 DEF Evens
    <2> QED BY <2>1, <2>2, Positioned
<1>9. ASSUME NEW k \in 1..n PROVE 2 * k - 1 \in DOMAIN g \ dots
    <2>1. 2 * k - 1 \in 1..2 * n - 1 OBVIOUS
    <2>2. \A h \in 1..n - 1 : 2 * k - 1 # 2 * h OBVIOUS
    <2> QED BY <1>2, <1>7, <2>1, <2>2 DEF Evens
<1>10. \A k \in 1..n : Rank(dots, 2 * k - 1) = k - 1 BY <1>2, EvensRanked
<1>11. ASSUME NEW k \in 1..n PROVE Stoi(Select(g, at(k))) = line[2 * k + 5].value
    <2>1. at(k) = {2 * k - 1}
        <3>1. ASSUME NEW i \in at(k) PROVE i = 2 * k - 1
            <4>1. i \in DOMAIN g \ dots /\ Rank(dots, i) = k - 1 OBVIOUS
            <4>2. PICK h \in 1..n : i = 2 * h - 1 BY <1>8, <4>1
            <4>3. h - 1 = k - 1 BY <1>10, <4>1, <4>2
            <4>4. h = k BY <4>3
            <4> QED BY <4>2, <4>4
        <3>2. 2 * k - 1 \in at(k) BY <1>9, <1>10
        <3> HIDE DEF at
        <3> QED BY <3>1, <3>2
    <2>2. 2 * n - 1 \in Nat /\ 2 * k - 1 \in 1..2 * n - 1 OBVIOUS
    <2>3. Select(g, {2 * k - 1})[1] = g[2 * k - 1] BY <2>2, SelectOne
    <2>4. g[2 * k - 1] = line[2 * k + 5] BY <1>1 DEF Dotting
    <2> HIDE DEF at
    <2> QED BY <2>1, <2>3, <2>4 DEF Stoi
<1> HIDE DEF at
<1> QED BY <1>5, <1>6, <1>11

\* The third scan.
LEMMA ThirdScan ==
    ASSUME NEW line \in Seq(Tokens), NEW n \in Nat \ {0}, IsAccess(line, n)
    PROVE  ScanResource(line) = line[2 * n + 5].value
<1> DEFINE g == GranularityToken(line)
           at == {i \in DOMAIN g : \A d \in Dots(g) : d < i}
<1>1. Dotting(line, n, g) BY GranularityOfAccess
<1>2. Dots(g) = Evens(n - 1) BY <1>1, DotsAre
<1>3. ScanResource(line) = Stoi(Select(g, at)) BY DEF ScanResource
<1>4. DOMAIN g = 1..2 * n - 1 BY <1>1 DEF Dotting
<1> HIDE DEF g
<1>5. at = {2 * n - 1}
    <2>1. ASSUME NEW i \in at PROVE i = 2 * n - 1
        <3>1. i \in 1..2 * n - 1 /\ \A k \in 1..n - 1 : 2 * k < i
            BY <1>2, <1>4 DEF Evens
        <3>2. CASE n = 1 BY <3>1, <3>2
        <3>3. CASE n # 1
            <4>1. n - 1 \in 1..n - 1 BY <3>3
            <4>2. 2 * (n - 1) < i BY <3>1, <4>1
            <4> QED BY <3>1, <4>2
        <3> QED BY <3>2, <3>3
    <2>2. 2 * n - 1 \in at
        <3>1. 2 * n - 1 \in 1..2 * n - 1 /\ \A k \in 1..n - 1 : 2 * k < 2 * n - 1
            OBVIOUS
        <3> QED BY <1>2, <1>4, <3>1 DEF Evens
    <2> HIDE DEF at
    <2> QED BY <2>1, <2>2
<1>6. 2 * n - 1 \in Nat /\ 2 * n - 1 \in 1..2 * n - 1 /\ n \in 1..n OBVIOUS
<1>7. Select(g, {2 * n - 1})[1] = g[2 * n - 1] BY <1>6, SelectOne
<1>8. g[2 * n - 1] = line[2 * n + 5] BY <1>1, <1>6 DEF Dotting
<1> HIDE DEF at
<1> QED BY <1>3, <1>5, <1>7, <1>8 DEF Stoi

-----------------------------------------------------------------------------
(* The operation made of a line.                                            *)

LEMMA TokenIs ==
    ASSUME NEW t \in Tokens
    PROVE  /\ t.value \in Nat
           /\ t.sym = "digits" => t = Num(t.value)
           /\ t.sym # "digits" => t = Sym(t.sym)
BY DEF Tokens, Num, Sym

LEMMA OneToken ==
    ASSUME NEW line \in Seq(Tokens), NEW p \in 1..Len(line)
    PROVE  SubSeq(line, p, p) = <<line[p]>>
<1> DEFINE r == SubSeq(line, p, p)
<1>1. Len(line) \in Nat /\ p \in p..Len(line) BY LenProperties
<1>2. Slice(line, p, p, r) BY <1>1, SubSeqAt
<1> HIDE DEF r
<1>3. p - p + 1 = 1 /\ p + 1 - 1 = p OBVIOUS
<1>4. r \in Seq(Tokens) /\ DOMAIN r = 1..1 /\ r[1] = line[p]
    BY <1>2, <1>3 DEF Slice
<1>5. r \in [1..1 -> Tokens] BY <1>4, SeqDef
<1>6. r = <<r[1]>> BY <1>5
<1> QED BY <1>4, <1>6 DEF r

\* The kind of operation that stands at the fifth place.
TypeOf(s) ==
    IF s = "c" THEN "Commit" ELSE IF s = "r" THEN "Read"
    ELSE IF s = "w" THEN "Write" ELSE "UpdateLock"

LEMMA TypeRead ==
    ASSUME NEW line \in Seq(Tokens), 5 \in 1..Len(line), 2 \in 1..Len(line),
           line[5].sym # "digits",
           TypeToken(line) = SubSeq(line, 5, 5),
           TransactionIdToken(line) = SubSeq(line, 2, 2)
    PROVE  /\ GetOperation(line) = TypeOf(line[5].sym)
           /\ Stoi(TransactionIdToken(line)) = line[2].value
<1>1. TypeToken(line) = <<line[5]>> /\ TransactionIdToken(line) = <<line[2]>>
    BY OneToken
<1>2. line[5] \in Tokens BY ElemsOfSeq
<1>3. line[5] = Sym(line[5].sym) BY <1>2, TokenIs
<1>4. \A s : TypeToken(line) = <<Sym(s)>> <=> line[5].sym = s
    <2>1. \A s : <<line[5]>> = <<Sym(s)>> <=> line[5] = Sym(s) OBVIOUS
    <2>2. \A s, t : Sym(s) = Sym(t) <=> s = t BY DEF Sym
    <2> QED BY <1>1, <1>3, <2>1, <2>2, Zenon
<1>5. GetOperation(line) = TypeOf(line[5].sym) BY <1>4 DEF GetOperation, TypeOf
<1> QED BY <1>1, <1>5 DEF Stoi

\* What Parse makes of an access, and of a commit.
ParsedAs(line, n, op) ==
    /\ op = [type |-> op.type, tid |-> op.tid, path |-> op.path]
    /\ op.type = TypeOf(line[5].sym)
    /\ op.tid = line[2].value
    /\ op.path = [k \in 1..n |-> line[2 * k + 5].value]

LEMMA ParseAccess ==
    ASSUME NEW line \in Seq(Tokens), NEW n \in Nat \ {0}, IsAccess(line, n)
    PROVE  ParsedAs(line, n, Parse(line))
<1>1. /\ TypeToken(line) = SubSeq(line, 5, 5)
      /\ TransactionIdToken(line) = SubSeq(line, 2, 2)
    BY TokensOfAccess
<1>2. 5 \in 1..Len(line) /\ 2 \in 1..Len(line) BY DEF IsAccess
<1>3. line[5].sym \in {"r", "w", "ul"} BY DEF IsAccess
<1>4. /\ GetOperation(line) = TypeOf(line[5].sym)
      /\ Stoi(TransactionIdToken(line)) = line[2].value
    BY <1>1, <1>2, <1>3, TypeRead
<1>5. TypeOf(line[5].sym) # "Commit" BY <1>3 DEF TypeOf
<1>6. Parse(line) = [type |-> TypeOf(line[5].sym), tid |-> line[2].value,
                     path |-> GetFullResourcePath(line)]
    BY <1>4, <1>5 DEF Parse
<1> QED BY <1>6, SecondScan DEF ParsedAs

LEMMA ParseCommit ==
    ASSUME NEW line \in Seq(Tokens), IsCommit(line)
    PROVE  Parse(line) = [type |-> "Commit", tid |-> line[2].value, path |-> <<>>]
<1>1. /\ TypeToken(line) = SubSeq(line, 5, 5)
      /\ TransactionIdToken(line) = SubSeq(line, 2, 2)
    BY TokensOfCommit
<1>2. 5 \in 1..Len(line) /\ 2 \in 1..Len(line) /\ line[5].sym = "c" BY DEF IsCommit
<1>3. /\ GetOperation(line) = TypeOf(line[5].sym)
      /\ Stoi(TransactionIdToken(line)) = line[2].value
    BY <1>1, <1>2, TypeRead
<1>4. TypeOf(line[5].sym) = "Commit" BY <1>2 DEF TypeOf
<1> QED BY <1>3, <1>4 DEF Parse

\* An id of a line that parses is one that std::stoi returns.
LEMMA IdsFit ==
    ASSUME NEW line \in Seq(Tokens), Parses(line)
    PROVE  \A i \in 1..Len(line) : line[i].value \in 0..IntMax
<1>1. DOMAIN line = 1..Len(line) /\ \A i \in 1..Len(line) : line[i] \in Tokens
    BY ElemsOfSeq
<1>2. \A i \in 1..Len(line) : line[i].value \in Nat BY <1>1, TokenIs
<1>3. \A i \in 1..Len(line) : line[i].value <= IntMax BY <1>1 DEF Parses
<1> QED BY <1>2, <1>3, IdsAssumption

\* What the constructor yields is an operation.
LEMMA ParseType ==
    ASSUME NEW line \in Seq(Tokens), Parses(line)
    PROVE  Parse(line) \in Operations
<1>1. IsCommit(line) \/ \E n \in 1..MaxDepth : IsAccess(line, n)
    BY RecognisedShapes DEF Parses
<1>2. \A i \in 1..Len(line) : line[i].value \in Tids /\ line[i].value \in RscIds
    BY IdsFit, IdsAssumption
<1>3. CASE IsCommit(line)
    <2>1. line[2].value \in Tids BY <1>2, <1>3 DEF IsCommit
    <2> QED BY <1>3, <2>1, ParseCommit DEF Operations
<1>4. ASSUME NEW n \in 1..MaxDepth, IsAccess(line, n) PROVE Parse(line) \in Operations
    <2> DEFINE op == Parse(line)
    <2>0. n \in Nat \ {0} BY DEF MaxDepth
    <2>1. ParsedAs(line, n, op) BY <1>4, <2>0, ParseAccess
    <2> HIDE DEF op
    <2>2. Len(line) = 2 * n + 6 /\ line[5].sym \in {"r", "w", "ul"} BY <1>4 DEF IsAccess
    <2>3. op.tid \in Tids BY <1>2, <2>0, <2>1, <2>2 DEF ParsedAs
    <2>4. op.type \in {"Read", "Write", "UpdateLock"} BY <2>1, <2>2 DEF ParsedAs, TypeOf
    <2>5. \A k \in 1..n : line[2 * k + 5].value \in RscIds
        <3>1. \A k \in 1..n : 2 * k + 5 \in 1..Len(line) BY <2>0, <2>2
        <3> QED BY <1>2, <3>1
    <2>6. op.path \in [1..n -> RscIds] BY <2>1, <2>5 DEF ParsedAs
    <2>7. op.path \in Paths BY <2>6 DEF Paths
    <2>8. op = [type |-> op.type, tid |-> op.tid, path |-> op.path] BY <2>1 DEF ParsedAs
    <2>9. op \in [type : {"Read", "Write", "UpdateLock"}, tid : Tids, path : Paths]
        BY <2>3, <2>4, <2>7, <2>8
    <2>10. op \in Operations BY <2>9 DEF Operations
    <2> QED BY <2>10 DEF op
<1> QED BY <1>1, <1>3, <1>4

\* The depth that chooses the RscType is the length of the path, and the
\* resource is the last id of the path.
LEMMA ScansOfAccess ==
    ASSUME NEW line \in Seq(Tokens), Parses(line), Parse(line).type # "Commit"
    PROVE  /\ GetGranularity(line) = Len(Parse(line).path)
           /\ ScanResource(line) = GetResource(Parse(line))
<1>1. ~IsCommit(line) BY ParseCommit
<1>2. PICK n \in 1..MaxDepth : IsAccess(line, n) BY <1>1, RecognisedShapes DEF Parses
<1>3. n \in Nat \ {0} BY DEF MaxDepth
<1> DEFINE path == Parse(line).path
<1>4. path = [k \in 1..n |-> line[2 * k + 5].value] BY <1>2, <1>3, ParseAccess DEF ParsedAs
<1> HIDE DEF path
<1>5. Len(path) = n /\ n \in 1..n BY <1>3, <1>4
<1>6. path[n] = line[2 * n + 5].value BY <1>4, <1>5
<1>7. GetResource(Parse(line)) = path[Len(path)] BY DEF GetResource, path
<1>8. GetGranularity(line) = n BY <1>2, <1>3, FirstScan
<1>9. ScanResource(line) = line[2 * n + 5].value BY <1>2, <1>3, ThirdScan
<1> QED BY <1>5, <1>6, <1>7, <1>8, <1>9 DEF path

-----------------------------------------------------------------------------
(* The line an operation is written as.                                     *)

KindOf(type) ==
    CASE type = "Commit" -> "c" [] type = "Read" -> "r"
      [] type = "Write" -> "w" [] type = "UpdateLock" -> "ul"

\* The tokens of a read, a write or an update lock of the path's n ids.
WrittenAt(op, n, q) ==
    /\ \E S : q \in Seq(S)
    /\ Len(q) = 2 * n + 6
    /\ DOMAIN q = 1..2 * n + 6
    /\ q[1] = Sym("T") /\ q[2] = Num(op.tid) /\ q[3] = Sym(":") /\ q[4] = Sym(" ")
    /\ q[5] = Sym(KindOf(op.type)) /\ q[6] = Sym("(")
    /\ \A k \in 1..n : q[2 * k + 5] = Num(op.path[k])
    /\ \A k \in 1..n - 1 : q[2 * k + 6] = Sym(".")
    /\ q[2 * n + 6] = Sym(")")

LEMMA Reassociated ==
    ASSUME NEW S, NEW x \in Seq(S), NEW y \in Seq(S), NEW b \in Seq(S), NEW e \in S
    PROVE  x \o ((y \o b) \o <<e>>) = Frame(x, y, b, e)
<1> DEFINE l == <<e>>
           m == y \o b
<1>1. l \in Seq(S) OBVIOUS
<1>2. m \in Seq(S) BY ConcatProperties
<1>3. x \o m = (x \o y) \o b BY ConcatAssociative
<1> HIDE DEF l, m
<1>4. x \o (m \o l) = (x \o m) \o l BY <1>1, <1>2, ConcatAssociative
<1> QED BY <1>3, <1>4 DEF Frame, Closed, l, m

LEMMA WrittenAccess ==
    ASSUME NEW op, op.type \in {"Read", "Write", "UpdateLock"},
           NEW n \in Nat \ {0}, Len(op.path) = n
    PROVE  WrittenAt(op, n, Written(op))
<1> DEFINE x == <<Sym("T"), Num(op.tid), Sym(":"), Sym(" ")>>
           y == <<Sym(KindOf(op.type)), Sym("(")>>
           b == [i \in 1..2 * n - 1 |->
                   IF i % 2 = 1 THEN Num(op.path[(i + 1) \div 2]) ELSE Sym(".")]
           e == Sym(")")
           q == Written(op)
           S == {Sym("T"), Num(op.tid), Sym(":"), Sym(" "), Sym(KindOf(op.type)),
                 Sym("("), Sym("."), Sym(")")} \cup {Num(op.path[k]) : k \in 1..n}
<1>1. q = x \o ((y \o b) \o <<e>>) BY DEF Written, KindOf
<1>2. /\ Sym("T") \in S /\ Num(op.tid) \in S /\ Sym(":") \in S /\ Sym(" ") \in S
      /\ Sym(KindOf(op.type)) \in S /\ Sym("(") \in S /\ Sym(".") \in S /\ e \in S
    OBVIOUS
<1>3. \A k \in 1..n : Num(op.path[k]) \in S OBVIOUS
<1> HIDE DEF S, q
<1>4. /\ x \in Seq(S) /\ Len(x) = 4
      /\ x[1] = Sym("T") /\ x[2] = Num(op.tid) /\ x[3] = Sym(":") /\ x[4] = Sym(" ")
    BY <1>2, Four, Zenon
<1>5. /\ y \in Seq(S) /\ Len(y) = 2
      /\ y[1] = Sym(KindOf(op.type)) /\ y[2] = Sym("(")
    BY <1>2, Two, Zenon
<1>6. /\ b \in Seq(S) /\ Len(b) = 2 * n - 1
      /\ \A k \in 1..n : b[2 * k - 1] = Num(op.path[k])
      /\ \A k \in 1..n - 1 : b[2 * k] = Sym(".")
    <2>1. ASSUME NEW i \in 1..2 * n - 1 PROVE b[i] \in S
        <3>1. CASE \E k \in 1..n : i = 2 * k - 1
            <4>1. PICK k \in 1..n : i = 2 * k - 1 BY <3>1
            <4>2. i % 2 = 1 /\ (i + 1) \div 2 = k BY <4>1
            <4> QED BY <1>3, <4>2
        <3>2. CASE \E k \in 1..n - 1 : i = 2 * k
            <4>1. ~(i % 2 = 1) BY <3>2
            <4>2. b[i] = Sym(".") BY <4>1
            <4> HIDE DEF b
            <4> QED BY <1>2, <4>2
        <3> QED BY <3>1, <3>2, Positioned
    <2>2. 2 * n - 1 \in Nat /\ DOMAIN b = 1..2 * n - 1 OBVIOUS
    <2>3. b = [i \in 1..2 * n - 1 |-> b[i]] OBVIOUS
    <2>4. ASSUME NEW k \in 1..n PROVE b[2 * k - 1] = Num(op.path[k])
        <3>1. /\ 2 * k - 1 \in 1..2 * n - 1 /\ (2 * k - 1) % 2 = 1
              /\ ((2 * k - 1) + 1) \div 2 = k
            BY Positioned
        <3> QED BY <3>1
    <2>5. ASSUME NEW k \in 1..n - 1 PROVE b[2 * k] = Sym(".")
        <3>1. 2 * k \in 1..2 * n - 1 /\ (2 * k) % 2 = 0 BY Positioned
        <3> QED BY <3>1
    <2> HIDE DEF b
    <2>6. b \in [1..2 * n - 1 -> S] BY <2>1, <2>3
    <2>7. b \in Seq(S) BY <2>2, <2>6, SeqDef
    <2>8. DOMAIN b = 1..Len(b) /\ Len(b) \in Nat BY <2>7, ElemsOfSeq
    <2>9. 1..Len(b) = 1..2 * n - 1 BY <2>2, <2>8, Zenon
    <2>10. Len(b) = 2 * n - 1 BY <2>2, <2>8, <2>9, SameLength
    <2> QED BY <2>4, <2>5, <2>7, <2>10
<1> HIDE DEF x, y, b, e
<1>7. q = Frame(x, y, b, e)
    <2>1. x \in Seq(S) /\ y \in Seq(S) /\ b \in Seq(S) /\ e \in S
        BY <1>2, <1>4, <1>5, <1>6
    <2> QED BY <1>1, <2>1, Reassociated
<1>8. q \in Seq(S) /\ FrameAt(x, y, b, e, q)
    BY <1>2, <1>4, <1>5, <1>6, <1>7, Framed
<1>9. /\ Len(q) = Len(b) + 7
      /\ \A i \in 1..4 : q[i] = x[i]
      /\ q[5] = y[1] /\ q[6] = y[2]
      /\ \A i \in 1..Len(b) : q[6 + i] = b[i]
      /\ q[Len(b) + 7] = e
    BY <1>8 DEF FrameAt
<1>10. Len(b) = 2 * n - 1 /\ Len(b) + 7 = 2 * n + 6 BY <1>6
<1>11. Len(q) = 2 * n + 6 /\ q[2 * n + 6] = Sym(")") BY <1>9, <1>10 DEF e
<1>12. DOMAIN q = 1..2 * n + 6
    <2>1. DOMAIN q = 1..Len(q) BY <1>8, ElemsOfSeq
    <2> QED BY <1>11, <2>1
<1>13. /\ q[1] = Sym("T") /\ q[2] = Num(op.tid) /\ q[3] = Sym(":") /\ q[4] = Sym(" ")
       /\ q[5] = Sym(KindOf(op.type)) /\ q[6] = Sym("(")
    <2>1. 1 \in 1..4 /\ 2 \in 1..4 /\ 3 \in 1..4 /\ 4 \in 1..4 OBVIOUS
    <2>2. q[1] = x[1] /\ q[2] = x[2] /\ q[3] = x[3] /\ q[4] = x[4]
        BY <1>9, <2>1, Zenon
    <2> QED BY <1>4, <1>5, <1>9, <2>2, Zenon
<1>14. ASSUME NEW k \in 1..n PROVE q[2 * k + 5] = Num(op.path[k])
    <2>1. 2 * k - 1 \in 1..2 * n - 1 /\ 6 + (2 * k - 1) = 2 * k + 5 BY Positioned
    <2>2. q[6 + (2 * k - 1)] = b[2 * k - 1] BY <1>9, <1>10, <2>1
    <2> QED BY <1>6, <2>1, <2>2
<1>15. ASSUME NEW k \in 1..n - 1 PROVE q[2 * k + 6] = Sym(".")
    <2>1. 2 * k \in 1..2 * n - 1 /\ 6 + 2 * k = 2 * k + 6 BY Positioned
    <2>2. q[6 + 2 * k] = b[2 * k] BY <1>9, <1>10, <2>1
    <2> QED BY <1>6, <2>1, <2>2
<1>16. \E R : q \in Seq(R) BY <1>8
<1> QED BY <1>11, <1>12, <1>13, <1>14, <1>15, <1>16 DEF WrittenAt, q

LEMMA WrittenCommit ==
    ASSUME NEW op, op.type = "Commit"
    PROVE  /\ \E S : Written(op) \in Seq(S)
           /\ Len(Written(op)) = 5 /\ DOMAIN Written(op) = 1..5
           /\ Written(op)[1] = Sym("T") /\ Written(op)[2] = Num(op.tid)
           /\ Written(op)[3] = Sym(":") /\ Written(op)[4] = Sym(" ")
           /\ Written(op)[5] = Sym("c")
<1> DEFINE a == Sym("T")
           b == Num(op.tid)
           c == Sym(":")
           d == Sym(" ")
           e == Sym("c")
           q == Written(op)
           S == {a, b, c, d, e}
<1>1. q = <<a, b, c, d>> \o <<e>> BY DEF Written
<1> HIDE DEF a, b, c, d, e, q
<1>2. <<a, b, c, d>> \in Seq(S) /\ <<e>> \in Seq(S) BY Four
<1>3. <<a, b, c, d>> \o <<e>> \in Seq(S) BY <1>2, ConcatProperties
<1>4. /\ Len(q) = 5 /\ DOMAIN q = 1..5
      /\ q[1] = a /\ q[2] = b /\ q[3] = c /\ q[4] = d /\ q[5] = e
    BY <1>1
<1> HIDE DEF S
<1>5. \E R : q \in Seq(R) BY <1>1, <1>3
<1> QED BY <1>4, <1>5 DEF a, b, c, d, e, q

\* Every line that parses is what the operation made of it is written as.
LEMMA WrittenBack ==
    ASSUME NEW line \in Seq(Tokens), Parses(line)
    PROVE  Written(Parse(line)) = line
<1> DEFINE op == Parse(line)
           q == Written(op)
<1>1. DOMAIN line = 1..Len(line) /\ \A i \in 1..Len(line) : line[i] \in Tokens
    BY ElemsOfSeq
<1>2. \A i \in 1..Len(line) :
         /\ line[i].sym = "digits" => line[i] = Num(line[i].value)
         /\ line[i].sym # "digits" => line[i] = Sym(line[i].sym)
    BY <1>1, TokenIs
<1>3. IsCommit(line) \/ \E n \in 1..MaxDepth : IsAccess(line, n)
    BY RecognisedShapes DEF Parses
<1>4. CASE IsCommit(line)
    <2>1. op.type = "Commit" /\ op.tid = line[2].value BY <1>4, ParseCommit
    <2> HIDE DEF op
    <2>2. /\ \E S : q \in Seq(S)
          /\ DOMAIN q = 1..5
          /\ q[1] = Sym("T") /\ q[2] = Num(op.tid) /\ q[3] = Sym(":")
          /\ q[4] = Sym(" ") /\ q[5] = Sym("c")
        BY <2>1, WrittenCommit
    <2> HIDE DEF q
    <2>3. /\ Len(line) = 5 /\ line[1].sym = "T" /\ line[2].sym = "digits"
          /\ line[3].sym = ":" /\ line[4].sym = " " /\ line[5].sym = "c"
        BY <1>4 DEF IsCommit, Begins
    <2>4. DOMAIN line = 1..5 BY <1>1, <2>3
    <2>5. /\ 1 \in 1..Len(line) /\ 2 \in 1..Len(line) /\ 3 \in 1..Len(line)
          /\ 4 \in 1..Len(line) /\ 5 \in 1..Len(line)
        <3>1. Len(line) = 5 BY <2>3
        <3> QED BY <3>1
    <2>6. /\ line[1] = q[1] /\ line[2] = q[2] /\ line[3] = q[3] /\ line[4] = q[4]
          /\ line[5] = q[5]
        BY <1>2, <2>1, <2>2, <2>3, <2>5
    <2>7. \A i \in 1..5 : q[i] = line[i]
        <3>1. \A i \in 1..5 : i = 1 \/ i = 2 \/ i = 3 \/ i = 4 \/ i = 5 OBVIOUS
        <3> QED BY <2>6, <3>1
    <2>8. 5 \in Nat OBVIOUS
    <2>9. q = line BY <2>2, <2>4, <2>7, <2>8, SamePlaces
    <2> QED BY <2>9 DEF q, op
<1>5. ASSUME NEW n \in 1..MaxDepth, IsAccess(line, n) PROVE q = line
    <2>0. n \in Nat \ {0} BY DEF MaxDepth
    <2>1. ParsedAs(line, n, op) BY <1>5, <2>0, ParseAccess
    <2> HIDE DEF op
    <2>2. Len(op.path) = n BY <2>0, <2>1 DEF ParsedAs
    <2>3. /\ Len(line) = 2 * n + 6
          /\ line[1].sym = "T" /\ line[2].sym = "digits" /\ line[3].sym = ":"
          /\ line[4].sym = " " /\ line[6].sym = "("
          /\ line[5].sym = "r" \/ line[5].sym = "w" \/ line[5].sym = "ul"
          /\ \A k \in 1..n : line[2 * k + 5].sym = "digits"
          /\ \A k \in 1..n - 1 : line[2 * k + 6].sym = "."
          /\ line[2 * n + 6].sym = ")"
        BY <1>5 DEF IsAccess, Begins
    <2>4. /\ op.type \in {"Read", "Write", "UpdateLock"}
          /\ KindOf(op.type) = line[5].sym
        BY <2>1, <2>3 DEF ParsedAs, TypeOf, KindOf
    <2>5. WrittenAt(op, n, q) BY <2>0, <2>2, <2>4, WrittenAccess
    <2> HIDE DEF q
    <2>15. Len(line) = 2 * n + 6 BY <2>3
    <2>6. /\ 1 \in 1..Len(line) /\ 2 \in 1..Len(line) /\ 3 \in 1..Len(line)
          /\ 4 \in 1..Len(line) /\ 5 \in 1..Len(line) /\ 6 \in 1..Len(line)
          /\ 2 * n + 6 \in 1..Len(line)
        BY <2>0, <2>15
    <2>7. /\ line[1] = Sym("T") /\ line[2] = Num(op.tid) /\ line[3] = Sym(":")
          /\ line[4] = Sym(" ") /\ line[5] = Sym(KindOf(op.type)) /\ line[6] = Sym("(")
          /\ line[2 * n + 6] = Sym(")")
        <3>1. op.tid = line[2].value BY <2>1 DEF ParsedAs
        <3> QED BY <1>2, <2>3, <2>4, <2>6, <3>1
    <2>8. ASSUME NEW k \in 1..n PROVE line[2 * k + 5] = q[2 * k + 5]
        <3>1. 2 * k + 5 \in 1..Len(line) BY <2>0, <2>15
        <3>2. line[2 * k + 5] = Num(line[2 * k + 5].value) BY <1>2, <2>3, <3>1
        <3>3. op.path[k] = line[2 * k + 5].value BY <2>1 DEF ParsedAs
        <3>4. q[2 * k + 5] = Num(op.path[k]) BY <2>5 DEF WrittenAt
        <3> QED BY <3>2, <3>3, <3>4
    <2>9. ASSUME NEW k \in 1..n - 1 PROVE line[2 * k + 6] = q[2 * k + 6]
        <3>1. 2 * k + 6 \in 1..Len(line) BY <2>0, <2>15
        <3>2. line[2 * k + 6] = Sym(line[2 * k + 6].sym) BY <1>2, <2>3, <3>1
        <3>3. line[2 * k + 6].sym = "." BY <2>3
        <3>4. q[2 * k + 6] = Sym(".") BY <2>5 DEF WrittenAt
        <3> QED BY <3>2, <3>3, <3>4
    <2>10. ASSUME NEW i \in 1..2 * n + 6 PROVE q[i] = line[i]
        <3>1. CASE i \in 1..6
            <4>1. i = 1 \/ i = 2 \/ i = 3 \/ i = 4 \/ i = 5 \/ i = 6 BY <3>1
            <4> QED BY <2>5, <2>7, <4>1 DEF WrittenAt
        <3>2. CASE i = 2 * n + 6 BY <2>5, <2>7, <3>2 DEF WrittenAt
        <3> QED BY <2>0, <2>8, <2>9, <3>1, <3>2, PlacesOfLine
    <2>11. PICK S : q \in Seq(S) BY <2>5 DEF WrittenAt
    <2>12. DOMAIN q = 1..2 * n + 6 BY <2>5 DEF WrittenAt
    <2>13. DOMAIN line = 1..2 * n + 6 BY <1>1, <2>3
    <2>14. 2 * n + 6 \in Nat BY <2>0
    <2> QED BY <2>10, <2>11, <2>12, <2>13, <2>14, SamePlaces
<1> HIDE DEF q, op
<1>6. q = line BY <1>3, <1>4, <1>5 DEF q, op
<1> QED BY <1>6 DEF q, op

\* Every line that an operation is written as parses.
LEMMA WrittenParses ==
    ASSUME NEW op \in Operations, NEW line \in Seq(Tokens), line = Written(op)
    PROVE  Parses(line)
<1>1. op.tid \in 0..IntMax /\ op.tid \in Int BY IdsAssumption DEF Operations
<1>2. DOMAIN line = 1..Len(line) BY ElemsOfSeq
<1>3. IntMax \in Nat BY IdsAssumption
<1>4. \A s : Sym(s).sym = s /\ Sym(s).value = 0 BY DEF Sym
<1>5. \A v : Num(v).sym = "digits" /\ Num(v).value = v BY DEF Num
<1>6. CASE op.type = "Commit"
    <2>1. /\ Len(line) = 5
          /\ line[1] = Sym("T") /\ line[2] = Num(op.tid) /\ line[3] = Sym(":")
          /\ line[4] = Sym(" ") /\ line[5] = Sym("c")
        BY <1>6, WrittenCommit
    <2>2. Recognised(line)
        <3>1. IsCommit(line) BY <1>4, <1>5, <2>1, Zenon DEF IsCommit, Begins
        <3> QED BY <3>1, RecognisedShapes
    <2>3. ASSUME NEW i \in 1..5 PROVE line[i].value <= IntMax
        <3>1. i = 1 \/ i = 2 \/ i = 3 \/ i = 4 \/ i = 5 OBVIOUS
        <3>2. /\ line[1].value = 0 /\ line[2].value = op.tid /\ line[3].value = 0
              /\ line[4].value = 0 /\ line[5].value = 0
            BY <1>4, <1>5, <2>1, Zenon
        <3>3. line[i].value = 0 \/ line[i].value = op.tid BY <3>1, <3>2, Zenon
        <3>4. 0 <= IntMax /\ op.tid <= IntMax BY <1>1, <1>3
        <3> QED BY <3>3, <3>4
    <2>4. DOMAIN line = 1..5 BY <1>2, <2>1
    <2> QED BY <2>2, <2>3, <2>4 DEF Parses
<1>7. CASE op.type # "Commit"
    <2>1. op.type \in {"Read", "Write", "UpdateLock"} /\ op.path \in Paths
        BY <1>7 DEF Operations
    <2>2. PICK n \in 1..MaxDepth : op.path \in [1..n -> RscIds] BY <2>1 DEF Paths
    <2>3. n \in Nat \ {0} BY DEF MaxDepth
    <2>4. Len(op.path) = n BY <2>2, <2>3
    <2>5. WrittenAt(op, n, line) BY <2>1, <2>3, <2>4, WrittenAccess
    <2>6. KindOf(op.type) \in {"r", "w", "ul"} BY <2>1 DEF KindOf
    <2>7. Recognised(line)
        <3>1. /\ line[1].sym = "T" /\ line[2].sym = "digits" /\ line[3].sym = ":"
              /\ line[4].sym = " " /\ line[6].sym = "(" /\ line[2 * n + 6].sym = ")"
              /\ line[5].sym = KindOf(op.type)
            BY <1>4, <1>5, <2>5, Zenon DEF WrittenAt
        <3>2. \A k \in 1..n : line[2 * k + 5].sym = "digits"
            BY <1>5, <2>5, Zenon DEF WrittenAt
        <3>3. \A k \in 1..n - 1 : line[2 * k + 6].sym = "."
            BY <1>4, <2>5, Zenon DEF WrittenAt
        <3>4. Len(line) = 2 * n + 6 BY <2>5 DEF WrittenAt
        <3>5. IsAccess(line, n)
            BY <2>6, <3>1, <3>2, <3>3, <3>4 DEF IsAccess, Begins
        <3> QED BY <3>5, RecognisedShapes
    <2>8. ASSUME NEW i \in 1..2 * n + 6 PROVE line[i].value <= IntMax
        <3>1. CASE i \in 1..6 \/ i = 2 * n + 6
            <4>1. i = 1 \/ i = 2 \/ i = 3 \/ i = 4 \/ i = 5 \/ i = 6 \/ i = 2 * n + 6
                BY <3>1
            <4>2. /\ line[1].value = 0 /\ line[2].value = op.tid /\ line[3].value = 0
                  /\ line[4].value = 0 /\ line[5].value = 0 /\ line[6].value = 0
                  /\ line[2 * n + 6].value = 0
                BY <1>4, <1>5, <2>5, Zenon DEF WrittenAt
            <4>3. line[i].value = 0 \/ line[i].value = op.tid BY <4>1, <4>2, Zenon
            <4>4. 0 <= IntMax /\ op.tid <= IntMax BY <1>1, <1>3
            <4> QED BY <4>3, <4>4
        <3>2. CASE \E k \in 1..n : i = 2 * k + 5
            <4>1. PICK k \in 1..n : i = 2 * k + 5 BY <3>2
            <4>2. line[i].value = op.path[k] BY <1>5, <2>5, <4>1 DEF WrittenAt
            <4>3. op.path[k] \in 0..IntMax BY <2>2, IdsAssumption
            <4> QED BY <1>3, <4>2, <4>3
        <3>3. CASE \E k \in 1..n - 1 : i = 2 * k + 6
            <4>1. line[i].value = 0 BY <1>4, <2>5, <3>3 DEF WrittenAt
            <4> QED BY <1>3, <4>1
        <3> QED BY <2>3, <3>1, <3>2, <3>3, PlacesOfLine
    <2>9. DOMAIN line = 1..2 * n + 6 BY <2>5 DEF WrittenAt
    <2> QED BY <2>7, <2>8, <2>9 DEF Parses
<1> QED BY <1>6, <1>7
=============================================================================
