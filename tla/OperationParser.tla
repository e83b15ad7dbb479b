---------------------------- MODULE OperationParser ----------------------------
(***************************************************************************)
(* How a line of the input becomes an operation (operation.cpp).  A line   *)
(* is a sequence of tokens, with every run of digits one token and "ul"    *)
(* one token.  The constructor matches the line against two expressions    *)
(* and then takes it apart by three scans of its own, one for the kind and *)
(* the granularity, one for the path and one for the resource.             *)
(***************************************************************************)
EXTENDS Schedule

CONSTANT IntMax   \* INT_MAX: std::stoi throws out_of_range beyond it

\* The ids are what std::stoi returns.
ASSUME IdsAssumption == IntMax \in Nat /\ Tids = 0..IntMax /\ RscIds = 0..IntMax

Sym(s) == [sym |-> s, value |-> 0]
Num(n) == [sym |-> "digits", value |-> n]
Tokens == [sym : {"digits"}, value : Nat] \cup [sym : STRING \ {"digits"}, value : {0}]

\* The sequences of symbols that match "^T[0-9]+: c$" or
\* "^T[0-9]+: (r|w|ul)\([0-9]+(\.[0-9]+){0,3}\)$".
Dotted(n) == [i \in 1..2 * n - 1 |-> IF i % 2 = 1 THEN "digits" ELSE "."]
Forms(depths) ==
    LET transaction == <<"T", "digits", ":", " ">>
    IN {transaction \o <<"c">>} \cup
       {transaction \o <<a, "(">> \o Dotted(n) \o <<")">> :
           a \in {"r", "w", "ul"}, n \in depths}
\* Mutant: one component too many, {0,4}.
RecognisedDeep(line) == [i \in DOMAIN line |-> line[i].sym] \in Forms(1..MaxDepth + 1)
Recognised(line) == [i \in DOMAIN line |-> line[i].sym] \in Forms(1..MaxDepth)

\* The constructor throws invalid_argument or, from std::stoi, out_of_range.
Parses(line) ==
    /\ Recognised(line)
    /\ \A i \in DOMAIN line : line[i].value <= IntMax

\* find: the first s in the line, or the end, where substr stops in any case.
Find(line, s) ==
    LET at == {i \in DOMAIN line : line[i].sym = s}
    IN IF at = {} THEN Len(line) + 1 ELSE CHOOSE i \in at : \A j \in at : i <= j

TypeToken(line) == SubSeq(line, Find(line, ":") + 2, Find(line, "(") - 1)
TransactionIdToken(line) == SubSeq(line, 2, Find(line, ":") - 1)
GranularityToken(line) == SubSeq(line, Find(line, "(") + 1, Find(line, ")") - 1)

Stoi(token) == token[1].value

GetOperation(line) ==
    CASE TypeToken(line) = <<Sym("c")>> -> "Commit"
      [] TypeToken(line) = <<Sym("r")>> -> "Read"
      [] TypeToken(line) = <<Sym("w")>> -> "Write"
      [] OTHER -> "UpdateLock"

Dots(token) == {i \in DOMAIN token : token[i].sym = "."}

\* The first scan counts dots: one more is the depth of the granularity.
GetGranularity(line) == 1 + Cardinality(Dots(GranularityToken(line)))

\* The second scan: every dot ends an id, so the k-th id is made of what comes
\* after k - 1 dots, and the last id ends the path.
GetFullResourcePath(line) ==
    LET token == GranularityToken(line)
        dots == Dots(token)
        id(k) == Select(token, {i \in DOMAIN token \ dots : Rank(dots, i) = k - 1})
    IN [k \in 1..Cardinality(dots) + 1 |-> Stoi(id(k))]

\* Mutant: a dot does not start the id anew.
FirstResource(line) == Stoi(GranularityToken(line))

\* The third scan: every dot starts the id anew, and what no dot follows is
\* left.
ScanResource(line) ==
    LET token == GranularityToken(line)
    IN Stoi(Select(token, {i \in DOMAIN token : \A d \in Dots(token) : d < i}))

\* The operation made of a line that parses.
Parse(line) ==
    LET type == GetOperation(line)
    IN [type |-> type, tid |-> Stoi(TransactionIdToken(line)),
        path |-> IF type = "Commit" THEN <<>> ELSE GetFullResourcePath(line)]

-----------------------------------------------------------------------------

\* The line a user writes for an operation.
Written(op) ==
    LET Ids == [i \in 1..2 * Len(op.path) - 1 |->
                   IF i % 2 = 1 THEN Num(op.path[(i + 1) \div 2]) ELSE Sym(".")]
        start == <<Sym("T"), Num(op.tid), Sym(":"), Sym(" ")>>
        kind == CASE op.type = "Commit" -> "c" [] op.type = "Read" -> "r"
                  [] op.type = "Write" -> "w" [] op.type = "UpdateLock" -> "ul"
    IN start \o IF op.type = "Commit" THEN <<Sym(kind)>>
                ELSE <<Sym(kind), Sym("(")>> \o Ids \o <<Sym(")")>>
=============================================================================
