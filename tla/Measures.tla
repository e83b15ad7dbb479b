------------------------------- MODULE Measures -------------------------------
(***************************************************************************)
(* What a loop has left to do, as a tuple of numbers, the most significant *)
(* first.                                                                  *)
(***************************************************************************)
EXTENDS Naturals

\* The first numbers that differ decide.  Of tuples of naturals of one length
\* there is no infinite sequence in which each is less than the one before.
Less(a, b) == \E k \in DOMAIN b : a[k] < b[k] /\ \A j \in 1..k - 1 : a[j] = b[j]
=============================================================================
