------------------------------ MODULE Ordering ------------------------------
(***************************************************************************)
(* Finite sets in an order, and what is left of a list when some of its    *)
(* elements have been taken out: sorted() and list.remove of Python.  They *)
(* are defined by the number of elements that come before one, so that     *)
(* they can be reasoned about without induction.                           *)
(***************************************************************************)
EXTENDS Naturals, FiniteSets, Sequences

\* The elements of S that come before i in the order R, a set of pairs.
Before(S, R, i) == { j \in S : <<j, i>> \in R }

\* The elements of S in the order R.
InOrder(S, R) ==
  [ k \in 1 .. Cardinality(S) |->
      CHOOSE i \in S : Cardinality(Before(S, R, i)) = k - 1 ]

Increasing(S) == { p \in S \X S : p[1] < p[2] }

\* The elements of s at the indexes of kept.
Part(s, kept) ==
  [ k \in 1 .. Cardinality(kept) |-> s[InOrder(kept, Increasing(kept))[k]] ]
=============================================================================
