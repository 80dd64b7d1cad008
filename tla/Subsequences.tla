----------------------------- MODULE Subsequences -----------------------------
(***************************************************************************)
(* What a filter of the code leaves of an array: the elements at some of   *)
(* its positions, in their order.  It says what SelectSeq says, without    *)
(* the recursion, so that proofs can look into it.                         *)
(***************************************************************************)
EXTENDS Naturals, Sequences, FiniteSets

\* How many of the positions come no later than i.
Rank(positions, i) == Cardinality({k \in positions : k <= i})

\* The j-th of the positions.
Nth(positions, j) == CHOOSE i \in positions : Rank(positions, i) = j

Subsequence(q, positions) ==
  [j \in 1 .. Cardinality(positions) |-> q[Nth(positions, j)]]
=============================================================================
