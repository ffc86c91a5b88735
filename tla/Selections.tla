----------------------------- MODULE Selections -----------------------------
(***************************************************************************)
(* What a loop that appends what it wants, and a stable sort, make of a    *)
(* sequence.  Said by counting instead of recursion, so that proofs can    *)
(* speak of them.                                                          *)
(***************************************************************************)
EXTENDS Naturals, FiniteSets

\* The members of s at the positions in I, in their order.
Pick(s, I) ==
  [k \in 1..Cardinality(I) |-> s[CHOOSE i \in I : Cardinality({j \in I : j < i}) = k - 1]]

\* The members of s, i in front of j when Before(i, j).
Sorted(s, Before(_, _)) ==
  [k \in DOMAIN s |->
     s[CHOOSE i \in DOMAIN s : Cardinality({j \in DOMAIN s : Before(j, i)}) = k - 1]]
=============================================================================
