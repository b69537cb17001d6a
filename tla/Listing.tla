------------------------------ MODULE Listing -------------------------------
(***************************************************************************)
(* What a query with ORDER BY, a filter over a list or a sort leaves       *)
(* behind: the members of a finite set from first to last.                 *)
(***************************************************************************)
EXTENDS Integers, FiniteSets

\* The members of S in a list, each once, every two of them as the pairs of R say.
Listed(S, R) ==
  CHOOSE list \in [1 .. Cardinality(S) -> S] :
    \A i, j \in DOMAIN list : i < j => list[i] # list[j] /\ <<list[i], list[j]>> \in R
=============================================================================
