------------------------------ MODULE Ascending ------------------------------
(***************************************************************************)
(* The order in which the code visits a std::map, or a vector by its       *)
(* indexes.                                                                *)
(***************************************************************************)
EXTENDS Naturals, FiniteSets

\* The numbers of the finite set S, counting up.
InOrder(S) == [k \in 1 .. Cardinality(S) |-> CHOOSE i \in S : Cardinality({j \in S : j <= i}) = k]
=============================================================================
