------------------------------ MODULE MCSettings ------------------------------
(* The configuration alone, for the finding about a second load. *)
EXTENDS Settings

\* Every content of the file has the same key; nothing is given as text.
SameKey(n) == IF n = 0 THEN {} ELSE {"a"}
=============================================================================
