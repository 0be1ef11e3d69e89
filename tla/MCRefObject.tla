----------------------------- MODULE MCRefObject -----------------------------
(* TLC instance of RefObject. *)
EXTENDS RefObject
=============================================================================
