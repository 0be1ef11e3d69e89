---------------------------- MODULE MCReadWriteGate ----------------------------
(* TLC instances of ReadWriteGate. *)
EXTENDS ReadWriteGate, TLC
===============================================================================
