----------------------------- MODULE MCTransform -----------------------------
(* Instances of Transform for TLC. *)
EXTENDS Transform

CONSTANTS t1, t2
=============================================================================
