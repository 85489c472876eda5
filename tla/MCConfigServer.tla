--------------------------- MODULE MCConfigServer ---------------------------
(* An instance of ConfigServer for TLC. *)
EXTENDS ConfigServer

CONSTANTS a, b

(* The script, which parse_args may have made longer than a datagram, and  *)
(* the token.                                                              *)
Strings  == {"TFN", "ATT"}
Sizes    == [TFN |-> 4, ATT |-> 2]
AtStart  == [TFN |-> <<a, a, a>>, ATT |-> <<a>>]
=============================================================================
