---------------------------- MODULE MCDistributor ----------------------------
(* Instances of Distributor for TLC. *)
EXTENDS Distributor, TLC

CONSTANTS l4, l6, c1, c2, c3, d1, d2, d3

(* The first client comes by IPv4, the others by IPv6 *)
Homes == [c \in Client |-> IF c = c1 THEN l4 ELSE l6]
==============================================================================
