---------------------------- MODULE MCPop3Session ----------------------------
(* Instances of Pop3Session for TLC. *)
EXTENDS Pop3Session, TLC

CONSTANTS c1, c2, u1, u2, f1, d1, d2, m1, m2

(* One mailbox with every file in it *)
OneOwner == [f \in File |-> u1]
OnePlace == [f \in File |-> m1]

ConnFdSymmetry == Permutations(Conn) \cup Permutations(Fd)
=============================================================================
