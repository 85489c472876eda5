--------------------------- MODULE MCCommandFraming ---------------------------
(* Instances of CommandFraming for TLC. *)
EXTENDS CommandFraming

(* A fresh buffer, buffers full of what looks like the ends of lines, and   *)
(* one with a single NUL, at its end                                        *)
Residues ==
    {[i \in Offset |-> "NUL"],
     [i \in Offset |-> IF i % 2 = 0 THEN "CR" ELSE "LF"],
     [i \in Offset |-> IF i % 2 = 0 THEN "LF" ELSE "CR"],
     [i \in Offset |-> IF i = Capacity - 1 THEN "NUL" ELSE "x"]}

(* Texts of every length, of letters and of ends of lines *)
Floods ==
    UNION {{[i \in 1..n |-> "x"],
            [i \in 1..n |-> IF i % 2 = 0 THEN "LF" ELSE "CR"]} :
           n \in 1..Capacity}
==============================================================================
