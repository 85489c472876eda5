---------------------------- MODULE MCMailTransfer ----------------------------
(* Instances of MailTransfer for TLC. *)
EXTENDS MailTransfer

CONSTANT Longest    \* bound: the length of the files

AllMails == UNION {[1..n -> Byte] : n \in 0..Longest}
==============================================================================
