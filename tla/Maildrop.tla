------------------------------- MODULE Maildrop -------------------------------
(***************************************************************************)
(* What the server promises about mail, whatever the clients send and      *)
(* however their sessions interleave.                                      *)
(*                                                                         *)
(*   - Within a session message numbers are stable: the list the client    *)
(*     numbers its messages by only ever grows at its end, and all of it   *)
(*     was in the store when it was listed.                                *)
(*   - A message leaves the store only while a session commits, that is    *)
(*     after its QUIT, and only if that session asked for its deletion, by *)
(*     its number, and had not withdrawn it.                               *)
(*   - A session that ends in any other way takes nothing with it.         *)
(*                                                                         *)
(* No promise is made that a message asked to be deleted is deleted: the   *)
(* file may have been moved meanwhile, and the failure is ignored.         *)
(***************************************************************************)
EXTENDS Integers, Sequences

CONSTANTS
    Conn,   \* the sessions
    File,   \* the messages
    Room    \* how many messages a session's list has room for

VARIABLES
    present,     \* the messages in the store
    view,        \* [Conn -> Seq(File)], each session's numbered list
    doomed,      \* [Conn -> set of numbers whose deletion was asked for]
    committing   \* the sessions between QUIT and the end of its update

dropVars == <<present, view, doomed, committing>>

DropInit ==
    /\ present \subseteq File
    /\ view = [c \in Conn |-> <<>>]
    /\ doomed = [c \in Conn |-> {}]
    /\ committing = {}

Arrive(f) ==
    /\ f \notin present
    /\ present' = present \cup {f}
    /\ UNCHANGED <<view, doomed, committing>>

(* One reading of the store adds some of its messages, in some order *)
Enlist(c) ==
    /\ c \notin committing
    /\ \E n \in 0..Room : \E s \in [1..n -> present] :
         view' = [view EXCEPT ![c] = @ \o s]
    /\ UNCHANGED <<present, doomed, committing>>

Ask(c, n) ==
    /\ c \notin committing
    /\ doomed' = [doomed EXCEPT ![c] = @ \cup {n}]
    /\ UNCHANGED <<present, view, committing>>

Withdraw(c, N) ==
    /\ c \notin committing
    /\ doomed' = [doomed EXCEPT ![c] = @ \ N]
    /\ UNCHANGED <<present, view, committing>>

Quit(c) ==
    /\ c \notin committing
    /\ committing' = committing \cup {c}
    /\ UNCHANGED <<present, view, doomed>>

Commit(c, n) ==
    /\ c \in committing
    /\ n \in doomed[c]
    /\ present' \in {present, present \ {view[c][n]}}
    /\ doomed' = [doomed EXCEPT ![c] = @ \ {n}]
    /\ UNCHANGED <<view, committing>>

EndCommit(c) ==
    /\ c \in committing
    /\ committing' = committing \ {c}
    /\ UNCHANGED <<present, view, doomed>>

Leave(c) ==
    /\ c \notin committing
    /\ view' = [view EXCEPT ![c] = <<>>]
    /\ doomed' = [doomed EXCEPT ![c] = {}]
    /\ UNCHANGED <<present, committing>>

DropNext ==
    \/ \E f \in File : Arrive(f)
    \/ \E c \in Conn :
         \/ Enlist(c) \/ Quit(c) \/ EndCommit(c) \/ Leave(c)
         \/ \E n \in DOMAIN view[c] : Ask(c, n) \/ Commit(c, n)
         \/ \E N \in SUBSET DOMAIN view[c] : Withdraw(c, N)

DropSpec == DropInit /\ [][DropNext]_dropVars
=============================================================================
