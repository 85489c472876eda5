------------------------------ MODULE Transform ------------------------------
(***************************************************************************)
(* RETR through the transformation: transform_completion of                *)
(* parser/pop3_parserADT.c, run by several session threads at once.        *)
(*                                                                         *)
(* Each transfer makes a pipe and forks a child, which runs the script     *)
(* with the pipe as its input and the socket as its output.  The thread    *)
(* writes the mail to the pipe, closes its write end and waits for the     *)
(* child.  A forked child has every descriptor the server has at that      *)
(* moment, and closes only the two of its own pipe; a pipe is at its end   *)
(* for a reader when no process at all has its write end.                  *)
(*                                                                         *)
(* Process 0 is the server, process x the child of transfer x.             *)
(***************************************************************************)
EXTENDS Integers

CONSTANTS
    Thread,         \* threads of sessions
    MaxTransfers,   \* bound: transfers in a behaviour
    Length,         \* how many bytes a mail has
    PipeSize,       \* how many bytes a pipe holds
    MayVanish       \* TRUE: the mail file may be gone when it is opened

ASSUME TransformAssumption ==
    /\ MaxTransfers \in Nat
    /\ Length \in Nat
    /\ PipeSize \in Nat \ {0}
    /\ MayVanish \in BOOLEAN

Transfer == 1..MaxTransfers
Process  == {0} \cup Transfer
End      == {"r", "w"}

VARIABLES
    pc,        \* [Thread -> where transform_completion is], "idle" outside it
    cur,       \* [Thread -> its transfer], 0 outside transform_completion
    left,      \* [Thread -> bytes of the mail not written yet]
    ends,      \* which process has which end of which pipe open
    child,     \* [Transfer -> state of the child process]
    inpipe,    \* [Transfer -> bytes in its pipe]
    eaten,     \* [Transfer -> bytes the script has read]
    dotted,    \* transfers after which the client was sent the final "."
    started,   \* transfers started so far
    stops,     \* the configured script may stop before the end of its input
    alive      \* the server has not been killed by SIGPIPE

transformVars == <<pc, cur, left, ends, child, inpipe, eaten, dotted, started,
                   stops, alive>>

Init ==
    /\ pc = [t \in Thread |-> "idle"]
    /\ cur = [t \in Thread |-> 0]
    /\ left = [t \in Thread |-> 0]
    /\ ends = {}
    /\ child = [x \in Transfer |-> "none"]
    /\ inpipe = [x \in Transfer |-> 0]
    /\ eaten = [x \in Transfer |-> 0]
    /\ dotted = {}
    /\ started = 0
    /\ stops \in BOOLEAN
    /\ alive = TRUE

Has(p, x, e) == <<p, x, e>> \in ends

AtEnd(x)  == inpipe[x] = 0 /\ \A p \in Process : ~Has(p, x, "w")
Broken(x) == \A p \in Process : ~Has(p, x, "r")

Step(t, from, to) ==
    /\ alive
    /\ pc[t] = from
    /\ pc' = [pc EXCEPT ![t] = to]

-----------------------------------------------------------------------------
(* The thread *)

(* pipe succeeds; when it fails the call returns with nothing changed *)
make_pipe(t) ==
    /\ started < MaxTransfers
    /\ Step(t, "idle", "piped")
    /\ started' = started + 1
    /\ cur' = [cur EXCEPT ![t] = started + 1]
    /\ ends' = ends \cup {<<0, started + 1, e>> : e \in End}
    /\ UNCHANGED <<left, child, inpipe, eaten, dotted, stops, alive>>

Inherited(x) == {<<x, d[2], d[3]>> : d \in {c \in ends : c[1] = 0}}

(* Mutant: the read end is closed before the fork. *)
fork_child_late(t) ==
    /\ Step(t, "piped", "forked")
    /\ child' = [child EXCEPT ![cur[t]] = "forked"]
    /\ ends' = ends \cup (Inherited(cur[t]) \ {<<cur[t], cur[t], "r">>})
    /\ UNCHANGED <<cur, left, inpipe, eaten, dotted, started, stops, alive>>

fork_child(t) ==
    /\ Step(t, "piped", "forked")
    /\ child' = [child EXCEPT ![cur[t]] = "forked"]
    /\ ends' = ends \cup Inherited(cur[t])
    /\ UNCHANGED <<cur, left, inpipe, eaten, dotted, started, stops, alive>>

(* fork fails: both ends are closed *)
fork_fails(t) ==
    /\ Step(t, "piped", "idle")
    /\ ends' = ends \ {<<0, cur[t], e>> : e \in End}
    /\ cur' = [cur EXCEPT ![t] = 0]
    /\ UNCHANGED <<left, child, inpipe, eaten, dotted, started, stops, alive>>

close_read(t) ==
    /\ Step(t, "forked", "opening")
    /\ ends' = ends \ {<<0, cur[t], "r">>}
    /\ UNCHANGED <<cur, left, child, inpipe, eaten, dotted, started, stops,
                   alive>>

open_mail(t) ==
    /\ Step(t, "opening", "writing")
    /\ left' = [left EXCEPT ![t] = Length]
    /\ UNCHANGED <<cur, ends, child, inpipe, eaten, dotted, started, stops,
                   alive>>

(* fopen fails: the thread goes back to its commands, the write end stays  *)
(* open and nobody waits for the child                                     *)
open_fails(t) ==
    /\ MayVanish
    /\ Step(t, "opening", "idle")
    /\ cur' = [cur EXCEPT ![t] = 0]
    /\ UNCHANGED <<left, ends, child, inpipe, eaten, dotted, started, stops,
                   alive>>

(* Mutant: the loop runs once too often. *)
write_byte_again(t) ==
    /\ Step(t, "writing", "writing")
    /\ left[t] >= 0
    /\ ~Broken(cur[t])
    /\ inpipe[cur[t]] < PipeSize
    /\ inpipe' = [inpipe EXCEPT ![cur[t]] = @ + 1]
    /\ left' = [left EXCEPT ![t] = @ - 1]
    /\ UNCHANGED <<cur, ends, child, eaten, dotted, started, stops, alive>>

(* write of one byte, which blocks while the pipe is full *)
write_byte(t) ==
    /\ Step(t, "writing", "writing")
    /\ left[t] > 0
    /\ ~Broken(cur[t])
    /\ inpipe[cur[t]] < PipeSize
    /\ inpipe' = [inpipe EXCEPT ![cur[t]] = @ + 1]
    /\ left' = [left EXCEPT ![t] = @ - 1]
    /\ UNCHANGED <<cur, ends, child, eaten, dotted, started, stops, alive>>

(* write to a pipe nobody can read: SIGPIPE, which the server does not     *)
(* ignore, ends the process and closes its descriptors                     *)
write_killed(t) ==
    /\ Step(t, "writing", "writing")
    /\ left[t] > 0
    /\ Broken(cur[t])
    /\ alive' = FALSE
    /\ ends' = {d \in ends : d[1] # 0}
    /\ UNCHANGED <<cur, left, child, inpipe, eaten, dotted, started, stops>>

close_write(t) ==
    /\ Step(t, "writing", "waiting")
    /\ left[t] = 0
    /\ ends' = ends \ {<<0, cur[t], "w">>}
    /\ UNCHANGED <<cur, left, child, inpipe, eaten, dotted, started, stops,
                   alive>>

(* Mutant: the thread does not wait for the child. *)
wait_child_not(t) ==
    /\ Step(t, "waiting", "idle")
    /\ dotted' = dotted \cup {cur[t]}
    /\ cur' = [cur EXCEPT ![t] = 0]
    /\ UNCHANGED <<left, ends, child, inpipe, eaten, started, stops, alive>>

(* waitpid returns; the mail is RETRIEVED and the final "." is sent *)
wait_child(t) ==
    /\ Step(t, "waiting", "idle")
    /\ child[cur[t]] = "exited"
    /\ dotted' = dotted \cup {cur[t]}
    /\ cur' = [cur EXCEPT ![t] = 0]
    /\ UNCHANGED <<left, ends, child, inpipe, eaten, started, stops, alive>>

-----------------------------------------------------------------------------
(* The child *)

(* Mutant: the child does not close the write end of its own pipe. *)
exec_script_open(x) ==
    /\ child[x] = "forked"
    /\ child' = [child EXCEPT ![x] = "running"]
    /\ UNCHANGED <<pc, cur, left, ends, inpipe, eaten, dotted, started, stops,
                   alive>>

(* close of the write end, dup2 of the read end to stdin, and execl *)
exec_script(x) ==
    /\ child[x] = "forked"
    /\ child' = [child EXCEPT ![x] = "running"]
    /\ ends' = ends \ {<<x, x, "w">>}
    /\ UNCHANGED <<pc, cur, left, inpipe, eaten, dotted, started, stops,
                   alive>>

script_reads(x) ==
    /\ child[x] = "running"
    /\ inpipe[x] > 0
    /\ inpipe' = [inpipe EXCEPT ![x] = @ - 1]
    /\ eaten' = [eaten EXCEPT ![x] = @ + 1]
    /\ UNCHANGED <<pc, cur, left, ends, child, dotted, started, stops, alive>>

Exit(x) ==
    /\ child[x] = "running"
    /\ child' = [child EXCEPT ![x] = "exited"]
    /\ ends' = {d \in ends : d[1] # x}
    /\ UNCHANGED <<pc, cur, left, inpipe, eaten, dotted, started, stops, alive>>

(* The script ends at the end of its input *)
script_exits(x) == AtEnd(x) /\ Exit(x)

(* or before, if it may stop *)
script_stops(x) == stops /\ Exit(x)

-----------------------------------------------------------------------------
ThreadStep(t) ==
    \/ fork_child(t) \/ fork_fails(t) \/ close_read(t)
    \/ open_mail(t) \/ open_fails(t)
    \/ write_byte(t) \/ write_killed(t) \/ close_write(t) \/ wait_child(t)

ChildStep(x) == exec_script(x) \/ script_reads(x) \/ script_exits(x)

Next ==
    \/ \E t \in Thread : make_pipe(t) \/ ThreadStep(t)
    \/ \E x \in Transfer : ChildStep(x) \/ script_stops(x)

Spec == Init /\ [][Next]_transformVars

(* Threads and processes that can run do; no script has to stop early. *)
FairSpec ==
    /\ Spec
    /\ \A t \in Thread : WF_transformVars(ThreadStep(t))
    /\ \A x \in Transfer : WF_transformVars(ChildStep(x))

-----------------------------------------------------------------------------
(* Properties *)

(* The types; in particular no more than the mail is read or written, and  *)
(* no more is in a pipe than it takes.                                     *)
TypeOK ==
    /\ pc \in [Thread -> {"idle", "piped", "forked", "opening", "writing",
                          "waiting"}]
    /\ cur \in [Thread -> Process]
    /\ left \in [Thread -> 0..Length]
    /\ ends \subseteq Process \X Transfer \X End
    /\ child \in [Transfer -> {"none", "forked", "running", "exited"}]
    /\ inpipe \in [Transfer -> 0..PipeSize]
    /\ eaten \in [Transfer -> 0..Length]
    /\ dotted \subseteq Transfer
    /\ started \in 0..MaxTransfers
    /\ stops \in BOOLEAN
    /\ alive \in BOOLEAN

(* The final "." follows the mail: when it is sent, the script has read    *)
(* the whole mail and ended, so that all it wrote is in the socket.        *)
DotAfterOutput ==
    \A x \in dotted : child[x] = "exited" /\ (stops \/ eaten[x] = Length)

(* A script that reads its input to the end never costs the server a       *)
(* SIGPIPE, however the transfers interleave.                              *)
ServerSurvives == ~stops => alive

(* A thread that waits for room in the pipe or for the end of its child,   *)
(* and a child that waits for input or is gone                             *)
ThreadBlocked(t) ==
    \/ /\ pc[t] = "writing" /\ left[t] > 0
       /\ inpipe[cur[t]] = PipeSize /\ ~Broken(cur[t])
    \/ pc[t] = "waiting" /\ child[cur[t]] # "exited"

ChildBlocked(x) ==
    \/ child[x] = "exited"
    \/ child[x] = "running" /\ inpipe[x] = 0 /\ ~AtEnd(x)

(* A transfer is at a standstill only for the child of another one, which  *)
(* was forked meanwhile, has not ended and has the write end of its pipe:  *)
(* neither an end that the server or the script itself left open, nor a    *)
(* script that stopped early, blocks the thread.                           *)
OnlyOthersBlock ==
    alive => \A t \in Thread : ThreadBlocked(t) /\ ChildBlocked(cur[t]) =>
        \E x \in Transfer \ {cur[t]} :
            child[x] \in {"forked", "running"} /\ Has(x, cur[t], "w")

(* A transfer that was started comes to its end, unless the server dies or *)
(* the child of another transfer keeps the write end of its pipe for ever.  *)
KeptByOther(t) == \E x \in Transfer \ {cur[t]} : Has(x, cur[t], "w")

TransferEnds ==
    \A t \in Thread :
        pc[t] # "idle" ~> pc[t] = "idle" \/ ~alive \/ []KeptByOther(t)

(* "Close the writing end of the pipe to signal the end of input to the    *)
(* child": a thread that has done so and waits for its child gets on.      *)
WaitEnds == \A t \in Thread : pc[t] = "waiting" ~> pc[t] = "idle"

=============================================================================
