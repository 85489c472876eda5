--------------------------- MODULE TransformProofs ---------------------------
(***************************************************************************)
(* Any number of threads transform any number of mails at once, of any     *)
(* length, through pipes of any size:                                      *)
(*   - the final "." of a mail follows all that its script wrote           *)
(*     (DotFollowsOutput), and                                             *)
(*   - a script that reads to the end of its input never costs the server  *)
(*     a SIGPIPE (NoSigpipe), and                                          *)
(*   - a transfer is at a standstill only for a child of another one       *)
(*     (OnlyOthersKeep).                                                   *)
(*                                                                         *)
(* All rest on who holds the ends of a pipe.  TransformInv says: a         *)
(* transfer belongs to one thread; up to close_write the server has its    *)
(* write end, so the script has not seen the end of its input; the child   *)
(* has the read end until it exits; every byte written is in the pipe or   *)
(* eaten; and once a script has exited, nothing can write to its pipe      *)
(* again, not even a child forked later for another transfer.              *)
(***************************************************************************)
EXTENDS Transform, TLAPS

Busy(t) == pc[t] # "idle"

(* A transfer under way has one thread. *)
OneThread ==
    /\ \A t \in Thread :
        /\ cur[t] <= started
        /\ Busy(t) => cur[t] \in Transfer
    /\ \A t, u \in Thread : Busy(t) /\ Busy(u) /\ t # u => cur[t] # cur[u]

Untouched(x) == eaten[x] = 0 /\ inpipe[x] = 0

Unstarted ==
    \A x \in Transfer : x > started =>
        /\ child[x] = "none"
        /\ Untouched(x)
        /\ \A d \in ends : d[2] # x /\ d[1] # x

(* What holds of a transfer at each place of the thread that runs it. *)
Stage(t) ==
    /\ pc[t] = "piped" =>
        /\ child[cur[t]] = "none"
        /\ <<0, cur[t], "r">> \in ends
    /\ pc[t] \in {"piped", "forked", "opening", "writing"} =>
        <<0, cur[t], "w">> \in ends
    /\ pc[t] \in {"piped", "forked", "opening"} => Untouched(cur[t])
    /\ pc[t] \in {"forked", "opening", "writing", "waiting"} =>
        child[cur[t]] # "none"
    /\ pc[t] = "writing" => eaten[cur[t]] + inpipe[cur[t]] + left[t] = Length
    /\ pc[t] = "waiting" => eaten[cur[t]] + inpipe[cur[t]] = Length

Stages == alive => \A t \in Thread : Stage(t)

Bounded == \A x \in Transfer : eaten[x] + inpipe[x] <= Length

ChildReads ==
    \A x \in Transfer : child[x] \in {"forked", "running"} =>
        <<x, x, "r">> \in ends

ExitedAtEnd ==
    ~stops => \A x \in Transfer : child[x] = "exited" =>
        /\ inpipe[x] = 0
        /\ \A p \in Process : <<p, x, "w">> \notin ends

TransformInv ==
    /\ TypeOK
    /\ OneThread
    /\ Unstarted
    /\ Stages
    /\ Bounded
    /\ ChildReads
    /\ ExitedAtEnd
    /\ DotAfterOutput
    /\ ServerSurvives

-----------------------------------------------------------------------------
LEMMA InitInv == Init => TransformInv
<1> SUFFICES ASSUME Init PROVE TransformInv
    OBVIOUS
<1> USE TransformAssumption DEF Init, Transfer, Process
<1>1. TypeOK
    BY DEF TypeOK, End
<1>2. OneThread /\ Unstarted /\ Bounded
    BY DEF OneThread, Unstarted, Untouched, Bounded, Busy
<1>3. Stages
    BY DEF Stages, Stage
<1>4. ChildReads /\ ExitedAtEnd /\ DotAfterOutput /\ ServerSurvives
    BY DEF ChildReads, ExitedAtEnd, DotAfterOutput, ServerSurvives
<1> QED BY <1>1, <1>2, <1>3, <1>4 DEF TransformInv

(* A step of a thread t that is in transform_completion and runs transfer  *)
(* cur[t]: what the step needs to know.                                    *)
LEMMA OwnTransfer ==
    ASSUME TransformInv, NEW t \in Thread, Busy(t)
    PROVE  /\ cur[t] \in Transfer
           /\ cur[t] <= started
           /\ \A u \in Thread : Busy(u) /\ u # t => cur[u] # cur[t]
BY DEF TransformInv, OneThread

LEMMA MakePipeKeeps ==
    ASSUME TransformInv, NEW t \in Thread, make_pipe(t)
    PROVE  TransformInv'
<1> DEFINE new == started + 1
<1> USE TransformAssumption
<1>0. /\ TypeOK /\ OneThread /\ Unstarted /\ Stages
      /\ Bounded /\ ChildReads /\ ExitedAtEnd /\ DotAfterOutput /\ ServerSurvives
    BY DEF TransformInv
<1>1. /\ alive /\ pc[t] = "idle" /\ pc' = [pc EXCEPT ![t] = "piped"]
      /\ started' = new /\ cur' = [cur EXCEPT ![t] = new]
      /\ ends' = ends \cup {<<0, new, e>> : e \in End}
      /\ UNCHANGED <<left, child, inpipe, eaten, dotted, stops, alive>>
      /\ started < MaxTransfers
    BY DEF make_pipe, Step
<1>2. /\ new \in Transfer /\ started \in Nat /\ new > started
      /\ new \in Process
    BY <1>0, <1>1 DEF TypeOK, Transfer, Process
<1>3. TypeOK'
    <2>1. ends' \subseteq Process \X Transfer \X End
        BY <1>0, <1>1, <1>2 DEF TypeOK, Process
    <2>2. started' \in 0..MaxTransfers
        BY <1>1, <1>2
    <2> QED BY <1>0, <1>1, <1>2, <2>1, <2>2 DEF TypeOK
<1>4. OneThread'
    <2>1. \A u \in Thread : u # t => cur'[u] = cur[u] /\ pc'[u] = pc[u]
        BY <1>0, <1>1 DEF TypeOK
    <2>2. cur'[t] = new /\ pc'[t] = "piped"
        BY <1>0, <1>1 DEF TypeOK
    <2>3. \A u \in Thread : cur[u] \in Int /\ cur[u] <= started
        BY <1>0 DEF TypeOK, OneThread, Process, Transfer
    <2> QED BY <1>0, <1>1, <1>2, <2>1, <2>2, <2>3 DEF OneThread, Busy
<1>5. Unstarted'
    <2> SUFFICES ASSUME NEW x \in Transfer, x > new
                 PROVE  /\ child[x] = "none"
                        /\ Untouched(x)
                        /\ \A d \in ends' : d[2] # x /\ d[1] # x
        BY <1>1 DEF Unstarted, Untouched
    <2>1. x > started
        BY <1>2 DEF Transfer
    <2>2. \A d \in ends' : d \in ends \/ \E e \in End : d = <<0, new, e>>
        BY <1>1
    <2>3. x # 0 /\ x # new
        BY <1>2 DEF Transfer
    <2> QED BY <1>0, <2>1, <2>2, <2>3 DEF Unstarted
<1>6. child[new] = "none" /\ Untouched(new)
    BY <1>0, <1>2 DEF Unstarted
<1>7. Stages'
    <2> SUFFICES ASSUME NEW u \in Thread PROVE Stage(u)'
        BY DEF Stages
    <2>1. CASE u = t
        <3>1. pc'[t] = "piped" /\ cur'[t] = new
            BY <1>0, <1>1 DEF TypeOK
        <3>2. <<0, new, "r">> \in ends' /\ <<0, new, "w">> \in ends'
            BY <1>1 DEF End
        <3> QED BY <1>1, <1>6, <2>1, <3>1, <3>2 DEF Stage, Untouched
    <2>2. CASE u # t
        <3>1. pc'[u] = pc[u] /\ cur'[u] = cur[u]
            BY <1>0, <1>1, <2>2 DEF TypeOK
        <3>2. Stage(u)
            BY <1>0, <1>1 DEF Stages
        <3>3. ends \subseteq ends'
            BY <1>1
        <3> QED BY <1>1, <3>1, <3>2, <3>3 DEF Stage, Untouched
    <2> QED BY <2>1, <2>2
<1>8. ChildReads' /\ Bounded' /\ DotAfterOutput' /\ ServerSurvives'
    BY <1>0, <1>1 DEF ChildReads, Bounded, DotAfterOutput, ServerSurvives
<1>9. ExitedAtEnd'
    BY <1>0, <1>1, <1>6 DEF ExitedAtEnd
<1> QED BY <1>3, <1>4, <1>5, <1>7, <1>8, <1>9 DEF TransformInv

(* The parts of TransformInv that speak of threads other than t only, when *)
(* a step of t changes neither what is in other pipes nor their ends.      *)
LEMMA OthersStages ==
    ASSUME TransformInv, alive, NEW t \in Thread, Busy(t), NEW to,
           pc' = [pc EXCEPT ![t] = to],
           \A u \in Thread : u # t => cur'[u] = cur[u] /\ left'[u] = left[u],
           \A x \in Transfer : x # cur[t] =>
               /\ child'[x] = child[x]
               /\ inpipe'[x] = inpipe[x]
               /\ eaten'[x] = eaten[x],
           \A d \in ends : d \in ends' \/ d[1] # 0 \/ d[2] = cur[t]
    PROVE  \A u \in Thread : u # t => Stage(u)'
<1> SUFFICES ASSUME NEW u \in Thread, u # t PROVE Stage(u)'
    OBVIOUS
<1>1. pc'[u] = pc[u] /\ cur'[u] = cur[u] /\ left'[u] = left[u]
    BY DEF TransformInv, TypeOK
<1>2. Stage(u)
    BY DEF TransformInv, Stages
<1>3. CASE pc[u] = "idle"
    BY <1>1, <1>3 DEF Stage
<1>4. CASE pc[u] # "idle"
    <2>1. cur[u] \in Transfer /\ cur[u] # cur[t]
        BY <1>4 DEF TransformInv, OneThread, Busy
    <2>2. /\ child'[cur[u]] = child[cur[u]]
          /\ inpipe'[cur[u]] = inpipe[cur[u]]
          /\ eaten'[cur[u]] = eaten[cur[u]]
        BY <2>1
    <2>3. \A e \in End : <<0, cur[u], e>> \in ends => <<0, cur[u], e>> \in ends'
        BY <2>1
    <2>4. /\ <<0, cur[u], "r">> \in ends => <<0, cur[u], "r">> \in ends'
          /\ <<0, cur[u], "w">> \in ends => <<0, cur[u], "w">> \in ends'
        BY <2>3 DEF End
    <2> QED BY <1>1, <1>2, <2>2, <2>4 DEF Stage, Untouched
<1> QED BY <1>3, <1>4

(* A thread that stays in the call, or leaves it, keeps OneThread.         *)
LEMMA StillOneThread ==
    ASSUME TransformInv, NEW t \in Thread, Busy(t), NEW to,
           pc' = [pc EXCEPT ![t] = to],
           \/ cur' = cur
           \/ to = "idle" /\ cur' = [cur EXCEPT ![t] = 0],
           started' = started
    PROVE  OneThread'
<1>0. TypeOK /\ OneThread
    BY DEF TransformInv
<1>1. started \in Nat
    BY <1>0 DEF TypeOK
<1>2. \A u \in Thread : u # t => pc'[u] = pc[u] /\ cur'[u] = cur[u]
    BY <1>0 DEF TypeOK
<1>3. pc'[t] = to
    BY <1>0 DEF TypeOK
<1>4. cur'[t] = cur[t] \/ (cur'[t] = 0 /\ pc'[t] = "idle")
    BY <1>0, <1>3 DEF TypeOK
<1> QED BY <1>0, <1>1, <1>2, <1>3, <1>4 DEF OneThread, Busy

LEMMA ForkChildKeeps ==
    ASSUME TransformInv, NEW t \in Thread, fork_child(t)
    PROVE  TransformInv'
<1> DEFINE x == cur[t]
<1>0. /\ TypeOK /\ OneThread /\ Unstarted /\ Stages
      /\ Bounded /\ ChildReads /\ ExitedAtEnd /\ DotAfterOutput /\ ServerSurvives
    BY DEF TransformInv
<1>1. /\ alive /\ pc[t] = "piped" /\ pc' = [pc EXCEPT ![t] = "forked"]
      /\ child' = [child EXCEPT ![x] = "forked"]
      /\ ends' = ends \cup Inherited(x)
      /\ UNCHANGED <<cur, left, inpipe, eaten, dotted, started, stops, alive>>
    BY DEF fork_child, Step
<1>2. Busy(t) /\ x \in Transfer /\ x <= started
    BY <1>1, OwnTransfer DEF Busy
<1>3. \A d \in Inherited(x) : \E c \in ends : c[1] = 0 /\ d = <<x, c[2], c[3]>>
    BY DEF Inherited
<1>4. Stage(t)
    BY <1>0, <1>1 DEF Stages
<1>5. TypeOK'
    <2>1. Inherited(x) \subseteq Process \X Transfer \X End
        BY <1>0, <1>2, <1>3 DEF TypeOK, Process
    <2> QED BY <1>0, <1>1, <2>1 DEF TypeOK
<1>6. OneThread'
    BY <1>1, <1>2, StillOneThread
<1>7. Unstarted'
    <2> SUFFICES ASSUME NEW y \in Transfer, y > started
                 PROVE  /\ child'[y] = "none"
                        /\ Untouched(y)
                        /\ \A d \in ends' : d[2] # y /\ d[1] # y
        BY <1>1 DEF Unstarted, Untouched
    <2>1. y # x
        BY <1>0, <1>2 DEF TypeOK, Transfer
    <2>2. \A c \in ends : c[2] # y /\ c[1] # y
        BY <1>0 DEF Unstarted
    <2> QED BY <1>0, <1>1, <1>3, <2>1, <2>2 DEF Unstarted, TypeOK
<1>8. Stages'
    <2>1. \A u \in Thread : u # t => Stage(u)'
        BY <1>0, <1>1, <1>2, OthersStages DEF TypeOK
    <2>2. Stage(t)'
        <3>1. pc'[t] = "forked" /\ cur'[t] = x /\ child'[x] = "forked"
            BY <1>0, <1>1, <1>2 DEF TypeOK
        <3> QED BY <1>1, <1>4, <3>1 DEF Stage, Untouched
    <2> QED BY <2>1, <2>2 DEF Stages
<1>9. ChildReads'
    <2>1. <<x, x, "r">> \in ends'
        <3>1. <<0, x, "r">> \in ends
            BY <1>1, <1>4 DEF Stage
        <3>2. <<x, x, "r">> \in Inherited(x)
            BY <3>1 DEF Inherited
        <3> QED BY <1>1, <3>2
    <2> QED BY <1>0, <1>1, <2>1 DEF ChildReads, TypeOK
<1>10. ExitedAtEnd'
    <2> SUFFICES ASSUME ~stops, NEW y \in Transfer, child'[y] = "exited"
                 PROVE  /\ inpipe[y] = 0
                        /\ \A p \in Process : <<p, y, "w">> \notin ends'
        BY <1>1 DEF ExitedAtEnd
    <2>1. child[y] = "exited"
        BY <1>0, <1>1, <1>2 DEF TypeOK
    <2>2. inpipe[y] = 0 /\ \A p \in Process : <<p, y, "w">> \notin ends
        BY <1>0, <2>1 DEF ExitedAtEnd
    <2>3. \A c \in ends : ~(c[2] = y /\ c[3] = "w")
        BY <1>0, <2>2 DEF TypeOK
    <2> QED BY <1>1, <1>3, <2>2, <2>3
<1>11. DotAfterOutput' /\ Bounded' /\ ServerSurvives'
    <2>1. child[x] = "none"
        BY <1>1, <1>4 DEF Stage
    <2>2. dotted \subseteq Transfer
        BY <1>0 DEF TypeOK
    <2> QED BY <1>0, <1>1, <2>1, <2>2
            DEF DotAfterOutput, Bounded, ServerSurvives, TypeOK
<1> QED BY <1>5, <1>6, <1>7, <1>8, <1>9, <1>10, <1>11 DEF TransformInv

(* Steps of a thread that only move it, its descriptors or its mail.       *)
LEMMA QuietStep ==
    ASSUME TransformInv, alive,
           UNCHANGED <<child, inpipe, eaten, dotted, started, stops, alive>>,
           ends' \subseteq ends,
           \A d \in ends : d \in ends' \/ d[1] = 0
    PROVE  /\ Unstarted' /\ Bounded' /\ ChildReads' /\ ExitedAtEnd'
           /\ DotAfterOutput' /\ ServerSurvives'
<1>0. /\ TypeOK /\ Unstarted /\ Bounded /\ ChildReads /\ ExitedAtEnd
      /\ DotAfterOutput /\ ServerSurvives
    BY DEF TransformInv
<1>1. Unstarted'
    BY <1>0 DEF Unstarted, Untouched
<1>2. ChildReads'
    <2>1. \A x \in Transfer : <<x, x, "r">> \in ends => <<x, x, "r">> \in ends'
        BY DEF Transfer
    <2> QED BY <1>0, <2>1 DEF ChildReads
<1>3. ExitedAtEnd'
    BY <1>0 DEF ExitedAtEnd
<1>4. Bounded' /\ DotAfterOutput' /\ ServerSurvives'
    BY <1>0 DEF Bounded, DotAfterOutput, ServerSurvives
<1> QED BY <1>1, <1>2, <1>3, <1>4

LEMMA ForkFailsKeeps ==
    ASSUME TransformInv, NEW t \in Thread, fork_fails(t)
    PROVE  TransformInv'
<1>0. TypeOK
    BY DEF TransformInv
<1>1. /\ alive /\ pc[t] = "piped" /\ pc' = [pc EXCEPT ![t] = "idle"]
      /\ ends' = ends \ {<<0, cur[t], e>> : e \in End}
      /\ cur' = [cur EXCEPT ![t] = 0]
      /\ UNCHANGED <<left, child, inpipe, eaten, dotted,
                   started, stops, alive>>
    BY DEF fork_fails, Step
<1>2. Busy(t) /\ cur[t] \in Transfer
    BY <1>1, OwnTransfer DEF Busy
<1>3. \A d \in ends : d \in ends' \/ (d[1] = 0 /\ d[2] = cur[t])
    BY <1>1
<1>4. TypeOK'
    BY <1>0, <1>1 DEF TypeOK, Process
<1>5. OneThread'
    BY <1>1, <1>2, StillOneThread
<1>6. Stages'
    <2>1. \A u \in Thread : u # t => cur'[u] = cur[u] /\ left'[u] = left[u]
        BY <1>0, <1>1 DEF TypeOK
    <2>2. \A u \in Thread : u # t => Stage(u)'
        BY <1>1, <1>2, <1>3, <2>1, OthersStages
    <2>3. Stage(t)'
        BY <1>0, <1>1 DEF Stage, TypeOK
    <2> QED BY <2>2, <2>3 DEF Stages
<1>7. /\ Unstarted' /\ Bounded' /\ ChildReads' /\ ExitedAtEnd'
      /\ DotAfterOutput' /\ ServerSurvives'
    BY <1>1, <1>3, QuietStep
<1> QED BY <1>4, <1>5, <1>6, <1>7 DEF TransformInv

LEMMA CloseReadKeeps ==
    ASSUME TransformInv, NEW t \in Thread, close_read(t)
    PROVE  TransformInv'
<1>0. TypeOK /\ Stages
    BY DEF TransformInv
<1>1. /\ alive /\ pc[t] = "forked" /\ pc' = [pc EXCEPT ![t] = "opening"]
      /\ ends' = ends \ {<<0, cur[t], "r">>}
      /\ UNCHANGED <<cur, left, child, inpipe, eaten, dotted,
                   started, stops, alive>>
    BY DEF close_read, Step
<1>2. Busy(t) /\ cur[t] \in Transfer
    BY <1>1, OwnTransfer DEF Busy
<1>3. \A d \in ends : d \in ends' \/ (d[1] = 0 /\ d[2] = cur[t])
    BY <1>1
<1>4. TypeOK'
    BY <1>0, <1>1 DEF TypeOK
<1>5. OneThread'
    BY <1>1, <1>2, StillOneThread
<1>6. Stages'
    <2>1. \A u \in Thread : u # t => Stage(u)'
        BY <1>1, <1>2, <1>3, OthersStages
    <2>2. Stage(t)'
        <3>1. Stage(t) /\ pc'[t] = "opening"
            BY <1>0, <1>1 DEF Stages, TypeOK
        <3>2. <<0, cur[t], "w">> \in ends'
            BY <1>1, <3>1 DEF Stage
        <3> QED BY <1>1, <3>1, <3>2 DEF Stage, Untouched
    <2> QED BY <2>1, <2>2 DEF Stages
<1>7. /\ Unstarted' /\ Bounded' /\ ChildReads' /\ ExitedAtEnd'
      /\ DotAfterOutput' /\ ServerSurvives'
    BY <1>1, <1>3, QuietStep
<1> QED BY <1>4, <1>5, <1>6, <1>7 DEF TransformInv

LEMMA OpenMailKeeps ==
    ASSUME TransformInv, NEW t \in Thread, open_mail(t)
    PROVE  TransformInv'
<1>0. TypeOK /\ Stages
    BY DEF TransformInv
<1>1. /\ alive /\ pc[t] = "opening" /\ pc' = [pc EXCEPT ![t] = "writing"]
      /\ left' = [left EXCEPT ![t] = Length]
      /\ UNCHANGED <<cur, ends, child, inpipe, eaten, dotted,
                   started, stops, alive>>
    BY DEF open_mail, Step
<1>2. Busy(t)
    BY <1>1 DEF Busy
<1>3. TypeOK'
    BY <1>0, <1>1, TransformAssumption DEF TypeOK
<1>4. OneThread'
    BY <1>1, <1>2, StillOneThread
<1>5. Stages'
    <2>1. \A u \in Thread : u # t => left'[u] = left[u]
        BY <1>0, <1>1 DEF TypeOK
    <2>2. \A u \in Thread : u # t => Stage(u)'
        BY <1>1, <1>2, <2>1, OthersStages
    <2>3. Stage(t)'
        <3>1. Stage(t) /\ pc'[t] = "writing" /\ left'[t] = Length
            BY <1>0, <1>1 DEF Stages, TypeOK
        <3> QED BY <1>1, <3>1, TransformAssumption DEF Stage, Untouched
    <2> QED BY <2>2, <2>3 DEF Stages
<1>6. /\ Unstarted' /\ Bounded' /\ ChildReads' /\ ExitedAtEnd'
      /\ DotAfterOutput' /\ ServerSurvives'
    BY <1>1, QuietStep
<1> QED BY <1>3, <1>4, <1>5, <1>6 DEF TransformInv

LEMMA OpenFailsKeeps ==
    ASSUME TransformInv, NEW t \in Thread, open_fails(t)
    PROVE  TransformInv'
<1>0. TypeOK
    BY DEF TransformInv
<1>1. /\ alive /\ pc[t] = "opening" /\ pc' = [pc EXCEPT ![t] = "idle"]
      /\ cur' = [cur EXCEPT ![t] = 0]
      /\ UNCHANGED <<left, ends, child, inpipe, eaten, dotted,
                   started, stops, alive>>
    BY DEF open_fails, Step
<1>2. Busy(t)
    BY <1>1 DEF Busy
<1>3. TypeOK'
    BY <1>0, <1>1 DEF TypeOK, Process
<1>4. OneThread'
    BY <1>1, <1>2, StillOneThread
<1>5. Stages'
    <2>1. \A u \in Thread : u # t => cur'[u] = cur[u]
        BY <1>0, <1>1 DEF TypeOK
    <2>2. \A u \in Thread : u # t => Stage(u)'
        BY <1>1, <1>2, <2>1, OthersStages
    <2>3. Stage(t)'
        BY <1>0, <1>1 DEF Stage, TypeOK
    <2> QED BY <2>2, <2>3 DEF Stages
<1>6. /\ Unstarted' /\ Bounded' /\ ChildReads' /\ ExitedAtEnd'
      /\ DotAfterOutput' /\ ServerSurvives'
    BY <1>1, QuietStep
<1> QED BY <1>3, <1>4, <1>5, <1>6 DEF TransformInv

LEMMA CloseWriteKeeps ==
    ASSUME TransformInv, NEW t \in Thread, close_write(t)
    PROVE  TransformInv'
<1>0. TypeOK /\ Stages
    BY DEF TransformInv
<1>1. /\ alive /\ pc[t] = "writing" /\ pc' = [pc EXCEPT ![t] = "waiting"]
      /\ left[t] = 0
      /\ ends' = ends \ {<<0, cur[t], "w">>}
      /\ UNCHANGED <<cur, left, child, inpipe, eaten, dotted,
                   started, stops, alive>>
    BY DEF close_write, Step
<1>2. Busy(t) /\ cur[t] \in Transfer
    BY <1>1, OwnTransfer DEF Busy
<1>3. \A d \in ends : d \in ends' \/ (d[1] = 0 /\ d[2] = cur[t])
    BY <1>1
<1>4. TypeOK'
    BY <1>0, <1>1 DEF TypeOK
<1>5. OneThread'
    BY <1>1, <1>2, StillOneThread
<1>6. Stages'
    <2>1. \A u \in Thread : u # t => Stage(u)'
        BY <1>1, <1>2, <1>3, OthersStages
    <2>2. Stage(t)'
        <3>1. Stage(t) /\ pc'[t] = "waiting"
            BY <1>0, <1>1 DEF Stages, TypeOK
        <3>2. /\ eaten[cur[t]] + inpipe[cur[t]] + 0 = Length
              /\ child[cur[t]] # "none"
            BY <1>1, <3>1 DEF Stage
        <3>3. eaten[cur[t]] + inpipe[cur[t]] = Length
            BY <1>0, <1>2, <3>2 DEF TypeOK
        <3> QED BY <1>1, <3>1, <3>2, <3>3 DEF Stage
    <2> QED BY <2>1, <2>2 DEF Stages
<1>7. /\ Unstarted' /\ Bounded' /\ ChildReads' /\ ExitedAtEnd'
      /\ DotAfterOutput' /\ ServerSurvives'
    BY <1>1, <1>3, QuietStep
<1> QED BY <1>4, <1>5, <1>6, <1>7 DEF TransformInv

(* While the server has the write end of a pipe and scripts read to their  *)
(* end, the child has the read end.                                        *)
LEMMA WriterHasReader ==
    ASSUME TransformInv, ~stops, alive, NEW t \in Thread, pc[t] = "writing"
    PROVE  /\ child[cur[t]] # "exited"
           /\ ~Broken(cur[t])
<1> DEFINE x == cur[t]
<1>1. x \in Transfer
    BY OwnTransfer DEF Busy
<1>2. <<0, x, "w">> \in ends /\ child[x] # "none"
    BY DEF TransformInv, Stages, Stage
<1>3. child[x] # "exited"
    BY <1>1, <1>2 DEF TransformInv, ExitedAtEnd, Process
<1>4. child[x] \in {"forked", "running"}
    BY <1>1, <1>2, <1>3 DEF TransformInv, TypeOK
<1>5. <<x, x, "r">> \in ends
    BY <1>1, <1>4 DEF TransformInv, ChildReads
<1> QED BY <1>1, <1>3, <1>5 DEF Broken, Has, Process

LEMMA WriteByteKeeps ==
    ASSUME TransformInv, NEW t \in Thread, write_byte(t)
    PROVE  TransformInv'
<1> DEFINE x == cur[t]
<1>0. /\ TypeOK /\ Unstarted /\ Stages /\ Bounded /\ ChildReads
      /\ ExitedAtEnd /\ DotAfterOutput /\ ServerSurvives
    BY DEF TransformInv
<1>1. /\ alive /\ pc[t] = "writing" /\ pc' = [pc EXCEPT ![t] = "writing"]
      /\ left[t] > 0
      /\ inpipe[x] < PipeSize
      /\ inpipe' = [inpipe EXCEPT ![x] = @ + 1]
      /\ left' = [left EXCEPT ![t] = @ - 1]
      /\ UNCHANGED <<cur, ends, child, eaten, dotted, started, stops, alive>>
    BY DEF write_byte, Step
<1>2. Busy(t) /\ x \in Transfer /\ x <= started
    BY <1>1, OwnTransfer DEF Busy
<1>3. /\ Stage(t) /\ pc'[t] = "writing"
      /\ left'[t] = left[t] - 1 /\ inpipe'[x] = inpipe[x] + 1
      /\ left[t] \in 1..Length /\ inpipe[x] \in 0..PipeSize
      /\ eaten[x] \in 0..Length
    BY <1>0, <1>1, <1>2, TransformAssumption DEF Stages, TypeOK
<1>4. TypeOK'
    <2>1. inpipe[x] + 1 \in 0..PipeSize /\ left[t] - 1 \in 0..Length
        BY <1>1, <1>3, TransformAssumption
    <2>2. inpipe' \in [Transfer -> 0..PipeSize]
        BY <1>0, <1>1, <2>1 DEF TypeOK
    <2>3. left' \in [Thread -> 0..Length]
        BY <1>0, <1>1, <2>1 DEF TypeOK
    <2> QED BY <1>0, <1>1, <2>2, <2>3 DEF TypeOK
<1>5. OneThread'
    BY <1>1, <1>2, StillOneThread
<1>6. \A y \in Transfer : y # x => inpipe'[y] = inpipe[y]
    BY <1>0, <1>1 DEF TypeOK
<1>7. Stages'
    <2>1. \A u \in Thread : u # t => left'[u] = left[u]
        BY <1>0, <1>1 DEF TypeOK
    <2>2. \A u \in Thread : u # t => Stage(u)'
        BY <1>1, <1>2, <1>6, <2>1, OthersStages
    <2>3. Stage(t)'
        <3>1. /\ <<0, x, "w">> \in ends /\ child[x] # "none"
              /\ eaten[x] + inpipe[x] + left[t] = Length
            BY <1>1, <1>3 DEF Stage
        <3>2. eaten[x] + (inpipe[x] + 1) + (left[t] - 1) = Length
            BY <1>3, <3>1
        <3> QED BY <1>1, <1>3, <3>1, <3>2 DEF Stage
    <2> QED BY <2>2, <2>3 DEF Stages
<1>8. Bounded'
    <2>1. eaten[x] + inpipe[x] + left[t] = Length
        BY <1>1, <1>3 DEF Stage
    <2>2. eaten[x] + (inpipe[x] + 1) <= Length
        BY <1>3, <2>1, TransformAssumption
    <2> QED BY <1>0, <1>1, <1>3, <1>6, <2>2 DEF Bounded
<1>9. Unstarted'
    <2> SUFFICES ASSUME NEW y \in Transfer, y > started PROVE y # x
        BY <1>0, <1>1, <1>6 DEF Unstarted, Untouched
    <2> QED BY <1>0, <1>2 DEF TypeOK, Transfer
<1>10. ExitedAtEnd'
    <2> SUFFICES ASSUME ~stops PROVE ExitedAtEnd'
        BY <1>1 DEF ExitedAtEnd
    <2>1. child[x] # "exited"
        BY <1>1, WriterHasReader
    <2> QED BY <1>0, <1>1, <1>6, <2>1 DEF ExitedAtEnd
<1>11. ChildReads' /\ DotAfterOutput' /\ ServerSurvives'
    BY <1>0, <1>1 DEF ChildReads, DotAfterOutput, ServerSurvives
<1> QED BY <1>4, <1>5, <1>7, <1>8, <1>9, <1>10, <1>11 DEF TransformInv

LEMMA WriteKilledKeeps ==
    ASSUME TransformInv, NEW t \in Thread, write_killed(t)
    PROVE  TransformInv'
<1>0. /\ TypeOK /\ OneThread /\ Unstarted /\ Bounded /\ ChildReads
      /\ DotAfterOutput
    BY DEF TransformInv
<1>1. /\ alive /\ pc[t] = "writing" /\ pc' = [pc EXCEPT ![t] = "writing"]
      /\ Broken(cur[t])
      /\ alive' = FALSE
      /\ ends' = {d \in ends : d[1] # 0}
      /\ UNCHANGED <<cur, left, child, inpipe, eaten, dotted, started, stops>>
    BY DEF write_killed, Step
<1>2. stops
    BY <1>1, WriterHasReader
<1>3. TypeOK'
    BY <1>0, <1>1 DEF TypeOK
<1>4. OneThread'
    BY <1>1, StillOneThread DEF Busy
<1>5. Unstarted'
    BY <1>0, <1>1 DEF Unstarted, Untouched
<1>6. ChildReads'
    <2>1. \A x \in Transfer : <<x, x, "r">> \in ends => <<x, x, "r">> \in ends'
        BY <1>1 DEF Transfer
    <2> QED BY <1>0, <1>1, <2>1 DEF ChildReads
<1>7. Stages' /\ ExitedAtEnd' /\ ServerSurvives'
    BY <1>1, <1>2 DEF Stages, ExitedAtEnd, ServerSurvives
<1>8. Bounded' /\ DotAfterOutput'
    BY <1>0, <1>1 DEF Bounded, DotAfterOutput
<1> QED BY <1>3, <1>4, <1>5, <1>6, <1>7, <1>8 DEF TransformInv

LEMMA WaitChildKeeps ==
    ASSUME TransformInv, NEW t \in Thread, wait_child(t)
    PROVE  TransformInv'
<1> DEFINE x == cur[t]
<1>0. /\ TypeOK /\ Unstarted /\ Stages /\ Bounded /\ ChildReads
      /\ ExitedAtEnd /\ DotAfterOutput /\ ServerSurvives
    BY DEF TransformInv
<1>1. /\ alive /\ pc[t] = "waiting" /\ pc' = [pc EXCEPT ![t] = "idle"]
      /\ child[x] = "exited"
      /\ dotted' = dotted \cup {x}
      /\ cur' = [cur EXCEPT ![t] = 0]
      /\ UNCHANGED <<left, ends, child, inpipe, eaten, started, stops, alive>>
    BY DEF wait_child, Step
<1>2. Busy(t) /\ x \in Transfer
    BY <1>1, OwnTransfer DEF Busy
<1>3. TypeOK'
    BY <1>0, <1>1, <1>2 DEF TypeOK, Process
<1>4. OneThread'
    BY <1>1, <1>2, StillOneThread
<1>5. Stages'
    <2>1. \A u \in Thread : u # t => cur'[u] = cur[u]
        BY <1>0, <1>1 DEF TypeOK
    <2>2. \A u \in Thread : u # t => Stage(u)'
        BY <1>1, <1>2, <2>1, OthersStages
    <2>3. Stage(t)'
        BY <1>0, <1>1 DEF Stage, TypeOK
    <2> QED BY <2>2, <2>3 DEF Stages
<1>6. DotAfterOutput'
    <2>1. eaten[x] + inpipe[x] = Length
        BY <1>0, <1>1 DEF Stages, Stage
    <2>2. ~stops => inpipe[x] = 0
        BY <1>0, <1>1, <1>2 DEF ExitedAtEnd
    <2>3. stops \/ eaten[x] = Length
        BY <1>0, <1>2, <2>1, <2>2 DEF TypeOK
    <2> QED BY <1>0, <1>1, <2>3 DEF DotAfterOutput
<1>7. Unstarted' /\ Bounded' /\ ChildReads' /\ ExitedAtEnd' /\ ServerSurvives'
    BY <1>0, <1>1
       DEF Unstarted, Untouched, Bounded, ChildReads, ExitedAtEnd, ServerSurvives
<1> QED BY <1>3, <1>4, <1>5, <1>6, <1>7 DEF TransformInv

-----------------------------------------------------------------------------
(* The child *)

LEMMA ExecScriptKeeps ==
    ASSUME TransformInv, NEW x \in Transfer, exec_script(x)
    PROVE  TransformInv'
<1>0. /\ TypeOK /\ OneThread /\ Unstarted /\ Stages
      /\ Bounded /\ ChildReads /\ ExitedAtEnd /\ DotAfterOutput /\ ServerSurvives
    BY DEF TransformInv
<1>1. /\ child[x] = "forked" /\ child' = [child EXCEPT ![x] = "running"]
      /\ ends' = ends \ {<<x, x, "w">>}
      /\ UNCHANGED <<pc, cur, left, inpipe, eaten, dotted,
                   started, stops, alive>>
    BY DEF exec_script
<1>2. /\ child'[x] = "running"
      /\ \A y \in Transfer : y # x => child'[y] = child[y]
    BY <1>0, <1>1 DEF TypeOK
<1>3. TypeOK'
    BY <1>0, <1>1 DEF TypeOK
<1>4. OneThread'
    BY <1>0, <1>1 DEF OneThread, Busy
<1>5. Unstarted'
    BY <1>0, <1>1, <1>2 DEF Unstarted, Untouched
<1>6. Stages'
    <2> SUFFICES ASSUME alive, NEW t \in Thread PROVE Stage(t)'
        BY <1>1 DEF Stages
    <2>1. Stage(t)
        BY <1>0 DEF Stages
    <2>2. pc[t] = "idle" \/ cur[t] \in Transfer
        BY <1>0 DEF OneThread, Busy
    <2>3. \A e \in End : <<0, cur[t], e>> \in ends => <<0, cur[t], e>> \in ends'
        BY <1>1 DEF Transfer
    <2>4. /\ <<0, cur[t], "r">> \in ends => <<0, cur[t], "r">> \in ends'
          /\ <<0, cur[t], "w">> \in ends => <<0, cur[t], "w">> \in ends'
        BY <2>3 DEF End
    <2> QED BY <1>1, <1>2, <2>1, <2>2, <2>4 DEF Stage, Untouched
<1>7. ChildReads'
    BY <1>0, <1>1, <1>2 DEF ChildReads
<1>8. ExitedAtEnd' /\ DotAfterOutput'
    BY <1>0, <1>1, <1>2 DEF ExitedAtEnd, DotAfterOutput, TypeOK
<1>9. Bounded' /\ ServerSurvives'
    BY <1>0, <1>1 DEF Bounded, ServerSurvives
<1> QED BY <1>3, <1>4, <1>5, <1>6, <1>7, <1>8, <1>9 DEF TransformInv

LEMMA ScriptReadsKeeps ==
    ASSUME TransformInv, NEW x \in Transfer, script_reads(x)
    PROVE  TransformInv'
<1>0. /\ TypeOK /\ OneThread /\ Unstarted /\ Stages
      /\ Bounded /\ ChildReads /\ ExitedAtEnd /\ DotAfterOutput /\ ServerSurvives
    BY DEF TransformInv
<1>1. /\ child[x] = "running" /\ inpipe[x] > 0
      /\ inpipe' = [inpipe EXCEPT ![x] = @ - 1]
      /\ eaten' = [eaten EXCEPT ![x] = @ + 1]
      /\ UNCHANGED <<pc, cur, left, ends, child, dotted,
                   started, stops, alive>>
    BY DEF script_reads
<1>2. /\ inpipe'[x] = inpipe[x] - 1 /\ eaten'[x] = eaten[x] + 1
      /\ \A y \in Transfer : y # x =>
            inpipe'[y] = inpipe[y] /\ eaten'[y] = eaten[y]
      /\ inpipe[x] \in 1..PipeSize /\ eaten[x] \in 0..Length
      /\ eaten[x] + inpipe[x] <= Length
    BY <1>0, <1>1, TransformAssumption DEF TypeOK, Bounded
<1>3. TypeOK'
    <2>1. inpipe[x] - 1 \in 0..PipeSize /\ eaten[x] + 1 \in 0..Length
        BY <1>2, TransformAssumption
    <2>2. inpipe' \in [Transfer -> 0..PipeSize]
        BY <1>0, <1>1, <2>1 DEF TypeOK
    <2>3. eaten' \in [Transfer -> 0..Length]
        BY <1>0, <1>1, <2>1 DEF TypeOK
    <2> QED BY <1>0, <1>1, <2>2, <2>3 DEF TypeOK
<1>4. OneThread'
    BY <1>0, <1>1 DEF OneThread, Busy
<1>5. Unstarted'
    BY <1>0, <1>1, <1>2 DEF Unstarted, Untouched
<1>6. (eaten[x] + 1) + (inpipe[x] - 1) = eaten[x] + inpipe[x]
    BY <1>2, TransformAssumption
<1>7. Stages'
    <2> SUFFICES ASSUME alive, NEW t \in Thread PROVE Stage(t)'
        BY <1>1 DEF Stages
    <2>1. Stage(t)
        BY <1>0 DEF Stages
    <2>2. CASE cur[t] # x \/ pc[t] = "idle"
        <3>1. pc[t] = "idle" \/ (cur[t] \in Transfer /\ cur[t] # x)
            BY <1>0, <2>2 DEF OneThread, Busy
        <3> QED BY <1>1, <1>2, <2>1, <3>1 DEF Stage, Untouched
    <2>3. CASE cur[t] = x /\ pc[t] # "idle"
        <3>1. pc[t] \in {"writing", "waiting"}
            BY <1>0, <1>1, <2>1, <2>3 DEF Stage, Untouched, TypeOK
        <3> QED BY <1>1, <1>2, <1>6, <2>1, <2>3, <3>1 DEF Stage, Untouched
    <2> QED BY <2>2, <2>3
<1>8. Bounded'
    BY <1>0, <1>2, <1>6 DEF Bounded
<1>9. ExitedAtEnd' /\ DotAfterOutput'
    BY <1>0, <1>1, <1>2 DEF ExitedAtEnd, DotAfterOutput, TypeOK
<1>10. ChildReads' /\ ServerSurvives'
    BY <1>0, <1>1 DEF ChildReads, ServerSurvives
<1> QED BY <1>3, <1>4, <1>5, <1>7, <1>8, <1>9, <1>10 DEF TransformInv

LEMMA ScriptExitsKeeps ==
    ASSUME TransformInv, NEW x \in Transfer, script_exits(x) \/ script_stops(x)
    PROVE  TransformInv'
<1>0. /\ TypeOK /\ OneThread /\ Unstarted /\ Stages
      /\ Bounded /\ ChildReads /\ ExitedAtEnd /\ DotAfterOutput /\ ServerSurvives
    BY DEF TransformInv
<1>1. /\ child[x] = "running" /\ child' = [child EXCEPT ![x] = "exited"]
      /\ AtEnd(x) \/ stops
      /\ ends' = {d \in ends : d[1] # x}
      /\ UNCHANGED <<pc, cur, left, inpipe, eaten, dotted,
                   started, stops, alive>>
    BY DEF script_exits, script_stops, Exit
<1>2. /\ child'[x] = "exited"
      /\ \A y \in Transfer : y # x => child'[y] = child[y]
    BY <1>0, <1>1 DEF TypeOK
<1>3. TypeOK'
    BY <1>0, <1>1 DEF TypeOK
<1>4. OneThread'
    BY <1>0, <1>1 DEF OneThread, Busy
<1>5. Unstarted'
    BY <1>0, <1>1, <1>2 DEF Unstarted, Untouched
<1>6. Stages'
    <2> SUFFICES ASSUME alive, NEW t \in Thread PROVE Stage(t)'
        BY <1>1 DEF Stages
    <2>1. Stage(t)
        BY <1>0 DEF Stages
    <2>2. pc[t] = "idle" \/ cur[t] \in Transfer
        BY <1>0 DEF OneThread, Busy
    <2>3. \A e \in End : <<0, cur[t], e>> \in ends => <<0, cur[t], e>> \in ends'
        BY <1>1 DEF Transfer
    <2>4. /\ <<0, cur[t], "r">> \in ends => <<0, cur[t], "r">> \in ends'
          /\ <<0, cur[t], "w">> \in ends => <<0, cur[t], "w">> \in ends'
        BY <2>3 DEF End
    <2> QED BY <1>1, <1>2, <2>1, <2>2, <2>4 DEF Stage, Untouched
<1>7. ChildReads'
    <2> SUFFICES ASSUME NEW y \in Transfer, child'[y] \in {"forked", "running"}
                 PROVE  <<y, y, "r">> \in ends'
        BY DEF ChildReads
    <2>1. y # x /\ child[y] \in {"forked", "running"}
        BY <1>2
    <2>2. <<y, y, "r">> \in ends
        BY <1>0, <2>1 DEF ChildReads
    <2> QED BY <1>1, <2>1, <2>2
<1>8. ExitedAtEnd'
    <2> SUFFICES ASSUME ~stops, NEW y \in Transfer, child'[y] = "exited"
                 PROVE  /\ inpipe[y] = 0
                        /\ \A p \in Process : <<p, y, "w">> \notin ends'
        BY <1>1 DEF ExitedAtEnd
    <2>1. CASE y = x
        BY <1>1, <2>1 DEF AtEnd, Has
    <2>2. CASE y # x
        BY <1>0, <1>1, <1>2, <2>2 DEF ExitedAtEnd
    <2> QED BY <2>1, <2>2
<1>9. DotAfterOutput'
    BY <1>0, <1>1, <1>2 DEF DotAfterOutput, TypeOK
<1>10. Bounded' /\ ServerSurvives'
    BY <1>0, <1>1 DEF Bounded, ServerSurvives
<1> QED BY <1>3, <1>4, <1>5, <1>6, <1>7, <1>8, <1>9, <1>10 DEF TransformInv

-----------------------------------------------------------------------------
LEMMA StutterKeeps ==
    ASSUME TransformInv, UNCHANGED transformVars
    PROVE  TransformInv'
BY DEF TransformInv, transformVars, TypeOK, OneThread, Busy, Unstarted,
       Untouched, Stages, Stage, Bounded, ChildReads, ExitedAtEnd,
       DotAfterOutput, ServerSurvives

LEMMA StepKeepsInv ==
    ASSUME TransformInv, [Next]_transformVars
    PROVE  TransformInv'
<1>1. ASSUME NEW t \in Thread, make_pipe(t) \/ ThreadStep(t)
      PROVE  TransformInv'
    BY <1>1, MakePipeKeeps, ForkChildKeeps, ForkFailsKeeps, CloseReadKeeps,
       OpenMailKeeps, OpenFailsKeeps, WriteByteKeeps, WriteKilledKeeps,
       CloseWriteKeeps, WaitChildKeeps DEF ThreadStep
<1>2. ASSUME NEW x \in Transfer, ChildStep(x) \/ script_stops(x)
      PROVE  TransformInv'
    BY <1>2, ExecScriptKeeps, ScriptReadsKeeps, ScriptExitsKeeps DEF ChildStep
<1> QED BY <1>1, <1>2, StutterKeeps DEF Next

LEMMA TransformInvariant == Spec => []TransformInv
<1>1. Init => TransformInv
    BY InitInv
<1>2. TransformInv /\ [Next]_transformVars => TransformInv'
    BY StepKeepsInv
<1> QED BY <1>1, <1>2, PTL DEF Spec

(* When a client is sent the final "." of a transformed mail, the script   *)
(* has ended, and unless it stops on its own accord it has read the whole  *)
(* mail: for any number of threads, transfers and bytes.                   *)
THEOREM DotFollowsOutput == Spec => []DotAfterOutput
<1>1. TransformInv => DotAfterOutput
    BY DEF TransformInv
<1> QED BY <1>1, TransformInvariant, PTL

(* Scripts that read to the end of their input never make the server's     *)
(* write to a pipe raise SIGPIPE.                                          *)
THEOREM NoSigpipe == Spec => []ServerSurvives
<1>1. TransformInv => ServerSurvives
    BY DEF TransformInv
<1> QED BY <1>1, TransformInvariant, PTL

(* No pipe holds more than it can, and no script reads more than a mail *)
(* has, for any number of threads and transfers.                        *)
THEOREM TransformTypes == Spec => []TypeOK
<1>1. TransformInv => TypeOK
    BY DEF TransformInv
<1> QED BY <1>1, TransformInvariant, PTL

-----------------------------------------------------------------------------
(* Who can have the ends of a pipe: a child that lives, and but for its    *)
(* own pipe it has the write end wherever it has the read end, since the   *)
(* server closes the read end first; the server until its thread closes    *)
(* them; a script that runs has closed its own write end.                  *)
LiveEnds ==
    \A d \in ends : d[1] # 0 => child[d[1]] \in {"forked", "running"}

ReaderHasWriter ==
    \A p \in Process, x \in Transfer :
        p # x /\ <<p, x, "r">> \in ends => <<p, x, "w">> \in ends

ScriptOnlyReads ==
    \A x \in Transfer : child[x] = "running" => <<x, x, "w">> \notin ends

(* What the server has closed at each place of a thread *)
Closed(t) ==
    /\ pc[t] \in {"opening", "writing", "waiting"} =>
          <<0, cur[t], "r">> \notin ends
    /\ pc[t] = "waiting" => <<0, cur[t], "w">> \notin ends

EndsInv ==
    /\ LiveEnds /\ ReaderHasWriter /\ ScriptOnlyReads
    /\ alive => \A t \in Thread : Closed(t)

LEMMA EndsInit == Init => EndsInv
<1> SUFFICES ASSUME Init PROVE EndsInv
    OBVIOUS
<1> QED BY DEF Init, EndsInv, LiveEnds, ReaderHasWriter, ScriptOnlyReads, Closed

(* A step of thread t that takes ends from the server, if any at all, and  *)
(* no write end that goes without its read end.                            *)
LEMMA ServerCloses ==
    ASSUME TransformInv, EndsInv, alive, NEW t \in Thread, Busy(t), NEW to,
           pc' = [pc EXCEPT ![t] = to], child' = child,
           \A u \in Thread \ {t} : cur'[u] = cur[u],
           ends' \subseteq ends,
           \A d \in ends : d \in ends' \/ d[1] = 0,
           \A x \in Transfer :
               <<0, x, "r">> \in ends' /\ <<0, x, "w">> \in ends => <<0, x, "w">> \in ends',
           Closed(t)'
    PROVE  EndsInv'
<1>0. TypeOK /\ LiveEnds /\ ReaderHasWriter /\ ScriptOnlyReads
    BY DEF TransformInv, EndsInv
<1>1. LiveEnds' /\ ScriptOnlyReads'
    BY <1>0 DEF LiveEnds, ScriptOnlyReads
<1>2. ReaderHasWriter'
    <2> SUFFICES ASSUME NEW p \in Process, NEW x \in Transfer, p # x,
                        <<p, x, "r">> \in ends'
                 PROVE  <<p, x, "w">> \in ends'
        BY DEF ReaderHasWriter
    <2>1. <<p, x, "w">> \in ends
        BY <1>0 DEF ReaderHasWriter
    <2>2. CASE p = 0
        BY <2>1, <2>2
    <2>3. CASE p # 0
        BY <2>1, <2>3
    <2> QED BY <2>2, <2>3
<1>3. \A u \in Thread : Closed(u)'
    <2> SUFFICES ASSUME NEW u \in Thread, u # t PROVE Closed(u)'
        OBVIOUS
    <2>1. Closed(u) /\ pc'[u] = pc[u] /\ cur'[u] = cur[u]
        BY <1>0 DEF EndsInv, TypeOK
    <2> QED BY <2>1 DEF Closed
<1> QED BY <1>1, <1>2, <1>3 DEF EndsInv

LEMMA EndsThread ==
    ASSUME TransformInv, EndsInv, NEW t \in Thread,
           make_pipe(t) \/ ThreadStep(t)
    PROVE  EndsInv'
<1>0. /\ TypeOK /\ OneThread /\ Unstarted
      /\ LiveEnds /\ ReaderHasWriter /\ ScriptOnlyReads
      /\ alive => (Stage(t) /\ \A u \in Thread : Closed(u))
    BY DEF TransformInv, EndsInv, Stages
<1>1. CASE make_pipe(t)
    <2> DEFINE new == started + 1
    <2>1. /\ alive /\ pc[t] = "idle" /\ pc' = [pc EXCEPT ![t] = "piped"]
          /\ cur' = [cur EXCEPT ![t] = new]
          /\ ends' = ends \cup {<<0, new, e>> : e \in End}
          /\ child' = child /\ started < MaxTransfers
        BY <1>1 DEF make_pipe, Step
    <2>2. \A d \in ends' : d \in ends \/ \E e \in End : d = <<0, new, e>>
        BY <2>1
    <2>3. new \in Transfer /\ new > started /\ started \in Nat
        BY <1>0, <2>1, TransformAssumption DEF TypeOK, Transfer
    <2>4. LiveEnds' /\ ScriptOnlyReads'
        BY <1>0, <2>1, <2>2 DEF LiveEnds, ScriptOnlyReads, Transfer
    <2>5. ReaderHasWriter'
        <3> SUFFICES ASSUME NEW p \in Process, NEW x \in Transfer, p # x,
                            <<p, x, "r">> \in ends'
                     PROVE  <<p, x, "w">> \in ends'
            BY DEF ReaderHasWriter
        <3>1. CASE <<p, x, "r">> \in ends
            BY <1>0, <2>1, <3>1 DEF ReaderHasWriter
        <3>2. CASE p = 0 /\ x = new
            BY <2>1, <3>2 DEF End
        <3> QED BY <2>2, <3>1, <3>2
    <2>6. \A u \in Thread : Closed(u)'
        <3> SUFFICES ASSUME NEW u \in Thread PROVE Closed(u)'
            OBVIOUS
        <3>1. CASE u = t
            BY <1>0, <2>1, <3>1 DEF Closed, TypeOK
        <3>2. CASE u # t
            <4>1. Closed(u) /\ pc'[u] = pc[u] /\ cur'[u] = cur[u]
                BY <1>0, <2>1, <3>2 DEF TypeOK
            <4>2. cur[u] # new
                BY <1>0, <2>3 DEF OneThread, TypeOK, Process, Transfer
            <4> QED BY <2>2, <4>1, <4>2 DEF Closed
        <3> QED BY <3>1, <3>2
    <2> QED BY <2>4, <2>5, <2>6 DEF EndsInv
<1>2. CASE fork_child(t)
    <2> DEFINE x == cur[t]
    <2>1. /\ alive /\ pc[t] = "piped" /\ pc' = [pc EXCEPT ![t] = "forked"]
          /\ child' = [child EXCEPT ![x] = "forked"]
          /\ ends' = ends \cup Inherited(x) /\ cur' = cur
        BY <1>2 DEF fork_child, Step
    <2>2. x \in Transfer /\ child'[x] = "forked"
        BY <1>0, <2>1, OwnTransfer DEF Busy, TypeOK
    <2>3. \A d \in Inherited(x) : \E c \in ends : c[1] = 0 /\ d = <<x, c[2], c[3]>>
        BY DEF Inherited
    <2>4. \A y \in Transfer, e \in End : <<0, y, e>> \in ends => <<x, y, e>> \in ends'
        BY <2>1 DEF Inherited
    <2>5. \A y \in Transfer : y # x => child'[y] = child[y]
        BY <1>0, <2>1 DEF TypeOK
    <2> HIDE DEF x
    <2>6. LiveEnds'
        <3> SUFFICES ASSUME NEW d \in ends', d[1] # 0
                     PROVE  child'[d[1]] \in {"forked", "running"}
            BY DEF LiveEnds
        <3>1. CASE d \in ends
            <4>1. d[1] \in Transfer
                BY <1>0, <3>1 DEF TypeOK, Process
            <4> QED BY <1>0, <2>2, <2>5, <3>1, <4>1 DEF LiveEnds
        <3>2. CASE d \in Inherited(x)
            BY <2>2, <2>3, <3>2
        <3> QED BY <2>1, <3>1, <3>2
    <2>7. ScriptOnlyReads'
        <3> SUFFICES ASSUME NEW y \in Transfer, child'[y] = "running"
                     PROVE  <<y, y, "w">> \notin ends'
            BY DEF ScriptOnlyReads
        <3>1. y # x /\ child[y] = "running"
            BY <2>2, <2>5
        <3> QED BY <1>0, <2>1, <2>3, <3>1 DEF ScriptOnlyReads
    <2>8. ReaderHasWriter'
        <3> SUFFICES ASSUME NEW p \in Process, NEW y \in Transfer, p # y,
                            <<p, y, "r">> \in ends'
                     PROVE  <<p, y, "w">> \in ends'
            BY DEF ReaderHasWriter
        <3>1. CASE <<p, y, "r">> \in ends
            BY <1>0, <2>1, <3>1 DEF ReaderHasWriter
        <3>2. CASE <<p, y, "r">> \in Inherited(x)
            <4>1. PICK c \in ends : c[1] = 0 /\ <<p, y, "r">> = <<x, c[2], c[3]>>
                BY <2>3, <3>2
            <4>2. p = x /\ <<0, y, "r">> \in ends
                BY <1>0, <4>1 DEF TypeOK
            <4>3. <<0, y, "w">> \in ends
                BY <1>0, <4>2 DEF ReaderHasWriter, Process, Transfer
            <4> QED BY <2>4, <4>2, <4>3 DEF End
        <3> QED BY <2>1, <3>1, <3>2
    <2>9. \A u \in Thread : Closed(u)'
        <3> SUFFICES ASSUME NEW u \in Thread PROVE Closed(u)'
            OBVIOUS
        <3>1. \A y, e : <<0, y, e>> \in ends' => <<0, y, e>> \in ends
            BY <2>1, <2>2, <2>3 DEF Transfer
        <3>2. Closed(u) /\ (pc'[u] = pc[u] \/ pc'[u] = "forked")
            BY <1>0, <2>1 DEF TypeOK
        <3> QED BY <2>1, <3>1, <3>2 DEF Closed
    <2> QED BY <2>6, <2>7, <2>8, <2>9 DEF EndsInv
<1>3. CASE fork_fails(t)
    <2>1. /\ alive /\ pc[t] = "piped" /\ pc' = [pc EXCEPT ![t] = "idle"]
          /\ ends' = ends \ {<<0, cur[t], e>> : e \in End}
          /\ cur' = [cur EXCEPT ![t] = 0] /\ child' = child
        BY <1>3 DEF fork_fails, Step
    <2>2. Closed(t)'
        BY <1>0, <2>1 DEF Closed, TypeOK
    <2>3. \A u \in Thread \ {t} : cur'[u] = cur[u]
        BY <1>0, <2>1 DEF TypeOK
    <2>4. \A d \in ends : d \in ends' \/ d[1] = 0
        BY <2>1
    <2>5. \A x \in Transfer :
              <<0, x, "r">> \in ends' /\ <<0, x, "w">> \in ends => <<0, x, "w">> \in ends'
        BY <2>1 DEF End
    <2>6. Busy(t) /\ ends' \subseteq ends
        BY <2>1 DEF Busy
    <2> QED BY <2>1, <2>2, <2>3, <2>4, <2>5, <2>6, ServerCloses
<1>4. CASE close_read(t)
    <2>1. /\ alive /\ pc[t] = "forked" /\ pc' = [pc EXCEPT ![t] = "opening"]
          /\ ends' = ends \ {<<0, cur[t], "r">>} /\ cur' = cur /\ child' = child
        BY <1>4 DEF close_read, Step
    <2>2. Closed(t)'
        BY <1>0, <2>1 DEF Closed, TypeOK
    <2>3. /\ \A d \in ends : d \in ends' \/ d[1] = 0
          /\ \A x \in Transfer : <<0, x, "w">> \in ends => <<0, x, "w">> \in ends'
          /\ Busy(t) /\ ends' \subseteq ends
        BY <2>1 DEF Busy
    <2> QED BY <2>1, <2>2, <2>3, ServerCloses
<1>5. CASE close_write(t)
    <2>1. /\ alive /\ pc[t] = "writing" /\ pc' = [pc EXCEPT ![t] = "waiting"]
          /\ ends' = ends \ {<<0, cur[t], "w">>} /\ cur' = cur /\ child' = child
        BY <1>5 DEF close_write, Step
    <2>2. <<0, cur[t], "r">> \notin ends
        BY <1>0, <2>1 DEF Closed
    <2>3. Closed(t)'
        BY <1>0, <2>1, <2>2 DEF Closed, TypeOK
    <2>4. /\ \A d \in ends : d \in ends' \/ d[1] = 0
          /\ Busy(t) /\ ends' \subseteq ends
        BY <2>1 DEF Busy
    <2>5. \A x \in Transfer :
              <<0, x, "r">> \in ends' /\ <<0, x, "w">> \in ends => <<0, x, "w">> \in ends'
        BY <2>1, <2>2
    <2> QED BY <2>1, <2>3, <2>4, <2>5, ServerCloses
<1>6. CASE open_mail(t) \/ open_fails(t) \/ write_byte(t) \/ wait_child(t)
    <2>1. PICK to :
              /\ alive /\ pc' = [pc EXCEPT ![t] = to] /\ ends' = ends /\ child' = child
              /\ \/ to = "idle" /\ cur' = [cur EXCEPT ![t] = 0]
                 \/ /\ cur' = cur
                    /\ to = "writing" /\ pc[t] \in {"opening", "writing"}
              /\ pc[t] # "idle"
        BY <1>6 DEF open_mail, open_fails, write_byte, wait_child, Step
    <2>2. Closed(t)'
        BY <1>0, <2>1 DEF Closed, TypeOK
    <2>3. \A u \in Thread \ {t} : cur'[u] = cur[u]
        BY <1>0, <2>1 DEF TypeOK
    <2> QED BY <2>1, <2>2, <2>3, ServerCloses DEF Busy
<1>7. CASE write_killed(t)
    <2>1. alive' = FALSE /\ ends' = {d \in ends : d[1] # 0} /\ child' = child
        BY <1>7 DEF write_killed
    <2>2. ReaderHasWriter'
        BY <1>0, <2>1 DEF ReaderHasWriter
    <2> QED BY <1>0, <2>1, <2>2 DEF EndsInv, LiveEnds, ScriptOnlyReads
<1> QED BY <1>1, <1>2, <1>3, <1>4, <1>5, <1>6, <1>7 DEF ThreadStep

LEMMA EndsChild ==
    ASSUME TransformInv, EndsInv, NEW x \in Transfer,
           ChildStep(x) \/ script_stops(x)
    PROVE  EndsInv'
<1>0. TypeOK /\ LiveEnds /\ ReaderHasWriter /\ ScriptOnlyReads
    BY DEF TransformInv, EndsInv
<1>1. /\ ends' \subseteq ends /\ UNCHANGED <<pc, cur, alive>>
      /\ \A y \in Transfer : y # x => child'[y] = child[y]
    BY <1>0 DEF ChildStep, exec_script, script_reads, script_exits, script_stops,
                Exit, TypeOK
<1>2. alive' => \A t \in Thread : Closed(t)'
    BY <1>1 DEF EndsInv, Closed
<1>3. CASE exec_script(x)
    <2>1. child'[x] = "running" /\ ends' = ends \ {<<x, x, "w">>}
        BY <1>0, <1>3 DEF exec_script, TypeOK
    <2>2. LiveEnds'
        <3> SUFFICES ASSUME NEW d \in ends, d[1] # 0
                     PROVE  child'[d[1]] \in {"forked", "running"}
            BY <1>1 DEF LiveEnds
        <3>1. d[1] \in Transfer
            BY <1>0 DEF TypeOK, Process
        <3> QED BY <1>0, <1>1, <2>1, <3>1 DEF LiveEnds
    <2>3. ReaderHasWriter' /\ ScriptOnlyReads'
        BY <1>0, <1>1, <2>1 DEF ReaderHasWriter, ScriptOnlyReads
    <2> QED BY <1>2, <2>2, <2>3 DEF EndsInv
<1>4. CASE script_reads(x)
    BY <1>0, <1>2, <1>4
       DEF script_reads, EndsInv, LiveEnds, ReaderHasWriter, ScriptOnlyReads
<1>5. CASE script_exits(x) \/ script_stops(x)
    <2>1. child'[x] = "exited" /\ ends' = {d \in ends : d[1] # x}
        BY <1>0, <1>5 DEF script_exits, script_stops, Exit, TypeOK
    <2>2. LiveEnds'
        <3> SUFFICES ASSUME NEW d \in ends, d[1] # x, d[1] # 0
                     PROVE  child'[d[1]] \in {"forked", "running"}
            BY <2>1 DEF LiveEnds
        <3>1. d[1] \in Transfer
            BY <1>0 DEF TypeOK, Process
        <3> QED BY <1>0, <1>1, <3>1 DEF LiveEnds
    <2>3. ReaderHasWriter' /\ ScriptOnlyReads'
        BY <1>0, <1>1, <2>1 DEF ReaderHasWriter, ScriptOnlyReads
    <2> QED BY <1>2, <2>2, <2>3 DEF EndsInv
<1> QED BY <1>3, <1>4, <1>5 DEF ChildStep

(* A transfer waits for the child of another one or can go on, however     *)
(* many run at once, whatever the sizes of mails and pipes, and whether    *)
(* or not scripts stop early and mails vanish.                             *)
THEOREM OnlyOthersKeep == Spec => []OnlyOthersBlock
<1>1. TransformInv /\ EndsInv => OnlyOthersBlock
    <2> SUFFICES ASSUME TransformInv, EndsInv, alive, NEW t \in Thread,
                        ThreadBlocked(t), ChildBlocked(cur[t])
                 PROVE  \E x \in Transfer \ {cur[t]} :
                            /\ child[x] \in {"forked", "running"}
                            /\ <<x, cur[t], "w">> \in ends
        BY DEF OnlyOthersBlock, Has
    <2>0. /\ TypeOK /\ LiveEnds /\ ReaderHasWriter /\ ScriptOnlyReads /\ Closed(t)
          /\ cur[t] \in Transfer /\ pc[t] \in {"writing", "waiting"}
        BY OwnTransfer DEF TransformInv, EndsInv, ThreadBlocked, Busy
    <2>1. CASE pc[t] = "writing"
        <3>1. inpipe[cur[t]] = PipeSize /\ ~Broken(cur[t])
            BY <2>1 DEF ThreadBlocked
        <3>2. child[cur[t]] = "exited"
            BY <3>1, TransformAssumption DEF ChildBlocked
        <3>3. PICK p \in Process : <<p, cur[t], "r">> \in ends
            BY <3>1 DEF Broken, Has
        <3>4. p # 0 /\ p # cur[t]
            BY <2>0, <2>1, <3>2, <3>3 DEF Closed, LiveEnds, Transfer
        <3>5. <<p, cur[t], "w">> \in ends
            BY <2>0, <3>3, <3>4 DEF ReaderHasWriter
        <3>6. p \in Transfer /\ child[p] \in {"forked", "running"}
            BY <2>0, <3>3, <3>4 DEF LiveEnds, Process
        <3> QED BY <3>4, <3>5, <3>6
    <2>2. CASE pc[t] = "waiting"
        <3>1. child[cur[t]] = "running" /\ ~AtEnd(cur[t]) /\ inpipe[cur[t]] = 0
            BY <2>2 DEF ThreadBlocked, ChildBlocked
        <3>2. PICK p \in Process : <<p, cur[t], "w">> \in ends
            BY <3>1 DEF AtEnd, Has
        <3>3. p # 0 /\ p # cur[t]
            BY <2>0, <2>2, <3>1, <3>2 DEF Closed, ScriptOnlyReads
        <3>4. p \in Transfer /\ child[p] \in {"forked", "running"}
            BY <2>0, <3>2, <3>3 DEF LiveEnds, Process
        <3> QED BY <3>2, <3>3, <3>4
    <2> QED BY <2>0, <2>1, <2>2
<1>2. TransformInv /\ EndsInv /\ [Next]_transformVars => EndsInv'
    <2> SUFFICES ASSUME TransformInv, EndsInv, [Next]_transformVars PROVE EndsInv'
        OBVIOUS
    <2>1. CASE UNCHANGED transformVars
        BY <2>1 DEF transformVars, EndsInv, LiveEnds, ReaderHasWriter,
                    ScriptOnlyReads, Closed
    <2> QED BY <2>1, EndsThread, EndsChild DEF Next
<1> QED BY <1>1, <1>2, InitInv, EndsInit, StepKeepsInv, PTL DEF Spec

=============================================================================
