------------------------- MODULE ConfigServerProofs -------------------------
(***************************************************************************)
(* Proofs about ConfigServer, for any settings, lengths of their arrays    *)
(* and of a datagram, number of sessions and requests.                     *)
(***************************************************************************)
EXTENDS ConfigServer, TLAPS, SequenceTheorems, WellFoundedInduction

USE DEF config, history

-----------------------------------------------------------------------------
(***************************************************************************)
(* The inductive invariant.  A datagram that was not sent leaves bytes in  *)
(* the buffer, and trouble excuses what comes after it; without trouble    *)
(* the buffer is empty, each part fits, and what was sent and what is to   *)
(* be sent make up an answer.  Whether an answer is true is settled when   *)
(* the request is carried out, and no step changes a setting after that.   *)
(***************************************************************************)
(* The parts of the answer under way, sent or still to be sent *)
Says(p) == got(p) \/ \E i \in DOMAIN parts : parts[i] = p

UnderWay == at \in {"copying", "sending"}

(* The cells of an argument as strcpy writes it *)
CellOf(arg, i) == IF i = Len(arg) THEN NUL ELSE arg[i + 1]

Complete(answer) ==
    \/ answer = Whole
    \/ answer = <<"err">>
    \/ /\ request.object \in {"INF", "TRF"}
       /\ answer \in {<<"suc">>, <<"suc", "err">>}

(* The types of what TypeOK leaves open *)
ShapeInv ==
    /\ reading \in [Session -> [object : String \cup {"none"}, cell : Nat]]
    /\ Len(reached) + Len(parts) <= 3
    /\ unsent = write

(* The last cell of an array is never written with a character. *)
EndsInv ==
    /\ \A s \in String : text[s][Size[s] - 1] = NUL
    /\ \A c \in Session : reading[c] # NotReading =>
          /\ reading[c].object \in String
          /\ reading[c].cell \in 0..(Size[reading[c].object] - 1)

(* What is copied is an argument that was found to fit. *)
CopyInv ==
    /\ at # "copying" => left = {}
    /\ at = "copying" =>
          /\ request.op = "SET" /\ request.object \in String
          /\ request.argument \in Argument
          /\ Len(request.argument) < Size[request.object]
          /\ left \subseteq 0..Len(request.argument)
          /\ parts = Whole /\ reached = << >>

(* An answer of success to a SET: the cells that were written hold the     *)
(* argument.                                                               *)
SetInv ==
    UnderWay /\ request.op = "SET" /\ Says("suc") =>
        \/ /\ request.object = "TRF"
           /\ request.argument = <<"noise">>
              \/ transformation = (request.argument = <<"true">>)
        \/ /\ request.object \in String
           /\ request.argument \in Argument
           /\ Len(request.argument) < Size[request.object]
           /\ \A i \in (0..Len(request.argument)) \ left :
                 text[request.object][i] = CellOf(request.argument, i)

SameInv ==
    UnderWay /\ (request.op = "GET" \/ Says("err")) => before = config

(* Until something goes wrong the parts that were sent and those that are  *)
(* to be sent make up an answer, and the buffer is empty.                  *)
WholeInv ==
    UnderWay /\ ~trouble => unsent = 0 /\ Complete(reached \o parts)

ConfigInv ==
    TypeOK /\ ShapeInv /\ EndsInv /\ CopyInv /\ SetInv /\ SameInv /\ WholeInv

-----------------------------------------------------------------------------
(* Numbers, sequences and strings *)

LEMMA LeastNat ==
    ASSUME NEW T \in SUBSET Nat, T # {}
    PROVE  \E n \in T : \A m \in T : n <= m
  <1>1. PICK n \in T : \A m \in T : <<m, n>> \notin OpToRel(<, Nat)
    BY NatLessThanWellFounded, WFMin
  <1>2. ASSUME NEW m \in T PROVE n <= m
    <2>1. ~ (m < n)
      BY <1>1 DEF OpToRel
    <2> QED  BY <2>1
  <1> QED  BY <1>2

LEMMA ArgumentFacts ==
    ASSUME NEW arg \in Argument
    PROVE  /\ Len(arg) \in 1..ARGUMENT_LENGTH
           /\ arg = [i \in 1..Len(arg) |-> arg[i]]
           /\ \A i \in 1..Len(arg) : arg[i] \in Char /\ arg[i] # NUL
  <1>1. PICK n \in 1..ARGUMENT_LENGTH : arg \in [1..n -> Char]
    BY DEF Argument
  <1>2. arg \in Seq(Char) /\ n \in Nat
    BY <1>1, ConfigAssumption, SeqDef
  <1>3. Len(arg) = n
    BY <1>1, <1>2, LenProperties
  <1> QED  BY <1>1, <1>3, ConfigAssumption

(* With a NUL in its last cell an array holds a string. *)
LEMMA StringLengthFacts ==
    ASSUME TypeOK, EndsInv, NEW s \in String
    PROVE  /\ StringLength(s) \in 0..(Size[s] - 1)
           /\ text[s][StringLength(s)] = NUL
           /\ \A i \in 0..(StringLength(s) - 1) : text[s][i] # NUL
  <1> DEFINE T == {n \in 0..(Size[s] - 1) : text[s][n] = NUL}
  <1>s. Size[s] \in Nat \ {0}
    BY ConfigAssumption
  <1>1. T \in SUBSET Nat /\ T # {}
    BY <1>s DEF EndsInv
  <1>2. PICK n \in T : \A m \in T : n <= m
    BY <1>1, LeastNat
  <1>3. /\ n \in 0..(Size[s] - 1)
        /\ text[s][n] = NUL /\ \A i \in 0..(n - 1) : text[s][i] # NUL
    BY <1>s, <1>2
  <1> QED  BY <1>3 DEF StringLength

(* The length of a string is the place of its NUL. *)
LEMMA StringLengthIs ==
    ASSUME NEW s \in String, NEW n \in 0..(Size[s] - 1), text[s][n] = NUL,
           \A i \in 0..(n - 1) : text[s][i] # NUL
    PROVE  StringLength(s) = n
  <1>1. ASSUME NEW k \in 0..(Size[s] - 1), text[s][k] = NUL,
               \A i \in 0..(k - 1) : text[s][i] # NUL
        PROVE  k = n
    <2>1. ~ (k < n) /\ ~ (n < k)
      BY <1>1
    <2> QED  BY <2>1
  <1> QED  BY <1>1 DEF StringLength

LEMMA PartLengthFacts ==
    ASSUME TypeOK, EndsInv, NEW p \in Part
    PROVE  PartLength(p) \in Nat
  <1>1. MessageLength \in Nat
    BY ConfigAssumption
  <1>2. request.object \in String => StringLength(request.object) \in Nat
    <2> SUFFICES ASSUME request.object \in String
                 PROVE  StringLength(request.object) \in Nat
      OBVIOUS
    <2>1. Size[request.object] \in Nat
      BY ConfigAssumption
    <2> QED  BY <2>1, StringLengthFacts
  <1> QED  BY <1>1, <1>2 DEF PartLength, Part

(* A part passes from those to be sent to those that were. *)
LEMMA PartPasses ==
    ASSUME NEW q \in Seq(Part), q # << >>, NEW r \in Seq(Part)
    PROVE  /\ Tail(q) \in Seq(Part) /\ Len(Tail(q)) = Len(q) - 1
           /\ Head(q) \in Part
           /\ Append(r, Head(q)) \in Seq(Part)
           /\ Len(Append(r, Head(q))) = Len(r) + 1
           /\ Append(r, Head(q)) \o Tail(q) = r \o q
           /\ \A i \in DOMAIN Tail(q) : \E j \in DOMAIN q : q[j] = Tail(q)[i]
           /\ \A i \in DOMAIN Append(r, Head(q)) :
                 \/ \E j \in DOMAIN r : r[j] = Append(r, Head(q))[i]
                 \/ \E j \in DOMAIN q : q[j] = Append(r, Head(q))[i]
  <1>1. /\ Tail(q) \in Seq(Part) /\ Len(Tail(q)) = Len(q) - 1
        /\ Head(q) \in Part /\ Head(q) = q[1]
        /\ \A i \in 1 .. Len(Tail(q)) : Tail(q)[i] = q[i + 1]
    BY HeadTailProperties
  <1>2. Append(r, Head(q)) \in Seq(Part) /\ Len(Append(r, Head(q))) = Len(r) + 1
    BY <1>1
  <1>3. Append(r, Head(q)) \o Tail(q) = r \o q
    <2>1. /\ Append(r, Head(q)) \o Tail(q) \in Seq(Part)
          /\ r \o q \in Seq(Part)
          /\ Len(r) \in Nat /\ Len(q) \in Nat \ {0}
      BY <1>1, <1>2, ConcatProperties, LenProperties, EmptySeq
    <2>2. Len(Append(r, Head(q)) \o Tail(q)) = Len(r \o q)
          /\ Len(r \o q) = Len(r) + Len(q)
      BY <1>1, <1>2, <2>1, ConcatProperties
    <2>3. ASSUME NEW i \in 1 .. Len(r) + Len(q)
          PROVE  (Append(r, Head(q)) \o Tail(q))[i] = (r \o q)[i]
      BY <1>1, <1>2, <2>1, <2>3
    <2> QED  BY <2>1, <2>2, <2>3, SeqEqual
  <1>4. /\ DOMAIN q = 1..Len(q) /\ Len(q) \in Nat \ {0}
        /\ DOMAIN Tail(q) = 1..Len(Tail(q))
        /\ DOMAIN r = 1..Len(r) /\ Len(r) \in Nat
        /\ DOMAIN Append(r, Head(q)) = 1..(Len(r) + 1)
    BY <1>1, <1>2, LenProperties, EmptySeq
  <1>5. ASSUME NEW i \in DOMAIN Tail(q)
        PROVE  \E j \in DOMAIN q : q[j] = Tail(q)[i]
    <2>1. i + 1 \in DOMAIN q /\ q[i + 1] = Tail(q)[i]
      BY <1>1, <1>4
    <2> QED  BY <2>1
  <1>6. ASSUME NEW i \in DOMAIN Append(r, Head(q))
        PROVE  \/ \E j \in DOMAIN r : r[j] = Append(r, Head(q))[i]
               \/ \E j \in DOMAIN q : q[j] = Append(r, Head(q))[i]
    <2>1. CASE i = Len(r) + 1
      <3>1. 1 \in DOMAIN q /\ q[1] = Append(r, Head(q))[i]
        BY <1>1, <1>4, <2>1
      <3> QED  BY <3>1
    <2>2. CASE i # Len(r) + 1
      <3>1. i \in DOMAIN r /\ r[i] = Append(r, Head(q))[i]
        BY <1>1, <1>4, <2>2
      <3> QED  BY <3>1
    <2> QED  BY <2>1, <2>2
  <1> QED  BY <1>1, <1>2, <1>3, <1>5, <1>6

LEMMA EmptyAnswer == << >> \in Seq(Part) /\ Len(<< >>) = 0
  OBVIOUS

LEMMA AnswerFacts ==
    \A answer : answer \in {Whole, <<"err">>, <<"suc">>, <<"suc", "err">>} =>
        /\ answer \in Seq(Part) /\ Len(answer) <= 3
        /\ << >> \o answer = answer
  BY DEF Whole, Part

-----------------------------------------------------------------------------
(* The kinds of steps.  A handler replies at once and changes nothing, or  *)
(* is that of a SET.                                                       *)
Replies(r, answer) ==
    /\ r \in Request
    /\ Receive(r, "sending", answer)
    /\ UNCHANGED <<config, left>>
    /\ \/ answer = Whole
       \/ answer = <<"err">>
       \/ answer = <<"suc">> /\ r.object \in {"INF", "TRF"}
    /\ r.op = "SET" => answer = <<"err">>

Truth == {<<"true">>, <<"false">>, <<"noise">>}

LEMMA HandlerKinds ==
    ASSUME Handle
    PROVE  \/ \E r, answer : Replies(r, answer)
           \/ \E s \in String, arg \in Argument : set_action(s, arg)
           \/ \E arg \in Truth : settrf_action(arg)
  <1>i. Idle \in Request /\ [Idle EXCEPT !.op = "fatal"] \in Request
        /\ Idle.op # "SET" /\ [Idle EXCEPT !.op = "fatal"].op # "SET"
    BY DEF Idle, Request, Object
  <1>1. CASE recv_too_big
    <2>1. Replies([Idle EXCEPT !.op = "fatal"], <<"err">>)
      BY <1>1, <1>i DEF recv_too_big, Replies
    <2> QED  BY <2>1
  <1>2. CASE refuse
    <2>1. Replies(Idle, <<"err">>)
      BY <1>2, <1>i DEF refuse, Replies
    <2> QED  BY <2>1
  <1>3. ASSUME NEW o \in Counter \cup {"INF"}, config_default_action(o)
        PROVE  \E r, answer : Replies(r, answer)
    <2>1. [op |-> "SET", object |-> o, argument |-> NoText] \in Request
      BY DEF Request, Object
    <2>2. Replies([op |-> "SET", object |-> o, argument |-> NoText], <<"err">>)
      BY <1>3, <2>1 DEF config_default_action, Replies
    <2> QED  BY <2>2
  <1>4. ASSUME NEW o \in String \cup Counter, get_action(o)
        PROVE  \E r, answer : Replies(r, answer)
    <2>1. [op |-> "GET", object |-> o, argument |-> NoText] \in Request
      BY DEF Request, Object
    <2>2. Replies([op |-> "GET", object |-> o, argument |-> NoText], Whole)
      BY <1>4, <2>1 DEF get_action, Replies
    <2> QED  BY <2>2
  <1>5. ASSUME NEW o \in {"INF", "TRF"}, get_fixed_action(o)
        PROVE  \E r, answer : Replies(r, answer)
    <2>1. [op |-> "GET", object |-> o, argument |-> NoText] \in Request
      BY DEF Request, Object
    <2>2. Replies([op |-> "GET", object |-> o, argument |-> NoText], <<"suc">>)
      BY <1>5, <2>1 DEF get_fixed_action, Replies
    <2> QED  BY <2>2
  <1>6. ASSUME NEW s \in String, NEW arg \in Argument, set_refused(s, arg)
        PROVE  \E r, answer : Replies(r, answer)
    <2>1. [op |-> "SET", object |-> s, argument |-> arg] \in Request
      BY DEF Request, Object
    <2>2. Replies([op |-> "SET", object |-> s, argument |-> arg], <<"err">>)
      BY <1>6, <2>1 DEF set_refused, Replies
    <2> QED  BY <2>2
  <1> QED
    BY <1>1, <1>2, <1>3, <1>4, <1>5, <1>6 DEF Handle, Truth

(* One datagram, whatever becomes of it *)
SendOne(p) ==
    /\ Sending(p)
    /\ parts' = Tail(parts)
    /\ reached' = reached \/ reached' = Append(reached, p)
    /\ UNCHANGED <<at, done, config, left, request, reading, before>>

LEMMA SendKinds ==
    ASSUME NEW p,
           send_too_long(p) \/ send_no_room(p) \/ send_sent(p) \/ send_fails(p)
    PROVE  SendOne(p)
  BY DEF send_too_long, send_no_room, send_sent, send_fails, Fits, SendOne

LEMMA SendSays ==
    ASSUME TypeOK, NEW p, SendOne(p)
    PROVE  /\ parts' \in Seq(Part) /\ reached' \in Seq(Part)
           /\ Len(parts') <= 3
           /\ Len(reached') + Len(parts') <= Len(reached) + Len(parts)
           /\ \A x : Says(x)' => Says(x)
  <1>1. /\ parts \in Seq(Part) /\ parts # << >> /\ Head(parts) = p
        /\ reached \in Seq(Part) /\ Len(parts) <= 3
        /\ Len(parts) \in Nat /\ Len(reached) \in Nat
    BY DEF TypeOK, SendOne, Sending
  <1>2. /\ Tail(parts) \in Seq(Part) /\ Len(Tail(parts)) = Len(parts) - 1
        /\ Append(reached, p) \in Seq(Part)
        /\ Len(Append(reached, p)) = Len(reached) + 1
        /\ \A i \in DOMAIN Tail(parts) :
              \E j \in DOMAIN parts : parts[j] = Tail(parts)[i]
        /\ \A i \in DOMAIN Append(reached, p) :
              \/ \E j \in DOMAIN reached : reached[j] = Append(reached, p)[i]
              \/ \E j \in DOMAIN parts : parts[j] = Append(reached, p)[i]
    BY <1>1, PartPasses
  <1>3. ASSUME NEW x, Says(x)' PROVE Says(x)
    <2>1. CASE \E i \in DOMAIN reached' : reached'[i] = x
      BY <1>2, <2>1 DEF SendOne, Says, got
    <2>2. CASE \E i \in DOMAIN parts' : parts'[i] = x
      BY <1>2, <2>2 DEF SendOne, Says
    <2> QED  BY <1>3, <2>1, <2>2 DEF Says, got
  <1>4. /\ parts' \in Seq(Part) /\ reached' \in Seq(Part)
        /\ Len(parts') <= 3
        /\ Len(reached') + Len(parts') <= Len(reached) + Len(parts)
    <2>1. CASE reached' = reached
      BY <1>1, <1>2, <2>1 DEF SendOne
    <2>2. CASE reached' = Append(reached, p)
      BY <1>1, <1>2, <2>2 DEF SendOne
    <2> QED  BY <2>1, <2>2 DEF SendOne
  <1> QED  BY <1>3, <1>4

(* One cell of the copy *)
LEMMA StrcpyWrites ==
    ASSUME TypeOK, CopyInv, NEW i, strcpy(i)
    PROVE  LET o   == request.object
               arg == request.argument
           IN  /\ o \in String /\ arg \in Argument
               /\ i \in 0..Len(arg) /\ Len(arg) < Size[o]
               /\ Len(arg) \in Nat /\ Size[o] \in Nat
               /\ CellOf(arg, i) \in Char \cup {NUL}
               /\ i # Len(arg) => CellOf(arg, i) \in Char
               /\ DOMAIN text' = String
               /\ text'[o] = [text[o] EXCEPT ![i] = CellOf(arg, i)]
               /\ \A s \in String \ {o} : text'[s] = text[s]
  <1> DEFINE o   == request.object
             arg == request.argument
  <1>1. /\ at = "copying" /\ o \in String /\ arg \in Argument
        /\ i \in 0..Len(arg) /\ Len(arg) < Size[o]
    BY DEF strcpy, CopyInv
  <1>2. /\ Len(arg) \in Nat /\ Size[o] \in Nat
        /\ \A j \in 1..Len(arg) : arg[j] \in Char
    BY <1>1, ArgumentFacts, ConfigAssumption
  <1>3. CellOf(arg, i) \in Char \cup {NUL} /\ (i # Len(arg) => CellOf(arg, i) \in Char)
    BY <1>1, <1>2 DEF CellOf
  <1>4. i < Size[o]
    BY <1>1, <1>2
  <1>5. text' = [text EXCEPT ![o][i] = CellOf(arg, i)]
    BY <1>4 DEF strcpy, CellOf
  <1>6. DOMAIN text = String
    BY DEF TypeOK
  <1> QED  BY <1>1, <1>2, <1>3, <1>5, <1>6

-----------------------------------------------------------------------------
(* The invariant *)

LEMMA ConfigInit == Init => ConfigInv
  <1> SUFFICES ASSUME Init PROVE ConfigInv
    OBVIOUS
  <1> USE ConfigAssumption
  <1>1. ASSUME NEW s \in String
        PROVE  /\ text[s] \in [0..(Size[s] - 1) -> Char \cup {NUL}]
               /\ text[s][Size[s] - 1] = NUL
    <2>1. /\ text[s] = Stored(Initial[s], Size[s])
          /\ Len(Initial[s]) \in Nat /\ Size[s] \in Nat \ {0}
          /\ Len(Initial[s]) < Size[s]
          /\ \A j \in 1..Len(Initial[s]) : Initial[s][j] \in Char
      BY DEF Init
    <2> QED  BY <2>1 DEF Stored
  <1>2. TypeOK
    <2>1. Idle \in Request
      BY DEF Idle, Request, Object
    <2>2. DOMAIN text = String
      BY DEF Init
    <2>3. \A c \in Session : reading[c].object \in String \cup {"none"}
      BY DEF Init, NotReading
    <2>4. at \in Place /\ write \in 0..BUFFER_SIZE
          /\ left \subseteq 0..ARGUMENT_LENGTH /\ unsent \in Nat
      BY DEF Init, Place
    <2>7. done \in BOOLEAN /\ transformation \in BOOLEAN /\ trouble \in BOOLEAN
      BY DEF Init
    <2>6. request \in Request
      BY <2>1 DEF Init
    <2>5. parts \in Seq(Part) /\ Len(parts) <= 3
          /\ reached \in Seq(Part) /\ Len(reached) <= 3
      BY EmptyAnswer DEF Init
    <2> QED  BY <1>1, <2>2, <2>3, <2>4, <2>5, <2>6, <2>7 DEF TypeOK
  <1>3. ShapeInv
    BY EmptyAnswer DEF Init, ShapeInv, NotReading
  <1>4. EndsInv
    BY <1>1 DEF Init, EndsInv
  <1>5. CopyInv /\ SetInv /\ SameInv /\ WholeInv
    BY DEF Init, CopyInv, SetInv, SameInv, WholeInv, UnderWay
  <1> QED  BY <1>2, <1>3, <1>4, <1>5 DEF ConfigInv

LEMMA ReceiveTyped ==
    ASSUME TypeOK, NEW r \in Request, NEW p \in Place, NEW answer,
           answer \in {Whole, <<"err">>, <<"suc">>, <<"suc", "err">>},
           Receive(r, p, answer)
    PROVE  /\ at' \in Place /\ done' \in BOOLEAN /\ write' \in 0..BUFFER_SIZE
           /\ request' \in Request
           /\ parts' \in Seq(Part) /\ Len(parts') <= 3
           /\ \A c \in Session : reading'[c].object \in String \cup {"none"}
           /\ reached' \in Seq(Part) /\ Len(reached') <= 3
           /\ unsent' \in Nat /\ trouble' \in BOOLEAN
  <1>1. parts' = answer /\ reached' = << >>
    BY DEF Receive
  <1>2. parts' \in Seq(Part) /\ Len(parts') <= 3
    BY <1>1, AnswerFacts
  <1>3. reached' \in Seq(Part) /\ Len(reached') <= 3
    BY <1>1, EmptyAnswer
  <1>4. at' \in Place /\ request' \in Request /\ trouble' \in BOOLEAN
    BY DEF Receive
  <1>5. UNCHANGED <<done, write, reading, unsent>>
    BY DEF Receive
  <1> QED  BY <1>2, <1>3, <1>4, <1>5 DEF TypeOK

LEMMA ConfigTypeStep == ConfigInv /\ [Next]_vars => TypeOK'
  <1> SUFFICES ASSUME ConfigInv, [Next]_vars PROVE TypeOK'
    OBVIOUS
  <1> USE DEF TypeOK
  <1>0. TypeOK /\ ShapeInv /\ CopyInv
    BY DEF ConfigInv
  <1>1. CASE Handle
    <2>1. ASSUME NEW r, NEW answer, Replies(r, answer) PROVE TypeOK'
      <3>1. /\ answer \in {Whole, <<"err">>, <<"suc">>, <<"suc", "err">>}
            /\ UNCHANGED <<text, transformation, left>>
        BY <2>1 DEF Replies
      <3> QED  BY <1>0, <2>1, <3>1, ReceiveTyped DEF Replies, Place
    <2>2. ASSUME NEW s \in String, NEW arg \in Argument, set_action(s, arg)
          PROVE  TypeOK'
      <3>1. [op |-> "SET", object |-> s, argument |-> arg] \in Request
        BY DEF Request, Object
      <3>2. 0..Len(arg) \subseteq 0..ARGUMENT_LENGTH
        BY ArgumentFacts, ConfigAssumption
      <3> QED
        BY <1>0, <2>2, <3>1, <3>2, ReceiveTyped DEF set_action, Place
    <2>3. ASSUME NEW arg \in Truth, settrf_action(arg) PROVE TypeOK'
      <3>1. [op |-> "SET", object |-> "TRF", argument |-> arg] \in Request
        BY DEF Request, Object, Truth
      <3>2. transformation' \in BOOLEAN
        BY <1>0, <2>3 DEF settrf_action
      <3>3. UNCHANGED <<text, left>>
        BY <2>3 DEF settrf_action
      <3> QED
        BY <1>0, <2>3, <3>1, <3>2, <3>3, ReceiveTyped DEF settrf_action, Place
    <2> QED  BY <1>1, <2>1, <2>2, <2>3, HandlerKinds
  <1>2. CASE recv_fails
    <2>1. [Idle EXCEPT !.op = "fatal"] \in Request
      BY DEF Idle, Request, Object
    <2> QED  BY <1>0, <1>2, <2>1 DEF recv_fails, Place
  <1>3. CASE test_done
    BY <1>0, <1>3 DEF test_done, Place
  <1>4. CASE answered
    <2>1. Idle \in Request
      BY DEF Idle, Request, Object
    <2> QED  BY <1>0, <1>4, <2>1, EmptyAnswer DEF answered, Place
  <1>5. ASSUME NEW i \in left, strcpy(i) PROVE TypeOK'
    <2>1. \A s \in String :
             text'[s] \in [0..(Size[s] - 1) -> Char \cup {NUL}]
      <3> SUFFICES ASSUME NEW s \in String
                   PROVE  text'[s] \in [0..(Size[s] - 1) -> Char \cup {NUL}]
        OBVIOUS
      <3>1. CASE s = request.object
        <4>1. /\ text'[s] = [text[s] EXCEPT ![i] = CellOf(request.argument, i)]
              /\ CellOf(request.argument, i) \in Char \cup {NUL}
          BY <1>0, <1>5, <3>1, StrcpyWrites
        <4> QED  BY <1>0, <4>1
      <3>2. CASE s # request.object
        BY <1>0, <1>5, <3>2, StrcpyWrites
      <3> QED  BY <3>1, <3>2
    <2>2. DOMAIN text' = String
      BY <1>0, <1>5, StrcpyWrites
    <2>3. /\ UNCHANGED <<done, write, transformation, request, parts, reading,
                         reached, unsent, trouble>>
          /\ at' \in Place /\ left' \subseteq left
      BY <1>5 DEF strcpy, Place
    <2> QED  BY <1>0, <2>1, <2>2, <2>3
  <1>6. ASSUME NEW p \in Part,
               send_too_long(p) \/ send_no_room(p) \/ send_sent(p)
                 \/ send_fails(p)
        PROVE  TypeOK'
    <2>1. /\ parts' \in Seq(Part) /\ reached' \in Seq(Part)
          /\ Len(parts') <= 3
          /\ Len(reached') + Len(parts') <= Len(reached) + Len(parts)
      BY <1>0, <1>6, SendKinds, SendSays
    <2>2. Len(reached') <= 3
      BY <1>0, <2>1 DEF ShapeInv
    <2>3. UNCHANGED <<at, done, text, transformation, left, request, reading>>
      BY <1>6, SendKinds DEF SendOne
    <2>4. write' \in 0..BUFFER_SIZE /\ unsent' \in Nat /\ trouble' \in BOOLEAN
      <3>1. PartLength(p) \in Nat
        BY PartLengthFacts DEF ConfigInv
      <3> HIDE DEF TypeOK
      <3>2. write \in 0..BUFFER_SIZE /\ unsent \in Nat /\ trouble \in BOOLEAN
            /\ BUFFER_SIZE \in Nat
        BY <1>0, ConfigAssumption DEF TypeOK
      <3>3. CASE send_too_long(p) \/ send_no_room(p)
        BY <3>2, <3>3 DEF send_too_long, send_no_room
      <3>4. CASE send_sent(p)
        BY <3>2, <3>4 DEF send_sent
      <3>5. CASE send_fails(p)
        <4>1. PartLength(p) <= BUFFER_SIZE - write
              /\ write' = write + PartLength(p)
              /\ unsent' = unsent + PartLength(p) /\ trouble' = TRUE
          BY <3>5 DEF send_fails, Fits
        <4> QED  BY <3>1, <3>2, <4>1
      <3> QED  BY <1>6, <3>3, <3>4, <3>5
    <2> QED  BY <1>0, <2>1, <2>2, <2>3, <2>4
  <1>7. CASE sigterm_handler
    BY <1>0, <1>7 DEF sigterm_handler
  <1>8. ASSUME NEW c \in Session, NEW s \in String, begin_reading(c, s)
        PROVE  TypeOK'
    BY <1>0, <1>8 DEF begin_reading, ShapeInv
  <1>9. ASSUME NEW c \in Session, read_char(c) PROVE TypeOK'
    <2>1. \A d \in Session : reading'[d].object \in String \cup {"none"}
      BY <1>0, <1>9 DEF read_char, ShapeInv, NotReading
    <2> QED  BY <1>0, <1>9, <2>1 DEF read_char
  <1>10. CASE UNCHANGED vars
    BY <1>0, <1>10 DEF vars
  <1> QED
    BY <1>1, <1>2, <1>3, <1>4, <1>5, <1>6, <1>7, <1>8, <1>9, <1>10
       DEF Next, Work

LEMMA ShapeStep == ConfigInv /\ [Next]_vars => ShapeInv'
  <1> SUFFICES ASSUME ConfigInv, [Next]_vars PROVE ShapeInv'
    OBVIOUS
  <1> USE DEF ShapeInv
  <1>0. TypeOK /\ ShapeInv /\ EndsInv
    BY DEF ConfigInv
  <1>1. CASE Handle
    <2> SUFFICES ASSUME NEW r, NEW p, NEW answer, Receive(r, p, answer),
                        answer \in {Whole, <<"err">>, <<"suc">>, <<"suc", "err">>}
                 PROVE  ShapeInv'
      BY <1>1, HandlerKinds DEF Replies, set_action, settrf_action
    <2>1. Len(parts') <= 3 /\ parts' \in Seq(Part) /\ Len(reached') = 0
      BY AnswerFacts, EmptyAnswer DEF Receive
    <2>2. UNCHANGED <<reading, unsent, write>>
      BY DEF Receive
    <2>3. Len(parts') \in Nat
      BY <2>1
    <2> QED  BY <1>0, <2>1, <2>2, <2>3
  <1>2. ASSUME NEW p \in Part,
               send_too_long(p) \/ send_no_room(p) \/ send_sent(p)
                 \/ send_fails(p)
        PROVE  ShapeInv'
    <2>1. /\ parts' \in Seq(Part) /\ reached' \in Seq(Part)
          /\ Len(reached') + Len(parts') <= Len(reached) + Len(parts)
          /\ parts \in Seq(Part) /\ reached \in Seq(Part)
      BY <1>0, <1>2, SendKinds, SendSays DEF TypeOK
    <2>2. Len(reached') + Len(parts') <= 3
      BY <1>0, <2>1
    <2>3. reading' = reading
      BY <1>2, SendKinds DEF SendOne
    <2>4. unsent' = write'
      BY <1>0, <1>2 DEF send_too_long, send_no_room, send_sent, send_fails
    <2> QED  BY <1>0, <2>2, <2>3, <2>4
  <1>3. CASE answered
    <2>1. Len(reached') + Len(parts') <= 3
      BY <1>3, EmptyAnswer DEF answered
    <2> QED  BY <1>0, <1>3, <2>1 DEF answered
  <1>4. ASSUME NEW c \in Session, NEW s \in String, begin_reading(c, s)
        PROVE  ShapeInv'
    BY <1>0, <1>4 DEF begin_reading
  <1>5. ASSUME NEW c \in Session, read_char(c) PROVE ShapeInv'
    <2>1. reading' \in [Session -> [object : String \cup {"none"}, cell : Nat]]
      BY <1>0, <1>5 DEF read_char, NotReading
    <2> QED  BY <1>0, <1>5, <2>1 DEF read_char
  <1> QED
    BY <1>0, <1>1, <1>2, <1>3, <1>4, <1>5
       DEF Next, Work, recv_fails, test_done, strcpy, sigterm_handler, vars

LEMMA EndsStep == ConfigInv /\ [Next]_vars => EndsInv'
  <1> SUFFICES ASSUME ConfigInv, [Next]_vars PROVE EndsInv'
    OBVIOUS
  <1> USE DEF EndsInv
  <1>0. TypeOK /\ ShapeInv /\ EndsInv /\ CopyInv
    BY DEF ConfigInv
  <1>1. CASE UNCHANGED <<text, reading>>
    BY <1>0, <1>1
  <1>2. ASSUME NEW i \in left, strcpy(i) PROVE EndsInv'
    <2>1. reading' = reading
      BY <1>2 DEF strcpy
    <2>2. ASSUME NEW s \in String PROVE text'[s][Size[s] - 1] = NUL
      <3>1. CASE s = request.object
        <4>1. /\ text'[s] = [text[s] EXCEPT ![i] = CellOf(request.argument, i)]
              /\ i \in 0..Len(request.argument)
              /\ Len(request.argument) < Size[s]
              /\ Len(request.argument) \in Nat /\ Size[s] \in Nat
          BY <1>0, <1>2, <3>1, StrcpyWrites
        <4>2. Size[s] - 1 \in DOMAIN text[s]
          <5>1. DOMAIN text[s] = 0..(Size[s] - 1)
            BY <1>0 DEF TypeOK
          <5>2. Size[s] \in Nat \ {0}
            BY ConfigAssumption
          <5> QED  BY <5>1, <5>2
        <4>3. CASE i = Size[s] - 1
          <5>1. i = Len(request.argument)
            BY <4>1, <4>3
          <5> QED  BY <4>1, <4>2, <4>3, <5>1 DEF CellOf
        <4>4. CASE i # Size[s] - 1
          BY <1>0, <4>1, <4>2, <4>4
        <4> QED  BY <4>3, <4>4
      <3>2. CASE s # request.object
        BY <1>0, <1>2, <3>2, StrcpyWrites
      <3> QED  BY <3>1, <3>2
    <2> QED  BY <1>0, <2>1, <2>2
  <1>3. ASSUME NEW c \in Session, NEW s \in String, begin_reading(c, s)
        PROVE  EndsInv'
    <2>1. 0 \in 0..(Size[s] - 1)
      BY ConfigAssumption
    <2> QED  BY <1>0, <1>3, <2>1 DEF begin_reading, ShapeInv
  <1>4. ASSUME NEW c \in Session, read_char(c) PROVE EndsInv'
    <2>1. /\ reading[c] # NotReading /\ text' = text
          /\ reading[c].object \in String
          /\ reading[c].cell \in 0..(Size[reading[c].object] - 1)
          /\ Size[reading[c].object] \in Nat
      BY <1>0, <1>4, ConfigAssumption DEF read_char
    <2>2. CASE text[reading[c].object][reading[c].cell] = NUL
      BY <1>0, <1>4, <2>1, <2>2 DEF read_char, ShapeInv
    <2>3. CASE text[reading[c].object][reading[c].cell] # NUL
      <3>1. reading[c].cell # Size[reading[c].object] - 1
        BY <1>0, <2>1, <2>3
      <3>2. reading[c].cell + 1 \in 0..(Size[reading[c].object] - 1)
        BY <2>1, <3>1
      <3>3. /\ reading' = [reading EXCEPT ![c] = [reading[c] EXCEPT !.cell = @ + 1]]
            /\ reading[c] \in [object : String \cup {"none"}, cell : Nat]
        BY <1>0, <1>4, <2>3 DEF read_char, ShapeInv
      <3>4. /\ reading'[c].object = reading[c].object
            /\ reading'[c].cell = reading[c].cell + 1
            /\ \A d \in Session \ {c} : reading'[d] = reading[d]
        BY <1>0, <3>3 DEF ShapeInv
      <3> QED  BY <1>0, <2>1, <3>2, <3>4
    <2> QED  BY <2>2, <2>3
  <1>5. Handle => UNCHANGED <<text, reading>>
    BY HandlerKinds DEF Replies, Receive, set_action, settrf_action
  <1>6. ASSUME NEW p \in Part,
               send_too_long(p) \/ send_no_room(p) \/ send_sent(p)
                 \/ send_fails(p)
        PROVE  UNCHANGED <<text, reading>>
    BY <1>6, SendKinds DEF SendOne
  <1> QED
    BY <1>1, <1>2, <1>3, <1>4, <1>5, <1>6
       DEF Next, Work, recv_fails, test_done, answered, sigterm_handler, vars

LEMMA CopyStep == ConfigInv /\ [Next]_vars => CopyInv'
  <1> SUFFICES ASSUME ConfigInv, [Next]_vars PROVE CopyInv'
    OBVIOUS
  <1> USE DEF CopyInv
  <1>0. TypeOK /\ CopyInv
    BY DEF ConfigInv
  <1>1. ASSUME at # "copying", at' # "copying", left' = left PROVE CopyInv'
    BY <1>0, <1>1
  <1>2. CASE Handle
    <2>1. ASSUME NEW r, NEW answer, Replies(r, answer) PROVE CopyInv'
      BY <1>1, <2>1 DEF Replies, Receive
    <2>2. ASSUME NEW s \in String, NEW arg \in Argument, set_action(s, arg)
          PROVE  CopyInv'
      <3>1. Len(arg) < Size[s]
        BY <2>2, ArgumentFacts, ConfigAssumption
           DEF set_action, validate_arg_size
      <3>2. /\ request' = [op |-> "SET", object |-> s, argument |-> arg]
            /\ at' = "copying" /\ left' = 0..Len(arg)
            /\ parts' = Whole /\ reached' = << >>
        BY <2>2 DEF set_action, Receive
      <3> QED  BY <3>1, <3>2
    <2>3. ASSUME NEW arg \in Truth, settrf_action(arg) PROVE CopyInv'
      BY <1>1, <2>3 DEF settrf_action, Receive
    <2> QED  BY <1>2, <2>1, <2>2, <2>3, HandlerKinds
  <1>3. ASSUME NEW i \in left, strcpy(i) PROVE CopyInv'
    BY <1>0, <1>3 DEF strcpy
  <1>4. ASSUME NEW p \in Part,
               send_too_long(p) \/ send_no_room(p) \/ send_sent(p)
                 \/ send_fails(p)
        PROVE  CopyInv'
    <2>1. SendOne(p)
      BY <1>4, SendKinds
    <2> QED  BY <1>1, <2>1 DEF SendOne, Sending
  <1>5. CASE recv_fails \/ test_done \/ answered
    BY <1>1, <1>5 DEF recv_fails, test_done, answered
  <1>6. CASE UNCHANGED <<at, left, request, parts, reached>>
    BY <1>0, <1>6
  <1> QED
    BY <1>2, <1>3, <1>4, <1>5, <1>6
       DEF Next, Work, sigterm_handler, begin_reading, read_char, vars

LEMMA SetStep == ConfigInv /\ [Next]_vars => SetInv'
  <1> SUFFICES ASSUME ConfigInv, [Next]_vars PROVE SetInv'
    OBVIOUS
  <1> USE DEF SetInv
  <1>0. TypeOK /\ SetInv /\ CopyInv
    BY DEF ConfigInv
  <1>1. CASE Handle
    <2>1. ASSUME NEW r, NEW answer, Replies(r, answer) PROVE SetInv'
      <3> SUFFICES ASSUME r.op = "SET" PROVE ~ Says("suc")'
        BY <2>1 DEF Replies, Receive
      <3>1. parts' = <<"err">> /\ reached' = << >>
        BY <2>1 DEF Replies, Receive
      <3> QED  BY <3>1 DEF Says, got
    <2>2. ASSUME NEW s \in String, NEW arg \in Argument, set_action(s, arg)
          PROVE  SetInv'
      <3>1. /\ request' = [op |-> "SET", object |-> s, argument |-> arg]
            /\ left' = 0..Len(arg)
        BY <2>2 DEF set_action, Receive
      <3>2. Len(arg) < Size[s]
        BY <2>2, ArgumentFacts, ConfigAssumption
           DEF set_action, validate_arg_size
      <3> QED  BY <3>1, <3>2
    <2>3. ASSUME NEW arg \in Truth, settrf_action(arg) PROVE SetInv'
      <3>1. request' = [op |-> "SET", object |-> "TRF", argument |-> arg]
        BY <2>3 DEF settrf_action, Receive
      <3>2. arg = <<"noise">> \/ transformation' = (arg = <<"true">>)
        <4>1. arg \in {<<"true">>, <<"false">>, <<"noise">>}
          BY DEF Truth
        <4>2. <<"true">> # <<"false">> /\ <<"true">> # <<"noise">>
              /\ <<"false">> # <<"noise">>
          OBVIOUS
        <4> QED  BY <2>3, <4>1, <4>2 DEF settrf_action
      <3> QED  BY <3>1, <3>2
    <2> QED  BY <1>1, <2>1, <2>2, <2>3, HandlerKinds
  <1>2. ASSUME NEW i \in left, strcpy(i) PROVE SetInv'
    <2> DEFINE o   == request.object
               arg == request.argument
    <2>1. /\ o \in String /\ arg \in Argument
          /\ i \in 0..Len(arg) /\ Len(arg) < Size[o]
          /\ Len(arg) \in Nat /\ Size[o] \in Nat
          /\ text'[o] = [text[o] EXCEPT ![i] = CellOf(arg, i)]
      BY <1>0, <1>2, StrcpyWrites
    <2>2. /\ request' = request /\ left' = left \ {i}
          /\ at = "copying" /\ request.op = "SET" /\ parts = Whole
      BY <1>0, <1>2 DEF strcpy, CopyInv
    <2>3. o # "TRF"
      BY <2>1, ConfigAssumption
    <2>4. Says("suc")
      <3>1. 1 \in DOMAIN parts /\ parts[1] = "suc"
        BY <2>2 DEF Whole
      <3> QED  BY <3>1 DEF Says
    <2>5. \A j \in (0..Len(arg)) \ left : text[o][j] = CellOf(arg, j)
      BY <1>0, <2>2, <2>3, <2>4 DEF UnderWay
    <2>6. 0..Len(arg) \subseteq DOMAIN text[o]
      BY <1>0, <2>1 DEF TypeOK
    <2>7. \A j \in (0..Len(arg)) \ left' : text'[o][j] = CellOf(arg, j)
      BY <2>1, <2>2, <2>5, <2>6
    <2> QED  BY <2>1, <2>2, <2>7 DEF CellOf
  <1>3. ASSUME NEW p \in Part,
               send_too_long(p) \/ send_no_room(p) \/ send_sent(p)
                 \/ send_fails(p)
        PROVE  SetInv'
    <2>1. SendOne(p) /\ (Says("suc")' => Says("suc"))
      BY <1>0, <1>3, SendKinds, SendSays
    <2>2. UNCHANGED <<at, text, transformation, left, request>>
      BY <2>1 DEF SendOne
    <2> QED  BY <1>0, <2>1, <2>2 DEF UnderWay, CellOf
  <1>4. CASE recv_fails \/ test_done \/ answered
    BY <1>4 DEF recv_fails, test_done, answered, UnderWay
  <1>5. CASE UNCHANGED <<at, text, transformation, left, request, parts, reached>>
    BY <1>0, <1>5 DEF UnderWay, CellOf, Says, got
  <1> QED
    BY <1>1, <1>2, <1>3, <1>4, <1>5
       DEF Next, Work, sigterm_handler, begin_reading, read_char, vars

LEMMA SameStep == ConfigInv /\ [Next]_vars => SameInv'
  <1> SUFFICES ASSUME ConfigInv, [Next]_vars PROVE SameInv'
    OBVIOUS
  <1> USE DEF SameInv
  <1>0. TypeOK /\ SameInv /\ CopyInv
    BY DEF ConfigInv
  <1>1. CASE Handle
    <2>1. ASSUME NEW r, NEW answer, Replies(r, answer) PROVE SameInv'
      BY <2>1 DEF Replies, Receive
    <2>2. ASSUME NEW s \in String, NEW arg \in Argument, set_action(s, arg)
          PROVE  SameInv'
      BY <2>2 DEF set_action, Receive
    <2>3. ASSUME NEW arg \in Truth, settrf_action(arg) PROVE SameInv'
      <3>1. CASE arg = <<"noise">>
        BY <2>3, <3>1 DEF settrf_action, Receive
      <3>2. CASE arg # <<"noise">>
        <4>1. request'.op = "SET" /\ parts' = <<"suc">> /\ reached' = << >>
          BY <2>3, <3>2 DEF settrf_action, Receive
        <4>2. ~ Says("err")'
          BY <4>1 DEF Says, got
        <4> QED  BY <4>1, <4>2
      <3> QED  BY <3>1, <3>2
    <2> QED  BY <1>1, <2>1, <2>2, <2>3, HandlerKinds
  <1>2. ASSUME NEW i \in left, strcpy(i) PROVE SameInv'
    <2>1. /\ request'.op = "SET" /\ parts' = Whole /\ reached' = << >>
      BY <1>0, <1>2 DEF strcpy, CopyInv
    <2>2. ~ Says("err")'
      BY <2>1 DEF Says, got, Whole
    <2> QED  BY <2>1, <2>2
  <1>3. ASSUME NEW p \in Part,
               send_too_long(p) \/ send_no_room(p) \/ send_sent(p)
                 \/ send_fails(p)
        PROVE  SameInv'
    <2>1. SendOne(p) /\ (Says("err")' => Says("err"))
      BY <1>0, <1>3, SendKinds, SendSays
    <2> QED  BY <1>0, <2>1 DEF SendOne, UnderWay
  <1>4. CASE recv_fails \/ test_done \/ answered
    BY <1>4 DEF recv_fails, test_done, answered, UnderWay
  <1>5. CASE UNCHANGED <<at, config, request, parts, reached, before>>
    BY <1>0, <1>5 DEF UnderWay, Says, got
  <1> QED
    BY <1>1, <1>2, <1>3, <1>4, <1>5
       DEF Next, Work, sigterm_handler, begin_reading, read_char, vars

LEMMA WholeStep == ConfigInv /\ [Next]_vars => WholeInv'
  <1> SUFFICES ASSUME ConfigInv, [Next]_vars PROVE WholeInv'
    OBVIOUS
  <1> USE DEF WholeInv
  <1>0. TypeOK /\ ShapeInv /\ EndsInv /\ CopyInv /\ WholeInv
    BY DEF ConfigInv
  <1>1. CASE Handle
    <2>1. ASSUME NEW r, NEW p, NEW answer, Receive(r, p, answer),
                 answer \in {Whole, <<"err">>, <<"suc">>, <<"suc", "err">>},
                 answer \in {<<"suc">>, <<"suc", "err">>} =>
                    r.object \in {"INF", "TRF"}
          PROVE  WholeInv'
      <3> SUFFICES ASSUME ~ trouble' PROVE unsent' = 0 /\ Complete(reached \o parts)'
        OBVIOUS
      <3>1. unsent' = 0
        <4>1. unsent \in Nat
          BY <1>0 DEF TypeOK
        <4>2. unsent' = unsent /\ trouble' = (unsent > 0)
          BY <2>1 DEF Receive
        <4>3. ~ (unsent > 0)
          BY <4>2
        <4> QED  BY <4>1, <4>2, <4>3
      <3>2. reached' \o parts' = answer
        BY <2>1, AnswerFacts DEF Receive
      <3> QED  BY <2>1, <3>1, <3>2 DEF Complete, Receive
    <2>2. ASSUME NEW r, NEW answer, Replies(r, answer) PROVE WholeInv'
      <3>1. <<"err">> \notin {<<"suc">>, <<"suc", "err">>}
            /\ Whole \notin {<<"suc">>, <<"suc", "err">>}
        BY DEF Whole
      <3> QED  BY <2>1, <2>2, <3>1 DEF Replies
    <2>3. ASSUME NEW s \in String, NEW arg \in Argument, set_action(s, arg)
          PROVE  WholeInv'
      <3>1. Whole \notin {<<"suc">>, <<"suc", "err">>}
        BY DEF Whole
      <3> QED  BY <2>1, <2>3, <3>1 DEF set_action
    <2>4. ASSUME NEW arg \in Truth, settrf_action(arg) PROVE WholeInv'
      BY <2>1, <2>4 DEF settrf_action
    <2> QED  BY <1>1, <2>2, <2>3, <2>4, HandlerKinds
  <1>2. ASSUME NEW i \in left, strcpy(i) PROVE WholeInv'
    BY <1>0, <1>2 DEF strcpy, CopyInv, UnderWay, Complete
  <1>3. ASSUME NEW p \in Part,
               send_too_long(p) \/ send_no_room(p) \/ send_sent(p)
                 \/ send_fails(p)
        PROVE  WholeInv'
    <2> SUFFICES ASSUME ~ trouble' PROVE unsent' = 0 /\ Complete(reached \o parts)'
      OBVIOUS
    <2>1. at = "sending" /\ request' = request
      BY <1>3, SendKinds DEF SendOne, Sending
    <2>2. /\ parts \in Seq(Part) /\ parts # << >> /\ Head(parts) = p
          /\ reached \in Seq(Part)
      BY <1>0, <1>3, SendKinds DEF SendOne, Sending, TypeOK
    <2>3. ~ send_no_room(p) \/ trouble
      <3> SUFFICES ASSUME send_no_room(p), ~ trouble PROVE FALSE
        OBVIOUS
      <3>1. write = 0
        BY <1>0, <2>1 DEF ShapeInv, UnderWay
      <3>2. PartLength(p) \in (BUFFER_SIZE - 0 + 1)..MAX_COMMAND_LENGTH
        BY <3>1 DEF send_no_room
      <3> QED  BY <3>2, ConfigAssumption
    <2>4. send_sent(p) /\ ~ trouble
      BY <1>3, <2>3 DEF send_too_long, send_no_room, send_sent, send_fails
    <2>5. reached' \o parts' = reached \o parts
      BY <2>2, <2>4, PartPasses DEF send_sent
    <2> QED
      BY <1>0, <2>1, <2>4, <2>5 DEF send_sent, Complete, UnderWay
  <1>4. CASE recv_fails \/ test_done \/ answered
    BY <1>4 DEF recv_fails, test_done, answered, UnderWay
  <1>5. CASE UNCHANGED <<at, request, parts, reached, unsent, trouble>>
    BY <1>0, <1>5 DEF UnderWay, Complete
  <1> QED
    BY <1>1, <1>2, <1>3, <1>4, <1>5
       DEF Next, Work, sigterm_handler, begin_reading, read_char, vars

LEMMA ConfigInvariant == Spec => []ConfigInv
  <1>1. ConfigInv /\ [Next]_vars => ConfigInv'
    BY ConfigTypeStep, ShapeStep, EndsStep, CopyStep, SetStep, SameStep,
       WholeStep
       DEF ConfigInv
  <1> QED  BY <1>1, ConfigInit, PTL DEF Spec

-----------------------------------------------------------------------------
(* The write pointer stays within the buffer, whichever datagrams could    *)
(* not be sent, and the strings keep their arrays.                         *)
THEOREM TypeCorrect == Spec => []TypeOK
  <1>1. ConfigInv => TypeOK
    BY DEF ConfigInv
  <1> QED  BY <1>1, ConfigInvariant, PTL

(* A session that reads a setting while it is written finds a NUL before   *)
(* the end of the array, in whichever order strcpy writes the cells.       *)
THEOREM ReadersStayInside == Spec => []ReadersStop
  <1>1. ConfigInv => ReadersStop
    <2> SUFFICES ASSUME ConfigInv PROVE ReadersStop
      OBVIOUS
    <2>1. \A s \in String : DOMAIN text[s] = 0..(Size[s] - 1)
                            /\ Size[s] - 1 \in DOMAIN text[s]
      BY ConfigAssumption DEF ConfigInv, TypeOK
    <2> QED  BY <2>1 DEF ConfigInv, EndsInv, ReadersStop
  <1> QED  BY <1>1, ConfigInvariant, PTL

(* An answer of success to a SET is true, and what is answered with an     *)
(* error has changed nothing, whichever parts of the answer arrived.       *)
THEOREM SuccessIsTrue == Spec => []AnswersTrue
  <1>1. ConfigInv => AnswersTrue
    <2> SUFFICES ASSUME ConfigInv, Answered PROVE AnswersTrue
      BY DEF AnswersTrue
    <2>0. TypeOK /\ SetInv /\ SameInv /\ CopyInv /\ UnderWay
          /\ (\A x : got(x) => Says(x)) /\ left = {}
      BY DEF ConfigInv, Answered, UnderWay, Says, CopyInv
    <2> DEFINE o   == request.object
               arg == request.argument
    <2>1. ASSUME o \in String, arg \in Argument, Len(arg) < Size[o],
                 \A i \in 0..Len(arg) : text[o][i] = CellOf(arg, i)
          PROVE  Text(o) = arg
      <3>1. /\ Len(arg) \in Nat /\ Size[o] \in Nat
            /\ arg = [i \in 1..Len(arg) |-> arg[i]]
            /\ \A i \in 1..Len(arg) : arg[i] # NUL
        <4>1. Size[o] \in Nat
          BY <2>1, ConfigAssumption
        <4>2. /\ Len(arg) \in 1..ARGUMENT_LENGTH
              /\ arg = [i \in 1..Len(arg) |-> arg[i]]
              /\ \A i \in 1..Len(arg) : arg[i] \in Char /\ arg[i] # NUL
          <5> HIDE DEF arg
          <5> QED  BY <2>1, ArgumentFacts
        <4> QED  BY <4>1, <4>2
      <3>2. Len(arg) \in 0..(Size[o] - 1) /\ text[o][Len(arg)] = NUL
        BY <2>1, <3>1 DEF CellOf
      <3>3. \A i \in 0..(Len(arg) - 1) : text[o][i] = arg[i + 1]
                                          /\ text[o][i] # NUL
        BY <2>1, <3>1 DEF CellOf
      <3>4. StringLength(o) = Len(arg)
        BY <2>1, <3>2, <3>3, StringLengthIs
      <3>5. \A i \in 1..Len(arg) : text[o][i - 1] = arg[i]
        BY <3>1, <3>3
      <3>6. Text(o) = [i \in 1..Len(arg) |-> arg[i]]
        BY <3>4, <3>5 DEF Text
      <3> QED  BY <3>1, <3>6
    <2>2. ASSUME request.op = "SET", got("suc")
          PROVE  IF o = "TRF"
                 THEN arg = <<"noise">> \/ transformation = (arg = <<"true">>)
                 ELSE Text(o) = arg
      BY <2>0, <2>1, <2>2, ConfigAssumption DEF SetInv
    <2>3. got("err") \/ request.op = "GET" => before = config
      BY <2>0 DEF SameInv
    <2> QED  BY <2>2, <2>3 DEF AnswersTrue
  <1> QED  BY <1>1, ConfigInvariant, PTL

(* When the whole of an answer does not arrive there was a failure since   *)
(* the last datagram that did.                                             *)
THEOREM AnswersComeWhole == Spec => []AnswersWhole
  <1>1. ConfigInv => AnswersWhole
    <2> SUFFICES ASSUME ConfigInv, Answered, ~ trouble PROVE AnswersWhole
      BY DEF AnswersWhole
    <2>1. Complete(reached \o parts)
      BY DEF ConfigInv, WholeInv, Answered, UnderWay
    <2>2. reached \o parts = reached
      BY ConcatEmptySeq DEF ConfigInv, TypeOK, Answered
    <2> QED  BY <2>1, <2>2 DEF Complete, AnswersWhole
  <1> QED  BY <1>1, ConfigInvariant, PTL
=============================================================================
