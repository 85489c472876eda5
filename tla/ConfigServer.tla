---------------------------- MODULE ConfigServer ----------------------------
(***************************************************************************)
(* The configuration server: one thread that receives a request by UDP,    *)
(* carries it out and answers, one after the other (server_utils.c and     *)
(* parser/config_parserADT.c).                                             *)
(*                                                                         *)
(* An answer is one to three datagrams.  Each is put behind the write      *)
(* pointer of one shared buffer; a datagram that was sent resets the       *)
(* buffer, one that was not leaves the pointer where it is.                *)
(*                                                                         *)
(* The sessions read the settings without a lock.  So a string is an array *)
(* here, strcpy writes its cells one by one in any order, and a session    *)
(* reads them one by one.                                                  *)
(*                                                                         *)
(* Which texts are requests is CommandParser's matter; here a request is   *)
(* what its handler gets, or one of those that get no handler.             *)
(***************************************************************************)
EXTENDS Integers, Sequences, FiniteSets

CONSTANTS
    Char,                \* the characters of a setting
    NUL,                 \* the character that ends a string
    String,              \* settings that are strings: LGF, MDF, ATT, TFN
    Size,                \* [String -> Nat], the size of the array of each
    Counter,             \* what only GET knows: BUF, HTU, CCU, BTF
    Initial,             \* [String -> Seq(Char)], from main and parse_args
    Session,             \* threads that read the settings
    MAX_BYTES_NAMES,     \* the longest argument of a SET
    AUTHTOKEN_LENGTH,    \* the length of the authorization token
    ARGUMENT_LENGTH,     \* the longest argument the grammar admits
    MAX_COMMAND_LENGTH,  \* the longest datagram that is sent
    BUFFER_SIZE,         \* the space of the shared buffer
    MessageLength        \* the length of a fixed part of an answer

Token  == "ATT"         \* the one string of a fixed length
Object == String \cup Counter \cup {"INF", "TRF", "none"}

ASSUME ConfigAssumption ==
    /\ NUL \notin Char
    /\ String \subseteq {"LGF", "MDF", "ATT", "TFN"}
    /\ Counter \subseteq {"BUF", "HTU", "CCU", "BTF"}
    /\ Size \in [String -> Nat \ {0}]
    /\ Initial \in [String -> Seq(Char)]
    /\ \A s \in String : Len(Initial[s]) < Size[s]
    /\ \A s \in String : s # Token => MAX_BYTES_NAMES < Size[s]
    /\ Token \in String => AUTHTOKEN_LENGTH < Size[Token]
    /\ MAX_BYTES_NAMES \in Nat
    /\ AUTHTOKEN_LENGTH \in Nat
    /\ ARGUMENT_LENGTH \in Nat
    /\ MAX_COMMAND_LENGTH \in Nat
    /\ BUFFER_SIZE \in Nat
    /\ MAX_COMMAND_LENGTH <= BUFFER_SIZE
    /\ MessageLength \in 1..MAX_COMMAND_LENGTH

Argument == UNION {[1..n -> Char] : n \in 1..ARGUMENT_LENGTH}
NoText   == << >>

(* A request: what is asked, of what, with which argument.  "other" is a   *)
(* request no handler gets, "fatal" what ends the loop; SETTRF has "true", *)
(* "false" or something else.                                              *)
Request ==
    [op : {"GET", "SET", "other", "fatal"}, object : Object,
     argument : Argument \cup {NoText, <<"true">>, <<"false">>, <<"noise">>}]
Idle == [op |-> "other", object |-> "none", argument |-> NoText]

(* The datagrams of an answer: "+SUC ...", "-ERR ...", a value, a line end *)
Part == {"suc", "err", "value", "end"}

VARIABLES
    at,              \* where the thread is
    done,            \* the flag that SIGTERM sets
    write,           \* the write pointer of info_write_buff
    text,            \* the arrays of the string settings
    transformation,  \* g_conf->transformation
    left,            \* the cells strcpy has still to write
    request,         \* the request under way
    parts,           \* the datagrams still to be sent
    reading,         \* [Session -> what it reads and the next cell]
    reached,         \* history: the parts of this answer that were sent
    unsent,          \* history: bytes of failed datagrams since one was sent
    trouble,         \* history: an excuse for a part that did not arrive
    before           \* history: the settings when the request came

config  == <<text, transformation>>
history == <<reached, unsent, trouble, before>>
vars == <<at, done, write, text, transformation, left, request, parts,
          reading, reached, unsent, trouble, before>>

Place == {"testing", "receiving", "copying", "sending", "over"}

(* Whole arrays: the string, its NUL, and NULs behind it *)
Stored(t, n) == [i \in 0..(n - 1) |-> IF i < Len(t) THEN t[i + 1] ELSE NUL]

NotReading == [object |-> "none", cell |-> 0]

Init ==
    /\ at = "testing"
    /\ done = FALSE
    /\ write = 0
    /\ text = [s \in String |-> Stored(Initial[s], Size[s])]
    /\ transformation = FALSE
    /\ left = {}
    /\ request = Idle
    /\ parts = << >>
    /\ reading = [c \in Session |-> NotReading]
    /\ reached = << >>
    /\ unsent = 0
    /\ trouble = FALSE
    /\ before = config

-----------------------------------------------------------------------------
(* Helpers *)

(* strlen: the place of the first NUL *)
StringLength(s) ==
    CHOOSE n \in 0..(Size[s] - 1) :
        text[s][n] = NUL /\ \A i \in 0..(n - 1) : text[s][i] # NUL

(* The string in the array of a setting *)
Text(s) == [i \in 1..StringLength(s) |-> text[s][i - 1]]

PartLength(p) ==
    CASE p = "end" -> 1
      [] p = "value" -> IF request.object \in String
                        THEN StringLength(request.object) ELSE 1
      [] OTHER -> MessageLength

(* Mutant: the token is tested like the names. *)
validate_arg_size_alike(s, arg) == Len(arg) \in 1..MAX_BYTES_NAMES

(* validate_arg_size, and setatt_action's own test *)
validate_arg_size(s, arg) ==
    IF s = Token THEN Len(arg) = AUTHTOKEN_LENGTH
                 ELSE Len(arg) \in 1..MAX_BYTES_NAMES

(* recvfrom has returned request r; its handler goes on at place p with    *)
(* the given answer to send.                                               *)
Receive(r, p, answer) ==
    /\ at = "receiving"
    /\ at' = p
    /\ request' = r
    /\ parts' = answer
    /\ reached' = << >>
    /\ trouble' = (unsent > 0)
    /\ before' = config
    /\ UNCHANGED <<done, write, reading, unsent>>

Whole == <<"suc", "value", "end">>

-----------------------------------------------------------------------------
(* The loop *)

test_done ==
    /\ at = "testing"
    /\ at' = IF done THEN "over" ELSE "receiving"
    /\ UNCHANGED <<done, write, config, left, request, parts, reading, history>>

recv_fails ==
    /\ at = "receiving"
    /\ at' = "over"
    /\ request' = [Idle EXCEPT !.op = "fatal"]
    /\ UNCHANGED <<done, write, config, left, parts, reading, history>>

(* A datagram that is longer than MAX_COMMAND_LENGTH: answered, and the end *)
recv_too_big ==
    /\ Receive([Idle EXCEPT !.op = "fatal"], "sending", <<"err">>)
    /\ UNCHANGED <<config, left>>

-----------------------------------------------------------------------------
(* Handlers *)

(* Mutant: a request that is refused ends the loop. *)
refuse_and_break ==
    /\ at = "receiving"
    /\ at' = "over"
    /\ UNCHANGED <<done, write, config, left, request, parts, reading, history>>

(* Not in the grammar, a wrong token, neither GET nor SET, an argument too *)
(* many or too few, an object that does not exist                          *)
refuse ==
    /\ Receive(Idle, "sending", <<"err">>)
    /\ UNCHANGED <<config, left>>

(* SET of what has only a GET *)
config_default_action(o) ==
    /\ Receive([op |-> "SET", object |-> o, argument |-> NoText], "sending",
               <<"err">>)
    /\ UNCHANGED <<config, left>>

(* GETBUF, GETLGF, GETMDF, GETATT, GETTFN, GETHTU, GETCCU, GETBTF *)
get_action(o) ==
    /\ Receive([op |-> "GET", object |-> o, argument |-> NoText], "sending",
               Whole)
    /\ UNCHANGED <<config, left>>

(* GETINF and GETTRF: one part says it all *)
get_fixed_action(o) ==
    /\ Receive([op |-> "GET", object |-> o, argument |-> NoText], "sending",
               <<"suc">>)
    /\ UNCHANGED <<config, left>>

(* SETLGF, SETMDF, SETATT, SETTFN with an argument that will do *)
set_action(s, arg) ==
    /\ validate_arg_size(s, arg)
    /\ Receive([op |-> "SET", object |-> s, argument |-> arg], "copying", Whole)
    /\ left' = 0..Len(arg)
    /\ UNCHANGED config

(* ... and with one that will not *)
set_refused(s, arg) ==
    /\ ~validate_arg_size(s, arg)
    /\ Receive([op |-> "SET", object |-> s, argument |-> arg], "sending",
               <<"err">>)
    /\ UNCHANGED <<config, left>>

(* Mutant: "false" is taken for "true". *)
settrf_action_on(arg) ==
    /\ Receive([op |-> "SET", object |-> "TRF", argument |-> arg], "sending",
               IF arg = <<"noise">> THEN <<"suc", "err">> ELSE <<"suc">>)
    /\ transformation' = (arg # <<"noise">> \/ transformation)
    /\ UNCHANGED <<text, left>>

(* SETTRF.  Something else than "true" and "false" changes nothing and is  *)
(* answered with "+SUC Transformation set: false" and then with an error.  *)
settrf_action(arg) ==
    /\ Receive([op |-> "SET", object |-> "TRF", argument |-> arg], "sending",
               IF arg = <<"noise">> THEN <<"suc", "err">> ELSE <<"suc">>)
    /\ transformation' =
           CASE arg = <<"true">>  -> TRUE
             [] arg = <<"false">> -> FALSE
             [] OTHER             -> transformation
    /\ UNCHANGED <<text, left>>

(* strcpy writes one cell; the last of them the handler goes on to answer. *)
(* What would be behind the array is not kept.                             *)
strcpy(i) ==
    LET s == request.object
        n == Len(request.argument)
    IN  /\ at = "copying"
        /\ i \in left
        /\ left' = left \ {i}
        /\ text' = IF i < Size[s]
                   THEN [text EXCEPT ![s][i] =
                            IF i = n THEN NUL ELSE request.argument[i + 1]]
                   ELSE text
        /\ at' = IF left' = {} THEN "sending" ELSE "copying"
        /\ UNCHANGED <<done, write, transformation, request, parts, reading,
                       history>>

-----------------------------------------------------------------------------
(* send_data_udp: one datagram.  Its answer is not looked at. *)

Sending(p) == at = "sending" /\ parts # << >> /\ Head(parts) = p

send_too_long(p) ==
    /\ Sending(p)
    /\ PartLength(p) > MAX_COMMAND_LENGTH
    /\ parts' = Tail(parts)
    /\ trouble' = TRUE
    /\ UNCHANGED <<at, done, write, config, left, request, reading, reached,
                   unsent, before>>

send_no_room(p) ==
    /\ Sending(p)
    /\ PartLength(p) \in (BUFFER_SIZE - write + 1)..MAX_COMMAND_LENGTH
    /\ parts' = Tail(parts)
    /\ UNCHANGED <<at, done, write, config, left, request, reading, history>>

Fits(p) ==
    /\ Sending(p)
    /\ PartLength(p) <= MAX_COMMAND_LENGTH
    /\ PartLength(p) <= BUFFER_SIZE - write

(* Mutant: the buffer is not reset when the datagram was sent. *)
send_sent_no_reset(p) ==
    /\ Fits(p)
    /\ write' = write + PartLength(p)
    /\ parts' = Tail(parts)
    /\ reached' = Append(reached, p)
    /\ unsent' = 0
    /\ UNCHANGED <<at, done, config, left, request, reading, trouble, before>>

(* The write pointer moves over the datagram, which is sent, and is reset *)
send_sent(p) ==
    /\ Fits(p)
    /\ write' = 0
    /\ parts' = Tail(parts)
    /\ reached' = Append(reached, p)
    /\ unsent' = 0
    /\ UNCHANGED <<at, done, config, left, request, reading, trouble, before>>

(* Mutant: room is not tested, so that the pointer runs past the buffer. *)
send_fails_anywhere(p) ==
    /\ Sending(p)
    /\ write' = write + PartLength(p)
    /\ parts' = Tail(parts)
    /\ unsent' = unsent + PartLength(p)
    /\ trouble' = TRUE
    /\ UNCHANGED <<at, done, config, left, request, reading, reached, before>>

(* ... or sendto fails, and the pointer stays where it moved to *)
send_fails(p) ==
    /\ Fits(p)
    /\ write' = write + PartLength(p)
    /\ parts' = Tail(parts)
    /\ unsent' = unsent + PartLength(p)
    /\ trouble' = TRUE
    /\ UNCHANGED <<at, done, config, left, request, reading, reached, before>>

(* The answer is complete: back to the loop, or out of it.  The history of *)
(* the request is forgotten.                                               *)
answered ==
    /\ at = "sending"
    /\ parts = << >>
    /\ IF request.op = "fatal"
       THEN at' = "over" /\ UNCHANGED request
       ELSE at' = "testing" /\ request' = Idle
    /\ reached' = << >>
    /\ trouble' = FALSE
    /\ before' = config
    /\ UNCHANGED <<done, write, config, left, parts, reading, unsent>>

-----------------------------------------------------------------------------
(* Other threads *)

sigterm_handler ==
    /\ done' = TRUE
    /\ UNCHANGED <<at, write, config, left, request, parts, reading, history>>

(* A session begins to read a setting: the folders when it makes a path or *)
(* a logger, the script when it runs it                                    *)
begin_reading(c, s) ==
    /\ reading[c] = NotReading
    /\ s # Token
    /\ reading' = [reading EXCEPT ![c] = [object |-> s, cell |-> 0]]
    /\ UNCHANGED <<at, done, write, config, left, request, parts, history>>

(* It reads the next cell, and is done when it finds the NUL *)
read_char(c) ==
    LET r == reading[c]
    IN  /\ r # NotReading
        /\ reading' = [reading EXCEPT ![c] =
               IF text[r.object][r.cell] = NUL
               THEN NotReading ELSE [r EXCEPT !.cell = @ + 1]]
        /\ UNCHANGED <<at, done, write, config, left, request, parts, history>>

-----------------------------------------------------------------------------
Handle ==
    \/ recv_too_big \/ refuse
    \/ \E o \in Counter \cup {"INF"} : config_default_action(o)
    \/ \E o \in String \cup Counter : get_action(o)
    \/ \E o \in {"INF", "TRF"} : get_fixed_action(o)
    \/ \E s \in String, arg \in Argument : set_action(s, arg) \/ set_refused(s, arg)
    \/ \E arg \in {<<"true">>, <<"false">>, <<"noise">>} : settrf_action(arg)

(* What the thread does by itself once it has a request *)
Work ==
    \/ test_done \/ answered
    \/ \E i \in left : strcpy(i)
    \/ \E p \in Part :
          send_too_long(p) \/ send_no_room(p) \/ send_sent(p) \/ send_fails(p)

Next ==
    \/ Handle \/ recv_fails \/ Work
    \/ sigterm_handler
    \/ \E c \in Session : read_char(c) \/ \E s \in String : begin_reading(c, s)

(* The thread runs whenever it can.  Nothing makes a client ask. *)
Spec == Init /\ [][Next]_vars /\ WF_vars(Work)

-----------------------------------------------------------------------------
(* Properties *)

(* The types; in particular the write pointer, which failed datagrams move *)
(* on, stays within the buffer.                                            *)
TypeOK ==
    /\ at \in Place
    /\ done \in BOOLEAN
    /\ write \in 0..BUFFER_SIZE
    /\ DOMAIN text = String
    /\ \A s \in String : text[s] \in [0..(Size[s] - 1) -> Char \cup {NUL}]
    /\ transformation \in BOOLEAN
    /\ left \subseteq 0..ARGUMENT_LENGTH
    /\ request \in Request
    /\ parts \in Seq(Part) /\ Len(parts) <= 3
    /\ \A c \in Session : reading[c].object \in String \cup {"none"}
    /\ reached \in Seq(Part) /\ Len(reached) <= 3
    /\ unsent \in Nat
    /\ trouble \in BOOLEAN

(* Whenever a session looks, in the middle of a strcpy too, each string has *)
(* a NUL in its array, and a session that is reading one while it changes  *)
(* does not run past the end of the array.                                 *)
ReadersStop ==
    /\ \A s \in String : \E i \in DOMAIN text[s] : text[s][i] = NUL
    /\ \A c \in Session : reading[c] # NotReading =>
          reading[c].cell \in DOMAIN text[reading[c].object]

(* The handler is through with a request, and its answer was sent or not *)
Answered == at = "sending" /\ parts = << >>
got(p)   == \E i \in DOMAIN reached : reached[i] = p

(* An answer of success to a SET is true, whatever became of the rest of   *)
(* the answer, unless it is that to a SETTRF with an argument that is no   *)
(* truth value; and a request that is answered with an error, or is a GET, *)
(* has changed no setting.                                                 *)
AnswersTrue ==
    LET SetTo(o, arg) ==
            IF o = "TRF" THEN arg = <<"noise">> \/ transformation = (arg = <<"true">>)
                         ELSE Text(o) = arg
    IN  Answered =>
          /\ request.op = "SET" /\ got("suc") =>
                SetTo(request.object, request.argument)
          /\ got("err") \/ request.op = "GET" => before = config

(* A client gets the whole of an answer and not some of its datagrams, the *)
(* value without what it is the value of, unless one of them could not be  *)
(* sent, or one before it, since when none was sent; or the value is too   *)
(* long for a datagram.                                                    *)
AnswersWhole ==
    Answered /\ ~trouble =>
        \/ reached = Whole
        \/ reached = <<"err">>
        \/ /\ request.object \in {"INF", "TRF"}
           /\ reached \in {<<"suc">>, <<"suc", "err">>}

(* The server stays: whatever was asked, the thread comes back for the     *)
(* next request, unless recvfrom failed, a datagram was too big, or the    *)
(* server was told to end.                                                 *)
StaysInService ==
    at # "receiving" ~> at = "receiving" \/ done \/ request.op = "fatal"
=============================================================================
