--------------------------- MODULE CommandParser ---------------------------
(***************************************************************************)
(* The parser engine (parserADT.c), the two automata it is given           *)
(* (pop3_parser_automaton.c and config_parser_automaton.c) and the two     *)
(* callers that feed it a text and act on the fields it leaves:            *)
(* parse_input for a POP3 command line, config_parse_input for a datagram  *)
(* of the configuration service.                                           *)
(*                                                                         *)
(* A character is its class, the most that the predicates of               *)
(* parser_automaton.h tell apart.  The states of an automaton are the      *)
(* numbers of its enum, with the lengths of the fields as parameters.      *)
(***************************************************************************)
EXTENDS Naturals, Sequences

CONSTANTS CMD_LENGTH, ARG_MAX_LENGTH,        \* the fields of a POP3 command
          TOKEN_LENGTH, OPERATION_LENGTH,    \* the fields of a request to
          OBJECT_CODE_LENGTH,                \* the configuration service
          ARGUMENT_LENGTH                    \* the size of its argument array

ASSUME LengthAssumption ==
    {CMD_LENGTH, ARG_MAX_LENGTH, TOKEN_LENGTH, OPERATION_LENGTH,
     OBJECT_CODE_LENGTH, ARGUMENT_LENGTH} \subseteq Nat \ {0}

VARIABLES def,           \* p->def: the automaton of the parser
          state,         \* p->state
          parser_state,  \* p->parser_state
          data,          \* p->data: the contents of each field
          input,         \* the characters fed so far
          phase,         \* where the caller is
          answer         \* what the caller did with the text

vars == <<def, state, parser_state, data, input, phase, answer>>

Char == {"letter", "digit", "blank", "tab", "punct", "cr", "lf", "other"}

\* Mutant of is_space: the tab is forgotten.
only_blank == {"blank"}

is_letter == {"letter"}
is_alphanumeric == {"letter", "digit"}
is_printable == {"letter", "digit", "blank", "punct"}
is_space == {"blank", "tab"}
is_cr == {"cr"}
is_lf == {"lf"}
is_any == Char

(***************************************************************************)
(* The fields, with the number of characters their actions accept.         *)
(***************************************************************************)
Fields == {"cmd", "arg", "token", "operation", "object_code", "argument"}

Limit == [cmd |-> CMD_LENGTH, arg |-> ARG_MAX_LENGTH,
          token |-> TOKEN_LENGTH, operation |-> OPERATION_LENGTH,
          object_code |-> OBJECT_CODE_LENGTH, argument |-> ARGUMENT_LENGTH - 1]

(***************************************************************************)
(* The tables of transitions: a row names the characters it matches, the   *)
(* next state and the action, which is to store the character in a field,  *)
(* or "def", "end" or "err".                                               *)
(***************************************************************************)
Row(when, dest, action) == [when |-> when, dest |-> dest, action |-> action]

ARGST == CMD_LENGTH + 1

pop3_states(s) ==
    LET MAYEND == ARGST + 1
        ENDST  == ARGST + 2
        ERRST  == ARGST + 3
        Refuse == Row(is_any, ERRST, "err")
    IN  CASE s < CMD_LENGTH ->
               <<Row(is_letter, s + 1, "cmd"), Row(is_cr, MAYEND, "err"), Refuse>>
          [] s = CMD_LENGTH ->
               <<Row(is_space, ARGST, "def"), Row(is_cr, MAYEND, "def"), Refuse>>
          [] s = ARGST ->
               <<Row(is_printable, ARGST, "arg"), Row(is_cr, MAYEND, "def"), Refuse>>
          [] s = MAYEND ->
               <<Row(is_lf, ENDST, "end"), Row(is_cr, MAYEND, "err"), Refuse>>
          [] s = ENDST -> <<Row(is_any, ENDST, "def")>>
          [] s = ERRST -> <<Row(is_cr, MAYEND, "err"), Refuse>>

OPERATION_0 == TOKEN_LENGTH + 1
OBJECT_CODE_0 == OPERATION_0 + OPERATION_LENGTH + 1
ARGUMENT      == OBJECT_CODE_0 + OBJECT_CODE_LENGTH + 1

config_states(s) ==
    LET MAYEND == ARGUMENT + 1
        ENDST  == ARGUMENT + 2
        ERRST  == ARGUMENT + 3
        \* a state that expects one kind of character, or the end of the line
        Expect(when, dest, action) ==
            <<Row(when, dest, action), Row(is_lf, MAYEND, "end"),
              Row(is_any, ERRST, "err")>>
    IN  CASE s < TOKEN_LENGTH -> Expect(is_alphanumeric, s + 1, "token")
          [] s \in OPERATION_0 .. OPERATION_0 + OPERATION_LENGTH - 1 ->
               Expect(is_letter, s + 1, "operation")
          [] s \in OBJECT_CODE_0 .. OBJECT_CODE_0 + OBJECT_CODE_LENGTH - 1 ->
               Expect(is_letter, s + 1, "object_code")
          [] s \in {TOKEN_LENGTH, OBJECT_CODE_0 - 1, ARGUMENT - 1} ->
               Expect(is_space, s + 1, "def")
          [] s = ARGUMENT -> Expect(is_printable, ARGUMENT, "argument")
          [] s = MAYEND ->
               <<Row(is_lf, ENDST, "err"), Row(is_any, ERRST, "end")>>
          [] s = ENDST -> <<Row(is_any, ENDST, "def")>>
          [] s = ERRST -> <<Row(is_lf, MAYEND, "end"), Row(is_any, ERRST, "err")>>

states(s) == IF def = "pop3" THEN pop3_states(s) ELSE config_states(s)

\* The first transition whose condition holds.
Matched(rows, c) ==
    rows[CHOOSE i \in DOMAIN rows : /\ c \in rows[i].when
                                    /\ \A j \in 1 .. i - 1 : c \notin rows[j].when]

(***************************************************************************)
(* The actions of the automata: whether the character is stored, and the   *)
(* answer to the engine.                                                   *)
(***************************************************************************)
\* Mutant of Stores: the room of the final NUL is used.
Stores_one_more(action) == action \in Fields /\ Len(data[action]) <= Limit[action]

Stores(action) == action \in Fields /\ Len(data[action]) < Limit[action]

Response(action) ==
    IF Stores(action) \/ action = "def" THEN "READING"
    ELSE IF action = "end" THEN "FINISHED" ELSE "ERROR"

\* What parser_feed returns: an automaton that once failed never finishes.
Returned(response) ==
    IF response = "FINISHED" THEN IF parser_state = "ERROR" THEN "ERROR"
                                  ELSE "FINISHED"
    ELSE response

-----------------------------------------------------------------------------
\* Mutant of NewData: the parser of the previous text is used without a reset.
OldData == data

\* calloc: a new parser has empty fields.
NewData == [f \in Fields |-> <<>>]

Init ==
    /\ def \in {"pop3", "config"}
    /\ state = 0
    /\ parser_state = "READING"
    /\ data = [f \in Fields |-> <<>>]
    /\ input = <<>>
    /\ phase = "idle"
    /\ answer = "none"

(***************************************************************************)
(* A line or a datagram has arrived; a parser is made for it.              *)
(***************************************************************************)
parser_init ==
    /\ phase = "idle"
    /\ def' \in {"pop3", "config"}
    /\ state' = 0
    /\ parser_state' = "READING"
    /\ data' = NewData
    /\ input' = <<>>
    /\ phase' = "feeding"
    /\ answer' = "none"

\* calloc fails, or leaves errno at ENOMEM: the NULL that is returned is used
\* by the caller as a parser, which ends the process.
parser_init_fails ==
    /\ phase = "idle"
    /\ phase' = "crashed"
    /\ UNCHANGED <<def, state, parser_state, data, input, answer>>

process_ended == phase = "crashed" /\ UNCHANGED vars

\* A POP3 line is cut at its first CR LF, which it does not contain.
CanFollow(c) ==
    ~ (def = "pop3" /\ c = "lf" /\ input # <<>> /\ input[Len(input)] = "cr")

(***************************************************************************)
(* One turn of the caller's loop: a character is fed, and the loop goes on *)
(* unless the parser has finished or failed.                               *)
(***************************************************************************)
parser_feed(c) ==
    /\ phase = "feeding"
    /\ CanFollow(c)
    /\ LET t        == Matched(states(state), c)
           returned == Returned(Response(t.action))
       IN  /\ state' = t.dest
           /\ data' = IF Stores(t.action)
                        THEN [data EXCEPT ![t.action] = Append(@, c)] ELSE data
           /\ parser_state' = IF Response(t.action) = "ERROR" THEN "ERROR"
                              ELSE parser_state
           /\ phase' = CASE returned = "READING"  -> "feeding"
                         [] returned = "FINISHED" -> "parsed"
                         [] returned = "ERROR"    -> "idle"
           /\ answer' = IF returned = "ERROR" THEN "unknown command" ELSE "none"
    /\ input' = Append(input, c)
    /\ UNCHANGED def

\* The whole text has been fed.
input_ends ==
    /\ phase = "feeding"
    /\ phase' = "parsed"
    /\ UNCHANGED <<def, state, parser_state, data, input, answer>>

\* Mutant of CanBeName: only the characters received are compared.
BeginsName(f) == data[f] # <<>>

(***************************************************************************)
(* A name of n characters can only be equal to a field that has n.  Which  *)
(* names the tables hold is abstracted: \E over the outcomes.              *)
(***************************************************************************)
CanBeName(f) == Len(data[f]) = Limit[f]

has_argument(f) == data[f] # <<>>

\* The accept_arguments of a row of the table of POP3 commands.
accept_arguments(kind) ==
    \/ kind = "has_argument" /\ has_argument("arg")
    \/ kind = "hasnt_argument" /\ ~ has_argument("arg")
    \/ kind = "can_have_argument"

(***************************************************************************)
(* parse_input after its loop: the command is looked up and its argument   *)
(* accepted or not; "run" is the call of the handler.                      *)
(***************************************************************************)
parse_input ==
    /\ phase = "parsed"
    /\ def = "pop3"
    /\ phase' = "idle"
    /\ \E command \in BOOLEAN,
          kind \in {"has_argument", "hasnt_argument", "can_have_argument"} :
         /\ command => CanBeName("cmd")
         /\ answer' = IF ~ command THEN "unknown command"
                      ELSE IF accept_arguments(kind) THEN "run" ELSE "bad argument"
    /\ UNCHANGED <<def, state, parser_state, data, input>>

\* Whether the operation goes with the argument, or else the error that is sent.
is_valid_get_set(operation) ==
    CASE operation = "GET" ->
           IF has_argument("argument") THEN "invalid object code" ELSE "valid"
      [] operation = "SET" ->
           IF has_argument("argument") THEN "valid" ELSE "argument expected"
      [] operation = "ERROR_OPERATION" -> "GET or SET expected"

\* Every object can be got; a SET of one that cannot be set has no command.
get_config_command(operation, settable) ==
    IF operation = "SET" /\ ~ settable THEN "unknown command" ELSE "run"

(***************************************************************************)
(* config_parse_input after its loop: the three checks in their order,     *)
(* then the command.                                                       *)
(***************************************************************************)
config_parse_input ==
    /\ phase = "parsed"
    /\ def = "config"
    /\ phase' = "idle"
    /\ \E token, object_code, settable \in BOOLEAN,
          operation \in {"GET", "SET", "ERROR_OPERATION"} :
         /\ token => CanBeName("token")
         /\ operation # "ERROR_OPERATION" => CanBeName("operation")
         /\ object_code => CanBeName("object_code")
         /\ answer' = IF ~ token THEN "invalid token"
                      ELSE IF is_valid_get_set(operation) # "valid"
                           THEN is_valid_get_set(operation)
                      ELSE IF ~ object_code THEN "invalid object code"
                      ELSE get_config_command(operation, settable)
    /\ UNCHANGED <<def, state, parser_state, data, input>>

Next ==
    \/ parser_init
    \/ parser_init_fails
    \/ process_ended
    \/ \E c \in Char : parser_feed(c)
    \/ input_ends
    \/ parse_input
    \/ config_parse_input

Spec == Init /\ [][Next]_vars

-----------------------------------------------------------------------------
(***************************************************************************)
(* The grammars, without automata.  A text is made of fields, each at its  *)
(* place and over its alphabet, with one blank between two of them; the    *)
(* last field is as long as it is.  A text may end early, and a POP3 line  *)
(* with a whole name may have a CR after it, a datagram an LF anywhere.    *)
(***************************************************************************)
FieldsOf == [pop3 |-> {"cmd", "arg"},
             config |-> {"token", "operation", "object_code", "argument"}]

\* The number of characters before a field.
Start == [cmd |-> 0, arg |-> CMD_LENGTH + 1, token |-> 0,
          operation   |-> TOKEN_LENGTH + 1,
          object_code |-> TOKEN_LENGTH + OPERATION_LENGTH + 2,
          argument    |-> TOKEN_LENGTH + OPERATION_LENGTH + OBJECT_CODE_LENGTH + 3]

Place(f) == Start[f] + 1 .. Start[f] + Limit[f]

Alphabet == [cmd |-> {"letter"}, arg |-> {"letter", "digit", "blank", "punct"},
             token |-> {"letter", "digit"}, operation |-> {"letter"},
             object_code |-> {"letter"},
             argument |-> {"letter", "digit", "blank", "punct"}]

Separators(d) == {Start[f] : f \in FieldsOf[d] \ {"cmd", "token"}}

LineEnd == [pop3 |-> "cr", config |-> "lf"]

Ended(d, s) == s # <<>> /\ s[Len(s)] = LineEnd[d]

TextLength(d, s) == IF Ended(d, s) THEN Len(s) - 1 ELSE Len(s)

Grammatical(d, s) ==
    /\ \A i \in 1 .. TextLength(d, s) :
         \/ \E f \in FieldsOf[d] : i \in Place(f) /\ s[i] \in Alphabet[f]
         \/ i \in Separators(d) /\ s[i] \in {"blank", "tab"}
    /\ d = "pop3" /\ Ended(d, s) => TextLength(d, s) >= CMD_LENGTH

\* The characters before the last field that may be empty.
Mandatory == [pop3 |-> CMD_LENGTH,
              config |-> TOKEN_LENGTH + OPERATION_LENGTH + OBJECT_CODE_LENGTH + 2]

-----------------------------------------------------------------------------
(***************************************************************************)
(* The types of the variables; no field has more characters than its array *)
(* keeps room for (CMD_LENGTH and its like), so that each keeps its final  *)
(* NUL, which get_pop3_cmd and its like, strlen and strcmp rely on.        *)
(***************************************************************************)
TypeOK ==
    /\ def \in {"pop3", "config"}
    /\ state \in Nat
    /\ parser_state \in {"READING", "ERROR"}
    /\ data \in [Fields -> Seq(Char)]
    /\ input \in Seq(Char)
    /\ phase \in {"idle", "feeding", "parsed", "crashed"}
    /\ answer \in {"none", "unknown command", "bad argument", "run",
                   "invalid token", "GET or SET expected",
                   "invalid object code", "argument expected"}
    /\ \A f \in Fields : Len(data[f]) <= Limit[f]

(***************************************************************************)
(* The two tables of transitions, run by parser_feed, refuse a text when   *)
(* and only when it is not one of the grammar: no row is missing, shadowed *)
(* by an earlier one or leads to the wrong state, and the limits of the    *)
(* fields agree with the number of states that fill them.                  *)
(***************************************************************************)
RecognisesGrammar == parser_state = "ERROR" <=> ~ Grammatical(def, input)

(***************************************************************************)
(* The fields a handler is given are the text that was received: each      *)
(* holds exactly the characters at its place, none is lost, repeated or    *)
(* left from an earlier text (user_action and config_parse_input compare   *)
(* and store them as they are).                                            *)
(***************************************************************************)
Filled(f) == LET n == TextLength(def, input)
             IN  IF n <= Start[f] THEN 0
                 ELSE IF n >= Start[f] + Limit[f] THEN Limit[f] ELSE n - Start[f]

FieldsHoldInput ==
    parser_state = "READING" =>
      \A f \in FieldsOf[def] :
        /\ Len(data[f]) = Filled(f)
        /\ \A i \in 1 .. Len(data[f]) : data[f][i] = input[Start[f] + i]

(***************************************************************************)
(* No handler runs for a part of a command: a text that ends early (the    *)
(* automata do not refuse one, and the configuration automaton answers     *)
(* PARSER_FINISHED on an LF in any field) is answered with an error by     *)
(* the look-ups and checks that follow.                                    *)
(***************************************************************************)
OnlyWholeCommandsRun ==
    answer = "run" => /\ Grammatical(def, input)
                      /\ TextLength(def, input) >= Mandatory[def]
=============================================================================
