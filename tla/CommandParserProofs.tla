------------------------- MODULE CommandParserProofs -------------------------
(***************************************************************************)
(* What CommandParser's run shows for short fields, proved for fields of   *)
(* every length.                                                           *)
(***************************************************************************)
EXTENDS CommandParser, SequenceTheorems, TLAPS

\* The state that takes the last field, in which an automaton may stay.
LastState == IF def = "pop3" THEN ARGST ELSE ARGUMENT

(***************************************************************************)
(* In the loop, the state of the automaton is the number of characters     *)
(* fed, up to the state of the last field; a POP3 line may also have had   *)
(* its CR.                                                                 *)
(***************************************************************************)
StateCounts ==
    phase = "feeding" =>
      \/ /\ ~ Ended(def, input)
         /\ state = IF Len(input) < LastState THEN Len(input) ELSE LastState
      \/ /\ def = "pop3" /\ Ended(def, input)
         /\ state = ARGST + 1

CallerLoop ==
    phase \in {"feeding", "parsed"} =>
      answer = "none" /\ parser_state = "READING"

ParserInv ==
    /\ TypeOK
    /\ RecognisesGrammar
    /\ FieldsHoldInput
    /\ OnlyWholeCommandsRun
    /\ StateCounts
    /\ CallerLoop

-----------------------------------------------------------------------------
LEMMA Lengths ==
    /\ CMD_LENGTH \in Nat /\ CMD_LENGTH > 0
    /\ ARG_MAX_LENGTH \in Nat /\ ARG_MAX_LENGTH > 0
    /\ TOKEN_LENGTH \in Nat /\ TOKEN_LENGTH > 0
    /\ OPERATION_LENGTH \in Nat /\ OPERATION_LENGTH > 0
    /\ OBJECT_CODE_LENGTH \in Nat /\ OBJECT_CODE_LENGTH > 0
    /\ ARGUMENT_LENGTH \in Nat /\ ARGUMENT_LENGTH > 0
BY LengthAssumption

\* The first of three rows that matches; the third matches every character.
LEMMA FirstOfThree ==
    ASSUME NEW r1, NEW r2, NEW r3, NEW c, c \in r3.when
    PROVE  Matched(<<r1, r2, r3>>, c) =
             IF c \in r1.when THEN r1 ELSE IF c \in r2.when THEN r2 ELSE r3
<1> DEFINE rows == <<r1, r2, r3>>
           First(i) == /\ c \in rows[i].when
                       /\ \A j \in 1 .. i - 1 : c \notin rows[j].when
<1>1. DOMAIN rows = 1 .. 3 /\ rows[1] = r1 /\ rows[2] = r2 /\ rows[3] = r3
  OBVIOUS
<1>2. \A i, j \in DOMAIN rows : First(i) /\ First(j) => i = j
  <2> SUFFICES ASSUME NEW i \in 1 .. 3, NEW j \in 1 .. 3, First(i), First(j)
               PROVE  ~ (i < j)
    BY <1>1
  <2> QED
    BY SMT
<1>3. Matched(rows, c) = rows[CHOOSE i \in DOMAIN rows : First(i)]
  BY DEF Matched
<1>4. CASE c \in r1.when
  <2>1. First(1)
    BY <1>1, <1>4
  <2>2. (CHOOSE i \in DOMAIN rows : First(i)) = 1
    BY <1>1, <1>2, <2>1
  <2> QED
    BY <1>1, <1>3, <1>4, <2>2
<1>5. CASE c \notin r1.when /\ c \in r2.when
  <2>1. First(2)
    BY <1>1, <1>5
  <2>2. (CHOOSE i \in DOMAIN rows : First(i)) = 2
    BY <1>1, <1>2, <2>1
  <2> QED
    BY <1>1, <1>3, <1>5, <2>2
<1>6. CASE c \notin r1.when /\ c \notin r2.when
  <2>1. First(3)
    BY <1>1, <1>6
  <2>2. (CHOOSE i \in DOMAIN rows : First(i)) = 3
    BY <1>1, <1>2, <2>1
  <2> QED
    BY <1>1, <1>3, <1>6, <2>2
<1> QED
  BY <1>4, <1>5, <1>6

LEMMA ThreeRows ==
    ASSUME NEW c \in Char, NEW w1, NEW d1, NEW a1, NEW w2, NEW d2, NEW a2,
           NEW d3, NEW a3
    PROVE  Matched(<<Row(w1, d1, a1), Row(w2, d2, a2), Row(is_any, d3, a3)>>, c) =
             IF c \in w1 THEN Row(w1, d1, a1)
             ELSE IF c \in w2 THEN Row(w2, d2, a2) ELSE Row(is_any, d3, a3)
<1>1. c \in Row(is_any, d3, a3).when
  BY DEF Row, is_any
<1>2. Row(w1, d1, a1).when = w1 /\ Row(w2, d2, a2).when = w2
  BY DEF Row
<1> QED
  BY <1>1, <1>2, FirstOfThree

-----------------------------------------------------------------------------
(***************************************************************************)
(* The transition of each group of states.                                 *)
(***************************************************************************)
Step(s, c) == Matched(states(s), c)

LEMMA Pop3Step ==
    ASSUME def = "pop3", NEW c \in Char
    PROVE  /\ \A s \in Nat : s < CMD_LENGTH =>
                Step(s, c) = IF c = "letter" THEN Row(is_letter, s + 1, "cmd")
                             ELSE IF c = "cr" THEN Row(is_cr, ARGST + 1, "err")
                             ELSE Row(is_any, ARGST + 3, "err")
           /\ Step(CMD_LENGTH, c) =
                IF c \in is_space THEN Row(is_space, ARGST, "def")
                ELSE IF c = "cr" THEN Row(is_cr, ARGST + 1, "def")
                ELSE Row(is_any, ARGST + 3, "err")
           /\ Step(ARGST, c) =
                IF c \in is_printable THEN Row(is_printable, ARGST, "arg")
                ELSE IF c = "cr" THEN Row(is_cr, ARGST + 1, "def")
                ELSE Row(is_any, ARGST + 3, "err")
           /\ c # "lf" => Step(ARGST + 1, c) \in
                {Row(is_cr, ARGST + 1, "err"), Row(is_any, ARGST + 3, "err")}
<1> USE Lengths
<1>1. ASSUME NEW s \in Nat, s < CMD_LENGTH
      PROVE  Step(s, c) = IF c = "letter" THEN Row(is_letter, s + 1, "cmd")
                          ELSE IF c = "cr" THEN Row(is_cr, ARGST + 1, "err")
                          ELSE Row(is_any, ARGST + 3, "err")
  <2>1. states(s) = <<Row(is_letter, s + 1, "cmd"), Row(is_cr, ARGST + 1, "err"),
                      Row(is_any, ARGST + 3, "err")>>
    <3>1. /\ s # CMD_LENGTH /\ s # ARGST /\ s # ARGST + 1
          /\ s # ARGST + 2 /\ s # ARGST + 3
      BY <1>1 DEF ARGST
    <3> QED
      BY <1>1, <3>1, Zenon DEF states, pop3_states
  <2> QED
    BY ThreeRows, <2>1 DEF Step, is_letter, is_cr
<1>2. Step(CMD_LENGTH, c) =
        IF c \in is_space THEN Row(is_space, ARGST, "def")
        ELSE IF c = "cr" THEN Row(is_cr, ARGST + 1, "def")
        ELSE Row(is_any, ARGST + 3, "err")
  <2>1. states(CMD_LENGTH) =
          <<Row(is_space, ARGST, "def"), Row(is_cr, ARGST + 1, "def"),
            Row(is_any, ARGST + 3, "err")>>
    <3>1. /\ ~ (CMD_LENGTH < CMD_LENGTH)
          /\ CMD_LENGTH # ARGST /\ CMD_LENGTH # ARGST + 1 /\ CMD_LENGTH # ARGST + 2 /\ CMD_LENGTH # ARGST + 3
      BY DEF ARGST
    <3> QED
      BY <3>1, Zenon DEF states, pop3_states
  <2> QED
    BY ThreeRows, <2>1 DEF Step, is_cr
<1>3. Step(ARGST, c) =
        IF c \in is_printable THEN Row(is_printable, ARGST, "arg")
        ELSE IF c = "cr" THEN Row(is_cr, ARGST + 1, "def")
        ELSE Row(is_any, ARGST + 3, "err")
  <2>1. states(ARGST) =
          <<Row(is_printable, ARGST, "arg"), Row(is_cr, ARGST + 1, "def"),
            Row(is_any, ARGST + 3, "err")>>
    <3>1. /\ ~ (ARGST < CMD_LENGTH) /\ ARGST # CMD_LENGTH
          /\ ARGST # ARGST + 1 /\ ARGST # ARGST + 2 /\ ARGST # ARGST + 3
      BY DEF ARGST
    <3> QED
      BY <3>1, Zenon DEF states, pop3_states
  <2> QED
    BY ThreeRows, <2>1 DEF Step, is_cr
<1>4. c # "lf" => Step(ARGST + 1, c) \in
        {Row(is_cr, ARGST + 1, "err"), Row(is_any, ARGST + 3, "err")}
  <2>1. states(ARGST + 1) =
          <<Row(is_lf, ARGST + 2, "end"), Row(is_cr, ARGST + 1, "err"),
            Row(is_any, ARGST + 3, "err")>>
    <3>1. /\ ~ (ARGST + 1 < CMD_LENGTH) /\ ARGST + 1 # CMD_LENGTH /\ ARGST + 1 # ARGST
          /\ ARGST + 1 # ARGST + 2 /\ ARGST + 1 # ARGST + 3
      BY DEF ARGST
    <3> QED
      BY <3>1, Zenon DEF states, pop3_states
  <2> QED
    BY ThreeRows, <2>1 DEF Step, is_lf
<1> QED
  BY <1>1, <1>2, <1>3, <1>4

\* What a state of the configuration automaton that expects w does with c.
Expected(w, dest, action, c) ==
    IF c \in w THEN Row(w, dest, action)
    ELSE IF c = "lf" THEN Row(is_lf, ARGUMENT + 1, "end")
    ELSE Row(is_any, ARGUMENT + 3, "err")

LEMMA ConfigStep ==
    ASSUME def = "config", NEW c \in Char, NEW s \in Nat
    PROVE  /\ s < TOKEN_LENGTH =>
                Step(s, c) = Expected(is_alphanumeric, s + 1, "token", c)
           /\ s \in {TOKEN_LENGTH, OBJECT_CODE_0 - 1, ARGUMENT - 1} =>
                Step(s, c) = Expected(is_space, s + 1, "def", c)
           /\ OPERATION_0 <= s /\ s < OPERATION_0 + OPERATION_LENGTH =>
                Step(s, c) = Expected(is_letter, s + 1, "operation", c)
           /\ OBJECT_CODE_0 <= s /\ s < OBJECT_CODE_0 + OBJECT_CODE_LENGTH =>
                Step(s, c) = Expected(is_letter, s + 1, "object_code", c)
           /\ s = ARGUMENT =>
                Step(s, c) = Expected(is_printable, ARGUMENT, "argument", c)
<1> DEFINE Rows(w, dest, action) ==
             <<Row(w, dest, action), Row(is_lf, ARGUMENT + 1, "end"),
               Row(is_any, ARGUMENT + 3, "err")>>
           InOperation == OPERATION_0 .. OPERATION_0 + OPERATION_LENGTH - 1
           InObject == OBJECT_CODE_0 .. OBJECT_CODE_0 + OBJECT_CODE_LENGTH - 1
           Blanks == {TOKEN_LENGTH, OBJECT_CODE_0 - 1, ARGUMENT - 1}
<1>1. ASSUME NEW w, NEW dest, NEW action, states(s) = Rows(w, dest, action)
      PROVE  Step(s, c) = Expected(w, dest, action, c)
  BY <1>1, ThreeRows DEF Step, Expected, is_lf
<1>2. s < TOKEN_LENGTH => states(s) = Rows(is_alphanumeric, s + 1, "token")
  <2> SUFFICES ASSUME s < TOKEN_LENGTH
               PROVE  states(s) = Rows(is_alphanumeric, s + 1, "token")
    OBVIOUS
  <2>1. /\ s \notin InOperation /\ s \notin InObject /\ s \notin Blanks
        /\ s # ARGUMENT /\ s # ARGUMENT + 1 /\ s # ARGUMENT + 2 /\ s # ARGUMENT + 3
    BY Lengths DEF ARGUMENT, OBJECT_CODE_0, OPERATION_0
  <2> QED
    BY <2>1, Zenon DEF states, config_states
<1>3. s \in Blanks => states(s) = Rows(is_space, s + 1, "def")
  <2> SUFFICES ASSUME s \in Blanks PROVE states(s) = Rows(is_space, s + 1, "def")
    OBVIOUS
  <2>1. /\ ~ (s < TOKEN_LENGTH) /\ s \notin InOperation /\ s \notin InObject
        /\ s # ARGUMENT /\ s # ARGUMENT + 1 /\ s # ARGUMENT + 2 /\ s # ARGUMENT + 3
    BY Lengths DEF ARGUMENT, OBJECT_CODE_0, OPERATION_0
  <2> QED
    BY <2>1, Zenon DEF states, config_states
<1>4. s \in InOperation => states(s) = Rows(is_letter, s + 1, "operation")
  <2> SUFFICES ASSUME s \in InOperation
               PROVE  states(s) = Rows(is_letter, s + 1, "operation")
    OBVIOUS
  <2>1. /\ ~ (s < TOKEN_LENGTH) /\ s \notin InObject /\ s \notin Blanks
        /\ s # ARGUMENT /\ s # ARGUMENT + 1 /\ s # ARGUMENT + 2 /\ s # ARGUMENT + 3
    BY Lengths DEF ARGUMENT, OBJECT_CODE_0, OPERATION_0
  <2> QED
    BY <2>1, Zenon DEF states, config_states
<1>5. s \in InObject => states(s) = Rows(is_letter, s + 1, "object_code")
  <2> SUFFICES ASSUME s \in InObject
               PROVE  states(s) = Rows(is_letter, s + 1, "object_code")
    OBVIOUS
  <2>1. /\ ~ (s < TOKEN_LENGTH) /\ s \notin InOperation /\ s \notin Blanks
        /\ s # ARGUMENT /\ s # ARGUMENT + 1 /\ s # ARGUMENT + 2 /\ s # ARGUMENT + 3
    BY Lengths DEF ARGUMENT, OBJECT_CODE_0, OPERATION_0
  <2> QED
    BY <2>1, Zenon DEF states, config_states
<1>6. s = ARGUMENT => states(s) = Rows(is_printable, ARGUMENT, "argument")
  <2> SUFFICES ASSUME s = ARGUMENT
               PROVE  states(s) = Rows(is_printable, ARGUMENT, "argument")
    OBVIOUS
  <2>1. /\ ~ (s < TOKEN_LENGTH) /\ s \notin InOperation /\ s \notin InObject
        /\ s \notin Blanks
        /\ s # ARGUMENT + 1 /\ s # ARGUMENT + 2 /\ s # ARGUMENT + 3
    BY Lengths DEF ARGUMENT, OBJECT_CODE_0, OPERATION_0
  <2> QED
    BY <2>1, Zenon DEF states, config_states
<1>7. /\ OPERATION_0 <= s /\ s < OPERATION_0 + OPERATION_LENGTH => s \in InOperation
      /\ OBJECT_CODE_0 <= s /\ s < OBJECT_CODE_0 + OBJECT_CODE_LENGTH => s \in InObject
  BY Lengths DEF OBJECT_CODE_0, OPERATION_0
<1> HIDE DEF Rows, InOperation, InObject
<1> QED
  BY <1>1, <1>2, <1>3, <1>4, <1>5, <1>6, <1>7
-----------------------------------------------------------------------------
(***************************************************************************)
(* The places of the fields, and what one more character makes of a text.  *)
(***************************************************************************)
LEMMA Pop3Layout ==
    /\ FieldsOf["pop3"] = {"cmd", "arg"}
    /\ Place("cmd") = 1 .. CMD_LENGTH
    /\ Place("arg") = CMD_LENGTH + 2 .. CMD_LENGTH + 1 + ARG_MAX_LENGTH
    /\ Separators("pop3") = {CMD_LENGTH + 1}
    /\ LineEnd["pop3"] = "cr"
BY Lengths DEF FieldsOf, Place, Separators, LineEnd, Start, Limit

LEMMA ConfigLayout ==
    /\ FieldsOf["config"] = {"token", "operation", "object_code", "argument"}
    /\ Place("token") = 1 .. TOKEN_LENGTH
    /\ Place("operation") = OPERATION_0 + 1 .. OPERATION_0 + OPERATION_LENGTH
    /\ Place("object_code") = OBJECT_CODE_0 + 1 .. OBJECT_CODE_0 + OBJECT_CODE_LENGTH
    /\ Place("argument") = ARGUMENT + 1 .. ARGUMENT + ARGUMENT_LENGTH - 1
    /\ Separators("config") = {OPERATION_0, OBJECT_CODE_0, ARGUMENT}
    /\ LineEnd["config"] = "lf"
<1> USE Lengths DEF FieldsOf, Start, Limit, OPERATION_0, OBJECT_CODE_0, ARGUMENT
<1>1. /\ Start["token"] = 0 /\ Start["operation"] = OPERATION_0
      /\ Start["object_code"] = OBJECT_CODE_0 /\ Start["argument"] = ARGUMENT
  OBVIOUS
<1>2. /\ Place("token") = 1 .. TOKEN_LENGTH
      /\ Place("operation") = OPERATION_0 + 1 .. OPERATION_0 + OPERATION_LENGTH
      /\ Place("object_code") = OBJECT_CODE_0 + 1 .. OBJECT_CODE_0 + OBJECT_CODE_LENGTH
      /\ Place("argument") = ARGUMENT + 1 .. ARGUMENT + ARGUMENT_LENGTH - 1
  BY DEF Place
<1>3. Separators("config") = {OPERATION_0, OBJECT_CODE_0, ARGUMENT}
  <2>1. FieldsOf["config"] \ {"cmd", "token"} = {"operation", "object_code", "argument"}
    OBVIOUS
  <2> QED
    BY <1>1, <2>1 DEF Separators
<1> QED
  BY <1>2, <1>3 DEF LineEnd

\* A character that has a place and is in its alphabet.
Fits(d, i, c) ==
    \/ \E f \in FieldsOf[d] : i \in Place(f) /\ c \in Alphabet[f]
    \/ i \in Separators(d) /\ c \in {"blank", "tab"}

LEMMA LineEndFitsNowhere ==
    ASSUME NEW d \in {"pop3", "config"}, NEW i
    PROVE  ~ Fits(d, i, LineEnd[d])
BY DEF Fits, FieldsOf, Alphabet, LineEnd

LEMMA GrammaticalByFits ==
    ASSUME NEW d, NEW s
    PROVE  Grammatical(d, s) <=>
             /\ \A i \in 1 .. TextLength(d, s) : Fits(d, i, s[i])
             /\ d = "pop3" /\ Ended(d, s) => TextLength(d, s) >= CMD_LENGTH
BY DEF Grammatical, Fits

LEMMA Appended ==
    ASSUME NEW s \in Seq(Char), NEW c \in Char
    PROVE  /\ Append(s, c) \in Seq(Char)
           /\ Len(Append(s, c)) = Len(s) + 1
           /\ Append(s, c)[Len(s) + 1] = c
           /\ \A i \in 1 .. Len(s) : Append(s, c)[i] = s[i]
           /\ Append(s, c) # <<>>
           /\ Len(s) \in Nat
           /\ s # <<>> => Len(s) > 0
<1>1. s # <<>> => Len(s) > 0
  BY EmptySeq
<1>2. /\ Append(s, c) \in Seq(Char)
      /\ Len(Append(s, c)) = Len(s) + 1
      /\ Append(s, c)[Len(s) + 1] = c
      /\ \A i \in 1 .. Len(s) : Append(s, c)[i] = s[i]
      /\ Len(s) \in Nat
  OBVIOUS
<1>3. Append(s, c) # <<>>
  BY <1>2, EmptySeq
<1> QED
  BY <1>1, <1>2, <1>3

\* A character that is not the end of the line.
LEMMA TextGrows ==
    ASSUME NEW d \in {"pop3", "config"}, NEW s \in Seq(Char), NEW c \in Char,
           ~ Ended(d, s), c # LineEnd[d]
    PROVE  /\ ~ Ended(d, Append(s, c))
           /\ TextLength(d, s) = Len(s)
           /\ TextLength(d, Append(s, c)) = Len(s) + 1
           /\ Grammatical(d, s) =>
                (Grammatical(d, Append(s, c)) <=> Fits(d, Len(s) + 1, c))
<1>1. ~ Ended(d, Append(s, c))
  BY Appended DEF Ended
<1>2. TextLength(d, s) = Len(s) /\ TextLength(d, Append(s, c)) = Len(s) + 1
  BY <1>1, Appended DEF TextLength
<1>3. Len(s) \in Nat /\ 1 .. Len(s) + 1 = 1 .. Len(s) \cup {Len(s) + 1}
  BY Appended
<1>4. \A i \in 1 .. Len(s) : Append(s, c)[i] = s[i]
  BY Appended
<1>5. Append(s, c)[Len(s) + 1] = c
  BY Appended
<1>6. (\A i \in 1 .. Len(s) + 1 : Fits(d, i, Append(s, c)[i]))
        <=> (\A i \in 1 .. Len(s) : Fits(d, i, s[i])) /\ Fits(d, Len(s) + 1, c)
  BY <1>3, <1>4, <1>5
<1>7. Grammatical(d, s) <=> \A i \in 1 .. Len(s) : Fits(d, i, s[i])
  BY <1>2, GrammaticalByFits
<1>8. Grammatical(d, Append(s, c))
        <=> \A i \in 1 .. Len(s) + 1 : Fits(d, i, Append(s, c)[i])
  BY <1>1, <1>2, GrammaticalByFits
<1> QED
  BY <1>1, <1>2, <1>6, <1>7, <1>8

\* The end of the line.
LEMMA TextEnds ==
    ASSUME NEW d \in {"pop3", "config"}, NEW s \in Seq(Char),
           LineEnd[d] \in Char, ~ Ended(d, s)
    PROVE  /\ Ended(d, Append(s, LineEnd[d]))
           /\ TextLength(d, s) = Len(s)
           /\ TextLength(d, Append(s, LineEnd[d])) = Len(s)
           /\ Grammatical(d, s) =>
                (Grammatical(d, Append(s, LineEnd[d])) <=>
                   (d = "pop3" => Len(s) >= CMD_LENGTH))
<1> DEFINE e == Append(s, LineEnd[d])
<1>1. Ended(d, e)
  BY Appended DEF Ended
<1>2. TextLength(d, s) = Len(s) /\ TextLength(d, e) = Len(s)
  BY <1>1, Appended DEF TextLength
<1>3. \A i \in 1 .. Len(s) : e[i] = s[i]
  BY Appended
<1>4. Grammatical(d, s) <=> \A i \in 1 .. Len(s) : Fits(d, i, s[i])
  BY <1>2, GrammaticalByFits
<1>5. Grammatical(d, e) <=>
        /\ \A i \in 1 .. Len(s) : Fits(d, i, e[i])
        /\ d = "pop3" => Len(s) >= CMD_LENGTH
  BY <1>1, <1>2, GrammaticalByFits
<1> QED
  BY <1>1, <1>2, <1>3, <1>4, <1>5

\* Nothing may follow the end of the line.
LEMMA NothingFollows ==
    ASSUME NEW d \in {"pop3", "config"}, NEW s \in Seq(Char), NEW c \in Char,
           Ended(d, s)
    PROVE  ~ Grammatical(d, Append(s, c))
<1>1. s # <<>> /\ s[Len(s)] = LineEnd[d]
  BY DEF Ended
<1>2. Len(s) \in Nat /\ Len(s) >= 1
  BY <1>1, Appended
<1>3. TextLength(d, Append(s, c)) \in {Len(s), Len(s) + 1}
  BY <1>2, Appended DEF TextLength
<1>4. Len(s) \in 1 .. TextLength(d, Append(s, c))
  BY <1>2, <1>3
<1>5. ~ Fits(d, Len(s), Append(s, c)[Len(s)])
  BY <1>1, <1>2, Appended, LineEndFitsNowhere
<1> QED
  BY <1>4, <1>5, GrammaticalByFits
-----------------------------------------------------------------------------
(***************************************************************************)
(* What feeding a character may do in the loop: it is stored in the field  *)
(* whose place it is, it is the blank between two fields, it ends the      *)
(* line, or it is refused and the text is not one of the grammar.          *)
(***************************************************************************)
StateAt(n) == IF n < LastState THEN n ELSE LastState

IsStored(t, c) ==
    /\ ~ Ended(def, input)
    /\ t.action \in FieldsOf[def] /\ Stores(t.action)
    /\ Len(input) + 1 \in Place(t.action) /\ c \in Alphabet[t.action]
    /\ t.dest = StateAt(Len(input) + 1)

IsBlank(t, c) ==
    /\ ~ Ended(def, input)
    /\ t.action = "def"
    /\ Len(input) + 1 \in Separators(def) /\ c \in {"blank", "tab"}
    /\ t.dest = StateAt(Len(input) + 1)

IsEnd(t, c) ==
    /\ ~ Ended(def, input)
    /\ c = LineEnd[def]
    /\ \/ /\ def = "pop3" /\ t.action = "def" /\ t.dest = ARGST + 1
          /\ Len(input) >= CMD_LENGTH
       \/ /\ def = "config" /\ t.action = "end" /\ t.dest \in Nat

IsRefused(t, c) ==
    /\ t.action \in Fields \cup {"err"} /\ ~ Stores(t.action)
    /\ t.dest \in Nat
    /\ ~ Grammatical(def, Append(input, c))

LEMMA FieldLengths ==
    \A f \in Fields : Start[f] \in Nat /\ Limit[f] \in Nat
<1>1. /\ Limit["cmd"] \in Nat /\ Limit["arg"] \in Nat /\ Limit["token"] \in Nat
      /\ Limit["operation"] \in Nat /\ Limit["object_code"] \in Nat
      /\ Limit["argument"] \in Nat
  BY Lengths DEF Limit
<1>2. /\ Start["cmd"] \in Nat /\ Start["arg"] \in Nat /\ Start["token"] \in Nat
      /\ Start["operation"] \in Nat /\ Start["object_code"] \in Nat
      /\ Start["argument"] \in Nat
  BY Lengths DEF Start
<1> QED
  BY <1>1, <1>2 DEF Fields

\* A field takes characters as long as the text has not left its place.
LEMMA RoomInPlace ==
    ASSUME TypeOK, FieldsHoldInput, parser_state = "READING",
           ~ Ended(def, input), NEW f \in FieldsOf[def], Start[f] <= Len(input)
    PROVE  Stores(f) <=> Len(input) < Start[f] + Limit[f]
<1>1. f \in Fields
  BY Pop3Layout, ConfigLayout DEF TypeOK, Fields
<1>2. Start[f] \in Nat /\ Limit[f] \in Nat
  BY <1>1, FieldLengths
<1>3. TextLength(def, input) = Len(input) /\ Len(input) \in Nat
  <2>1. input \in Seq(Char)
    BY DEF TypeOK
  <2> QED
    BY <2>1, LenProperties DEF TextLength
<1>4. Len(data[f]) = Filled(f)
  BY DEF FieldsHoldInput
<1> HIDE DEF TypeOK, FieldsHoldInput
<1>5. Stores(f) <=> Filled(f) < Limit[f]
  BY <1>1, <1>4 DEF Stores
<1>6. Filled(f) = IF Len(input) <= Start[f] THEN 0
                  ELSE IF Len(input) >= Start[f] + Limit[f] THEN Limit[f]
                  ELSE Len(input) - Start[f]
  BY <1>3 DEF Filled
<1> QED
  BY <1>2, <1>3, <1>5, <1>6

LEMMA Pop3Outcome ==
    ASSUME ParserInv, phase = "feeding", def = "pop3",
           NEW c \in Char, CanFollow(c)
    PROVE  LET t == Step(state, c)
           IN  IsStored(t, c) \/ IsBlank(t, c) \/ IsEnd(t, c) \/ IsRefused(t, c)
<1> DEFINE t == Step(state, c)
           n == Len(input)
<1>1. /\ TypeOK /\ FieldsHoldInput /\ parser_state = "READING"
      /\ input \in Seq(Char) /\ n \in Nat /\ Grammatical(def, input)
  BY DEF ParserInv, CallerLoop, RecognisesGrammar, TypeOK
<1>2. ARGST \in Nat /\ CMD_LENGTH \in Nat /\ CMD_LENGTH > 0 /\ ARGST = CMD_LENGTH + 1
  BY Lengths DEF ARGST
<1>3. ASSUME t = Row(is_any, ARGST + 3, "err") \/ t = Row(is_cr, ARGST + 1, "err"),
             ~ Grammatical(def, Append(input, c))
      PROVE  IsRefused(t, c)
  BY <1>2, <1>3 DEF IsRefused, Row, Stores, Fields
<1>4. CASE Ended(def, input)
  <2>1. state = ARGST + 1
    BY <1>4 DEF ParserInv, StateCounts
  <2>2. c # "lf"
    BY <1>4, Pop3Layout DEF CanFollow, Ended
  <2>3. t = Row(is_any, ARGST + 3, "err") \/ t = Row(is_cr, ARGST + 1, "err")
    BY <2>1, <2>2, Pop3Step
  <2> QED
    BY <1>1, <1>3, <1>4, <2>3, NothingFollows
<1>5. CASE ~ Ended(def, input)
  <2>1. state = StateAt(n) /\ LastState = ARGST
    BY <1>5, <1>2 DEF ParserInv, StateCounts, StateAt, LastState
  <2>2. /\ FieldsOf[def] = {"cmd", "arg"} /\ Separators(def) = {CMD_LENGTH + 1}
        /\ LineEnd[def] = "cr" /\ Alphabet["cmd"] = {"letter"}
        /\ Alphabet["arg"] = is_printable /\ is_space = {"blank", "tab"}
        /\ Start["cmd"] = 0 /\ Start["arg"] = CMD_LENGTH + 1
        /\ Limit["cmd"] = CMD_LENGTH /\ Limit["arg"] = ARG_MAX_LENGTH
    BY Pop3Layout DEF Alphabet, is_printable, is_space, Start, Limit
  <2>3. ASSUME c = "cr", n >= CMD_LENGTH, t = Row(is_cr, ARGST + 1, "def")
        PROVE  IsEnd(t, c)
    BY <1>2, <1>5, <2>2, <2>3 DEF IsEnd, Row
  <2>4. ASSUME c # "cr", ~ Fits(def, n + 1, c)
        PROVE  ~ Grammatical(def, Append(input, c))
    BY <1>1, <1>5, <2>2, <2>4, TextGrows
  <2>5. ASSUME c = "cr", n < CMD_LENGTH
        PROVE  ~ Grammatical(def, Append(input, c))
    <3>1. LineEnd[def] \in Char
      BY <2>2 DEF Char
    <3> QED
      BY <1>1, <1>2, <1>5, <2>2, <2>5, <3>1, TextEnds
  <2>6. CASE n < CMD_LENGTH
    <3>1. t = IF c = "letter" THEN Row(is_letter, n + 1, "cmd")
              ELSE IF c = "cr" THEN Row(is_cr, ARGST + 1, "err")
              ELSE Row(is_any, ARGST + 3, "err")
      BY <1>1, <1>2, <2>1, <2>6, Pop3Step DEF StateAt
    <3>2. n + 1 \in Place("cmd") /\ n + 1 \notin Place("arg")
          /\ n + 1 \notin Separators(def) /\ n + 1 = StateAt(n + 1)
      BY <1>1, <1>2, <2>1, <2>2, <2>6, Lengths, Pop3Layout DEF StateAt
    <3>3. CASE c = "letter"
      <4>1. Stores("cmd")
        BY <1>1, <1>2, <1>5, <2>2, <2>6, RoomInPlace
      <4> QED
        BY <1>5, <2>2, <3>1, <3>2, <3>3, <4>1 DEF IsStored, Row
    <3>4. CASE c = "cr"
      BY <1>3, <2>5, <2>6, <3>1, <3>4
    <3>5. CASE c \notin {"letter", "cr"}
      <4>1. ~ Fits(def, n + 1, c)
        BY <2>2, <3>2, <3>5 DEF Fits
      <4> QED
        BY <1>3, <2>4, <3>1, <3>5, <4>1
    <3> QED
      BY <3>3, <3>4, <3>5
  <2>7. CASE n = CMD_LENGTH
    <3>1. t = IF c \in is_space THEN Row(is_space, ARGST, "def")
              ELSE IF c = "cr" THEN Row(is_cr, ARGST + 1, "def")
              ELSE Row(is_any, ARGST + 3, "err")
      BY <1>1, <1>2, <2>1, <2>7, Pop3Step DEF StateAt
    <3>2. n + 1 \notin Place("cmd") /\ n + 1 \notin Place("arg")
          /\ n + 1 \in Separators(def) /\ ARGST = StateAt(n + 1)
      BY <1>1, <1>2, <2>1, <2>2, <2>7, Lengths, Pop3Layout DEF StateAt
    <3>3. CASE c \in is_space
      BY <1>5, <2>2, <3>1, <3>2, <3>3 DEF IsBlank, Row
    <3>4. CASE c = "cr"
      BY <1>1, <1>2, <2>2, <2>3, <2>7, <3>1, <3>4
    <3>5. CASE c \notin is_space \cup {"cr"}
      <4>1. ~ Fits(def, n + 1, c)
        BY <2>2, <3>2, <3>5 DEF Fits
      <4> QED
        BY <1>3, <2>4, <3>1, <3>5, <4>1
    <3> QED
      BY <3>3, <3>4, <3>5
  <2>8. CASE n > CMD_LENGTH
    <3>1. t = IF c \in is_printable THEN Row(is_printable, ARGST, "arg")
              ELSE IF c = "cr" THEN Row(is_cr, ARGST + 1, "def")
              ELSE Row(is_any, ARGST + 3, "err")
      BY <1>1, <1>2, <2>1, <2>8, Pop3Step DEF StateAt
    <3>2. n + 1 \notin Place("cmd") /\ n + 1 \notin Separators(def)
          /\ ARGST = StateAt(n + 1)
          /\ (n + 1 \in Place("arg") <=> n < Start["arg"] + Limit["arg"])
      BY <1>1, <1>2, <2>1, <2>2, <2>8, Lengths, Pop3Layout DEF StateAt
    <3>3. Stores("arg") <=> n + 1 \in Place("arg")
      BY <1>1, <1>2, <1>5, <2>2, <2>8, <3>2, RoomInPlace
    <3>4. CASE c \in is_printable /\ Stores("arg")
      BY <1>5, <2>2, <3>1, <3>2, <3>3, <3>4 DEF IsStored, Row
    <3>5. CASE c = "cr"
      BY <1>1, <1>2, <2>2, <2>3, <2>8, <3>1, <3>5 DEF is_printable
    <3>6. CASE c # "cr" /\ ~ (c \in is_printable /\ Stores("arg"))
      <4>1. ~ Fits(def, n + 1, c)
        BY <2>2, <3>2, <3>3, <3>6 DEF Fits
      <4>2. ~ Grammatical(def, Append(input, c))
        BY <2>4, <3>6, <4>1
      <4>3. CASE c \in is_printable
        BY <1>2, <3>1, <3>6, <4>2, <4>3 DEF IsRefused, Row, Fields
      <4>4. CASE c \notin is_printable
        BY <1>3, <3>1, <3>6, <4>2, <4>4
      <4> QED
        BY <4>3, <4>4
    <3> QED
      BY <3>4, <3>5, <3>6
  <2> QED
    BY <1>1, <1>2, <2>6, <2>7, <2>8
<1> QED
  BY <1>4, <1>5

LEMMA ConfigOutcome ==
    ASSUME ParserInv, phase = "feeding", def = "config", NEW c \in Char
    PROVE  LET t == Step(state, c)
           IN  IsStored(t, c) \/ IsBlank(t, c) \/ IsEnd(t, c) \/ IsRefused(t, c)
<1> DEFINE t == Step(state, c)
           n == Len(input)
           Goal == IsStored(t, c) \/ IsBlank(t, c) \/ IsEnd(t, c) \/ IsRefused(t, c)
<1>1. /\ TypeOK /\ FieldsHoldInput /\ parser_state = "READING"
      /\ input \in Seq(Char) /\ n \in Nat /\ Grammatical(def, input)
  BY DEF ParserInv, CallerLoop, RecognisesGrammar, TypeOK
<1>2. /\ OPERATION_0 \in Nat /\ OBJECT_CODE_0 \in Nat /\ ARGUMENT \in Nat
      /\ OPERATION_0 = TOKEN_LENGTH + 1
      /\ OBJECT_CODE_0 = OPERATION_0 + OPERATION_LENGTH + 1
      /\ ARGUMENT = OBJECT_CODE_0 + OBJECT_CODE_LENGTH + 1
  BY Lengths DEF OPERATION_0, OBJECT_CODE_0, ARGUMENT
<1>3. ~ Ended(def, input) /\ state = StateAt(n) /\ LastState = ARGUMENT
  BY DEF ParserInv, StateCounts, StateAt, LastState
<1>4. /\ FieldsOf[def] = {"token", "operation", "object_code", "argument"}
      /\ LineEnd[def] = "lf"
      /\ Alphabet["token"] = is_alphanumeric /\ Alphabet["operation"] = is_letter
      /\ Alphabet["object_code"] = is_letter /\ Alphabet["argument"] = is_printable
      /\ is_space = {"blank", "tab"}
      /\ Start["token"] = 0 /\ Start["operation"] = OPERATION_0
      /\ Start["object_code"] = OBJECT_CODE_0 /\ Start["argument"] = ARGUMENT
  <2>1. /\ Start["token"] = 0 /\ Start["operation"] = OPERATION_0
        /\ Start["object_code"] = OBJECT_CODE_0 /\ Start["argument"] = ARGUMENT
    BY <1>2, Lengths DEF Start
  <2> QED
    BY <2>1, ConfigLayout DEF Alphabet, is_alphanumeric, is_letter, is_printable, is_space
<1>5. ASSUME c # "lf", ~ Fits(def, n + 1, c)
      PROVE  ~ Grammatical(def, Append(input, c))
  BY <1>1, <1>3, <1>4, <1>5, TextGrows
<1>6. ASSUME NEW w, NEW dest, NEW action, t = Expected(w, dest, action, c),
             c \notin w, ~ Fits(def, n + 1, c)
      PROVE  Goal
  <2>1. CASE c = "lf"
    BY <1>2, <1>3, <1>4, <1>6, <2>1 DEF Expected, IsEnd, Row
  <2>2. CASE c # "lf"
    BY <1>2, <1>5, <1>6, <2>2 DEF Expected, IsRefused, Row, Stores, Fields
  <2> QED
    BY <2>1, <2>2
<1>7. ASSUME NEW f \in FieldsOf[def], Start[f] <= n,
             t = Expected(Alphabet[f], StateAt(n + 1), f, c),
             \A g \in FieldsOf[def] \ {f} : n + 1 \notin Place(g),
             n + 1 \notin Separators(def)
      PROVE  Goal
  <2>1. f \in Fields /\ Start[f] \in Nat /\ Limit[f] \in Nat
    BY <1>4, FieldLengths DEF Fields
  <2>2. Stores(f) <=> n < Start[f] + Limit[f]
    BY <1>1, <1>3, <1>7, RoomInPlace
  <2>3. Stores(f) <=> n + 1 \in Place(f)
    BY <1>1, <1>7, <2>1, <2>2 DEF Place
  <2>4. CASE c \in Alphabet[f] /\ Stores(f)
    BY <1>3, <1>7, <2>3, <2>4 DEF Expected, Row, IsStored
  <2>5. CASE c \in Alphabet[f] /\ ~ Stores(f)
    <3>1. c # "lf"
      BY <1>4, <2>5 DEF is_alphanumeric, is_letter, is_printable
    <3>2. ~ Fits(def, n + 1, c)
      BY <1>7, <2>3, <2>5 DEF Fits
    <3>3. StateAt(n + 1) \in Nat
      BY <1>1, <1>2, <1>3 DEF StateAt
    <3> QED
      BY <1>5, <1>7, <2>1, <2>5, <3>1, <3>2, <3>3 DEF Expected, Row, IsRefused
  <2>6. CASE c \notin Alphabet[f]
    <3>1. ~ Fits(def, n + 1, c)
      BY <1>7, <2>6 DEF Fits
    <3> QED
      BY <1>6, <1>7, <2>6, <3>1
  <2> QED
    BY <2>4, <2>5, <2>6
<1>8. ASSUME n + 1 \in Separators(def), \A g \in FieldsOf[def] : n + 1 \notin Place(g),
             t = Expected(is_space, StateAt(n + 1), "def", c)
      PROVE  Goal
  <2>1. CASE c \in is_space
    BY <1>3, <1>4, <1>8, <2>1 DEF Expected, Row, IsBlank
  <2>2. CASE c \notin is_space
    <3>1. ~ Fits(def, n + 1, c)
      BY <1>4, <1>8, <2>2 DEF Fits
    <3> QED
      BY <1>6, <1>8, <2>2, <3>1
  <2> QED
    BY <2>1, <2>2
<1> SUFFICES Goal
  OBVIOUS
<1> HIDE DEF Goal, t, n
<1>9. /\ Separators(def) = {OPERATION_0, OBJECT_CODE_0, ARGUMENT}
      /\ \A i : /\ i \in Place("token") <=> i \in 1 .. TOKEN_LENGTH
                /\ i \in Place("operation") <=>
                     i \in OPERATION_0 + 1 .. OPERATION_0 + OPERATION_LENGTH
                /\ i \in Place("object_code") <=>
                     i \in OBJECT_CODE_0 + 1 .. OBJECT_CODE_0 + OBJECT_CODE_LENGTH
                /\ i \in Place("argument") <=>
                     i \in ARGUMENT + 1 .. ARGUMENT + ARGUMENT_LENGTH - 1
  BY ConfigLayout
<1>10. CASE n < TOKEN_LENGTH
  <2>1. state = n /\ StateAt(n + 1) = n + 1
    BY <1>1, <1>2, <1>3, <1>10, Lengths DEF StateAt, n
  <2>2. t = Expected(Alphabet["token"], StateAt(n + 1), "token", c)
    BY <1>1, <1>4, <1>10, <2>1, ConfigStep DEF t
  <2>3. /\ \A g \in FieldsOf[def] \ {"token"} : n + 1 \notin Place(g)
        /\ n + 1 \notin Separators(def)
    BY <1>1, <1>2, <1>4, <1>9, <1>10, Lengths
  <2> QED
    BY <1>1, <1>4, <1>7, <2>2, <2>3
<1>11. CASE n \in {TOKEN_LENGTH, OBJECT_CODE_0 - 1, ARGUMENT - 1}
  <2>1. state = n /\ StateAt(n + 1) = n + 1
    BY <1>1, <1>2, <1>3, <1>11, Lengths DEF StateAt, n
  <2>2. t = Expected(is_space, StateAt(n + 1), "def", c)
    BY <1>1, <1>11, <2>1, ConfigStep DEF t
  <2>3. /\ \A g \in FieldsOf[def] : n + 1 \notin Place(g)
        /\ n + 1 \in Separators(def)
    BY <1>1, <1>2, <1>4, <1>9, <1>11, Lengths
  <2> QED
    BY <1>8, <2>2, <2>3
<1>12. CASE OPERATION_0 <= n /\ n < OPERATION_0 + OPERATION_LENGTH
  <2>1. state = n /\ StateAt(n + 1) = n + 1
    BY <1>1, <1>2, <1>3, <1>12, Lengths DEF StateAt, n
  <2>2. t = Expected(Alphabet["operation"], StateAt(n + 1), "operation", c)
    BY <1>1, <1>4, <1>12, <2>1, ConfigStep DEF t
  <2>3. /\ \A g \in FieldsOf[def] \ {"operation"} : n + 1 \notin Place(g)
        /\ n + 1 \notin Separators(def)
    BY <1>1, <1>2, <1>4, <1>9, <1>12, Lengths
  <2> QED
    BY <1>4, <1>7, <1>12, <2>2, <2>3
<1>13. CASE OBJECT_CODE_0 <= n /\ n < OBJECT_CODE_0 + OBJECT_CODE_LENGTH
  <2>1. state = n /\ StateAt(n + 1) = n + 1
    BY <1>1, <1>2, <1>3, <1>13, Lengths DEF StateAt, n
  <2>2. t = Expected(Alphabet["object_code"], StateAt(n + 1), "object_code", c)
    BY <1>1, <1>4, <1>13, <2>1, ConfigStep DEF t
  <2>3. /\ \A g \in FieldsOf[def] \ {"object_code"} : n + 1 \notin Place(g)
        /\ n + 1 \notin Separators(def)
    BY <1>1, <1>2, <1>4, <1>9, <1>13, Lengths
  <2> QED
    BY <1>4, <1>7, <1>13, <2>2, <2>3
<1>14. CASE n >= ARGUMENT
  <2>1. state = ARGUMENT /\ StateAt(n + 1) = ARGUMENT
    BY <1>1, <1>2, <1>3, <1>14 DEF StateAt, n
  <2>2. t = Expected(Alphabet["argument"], StateAt(n + 1), "argument", c)
    BY <1>2, <1>4, <2>1, ConfigStep DEF t
  <2>3. /\ \A g \in FieldsOf[def] \ {"argument"} : n + 1 \notin Place(g)
        /\ n + 1 \notin Separators(def)
    <3>1. /\ n + 1 > ARGUMENT /\ n + 1 > OBJECT_CODE_0 + OBJECT_CODE_LENGTH
          /\ n + 1 > OPERATION_0 + OPERATION_LENGTH /\ n + 1 > TOKEN_LENGTH
          /\ n + 1 > OPERATION_0 /\ n + 1 > OBJECT_CODE_0
      BY <1>1, <1>2, <1>14, Lengths
    <3> QED
      BY <1>1, <1>2, <1>4, <1>9, <3>1, Lengths
  <2> QED
    BY <1>4, <1>7, <1>14, <2>2, <2>3
<1> QED
  BY <1>1, <1>2, <1>10, <1>11, <1>12, <1>13, <1>14, Lengths
LEMMA Outcome ==
    ASSUME ParserInv, phase = "feeding", NEW c \in Char, CanFollow(c)
    PROVE  LET t == Step(state, c)
           IN  IsStored(t, c) \/ IsBlank(t, c) \/ IsEnd(t, c) \/ IsRefused(t, c)
BY Pop3Outcome, ConfigOutcome DEF ParserInv, TypeOK

\* Two fields have no place in common, and a blank between them has none.
LEMMA PlacesDisjoint ==
    ASSUME NEW d \in {"pop3", "config"}, NEW f \in FieldsOf[d], NEW i \in Nat
    PROVE  /\ i \in Separators(d) => i \notin Place(f)
           /\ \A g \in FieldsOf[d] \ {f} : i \in Place(g) => i \notin Place(f)
<1>1. CASE d = "pop3"
  BY <1>1, Pop3Layout, Lengths
<1>2. CASE d = "config"
  <2>1. /\ OPERATION_0 = TOKEN_LENGTH + 1
        /\ OBJECT_CODE_0 = OPERATION_0 + OPERATION_LENGTH + 1
        /\ ARGUMENT = OBJECT_CODE_0 + OBJECT_CODE_LENGTH + 1
    BY DEF OPERATION_0, OBJECT_CODE_0, ARGUMENT
  <2>2. /\ OPERATION_0 \in Nat /\ OBJECT_CODE_0 \in Nat /\ ARGUMENT \in Nat
    BY <2>1, Lengths
  <2>3. /\ i \in Place("token") => i < OPERATION_0
        /\ i \in Place("operation") => OPERATION_0 < i /\ i < OBJECT_CODE_0
        /\ i \in Place("object_code") => OBJECT_CODE_0 < i /\ i < ARGUMENT
        /\ i \in Place("argument") => ARGUMENT < i
        /\ OPERATION_0 < OBJECT_CODE_0 /\ OBJECT_CODE_0 < ARGUMENT
    BY <2>1, <2>2, ConfigLayout, Lengths
  <2> QED
    BY <1>2, <2>2, <2>3, ConfigLayout
<1> QED
  BY <1>1, <1>2

-----------------------------------------------------------------------------
(***************************************************************************)
(* The fields after a step.                                                *)
(***************************************************************************)
FilledAt(f, n) ==
    IF n <= Start[f] THEN 0
    ELSE IF n >= Start[f] + Limit[f] THEN Limit[f] ELSE n - Start[f]

LEMMA FilledGrows ==
    ASSUME NEW f \in Fields, NEW n \in Nat
    PROVE  /\ n + 1 \in Place(f) => /\ FilledAt(f, n) = n - Start[f]
                                    /\ FilledAt(f, n + 1) = n + 1 - Start[f]
           /\ n + 1 \notin Place(f) => FilledAt(f, n + 1) = FilledAt(f, n)
           /\ FilledAt(f, n) \in Nat
           /\ (FilledAt(f, n) + Start[f] <= n \/ FilledAt(f, n) = 0)
           /\ FilledAt(f, n) <= Limit[f]
<1>1. Start[f] \in Nat /\ Limit[f] \in Nat
  BY FieldLengths
<1>2. FilledAt(f, n) \in Nat /\ FilledAt(f, n) <= Limit[f]
  BY <1>1 DEF FilledAt
<1>3. FilledAt(f, n) + Start[f] <= n \/ FilledAt(f, n) = 0
  BY <1>1 DEF FilledAt
<1>4. n + 1 \in Place(f) => /\ FilledAt(f, n) = n - Start[f]
                            /\ FilledAt(f, n + 1) = n + 1 - Start[f]
  BY <1>1 DEF FilledAt, Place
<1>5. n + 1 \notin Place(f) => FilledAt(f, n + 1) = FilledAt(f, n)
  BY <1>1 DEF FilledAt, Place
<1> QED
  BY <1>2, <1>3, <1>4, <1>5

LEMMA FeedStep ==
    ASSUME ParserInv, NEW c \in Char, parser_feed(c)
    PROVE  ParserInv'
<1> DEFINE t == Step(state, c)
           n == Len(input)
<1>1. /\ TypeOK /\ FieldsHoldInput /\ parser_state = "READING" /\ answer = "none"
      /\ phase = "feeding" /\ CanFollow(c) /\ Grammatical(def, input)
      /\ def \in {"pop3", "config"} /\ input \in Seq(Char) /\ n \in Nat
      /\ data \in [Fields -> Seq(Char)]
  <2>1. phase = "feeding" /\ CanFollow(c)
    BY Zenon DEF parser_feed
  <2>2. TypeOK /\ FieldsHoldInput /\ CallerLoop /\ RecognisesGrammar
    BY Zenon DEF ParserInv
  <2>3. /\ def \in {"pop3", "config"} /\ input \in Seq(Char)
        /\ data \in [Fields -> Seq(Char)]
    BY <2>2, Zenon DEF TypeOK
  <2>4. parser_state = "READING" /\ answer = "none" /\ Grammatical(def, input)
    BY <2>1, <2>2 DEF CallerLoop, RecognisesGrammar
  <2> QED
    BY <2>1, <2>2, <2>3, <2>4, LenProperties
<1>2. /\ state' = t.dest
      /\ data' = IF Stores(t.action)
                   THEN [data EXCEPT ![t.action] = Append(@, c)] ELSE data
      /\ parser_state' = IF Response(t.action) = "ERROR" THEN "ERROR"
                         ELSE parser_state
      /\ phase' = CASE Returned(Response(t.action)) = "READING"  -> "feeding"
                    [] Returned(Response(t.action)) = "FINISHED" -> "parsed"
                    [] Returned(Response(t.action)) = "ERROR"    -> "idle"
      /\ answer' = IF Returned(Response(t.action)) = "ERROR"
                     THEN "unknown command" ELSE "none"
      /\ input' = Append(input, c) /\ def' = def
  BY Zenon DEF parser_feed, Step
<1>3. Returned(Response(t.action)) = Response(t.action)
  BY <1>1 DEF Returned
<1>4. IsStored(t, c) \/ IsBlank(t, c) \/ IsEnd(t, c) \/ IsRefused(t, c)
  BY <1>1, Outcome
<1>5. input' \in Seq(Char) /\ Len(input') = n + 1 /\ input'[n + 1] = c
      /\ \A i \in 1 .. n : input'[i] = input[i]
  BY <1>1, <1>2, Appended
<1>6. FieldsOf[def] \subseteq Fields
  BY <1>1, Pop3Layout, ConfigLayout DEF Fields
<1>7. ASSUME ~ Ended(def, input)
      PROVE  \A f \in FieldsOf[def] :
               /\ Len(data[f]) = FilledAt(f, n)
               /\ \A i \in 1 .. Len(data[f]) : data[f][i] = input[Start[f] + i]
  BY <1>1, <1>7 DEF FieldsHoldInput, Filled, FilledAt, TextLength
<1> HIDE DEF t, n
<1>8. ASSUME c # LineEnd[def], ~ Ended(def, input), Fits(def, n + 1, c),
             state' = StateAt(n + 1), phase' = "feeding", answer' = "none",
             parser_state' = "READING", data' \in [Fields -> Seq(Char)],
             \A f \in Fields : Len(data'[f]) <= Limit[f],
             \A f \in FieldsOf[def] :
               /\ Len(data'[f]) = FilledAt(f, n + 1)
               /\ \A i \in 1 .. Len(data'[f]) : data'[f][i] = input'[Start[f] + i]
      PROVE  ParserInv'
  <2>1. /\ ~ Ended(def, input') /\ TextLength(def, input') = n + 1
        /\ Grammatical(def, input')
    BY <1>1, <1>2, <1>8, TextGrows DEF n
  <2>2. TypeOK'
    <3>1. LastState \in Nat
      BY Lengths DEF LastState, ARGST, OPERATION_0, OBJECT_CODE_0, ARGUMENT
    <3>2. state' \in Nat
      BY <1>1, <1>8, <3>1 DEF StateAt
    <3>3. def' \in {"pop3", "config"} /\ input' \in Seq(Char)
      BY <1>1, <1>2, <1>5
    <3> QED
      BY <1>8, <3>2, <3>3 DEF TypeOK
  <2>3. RecognisesGrammar'
    BY <1>2, <1>8, <2>1 DEF RecognisesGrammar
  <2>4. FieldsHoldInput'
    BY <1>2, <1>8, <2>1 DEF FieldsHoldInput, Filled, FilledAt
  <2>5. StateCounts'
    BY <1>2, <1>5, <1>8, <2>1 DEF StateCounts, StateAt, LastState
  <2> QED
    BY <1>8, <2>2, <2>3, <2>4, <2>5 DEF ParserInv, OnlyWholeCommandsRun, CallerLoop
<1>9. CASE IsStored(t, c)
  <2> DEFINE f == t.action
  <2>1. /\ f \in FieldsOf[def] /\ f \in Fields /\ Stores(f) /\ ~ Ended(def, input)
        /\ n + 1 \in Place(f) /\ c \in Alphabet[f] /\ t.dest = StateAt(n + 1)
    BY <1>6, <1>9 DEF IsStored, n
  <2>2. Fits(def, n + 1, c)
    BY <2>1 DEF Fits
  <2>3. c # LineEnd[def]
    BY <1>1, <2>2, LineEndFitsNowhere
  <2>4. Response(f) = "READING"
    BY <2>1 DEF Response
  <2>5. /\ phase' = "feeding" /\ answer' = "none" /\ parser_state' = "READING"
        /\ state' = StateAt(n + 1) /\ data' = [data EXCEPT ![f] = Append(@, c)]
    BY <1>1, <1>2, <1>3, <2>1, <2>4
  <2>6. data[f] \in Seq(Char) /\ Len(data[f]) < Limit[f]
    BY <1>1, <2>1 DEF Stores
  <2> HIDE DEF f
  <2>7. /\ data'[f] = Append(data[f], c) /\ data' \in [Fields -> Seq(Char)]
        /\ Append(data[f], c) \in Seq(Char)
        /\ \A g \in Fields \ {f} : data'[g] = data[g]
    BY <1>1, <2>1, <2>5, <2>6, Appended
  <2>8. /\ Len(data'[f]) = Len(data[f]) + 1 /\ Len(data[f]) \in Nat
        /\ data'[f][Len(data[f]) + 1] = c
        /\ \A i \in 1 .. Len(data[f]) : data'[f][i] = data[f][i]
    BY <2>6, <2>7, Appended
  <2>9. \A g \in Fields : Len(data'[g]) <= Limit[g]
    <3>1. \A g \in Fields : Len(data[g]) <= Limit[g]
      BY <1>1, Zenon DEF TypeOK
    <3>2. Len(data'[f]) <= Limit[f]
      BY <2>1, <2>6, <2>8, FieldLengths
    <3> QED
      BY <2>7, <3>1, <3>2
  <2>10. ASSUME NEW g \in FieldsOf[def]
         PROVE  /\ Len(data'[g]) = FilledAt(g, n + 1)
                /\ \A i \in 1 .. Len(data'[g]) : data'[g][i] = input'[Start[g] + i]
    <3>1. /\ g \in Fields /\ Start[g] \in Nat
          /\ Len(data[g]) = FilledAt(g, n)
          /\ \A i \in 1 .. Len(data[g]) : data[g][i] = input[Start[g] + i]
      BY <1>6, <1>7, <2>1, FieldLengths
    <3>2. CASE g = f
      <4>1. /\ Len(data[f]) = n - Start[f] /\ FilledAt(f, n + 1) = n + 1 - Start[f]
        BY <1>1, <2>1, <3>1, <3>2, FilledGrows
      <4>2. Start[f] \in Nat
        BY <3>1, <3>2
      <4>3. Len(data'[f]) = FilledAt(f, n + 1) /\ Len(data'[f]) = n + 1 - Start[f]
        BY <1>1, <2>8, <4>1, <4>2
      <4>4. ASSUME NEW i \in 1 .. Len(data[f]) + 1
            PROVE  data'[f][i] = input'[Start[f] + i]
        <5>1. CASE i = Len(data[f]) + 1
          <6>1. Start[f] + i = n + 1
            BY <1>1, <4>1, <4>2, <5>1
          <6> QED
            BY <1>5, <2>8, <5>1, <6>1
        <5>2. CASE i # Len(data[f]) + 1
          <6>1. i \in 1 .. Len(data[f]) /\ Start[f] + i \in 1 .. n
            <7>1. n \in Nat /\ Len(data[f]) \in Nat
              BY <1>1, <2>8
            <7> QED
              BY <4>1, <4>2, <5>2, <7>1
          <6> QED
            BY <1>5, <2>8, <3>1, <3>2, <6>1
        <5> QED
          BY <5>1, <5>2
      <4> QED
        BY <2>8, <3>2, <4>3, <4>4
    <3>3. CASE g # f
      <4>1. n + 1 \notin Place(g)
        <5>1. n + 1 \in Nat /\ def \in {"pop3", "config"}
          BY <1>1
        <5>2. f \in FieldsOf[def] \ {g} /\ n + 1 \in Place(f)
          BY <2>1, <3>3
        <5> QED
          BY <5>1, <5>2, PlacesDisjoint
      <4>2. FilledAt(g, n + 1) = FilledAt(g, n) /\ data'[g] = data[g]
        BY <1>1, <2>7, <3>1, <3>3, <4>1, FilledGrows
      <4>3. \A i \in 1 .. Len(data[g]) : Start[g] + i \in 1 .. n
        <5>1. n \in Nat /\ FilledAt(g, n) \in Nat
              /\ (FilledAt(g, n) + Start[g] <= n \/ FilledAt(g, n) = 0)
          BY <1>1, <3>1, FilledGrows
        <5> QED
          BY <3>1, <5>1
      <4> QED
        BY <1>5, <3>1, <4>2, <4>3
    <3> QED
      BY <3>2, <3>3
  <2> QED
    BY <1>8, <2>1, <2>2, <2>3, <2>5, <2>7, <2>9, <2>10
<1>10. ASSUME ~ Stores(t.action), ~ Ended(def, input)
       PROVE  /\ data' = data
              /\ \A f \in FieldsOf[def] :
                   /\ Len(data'[f]) = FilledAt(f, n)
                   /\ \A i \in 1 .. Len(data'[f]) : data'[f][i] = input'[Start[f] + i]
  <2>1. data' = data
    BY <1>2, <1>10
  <2>2. ASSUME NEW f \in FieldsOf[def], NEW i \in 1 .. Len(data[f])
        PROVE  Start[f] + i \in 1 .. n
    <3>1. f \in Fields /\ Start[f] \in Nat /\ Len(data[f]) = FilledAt(f, n)
      BY <1>6, <1>7, <1>10, FieldLengths
    <3>2. n \in Nat /\ FilledAt(f, n) \in Nat
          /\ (FilledAt(f, n) + Start[f] <= n \/ FilledAt(f, n) = 0)
      BY <1>1, <3>1, FilledGrows
    <3> QED
      BY <3>1, <3>2
  <2> QED
    BY <1>5, <1>7, <1>10, <2>1, <2>2
<1>11. CASE IsBlank(t, c)
  <2>1. /\ ~ Ended(def, input) /\ t.action = "def" /\ t.dest = StateAt(n + 1)
        /\ n + 1 \in Separators(def) /\ c \in {"blank", "tab"}
    BY <1>11 DEF IsBlank, n
  <2>2. Fits(def, n + 1, c) /\ c # LineEnd[def]
    BY <1>1, <2>1, LineEndFitsNowhere DEF Fits
  <2>3. ~ Stores(t.action) /\ Response(t.action) = "READING"
    BY <2>1 DEF Stores, Response, Fields
  <2>4. /\ phase' = "feeding" /\ answer' = "none" /\ parser_state' = "READING"
        /\ state' = StateAt(n + 1) /\ data' = data
    BY <1>1, <1>2, <1>3, <2>1, <2>3
  <2>5. \A f \in FieldsOf[def] : FilledAt(f, n + 1) = FilledAt(f, n)
    <3>1. n \in Nat /\ n + 1 \in Nat
      BY <1>1
    <3>2. \A f \in FieldsOf[def] : f \in Fields /\ n + 1 \notin Place(f)
      BY <1>1, <1>6, <2>1, <3>1, PlacesDisjoint
    <3> QED
      BY <3>1, <3>2, FilledGrows
  <2>6. \A f \in FieldsOf[def] :
          /\ Len(data'[f]) = FilledAt(f, n + 1)
          /\ \A i \in 1 .. Len(data'[f]) : data'[f][i] = input'[Start[f] + i]
    BY <1>10, <2>1, <2>3, <2>5
  <2>7. /\ data' \in [Fields -> Seq(Char)]
        /\ \A f \in Fields : Len(data'[f]) <= Limit[f]
    BY <1>1, <2>4 DEF TypeOK
  <2> QED
    BY <1>8, <2>1, <2>2, <2>4, <2>6, <2>7
<1>12. CASE IsEnd(t, c)
  <2>1. ~ Ended(def, input) /\ c = LineEnd[def] /\ ~ Stores(t.action)
    BY <1>12 DEF IsEnd, Stores, Fields
  <2>2. /\ Ended(def, input') /\ TextLength(def, input') = n
        /\ Grammatical(def, input') <=> (def = "pop3" => n >= CMD_LENGTH)
    BY <1>1, <1>2, <2>1, TextEnds DEF n
  <2>3. /\ def = "pop3" => /\ phase' = "feeding" /\ n >= CMD_LENGTH
                            /\ state' = ARGST + 1
        /\ def = "config" => phase' = "parsed"
        /\ answer' = "none" /\ parser_state' = "READING" /\ state' \in Nat
    <3>1. CASE def = "pop3"
      <4>1. Response(t.action) = "READING" /\ t.dest = ARGST + 1 /\ n >= CMD_LENGTH
        BY <1>12, <3>1 DEF IsEnd, Response, n
      <4> QED
        BY <1>1, <1>2, <1>3, <3>1, <4>1, Lengths DEF ARGST
    <3>2. CASE def = "config"
      <4>1. Response(t.action) = "FINISHED" /\ t.dest \in Nat
        BY <1>12, <2>1, <3>2 DEF IsEnd, Response
      <4> QED
        BY <1>1, <1>2, <1>3, <3>2, <4>1
    <3> QED
      BY <1>1, <3>1, <3>2
  <2>4. TypeOK'
    <3>1. data' = data /\ def' = def
      BY <1>2, <1>10, <2>1
    <3>2. phase' \in {"feeding", "parsed"}
      BY <1>1, <2>3
    <3> QED
      BY <1>1, <1>5, <2>3, <3>1, <3>2 DEF TypeOK
  <2>5. RecognisesGrammar'
    BY <1>1, <1>2, <2>2, <2>3 DEF RecognisesGrammar
  <2>6. FieldsHoldInput'
    BY <1>2, <1>10, <2>1, <2>2 DEF FieldsHoldInput, Filled, FilledAt
  <2>7. StateCounts'
    BY <1>1, <1>2, <2>2, <2>3 DEF StateCounts
  <2> QED
    BY <2>3, <2>4, <2>5, <2>6, <2>7 DEF ParserInv, OnlyWholeCommandsRun, CallerLoop
<1>13. CASE IsRefused(t, c)
  <2>1. Response(t.action) = "ERROR" /\ ~ Stores(t.action)
    BY <1>13 DEF IsRefused, Response, Fields
  <2>2. /\ phase' = "idle" /\ parser_state' = "ERROR" /\ data' = data
        /\ answer' = "unknown command" /\ state' \in Nat
    BY <1>2, <1>3, <1>13, <2>1 DEF IsRefused
  <2>3. TypeOK'
    BY <1>1, <1>2, <1>5, <2>2 DEF TypeOK
  <2>4. RecognisesGrammar'
    BY <1>2, <1>13, <2>2 DEF RecognisesGrammar, IsRefused
  <2> QED
    BY <2>2, <2>3, <2>4 DEF ParserInv, FieldsHoldInput, OnlyWholeCommandsRun,
                            StateCounts, CallerLoop
<1> QED
  BY <1>4, <1>9, <1>11, <1>12, <1>13
-----------------------------------------------------------------------------
(***************************************************************************)
(* The other steps, and the theorems.                                      *)
(***************************************************************************)
LEMMA EmptyText ==
    ASSUME NEW d \in {"pop3", "config"}
    PROVE  Grammatical(d, <<>>) /\ ~ Ended(d, <<>>) /\ TextLength(d, <<>>) = 0
<1>1. Len(<<>>) = 0 /\ <<>> \in Seq(Char)
  BY EmptySeq
<1> QED
  BY <1>1 DEF Grammatical, Ended, TextLength

\* The state of a parser that has been fed nothing.
Fresh ==
    /\ def \in {"pop3", "config"} /\ input = <<>> /\ state = 0
    /\ data = [f \in Fields |-> <<>>] /\ parser_state = "READING"
    /\ phase \in {"idle", "feeding"} /\ answer = "none"

LEMMA NewParser == Fresh => ParserInv
<1> SUFFICES ASSUME Fresh PROVE ParserInv
  OBVIOUS
<1> USE DEF Fresh
<1>1. Len(<<>>) = 0 /\ <<>> \in Seq(Char)
  BY EmptySeq
<1>2. TypeOK
  BY <1>1, FieldLengths DEF TypeOK
<1>3. RecognisesGrammar
  BY EmptyText DEF RecognisesGrammar
<1>4. FieldsHoldInput
  <2>1. FieldsOf[def] \subseteq Fields
    BY Pop3Layout, ConfigLayout DEF Fields
  <2>2. \A f \in FieldsOf[def] : Filled(f) = 0
    BY <2>1, EmptyText, FieldLengths DEF Filled
  <2> QED
    BY <1>1, <2>1, <2>2 DEF FieldsHoldInput
<1>5. StateCounts
  <2>1. LastState \in Nat /\ LastState > 0
    BY Lengths DEF LastState, ARGST, OPERATION_0, OBJECT_CODE_0, ARGUMENT
  <2> QED
    BY <1>1, <2>1, EmptyText DEF StateCounts
<1> QED
  BY <1>2, <1>3, <1>4, <1>5 DEF ParserInv, OnlyWholeCommandsRun, CallerLoop

LEMMA NewParserNext == Fresh' => ParserInv'
BY NewParser, PTL

\* Whole fields make a whole command.
LEMMA WholeCommand ==
    ASSUME ParserInv, phase = "parsed",
           \/ def = "pop3" /\ CanBeName("cmd")
           \/ def = "config" /\ CanBeName("object_code")
    PROVE  Grammatical(def, input) /\ TextLength(def, input) >= Mandatory[def]
<1>1. parser_state = "READING" /\ Grammatical(def, input) /\ FieldsHoldInput
  BY DEF ParserInv, CallerLoop, RecognisesGrammar
<1>2. TextLength(def, input) \in Nat
  <2>1. input \in Seq(Char)
    BY DEF ParserInv, TypeOK
  <2> QED
    BY <2>1, EmptySeq, LenProperties DEF TextLength, Ended
<1>3. CASE def = "pop3"
  <2>1. Filled("cmd") = CMD_LENGTH
    BY <1>1, <1>3, Pop3Layout DEF CanBeName, FieldsHoldInput, Limit
  <2> QED
    BY <1>1, <1>2, <1>3, <2>1, Lengths DEF Filled, Start, Limit, Mandatory
<1>4. CASE def = "config"
  <2>1. Filled("object_code") = OBJECT_CODE_LENGTH
    BY <1>1, <1>4, ConfigLayout DEF CanBeName, FieldsHoldInput, Limit
  <2>2. /\ Start["object_code"] = TOKEN_LENGTH + OPERATION_LENGTH + 2
        /\ Limit["object_code"] = OBJECT_CODE_LENGTH
        /\ Mandatory["config"] = TOKEN_LENGTH + OPERATION_LENGTH + OBJECT_CODE_LENGTH + 2
    BY DEF Start, Limit, Mandatory
  <2> QED
    BY <1>1, <1>2, <1>4, <2>1, <2>2, Lengths DEF Filled
<1> QED
  BY <1>3, <1>4

\* Steps that leave the parser as it is.
LEMMA ParserKept ==
    ASSUME ParserInv, phase = "parsed" \/ phase' = "parsed",
           UNCHANGED <<def, state, parser_state, data, input>>,
           phase' \in {"idle", "parsed"}, TypeOK',
           phase' = "parsed" => answer' = "none" /\ phase = "feeding",
           answer' = "run" => Grammatical(def, input)
                              /\ TextLength(def, input) >= Mandatory[def]
    PROVE  ParserInv'
<1>1. RecognisesGrammar'
  BY DEF ParserInv, RecognisesGrammar
<1>2. FieldsHoldInput'
  BY DEF ParserInv, FieldsHoldInput, Filled
<1>3. OnlyWholeCommandsRun' /\ StateCounts'
  BY DEF OnlyWholeCommandsRun, StateCounts
<1>4. CallerLoop'
  BY DEF ParserInv, CallerLoop
<1> QED
  BY <1>1, <1>2, <1>3, <1>4 DEF ParserInv

LEMMA ParserInvInductive ==
    ASSUME ParserInv, [Next]_vars
    PROVE  ParserInv'
<1>1. ASSUME parser_init
      PROVE  ParserInv'
  BY <1>1, NewParserNext DEF parser_init, NewData, Fresh
<1>2. ASSUME NEW c \in Char, parser_feed(c)
      PROVE  ParserInv'
  BY <1>2, FeedStep
<1>3. ASSUME input_ends
      PROVE  ParserInv'
  <2>1. TypeOK'
    BY <1>3 DEF ParserInv, TypeOK, input_ends
  <2> QED
    BY <1>3, <2>1, ParserKept DEF ParserInv, CallerLoop, input_ends
<1>4. ASSUME parse_input
      PROVE  ParserInv'
  <2>1. TypeOK'
    BY <1>4 DEF ParserInv, TypeOK, parse_input, accept_arguments
  <2>2. answer' = "run" => CanBeName("cmd")
    BY <1>4, Zenon DEF parse_input
  <2> QED
    BY <1>4, <2>1, <2>2, ParserKept, WholeCommand DEF parse_input
<1>5. ASSUME config_parse_input
      PROVE  ParserInv'
  <2>1. TypeOK'
    BY <1>5 DEF ParserInv, TypeOK, config_parse_input, is_valid_get_set,
           get_config_command
  <2>2. answer' = "run" => CanBeName("object_code")
    BY <1>5 DEF config_parse_input, is_valid_get_set
  <2> QED
    BY <1>5, <2>1, <2>2, ParserKept, WholeCommand DEF config_parse_input
<1>6. ASSUME parser_init_fails
      PROVE  ParserInv'
  BY <1>6 DEF parser_init_fails, ParserInv, TypeOK, RecognisesGrammar,
              FieldsHoldInput, Filled, OnlyWholeCommandsRun, StateCounts, CallerLoop
<1>7. ASSUME UNCHANGED vars
      PROVE  ParserInv'
  BY <1>7 DEF vars, ParserInv, TypeOK, RecognisesGrammar, FieldsHoldInput, Filled,
              OnlyWholeCommandsRun, StateCounts, LastState, CallerLoop
<1> QED
  BY <1>1, <1>2, <1>3, <1>4, <1>5, <1>6, <1>7 DEF Next, process_ended

LEMMA ParserInvHolds == Spec => []ParserInv
<1>1. Init => ParserInv
  BY NewParser DEF Init, Fresh
<1>2. ParserInv /\ [Next]_vars => ParserInv'
  BY ParserInvInductive
<1> QED
  BY <1>1, <1>2, PTL DEF Spec

(***************************************************************************)
(* Whatever the lengths of the fields, no field is ever filled beyond      *)
(* them, so every array of pop3_parser_data and config_parser_data keeps   *)
(* its final NUL.                                                          *)
(***************************************************************************)
THEOREM ParserTypes == Spec => []TypeOK
<1>1. ParserInv => TypeOK
  BY DEF ParserInv
<1> QED
  BY <1>1, ParserInvHolds, PTL

(***************************************************************************)
(* Whatever the lengths of the fields, the tables of transitions of both   *)
(* automata, run by parser_feed, refuse exactly the texts that are not of  *)
(* the grammar.                                                            *)
(***************************************************************************)
THEOREM ParserRecognises == Spec => []RecognisesGrammar
<1>1. ParserInv => RecognisesGrammar
  BY DEF ParserInv
<1> QED
  BY <1>1, ParserInvHolds, PTL

(***************************************************************************)
(* The fields given to a handler are the characters received at their      *)
(* places.                                                                 *)
(***************************************************************************)
THEOREM ParserKeepsFields == Spec => []FieldsHoldInput
<1>1. ParserInv => FieldsHoldInput
  BY DEF ParserInv
<1> QED
  BY <1>1, ParserInvHolds, PTL

(***************************************************************************)
(* A handler only ever runs for a whole command of the grammar.            *)
(***************************************************************************)
THEOREM ParserRunsWholeCommands == Spec => []OnlyWholeCommandsRun
<1>1. ParserInv => OnlyWholeCommandsRun
  BY DEF ParserInv
<1> QED
  BY <1>1, ParserInvHolds, PTL
=============================================================================
