----------------------------- MODULE MailTransfer -----------------------------
(***************************************************************************)
(* How RETR sends a mail file: the loops of retr_action and, on the way to *)
(* the transformation, of transform_completion (parser/pop3_parserADT.c).  *)
(*                                                                         *)
(* The file is read in chunks of BUFFER_SIZE bytes and sent byte by byte.  *)
(* A "." at the start of a line is preceded by another one, and a line     *)
(* that ends in a bare "\n" is given a "\r"; but what a byte follows is    *)
(* looked up in the chunk, and the first byte of a chunk follows nothing.  *)
(***************************************************************************)
EXTENDS Integers, Sequences

CONSTANTS
    Chunk,     \* BUFFER_SIZE
    Mails      \* the files there may be

Byte == {"x", ".", "CR", "LF"}

ASSUME TransferAssumption ==
    /\ Chunk \in Nat \ {0}
    /\ Mails \subseteq Seq(Byte)

VARIABLES
    file,    \* the file that is sent
    next,    \* number of the byte of the file to be sent next
    sent,    \* what was sent, from the end of the "+OK" line on
    pc       \* "body", "done"

transferVars == <<file, next, sent, pc>>

Crlf       == <<"CR", "LF">>
Terminator == <<"CR", "LF", ".", "CR", "LF">>     \* DOT_RESPONSE

Init ==
    /\ file \in Mails
    /\ next = 1
    /\ sent = Crlf
    /\ pc = "body"

-----------------------------------------------------------------------------
(* i == 0: the byte is the first of what fread returned *)
StartsChunk(p) == (p - 1) % Chunk = 0

(* buffer[i - 1] == b, where there is a buffer[i - 1] *)
Follows(p, b) == ~StartsChunk(p) /\ file[p - 1] = b

(* Mutant: the first byte of a chunk is not taken for the start of a line. *)
Stuffed_inside_chunk(p) == file[p] = "." /\ Follows(p, "LF")

Stuffed(p) == file[p] = "." /\ (StartsChunk(p) \/ Follows(p, "LF"))

(* Mutant: every end of a line gets a CR. *)
Returned_always(p) == file[p] = "LF"

Returned(p) == file[p] = "LF" /\ ~Follows(p, "CR")

(* What is sent for byte p of the file *)
Sending(p) ==
    IF Stuffed(p) THEN <<".", ".">>
    ELSE IF Returned(p) THEN <<"LF", "CR">>
    ELSE <<file[p]>>

(* Mutant: the loop also steps over a dot that was stuffed. *)
send_byte_twice ==
    /\ pc = "body"
    /\ next <= Len(file)
    /\ sent' = sent \o Sending(next)
    /\ next' = IF Stuffed(next) THEN next + 2 ELSE next + 1
    /\ UNCHANGED <<file, pc>>

send_byte ==
    /\ pc = "body"
    /\ next <= Len(file)
    /\ sent' = sent \o Sending(next)
    /\ next' = next + 1
    /\ UNCHANGED <<file, pc>>

send_dot ==
    /\ pc = "body"
    /\ next > Len(file)
    /\ sent' = sent \o Terminator
    /\ pc' = "done"
    /\ UNCHANGED <<file, next>>

Next == send_byte \/ send_dot

Spec == Init /\ [][Next]_transferVars

-----------------------------------------------------------------------------
(* Properties *)

(* The types; in particular the position stays within the mail.            *)
TypeOK ==
    /\ file \in Seq(Byte)
    /\ next \in 1 .. Len(file) + 1
    /\ sent \in Seq(Byte)
    /\ pc \in {"body", "done"}

EndsAt(k) ==
    /\ sent[k] = "CR" /\ sent[k + 1] = "LF" /\ sent[k + 2] = "."
    /\ sent[k + 3] = "CR" /\ sent[k + 4] = "LF"

(* The client finds the end of the mail where it is and nowhere before,    *)
(* whatever the mail holds and wherever the chunks are cut.                *)
NoEarlyTerminator ==
    \A k \in 1 .. Len(sent) - 4 :
        EndsAt(k) => pc = "done" /\ k = Len(sent) - 4

(* A mail as RFC 5322 has it: "\r" and "\n" only together, at the end of   *)
(* every line and of the mail.                                             *)
Canonical(m) ==
    /\ \A k \in DOMAIN m :
         /\ m[k] = "LF" => k > 1 /\ m[k - 1] = "CR"
         /\ m[k] = "CR" => k < Len(m) /\ m[k + 1] = "LF"
    /\ m # <<>> => m[Len(m)] = "LF"

(* What a client makes of s: it removes the first dot of a line that has   *)
(* one.  U[k] is what it made of the first k bytes.                        *)
Unstuffed(s) ==
    LET U[k \in 0 .. Len(s)] ==
          IF k = 0 THEN <<>>
          ELSE IF k > 2 /\ s[k] = "." /\ s[k - 1] = "LF" /\ s[k - 2] = "CR"
               THEN U[k - 1]
               ELSE Append(U[k - 1], s[k])
    IN  U[Len(s)]

(* No chunk starts with a dot inside a line, nor between "\r" and "\n".    *)
WellCut(m) ==
    \A k \in 2 .. Len(m) : StartsChunk(k) =>
        /\ m[k] = "." => m[k - 1] = "LF"
        /\ m[k] = "LF" => m[k - 1] # "CR"

(* A canonical mail arrives as it is, followed by one empty line, unless   *)
(* its chunks are cut where the code misreads them.                        *)
MailArrives ==
    pc = "done" /\ Canonical(file) /\ WellCut(file) =>
        Unstuffed(SubSeq(sent, 1, Len(sent) - 3)) = Crlf \o file \o Crlf

=============================================================================
