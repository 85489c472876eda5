--------------------------- MODULE CommandFraming ----------------------------
(***************************************************************************)
(* How the bytes a client sends become commands: the receiving loop of     *)
(* pop3_handle_connection (server_utils.c), for one session.               *)
(*                                                                         *)
(* recv appends to the read buffer as many bytes as have come, in pieces   *)
(* of any length; every "\r\n" found from base_pointer on ends a command,  *)
(* which is handed to parse_input where it lies in the buffer.  The buffer *)
(* is memory of the Connection, so what lies beyond the bytes received is  *)
(* whatever was there before.  strstr, parse_input and the log read it as  *)
(* a string, up to a NUL: the one put behind the bytes received, or, when  *)
(* they are too many, none.  Clients send text: no NUL byte.               *)
(***************************************************************************)
EXTENDS Integers, Sequences

CONSTANTS
    Capacity,      \* MAX_BYTES, the size of read_buff
    MaxCommand,    \* MAX_COMMAND_LENGTH
    Residue,       \* what read_buff may hold when the session starts
    Excess         \* the texts that recv may return once they are too long:
                   \* all of them, or some for TLC

Byte == {"x", "CR", "LF", "NUL"}
Text == Byte \ {"NUL"}
Offset == 0 .. Capacity - 1

ASSUME FramingAssumption ==
    /\ Capacity \in Nat
    /\ MaxCommand \in Nat
    /\ MaxCommand < Capacity
    /\ Residue \subseteq [Offset -> Byte]
    /\ Excess \subseteq Seq(Text)

VARIABLES
    pc,          \* "recv", "scan" (the loop over complete commands),
                 \* "too_long" (logged and refused), "over"
    mem,         \* read_buff
    write,       \* info_read_buff.write - read_buff
    base,        \* base_pointer - read_buff
    total,       \* total_bytes_read
    bytes_read,  \* what recv returned last
    refused,     \* "-ERR Command exceds buffer size" was sent
    before,      \* history: what read_buff held when the session started
    received,    \* history: the bytes the buffer was advanced by
    executed     \* history: the commands given to parse_input

frameVars == <<pc, mem, write, base, total, bytes_read, refused, before,
               received, executed>>

Init ==
    /\ pc = "recv"
    /\ mem \in Residue
    /\ before = mem
    /\ write = 0 /\ base = 0
    /\ total = 0 /\ bytes_read = 0
    /\ refused = FALSE
    /\ received = <<>> /\ executed = <<>>

available_space == Capacity - write

(* The memory once recv has put `bytes' at ptr *)
Received(bytes) ==
    [i \in Offset |->
        IF i \in write .. write + Len(bytes) - 1 THEN bytes[i - write + 1]
        ELSE mem[i]]

(* "\r\n" is at i, in the string that starts at base_pointer *)
IsEnd(i) ==
    /\ i \in base .. Capacity - 2
    /\ mem[i] = "CR" /\ mem[i + 1] = "LF"
    /\ \A j \in base .. i - 1 : mem[j] # "NUL"

(* strstr(base_pointer, "\r\n") = i *)
IsNextEnd(i) == IsEnd(i) /\ \A j \in base .. i - 1 : ~IsEnd(j)

-----------------------------------------------------------------------------
(* Mutant: what one recv returns is tested, not the total. *)
recv_text_each(bytes) ==
    /\ pc = "recv"
    /\ Len(bytes) \in 1..available_space
    /\ Len(bytes) <= MaxCommand
    /\ mem' = [Received(bytes) EXCEPT ![write + Len(bytes)] = "NUL"]
    /\ write' = write + Len(bytes)
    /\ total' = total + Len(bytes)
    /\ bytes_read' = Len(bytes)
    /\ received' = received \o bytes
    /\ pc' = "scan"
    /\ UNCHANGED <<base, refused, before, executed>>

(* Mutant: no NUL is put behind what was received. *)
recv_text_open(bytes) ==
    /\ pc = "recv"
    /\ Len(bytes) \in 1..available_space
    /\ total + Len(bytes) <= MaxCommand
    /\ mem' = Received(bytes)
    /\ write' = write + Len(bytes)
    /\ total' = total + Len(bytes)
    /\ bytes_read' = Len(bytes)
    /\ received' = received \o bytes
    /\ pc' = "scan"
    /\ UNCHANGED <<base, refused, before, executed>>

(* recv returns bytes, and not too many of them in all *)
recv_text(bytes) ==
    /\ pc = "recv"
    /\ Len(bytes) \in 1..available_space
    /\ total + Len(bytes) <= MaxCommand
    /\ mem' = [Received(bytes) EXCEPT ![write + Len(bytes)] = "NUL"]
    /\ write' = write + Len(bytes)
    /\ total' = total + Len(bytes)
    /\ bytes_read' = Len(bytes)
    /\ received' = received \o bytes
    /\ pc' = "scan"
    /\ UNCHANGED <<base, refused, before, executed>>

(* recv returns bytes, and with them the total is above the limit: they    *)
(* are in the buffer, with no NUL put behind them, and are logged as the   *)
(* string that starts at ptr.  No command is looked for in them.           *)
recv_too_long(bytes) ==
    /\ pc = "recv"
    /\ Len(bytes) \in 1..available_space
    /\ total + Len(bytes) > MaxCommand
    /\ mem' = Received(bytes)
    /\ total' = total + Len(bytes)
    /\ bytes_read' = Len(bytes)
    /\ pc' = "too_long"
    /\ UNCHANGED <<write, base, refused, before, received, executed>>

(* The answer, and the end of the session *)
refuse ==
    /\ pc = "too_long"
    /\ refused' = TRUE
    /\ pc' = "over"
    /\ write' = 0
    /\ UNCHANGED <<mem, base, total, bytes_read, before, received, executed>>

(* recv returns 0, the client is gone, or -1 *)
recv_ends(n) ==
    /\ pc = "recv"
    /\ n \in {0, -1}
    /\ total' = total + n
    /\ bytes_read' = n
    /\ pc' = "over"
    /\ write' = 0
    /\ UNCHANGED <<mem, base, refused, before, received, executed>>

(* Mutant: what was received behind the command is taken for read. *)
next_command_drops(i) ==
    /\ pc = "scan"
    /\ IsNextEnd(i)
    /\ mem' = [mem EXCEPT ![i] = "NUL"]
    /\ executed' = Append(executed,
                      [from |-> base, to |-> i,
                       text |-> [j \in 1 .. i - base |-> mem[base + j - 1]]])
    /\ base' = write
    /\ UNCHANGED <<pc, write, total, bytes_read, refused, before, received>>

(* The command that ends at i: its CR becomes a NUL, parse_input is given  *)
(* base_pointer, which then moves behind the "\r\n".                       *)
next_command(i) ==
    /\ pc = "scan"
    /\ IsNextEnd(i)
    /\ mem' = [mem EXCEPT ![i] = "NUL"]
    /\ executed' = Append(executed,
                      [from |-> base, to |-> i,
                       text |-> [j \in 1 .. i - base |-> mem[base + j - 1]]])
    /\ base' = i + 2
    /\ UNCHANGED <<pc, write, total, bytes_read, refused, before, received>>

no_command ==
    /\ pc = "scan"
    /\ \A i \in Offset : ~IsEnd(i)
    /\ pc' = "recv"
    /\ UNCHANGED <<mem, write, base, total, bytes_read, refused, before,
                   received, executed>>

Next ==
    \/ \E n \in 1..MaxCommand : \E bytes \in [1..n -> Text] : recv_text(bytes)
    \/ \E bytes \in Excess : recv_too_long(bytes)
    \/ refuse
    \/ \E n \in {0, -1} : recv_ends(n)
    \/ \E i \in Offset : next_command(i)
    \/ no_command

Spec == Init /\ [][Next]_frameVars

-----------------------------------------------------------------------------
(* Properties *)

Command == [from : Nat, to : Nat, text : Seq(Text)]

(* The types; while a session lasts it has received at most MaxCommand     *)
(* bytes, which is what keeps every offset inside the buffer.              *)
TypeOK ==
    /\ pc \in {"recv", "scan", "too_long", "over"}
    /\ mem \in [Offset -> Byte]
    /\ write \in 0..MaxCommand
    /\ base \in Nat
    /\ total \in Int /\ bytes_read \in Int
    /\ refused \in BOOLEAN
    /\ before \in [Offset -> Byte]
    /\ received \in Seq(Text)
    /\ executed \in Seq(Command)

(* The string that starts at i has its NUL inside read_buff. *)
EndsInBuffer(i) == \E j \in i .. Capacity - 1 : mem[j] = "NUL"

(* Where the reads of the buffer as a string end.  Those of strstr, of     *)
(* parse_input and of the log of what came end at the NUL that was put     *)
(* behind the bytes received, which falls inside read_buff.  That of the   *)
(* log of a too long text does not: past the text it reads what the memory *)
(* held before the session, and past read_buff unless a NUL is among it.   *)
StringsEnd ==
    /\ pc = "scan" => base <= write /\ write \in Offset /\ mem[write] = "NUL"
    /\ pc = "too_long" =>
         (EndsInBuffer(write) <=>
            \E j \in write + bytes_read .. Capacity - 1 : before[j] = "NUL")

(* The places of the stream where a line ends: 1 + the offset of its CR *)
LineEnds ==
    {k \in 1 .. Len(received) - 1 :
        received[k] = "CR" /\ received[k + 1] = "LF"}

(* However the stream was cut by TCP, the commands executed when the       *)
(* session waits for more are the lines that are complete: each line's end *)
(* ends one command, a command starts where the one before it ended, and   *)
(* its text is what the client sent there.                                 *)
ExecutedAreLines ==
    pc # "scan" =>
        /\ LineEnds = {executed[k].to + 1 : k \in DOMAIN executed}
        /\ \A k \in DOMAIN executed :
             /\ executed[k].from = IF k = 1 THEN 0 ELSE executed[k - 1].to + 2
             /\ executed[k].text =
                  SubSeq(received, executed[k].from + 1, executed[k].to)

=============================================================================
