-------------------------------- MODULE Buffer --------------------------------
(***************************************************************************)
(* buffer.c: a byte buffer with a read pointer and a write pointer, of     *)
(* which each Connection has three and the configuration server two.       *)
(*                                                                         *)
(* Pointers are offsets from b->data: byte i of the array is mem[i + 1].   *)
(* Bytes handed to the buffer are numbered in the order of their arrival,  *)
(* so that what is read can be told from what should be: `written' and     *)
(* `taken' count them.  Writers use only what buffer_write_ptr offers, and *)
(* readers what buffer_read_ptr offers, as every caller in the server does.*)
(***************************************************************************)
EXTENDS Integers, Sequences

CONSTANTS
    Size,       \* n of buffer_init: MAX_BYTES or INITIAL_BUFFER_SIZE
    MaxBytes    \* bound: bytes written to the buffer in a behaviour

ASSUME SizeAssumption == Size \in Nat /\ MaxBytes \in Nat

VARIABLES
    mem,       \* [1..Size -> number of the byte there, 0 if none yet]
    read,      \* b->read - b->data
    write,     \* b->write - b->data
    written,   \* history: bytes ever written
    taken      \* history: bytes read, or dropped by a reset

bufVars == <<mem, read, write, written, taken>>

(* b->limit - b->data: set once, by buffer_init *)
limit == Size

Init ==
    /\ mem = [i \in 1..Size |-> 0]
    /\ read = 0 /\ write = 0
    /\ written = 0 /\ taken = 0

buffer_can_read  == write - read > 0
buffer_can_write == limit - write > 0

(* What buffer_write_ptr and buffer_read_ptr return through nbyte *)
WriteSpace == limit - write
ReadSpace  == write - read

-----------------------------------------------------------------------------
(* buffer_write_ptr, the caller's copy of n bytes, and buffer_write_adv *)
WriteAdv(n) ==
    /\ n \in 1..WriteSpace
    /\ written + n <= MaxBytes
    /\ mem' = [i \in 1..Size |->
                  IF i \in write + 1 .. write + n
                  THEN written + (i - write) ELSE mem[i]]
    /\ write' = write + n
    /\ written' = written + n
    /\ UNCHANGED <<read, taken>>

(* buffer_write: one byte, dropped when there is no room *)
WriteByte ==
    /\ buffer_can_write
    /\ WriteAdv(1)

(* Mutant: the write pointer is left one short of the bytes moved. *)
Compacted_short(r, w) ==
    IF r = 0 THEN [mem |-> mem, read |-> r, write |-> w]
    ELSE [mem   |-> [i \in 1..Size |-> IF i <= w - r THEN mem[i + r] ELSE mem[i]],
          read  |-> 0,
          write |-> w - r - 1]

(* Mutant: the bytes are not moved when the pointers are. *)
Compacted_in_place(r, w) ==
    IF r = 0 THEN [mem |-> mem, read |-> r, write |-> w]
    ELSE [mem |-> mem, read |-> 0, write |-> w - r]

(* buffer_compact, of a buffer whose pointers are r and w: memmove of the  *)
(* unread bytes to the front.  Nothing moves when nothing was read, and    *)
(* only the pointers do when everything was.                               *)
Compacted(r, w) ==
    IF r = 0 THEN [mem |-> mem, read |-> r, write |-> w]
    ELSE IF r = w THEN [mem |-> mem, read |-> 0, write |-> 0]
    ELSE [mem   |-> [i \in 1..Size |-> IF i <= w - r THEN mem[i + r] ELSE mem[i]],
          read  |-> 0,
          write |-> w - r]

BecomeCompacted(r, w) ==
    /\ mem'   = Compacted(r, w).mem
    /\ read'  = Compacted(r, w).read
    /\ write' = Compacted(r, w).write

(* Mutant: reading does not compact when it has caught up. *)
ReadAdv_lazy(n) ==
    /\ n \in 1..ReadSpace
    /\ read' = read + n
    /\ taken' = taken + n
    /\ UNCHANGED <<mem, write, written>>

(* buffer_read_ptr, the caller's use of n bytes, and buffer_read_adv, which *)
(* compacts when it has caught up; buffer_read is the case n = 1.           *)
ReadAdv(n) ==
    /\ n \in 1..ReadSpace
    /\ IF read + n = write
       THEN BecomeCompacted(read + n, write)
       ELSE read' = read + n /\ UNCHANGED <<mem, write>>
    /\ taken' = taken + n
    /\ UNCHANGED written

buffer_compact ==
    /\ BecomeCompacted(read, write)
    /\ UNCHANGED <<written, taken>>

(* buffer_reset drops what was not read *)
buffer_reset ==
    /\ read' = 0 /\ write' = 0
    /\ taken' = written
    /\ UNCHANGED <<mem, written>>

Next ==
    \/ \E n \in 1..Size : WriteAdv(n) \/ ReadAdv(n)
    \/ WriteByte
    \/ buffer_compact
    \/ buffer_reset

Spec == Init /\ [][Next]_bufVars

-----------------------------------------------------------------------------
(* Properties *)

(* The types; in particular no byte is stored outside the array.           *)
TypeOK ==
    /\ mem \in [1..Size -> Nat]
    /\ read \in Nat /\ write \in Nat
    /\ written \in Nat /\ taken \in Nat

(* The invariant buffer.h states: R <= W <= limit. *)
PointersOrdered == read <= write /\ write <= limit

(* What lies between the pointers is exactly what was written and not yet  *)
(* read, in the order it was written: compaction neither loses, repeats    *)
(* nor reorders a byte, at whatever point it happens.                      *)
Contents ==
    /\ write - read = written - taken
    /\ \A i \in 1..(write - read) : mem[read + i] = taken + i

(* A buffer that has been read to the end offers its whole array again. *)
EmptyOffersAll == ~buffer_can_read => WriteSpace = Size
=============================================================================
