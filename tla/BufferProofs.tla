----------------------------- MODULE BufferProofs -----------------------------
(***************************************************************************)
(* The byte buffer never misplaces a byte, for every size and every amount *)
(* of data: proofs about module Buffer.                                    *)
(***************************************************************************)
EXTENDS Buffer, TLAPS

(* The invariant is inductive as it stands: that the pointers are ordered   *)
(* keeps the array's indices in range, and only an empty buffer at its     *)
(* front can offer the whole array.                                        *)
BufferInv == TypeOK /\ PointersOrdered /\ Contents /\ EmptyOffersAll

(* What compaction does to a buffer with pointers r <= w: the unread bytes  *)
(* are the same, from the front of the array on.                           *)
LEMMA CompactedKeepsUnread ==
    ASSUME mem \in [1..Size -> Nat], NEW r \in Nat, NEW w \in Nat,
           r <= w, w <= Size
    PROVE  /\ Compacted(r, w).mem \in [1..Size -> Nat]
           /\ Compacted(r, w).read = 0
           /\ Compacted(r, w).write = w - r
           /\ \A i \in 1..(w - r) : Compacted(r, w).mem[i] = mem[r + i]
<1>1. CASE r = 0
  BY <1>1, SizeAssumption DEF Compacted
<1>2. CASE r # 0 /\ r = w
  BY <1>2, SizeAssumption DEF Compacted
<1>3. CASE r # 0 /\ r # w
  <2> DEFINE m == [i \in 1..Size |-> IF i <= w - r THEN mem[i + r] ELSE mem[i]]
  <2>1. Compacted(r, w) = [mem |-> m, read |-> 0, write |-> w - r]
    BY <1>3 DEF Compacted
  <2>2. m \in [1..Size -> Nat]
    <3>1. \A i \in 1..Size : i <= w - r => i + r \in 1..Size
      BY SizeAssumption
    <3> QED BY <3>1, SizeAssumption
  <2>3. ASSUME NEW i \in 1..(w - r) PROVE m[i] = mem[r + i]
    <3>1. i \in 1..Size /\ i <= w - r /\ i + r = r + i
      BY SizeAssumption
    <3> QED BY <3>1
  <2> HIDE DEF m
  <2> QED BY <2>1, <2>2, <2>3
<1> QED BY <1>1, <1>2, <1>3

LEMMA BufferInit == Init => BufferInv
BY SizeAssumption
DEF Init, BufferInv, TypeOK, PointersOrdered, Contents, EmptyOffersAll,
    limit, buffer_can_read, WriteSpace

LEMMA WriteStep ==
    ASSUME BufferInv, NEW n \in 1..Size, WriteAdv(n)
    PROVE  BufferInv'
<1> USE SizeAssumption
<1> USE DEF BufferInv, TypeOK, PointersOrdered, limit, WriteSpace
<1>1. /\ n \in Nat /\ n > 0 /\ write + n <= Size
      /\ read' = read /\ write' = write + n
      /\ written' = written + n /\ taken' = taken
  BY DEF WriteAdv
<1>2. mem' = [i \in 1..Size |-> IF i \in write + 1 .. write + n
                                THEN written + (i - write) ELSE mem[i]]
  BY DEF WriteAdv
<1>3. TypeOK' /\ PointersOrdered'
  <2>1. mem' \in [1..Size -> Nat]
    BY <1>1, <1>2
  <2> QED BY <1>1, <2>1
<1>4. Contents'
  <2>1. write' - read' = written' - taken'
    BY <1>1 DEF Contents
  <2>2. ASSUME NEW i \in 1..(write' - read')
        PROVE  mem'[read' + i] = taken' + i
    <3>1. read + i \in 1..Size
      BY <1>1, <2>2
    <3>2. CASE i <= write - read
      <4>1. mem'[read + i] = mem[read + i]
        BY <1>1, <1>2, <3>1, <3>2
      <4> QED BY <1>1, <4>1, <3>2 DEF Contents
    <3>3. CASE i > write - read
      <4>1. mem'[read + i] = written + (read + i - write)
        BY <1>1, <1>2, <3>1, <3>3
      <4>2. written - write = taken - read
        BY DEF Contents
      <4> QED BY <1>1, <4>1, <4>2
    <3> QED BY <3>2, <3>3, <1>1
  <2> QED BY <2>1, <2>2 DEF Contents
<1>5. EmptyOffersAll'
  BY <1>1 DEF EmptyOffersAll, buffer_can_read
<1> QED BY <1>3, <1>4, <1>5

LEMMA CompactStep ==
    ASSUME BufferInv, NEW n \in 0..(write - read),
           BecomeCompacted(read + n, write),
           taken' = taken + n, written' = written
    PROVE  BufferInv'
<1> USE SizeAssumption
<1> USE DEF BufferInv, TypeOK, PointersOrdered, limit
<1>0. read + n \in Nat /\ read + n <= write /\ write <= Size
  OBVIOUS
<1>1. /\ mem' \in [1..Size -> Nat]
      /\ read' = 0 /\ write' = write - (read + n)
      /\ \A i \in 1..(write - (read + n)) : mem'[i] = mem[(read + n) + i]
  BY <1>0, CompactedKeepsUnread DEF BecomeCompacted
<1>2. TypeOK' /\ PointersOrdered'
  BY <1>0, <1>1
<1>3. Contents'
  <2>1. write' - read' = written' - taken'
    BY <1>1 DEF Contents
  <2>2. ASSUME NEW i \in 1..(write' - read')
        PROVE  mem'[read' + i] = taken' + i
    <3>1. n + i \in 1..(write - read) /\ i \in Nat
      BY <1>1, <2>2
    <3>2. mem[read + (n + i)] = taken + (n + i)
      BY <3>1 DEF Contents
    <3>3. (read + n) + i = read + (n + i) /\ read' + i = i
      BY <1>1, <3>1
    <3> QED BY <1>1, <3>1, <3>2, <3>3, <2>2
  <2> QED BY <2>1, <2>2 DEF Contents
<1>4. EmptyOffersAll'
  BY <1>0, <1>1 DEF EmptyOffersAll, buffer_can_read, WriteSpace
<1> QED BY <1>2, <1>3, <1>4

LEMMA ReadStep ==
    ASSUME BufferInv, NEW n \in 1..Size, ReadAdv(n)
    PROVE  BufferInv'
<1> USE SizeAssumption
<1> USE DEF BufferInv, TypeOK, PointersOrdered, limit, ReadSpace
<1>0. n \in 0..(write - read) /\ taken' = taken + n /\ written' = written
  BY DEF ReadAdv
<1>1. CASE read + n = write
  BY <1>0, <1>1, CompactStep DEF ReadAdv
<1>2. CASE read + n # write
  <2>1. read' = read + n /\ mem' = mem /\ write' = write
    BY <1>2 DEF ReadAdv
  <2>2. TypeOK' /\ PointersOrdered' /\ EmptyOffersAll'
    BY <1>0, <1>2, <2>1 DEF EmptyOffersAll, buffer_can_read
  <2>3. Contents'
    <3>1. write' - read' = written' - taken'
      BY <1>0, <2>1 DEF Contents
    <3>2. ASSUME NEW i \in 1..(write' - read')
          PROVE  mem'[read' + i] = taken' + i
      <4>1. n + i \in 1..(write - read) /\ read' + i = read + (n + i)
        BY <1>0, <2>1, <3>2
      <4>2. mem[read + (n + i)] = taken + (n + i)
        BY <4>1 DEF Contents
      <4> QED BY <1>0, <2>1, <4>1, <4>2
    <3> QED BY <3>1, <3>2 DEF Contents
  <2> QED BY <2>2, <2>3
<1> QED BY <1>1, <1>2

LEMMA ResetStep ==
    ASSUME BufferInv, buffer_reset
    PROVE  BufferInv'
BY SizeAssumption
DEF BufferInv, TypeOK, PointersOrdered, Contents, EmptyOffersAll,
    buffer_reset, limit, buffer_can_read, WriteSpace

LEMMA BufferStep == BufferInv /\ [Next]_bufVars => BufferInv'
<1> SUFFICES ASSUME BufferInv, [Next]_bufVars PROVE BufferInv'
  OBVIOUS
<1>1. ASSUME NEW n \in 1..Size, WriteAdv(n) PROVE BufferInv'
  BY <1>1, WriteStep
<1>2. ASSUME NEW n \in 1..Size, ReadAdv(n) PROVE BufferInv'
  BY <1>2, ReadStep
<1>3. CASE WriteByte
  <2>1. 1 \in 1..Size /\ WriteAdv(1)
    BY <1>3, SizeAssumption DEF WriteByte, WriteAdv, WriteSpace, limit,
       BufferInv, TypeOK
  <2> QED BY <2>1, WriteStep
<1>4. CASE buffer_compact
  <2>1. /\ read + 0 = read /\ taken' = taken + 0 /\ written' = written
        /\ 0 \in 0..(write - read)
    BY <1>4 DEF buffer_compact, BufferInv, TypeOK, PointersOrdered
  <2>2. BecomeCompacted(read + 0, write)
    BY <1>4, <2>1 DEF buffer_compact
  <2> QED BY <2>1, <2>2, CompactStep
<1>5. CASE buffer_reset
  BY <1>5, ResetStep
<1>6. CASE UNCHANGED bufVars
  BY <1>6 DEF bufVars, BufferInv, TypeOK, PointersOrdered, Contents,
     EmptyOffersAll, buffer_can_read, WriteSpace, limit
<1> QED BY <1>1, <1>2, <1>3, <1>4, <1>5, <1>6 DEF Next

(* The invariant buffer.h states holds of every buffer, whatever its size. *)
THEOREM PointersStayOrdered == Spec => []PointersOrdered
<1>1. BufferInv => PointersOrdered
  BY DEF BufferInv
<1> QED BY <1>1, BufferInit, BufferStep, PTL DEF Spec

(* What a reader gets from a buffer is what was written to it, in order,   *)
(* wherever compactions and resets fall.                                   *)
THEOREM BytesInOrder == Spec => []Contents
<1>1. BufferInv => Contents
  BY DEF BufferInv
<1> QED BY <1>1, BufferInit, BufferStep, PTL DEF Spec

(* A buffer that was read to the end offers its whole array to the writer. *)
THEOREM EmptyBufferIsWhole == Spec => []EmptyOffersAll
<1>1. BufferInv => EmptyOffersAll
  BY DEF BufferInv
<1> QED BY <1>1, BufferInit, BufferStep, PTL DEF Spec

(* Both pointers are indices, and every byte of the array has a number, in *)
(* every state: in particular no reader moves a pointer below the start.   *)
THEOREM BufferTypes == Spec => []TypeOK
<1>1. BufferInv => TypeOK
  BY DEF BufferInv
<1> QED BY <1>1, BufferInit, BufferStep, PTL DEF Spec
===============================================================================
