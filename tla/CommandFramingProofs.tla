------------------------- MODULE CommandFramingProofs -------------------------
(***************************************************************************)
(* Framing is right for every size of the buffer, every limit and every    *)
(* segmentation: proofs about module CommandFraming.                       *)
(***************************************************************************)
EXTENDS CommandFraming, TLAPS, SequenceTheorems

(* The buffer mirrors the part of the stream that is not executed yet, and *)
(* behind it and its NUL is what it was at the start.                      *)
Mirror ==
    /\ base <= Len(received)
    /\ pc \in {"recv", "scan"} =>
         /\ write = total /\ write = Len(received)
         /\ \A i \in base .. write - 1 : mem[i] = received[i + 1]
         /\ \A i \in write + 1 .. Capacity - 1 : mem[i] = before[i]
    /\ StringsEnd

(* The k-th command executed is a line of the stream. *)
IsLine(k) ==
    /\ executed[k].to \in Nat
    /\ executed[k].to + 1 \in LineEnds
    /\ executed[k].to + 2 <= base
    /\ executed[k].from = (IF k = 1 THEN 0 ELSE executed[k - 1].to + 2)
    /\ executed[k].from <= executed[k].to
    /\ executed[k].text =
         SubSeq(received, executed[k].from + 1, executed[k].to)

(* The commands executed are the lines that end before base_pointer. *)
Cuts ==
    /\ base = (IF executed = <<>> THEN 0 ELSE executed[Len(executed)].to + 2)
    /\ \A k \in DOMAIN executed : IsLine(k)
    /\ \A e \in LineEnds : e <= base =>
         \E k \in DOMAIN executed : executed[k].to + 1 = e
    /\ pc # "scan" => \A e \in LineEnds : e <= base

FramingInv == TypeOK /\ Mirror /\ Cuts

(* Sequences that agree up to b have the same subsequences up to b. *)
LEMMA SubSeqAgree ==
    ASSUME NEW S, NEW s \in Seq(S), NEW t \in Seq(S),
           NEW a \in Nat, NEW b \in Nat, a <= b, b <= Len(s), b <= Len(t),
           \A j \in 1..b : s[j] = t[j]
    PROVE  SubSeq(s, a + 1, b) = SubSeq(t, a + 1, b)
<1> DEFINE m == a + 1
<1>1. \A j \in m..b : s[j] \in S /\ t[j] \in S
  OBVIOUS
<1> HIDE DEF m
<1>0. m \in Nat /\ m >= 1 /\ m <= b + 1
  BY DEF m
<1>2. /\ SubSeq(s, m, b) \in Seq(S) /\ SubSeq(t, m, b) \in Seq(S)
      /\ Len(SubSeq(s, m, b)) = b - m + 1
      /\ Len(SubSeq(t, m, b)) = b - m + 1
      /\ \A j \in 1 .. b - m + 1 : SubSeq(s, m, b)[j] = s[m + j - 1]
      /\ \A j \in 1 .. b - m + 1 : SubSeq(t, m, b)[j] = t[m + j - 1]
  BY <1>0, <1>1, SubSeqProperties
<1>3. \A j \in 1 .. b - m + 1 : m + j - 1 \in 1..b
  BY <1>0
<1>4. SubSeq(s, m, b) = SubSeq(t, m, b)
  BY <1>2, <1>3, SeqEqual
<1> QED BY <1>4 DEF m

LEMMA FramingInit == Init => FramingInv
<1> SUFFICES ASSUME Init PROVE FramingInv
  OBVIOUS
<1>1. TypeOK
  <2>1. <<>> \in Seq(Text) /\ <<>> \in Seq(Command)
    BY EmptySeq
  <2>2. mem \in [Offset -> Byte] /\ before \in [Offset -> Byte]
    BY FramingAssumption DEF Init
  <2>3. received \in Seq(Text) /\ executed \in Seq(Command)
    BY <2>1, Zenon DEF Init
  <2>4. /\ pc \in {"recv", "scan", "too_long", "over"} /\ write \in 0..MaxCommand
        /\ base \in Nat /\ total \in Int /\ bytes_read \in Int
    <3>1. MaxCommand \in Nat
      BY FramingAssumption
    <3> QED BY <3>1 DEF Init
  <2>5. refused \in BOOLEAN
    BY Zenon DEF Init
  <2> QED BY <2>2, <2>3, <2>4, <2>5 DEF TypeOK
<1>2. Mirror
  BY DEF Init, Mirror, StringsEnd
<1>3. Cuts
  BY DEF Init, Cuts, LineEnds
<1> QED BY <1>1, <1>2, <1>3 DEF FramingInv

(* Behind a command there is the LF that ended it, so that no line end can *)
(* straddle base_pointer.                                                  *)
LEMMA BaseAfterLF ==
    ASSUME FramingInv, base # 0
    PROVE  received[base] = "LF"
<1>1. executed # <<>> /\ base = executed[Len(executed)].to + 2
  BY DEF FramingInv, Cuts
<1>2. Len(executed) \in DOMAIN executed
  <2>1. executed \in Seq(Command)
    BY DEF FramingInv, TypeOK
  <2> QED BY <1>1, <2>1, EmptySeq
<1>3. /\ executed[Len(executed)].to \in Nat
      /\ executed[Len(executed)].to + 1 \in LineEnds
  BY <1>2 DEF FramingInv, Cuts, IsLine
<1> QED BY <1>1, <1>3 DEF LineEnds

LEMMA RecvText ==
    ASSUME FramingInv, NEW n \in 1..MaxCommand, NEW bytes \in [1..n -> Text],
           recv_text(bytes)
    PROVE  FramingInv'
<1> USE FramingAssumption
<1>0. /\ bytes \in Seq(Text) /\ Len(bytes) = n /\ n \in Nat
      /\ \A i \in 1..n : bytes[i] \in Text
  OBVIOUS
<1>1. /\ pc = "recv" /\ pc' = "scan"
      /\ write' = write + n /\ total' = total + n /\ bytes_read' = n
      /\ total + n <= MaxCommand
      /\ received' = received \o bytes
      /\ base' = base /\ refused' = refused /\ executed' = executed
      /\ before' = before
      /\ mem' = [i \in Offset |->
                    IF i = write + n THEN "NUL"
                    ELSE IF i \in write .. write + n - 1
                         THEN bytes[i - write + 1] ELSE mem[i]]
  BY <1>0 DEF recv_text, Received
<1>2. /\ received \in Seq(Text) /\ Len(received) \in Nat
      /\ write = Len(received) /\ total = write /\ base <= write
      /\ base \in Nat /\ write \in Nat
      /\ mem \in [Offset -> Byte]
      /\ \A i \in write + 1 .. Capacity - 1 : mem[i] = before[i]
  BY <1>1 DEF FramingInv, TypeOK, Mirror
<1>3. /\ received' \in Seq(Text)
      /\ Len(received') = write + n
      /\ \A i \in 1..write : received'[i] = received[i]
      /\ \A i \in write + 1 .. write + n : received'[i] = bytes[i - write]
  <2>1. /\ received \o bytes \in Seq(Text)
        /\ Len(received \o bytes) = Len(received) + Len(bytes)
        /\ \A i \in 1 .. Len(received) + Len(bytes) :
             (received \o bytes)[i] = IF i <= Len(received) THEN received[i]
                                      ELSE bytes[i - Len(received)]
    BY <1>0, <1>2, ConcatProperties
  <2> QED BY <2>1, <1>0, <1>1, <1>2
<1>4. TypeOK'
  <2>1. mem' \in [Offset -> Byte]
    <3>1. \A i \in Offset : i \in write .. write + n - 1 => i - write + 1 \in 1..n
      BY <1>2, <1>0 DEF Offset
    <3> QED BY <1>0, <1>1, <1>2, <3>1 DEF Byte, Text
  <2> QED BY <2>1, <1>0, <1>1, <1>2, <1>3 DEF FramingInv, TypeOK
<1>5. Mirror'
  <2>1. write' \in Offset /\ mem'[write'] = "NUL"
    BY <1>0, <1>1, <1>2 DEF Offset
  <2>2. ASSUME NEW i \in base .. write + n - 1
        PROVE  mem'[i] = received'[i + 1]
    <3>1. i \in Offset
      BY <1>0, <1>1, <1>2 DEF Offset
    <3>2. CASE i < write
      <4>1. mem'[i] = mem[i] /\ i + 1 \in 1..write
        BY <1>0, <1>1, <1>2, <3>1, <3>2
      <4>2. mem[i] = received[i + 1]
        BY <1>1, <1>2, <3>2 DEF FramingInv, Mirror
      <4> QED BY <4>1, <4>2, <1>3
    <3>3. CASE i >= write
      <4>1. mem'[i] = bytes[i - write + 1]
        BY <1>0, <1>1, <1>2, <3>1, <3>3
      <4>2. i + 1 \in write + 1 .. write + n /\ (i + 1) - write = i - write + 1
        BY <1>0, <1>2, <3>3
      <4> QED BY <4>1, <4>2, <1>3
    <3> QED BY <3>2, <3>3, <1>2
  <2>3. /\ base' = base /\ write' = write + n
        /\ write' = total' /\ write' = Len(received')
        /\ base <= Len(received')
    BY <1>0, <1>1, <1>2, <1>3
  <2>4. \A i \in base' .. write' - 1 : mem'[i] = received'[i + 1]
    <3>1. base' .. write' - 1 = base .. write + n - 1
      BY <2>3, <1>0, <1>2
    <3>2. \A i \in base .. write + n - 1 : mem'[i] = received'[i + 1]
      BY <2>2
    <3> QED BY <3>1, <3>2
  <2>5. \A i \in write' + 1 .. Capacity - 1 : mem'[i] = before'[i]
    <3>1. ASSUME NEW i \in write + n + 1 .. Capacity - 1
          PROVE  mem'[i] = before[i]
      <4>1. i \in Offset /\ i \in write + 1 .. Capacity - 1 /\ i > write + n
        BY <1>0, <1>2 DEF Offset
      <4>2. mem'[i] = mem[i]
        BY <4>1, <1>0, <1>1, <1>2
      <4> QED BY <4>1, <4>2, <1>2
    <3> QED BY <3>1, <1>1
  <2> QED BY <2>1, <2>3, <2>4, <2>5, <1>1 DEF Mirror, StringsEnd
<1>6. LineEnds \subseteq LineEnds'
  <2>1. SUFFICES ASSUME NEW e \in LineEnds PROVE e \in LineEnds'
    OBVIOUS
  <2>2. e \in 1 .. write - 1 /\ received[e] = "CR" /\ received[e + 1] = "LF"
    BY <1>2 DEF LineEnds
  <2>3. /\ e \in 1..write /\ e + 1 \in 1..write
        /\ e \in 1 .. Len(received') - 1
    BY <2>2, <1>0, <1>2, <1>3
  <2> QED BY <2>2, <2>3, <1>3 DEF LineEnds
<1>7. ASSUME NEW e \in LineEnds', e <= base
      PROVE  e \in LineEnds
  <2>1. e \in 1 .. write + n - 1 /\ received'[e] = "CR" /\ received'[e + 1] = "LF"
    <3>1. /\ e \in 1 .. Len(received') - 1
          /\ received'[e] = "CR" /\ received'[e + 1] = "LF"
      BY DEF LineEnds
    <3>2. Len(received') = write + n
      BY <1>3
    <3> QED BY <3>1, <3>2, <1>0, <1>2
  <2>2. CASE e < write
    <3>1. e \in 1..write /\ e + 1 \in 1..write /\ e \in 1 .. Len(received) - 1
      BY <2>1, <2>2, <1>0, <1>2
    <3> QED BY <2>1, <3>1, <1>3 DEF LineEnds
  <2>3. CASE e >= write
    <3>1. e = write /\ base = write /\ base # 0 /\ write \in 1..write
      BY <2>1, <2>3, <1>0, <1>2, <1>7
    <3>2. received[base] = "LF"
      BY <3>1, BaseAfterLF
    <3>3. received'[e] = received[e]
      BY <3>1, <1>2, <1>3
    <3> QED BY <2>1, <3>1, <3>2, <3>3
  <2> QED BY <2>1, <2>2, <2>3, <1>0, <1>2
<1>8. ASSUME NEW k \in DOMAIN executed
      PROVE  IsLine(k)'
  <2>1. IsLine(k) /\ executed' = executed /\ base' = base
    BY <1>1 DEF FramingInv, Cuts
  <2> DEFINE a == executed[k].from  b == executed[k].to
  <2>2. /\ b \in Nat /\ b + 1 \in LineEnds' /\ b + 2 <= base /\ a <= b
        /\ a = (IF k = 1 THEN 0 ELSE executed[k - 1].to + 2)
        /\ executed[k].text = SubSeq(received, a + 1, b)
    BY <2>1, <1>6 DEF IsLine
  <2>3. a \in Nat
    <3>1. executed[k] \in Command
      BY DEF FramingInv, TypeOK
    <3> QED BY <3>1 DEF Command
  <2>4. SubSeq(received', a + 1, b) = SubSeq(received, a + 1, b)
    <3>1. /\ b \in Nat /\ a <= b
          /\ b <= Len(received) /\ b <= Len(received')
          /\ \A j \in 1..b : received'[j] = received[j]
      BY <2>2, <2>3, <1>0, <1>2, <1>3
    <3> HIDE DEF a, b
    <3> QED BY <3>1, <2>3, <1>2, <1>3, SubSeqAgree
  <2> QED BY <2>1, <2>2, <2>4 DEF IsLine
<1>9. Cuts'
  <2>1. base' = (IF executed' = <<>> THEN 0
                 ELSE executed'[Len(executed')].to + 2)
    BY <1>1 DEF FramingInv, Cuts
  <2>2. \A k \in DOMAIN executed' : IsLine(k)'
    BY <1>1, <1>8
  <2>3. \A e \in LineEnds' : e <= base' =>
           \E k \in DOMAIN executed' : executed'[k].to + 1 = e
    BY <1>1, <1>7 DEF FramingInv, Cuts
  <2> QED BY <2>1, <2>2, <2>3, <1>1 DEF Cuts
<1> QED BY <1>4, <1>5, <1>9 DEF FramingInv

(* The end of a session changes nothing of what was executed. *)
LEMMA Over ==
    ASSUME FramingInv, pc \in {"recv", "too_long"}, pc' = "over", write' = 0,
           total' \in Int, bytes_read' \in Int, refused' \in BOOLEAN,
           UNCHANGED <<mem, base, before, received, executed>>
    PROVE  FramingInv'
<1>1. TypeOK'
  BY FramingAssumption DEF FramingInv, TypeOK
<1>2. Mirror'
  BY DEF FramingInv, Mirror, StringsEnd
<1>3. Cuts'
  BY DEF FramingInv, Cuts, IsLine, LineEnds
<1> QED BY <1>1, <1>2, <1>3 DEF FramingInv

(* What is received on top of the limit has no NUL, and behind it is what   *)
(* was there before the session.                                           *)
LEMMA RecvTooLong ==
    ASSUME FramingInv, NEW bytes \in Seq(Text), recv_too_long(bytes)
    PROVE  FramingInv'
<1> USE FramingAssumption
<1> DEFINE n == Len(bytes)
<1>0. n \in Nat /\ \A i \in 1..n : bytes[i] \in Text
  OBVIOUS
<1>1. /\ pc = "recv" /\ pc' = "too_long"
      /\ n >= 1 /\ write + n <= Capacity
      /\ write' = write /\ total' = total + n /\ bytes_read' = n
      /\ mem' = [i \in Offset |->
                    IF i \in write .. write + n - 1
                    THEN bytes[i - write + 1] ELSE mem[i]]
      /\ UNCHANGED <<base, refused, before, received, executed>>
  BY <1>0 DEF recv_too_long, Received, available_space, FramingInv, TypeOK
<1>2. /\ write \in Nat /\ base \in Nat /\ write \in 0..MaxCommand
      /\ total \in Int /\ mem \in [Offset -> Byte]
      /\ \A i \in write + 1 .. Capacity - 1 : mem[i] = before[i]
  BY <1>1 DEF FramingInv, TypeOK, Mirror
<1> HIDE DEF n
<1>3. ASSUME NEW i \in Offset, i >= write, i < write + n
      PROVE  mem'[i] \in Text
  <2>1. i - write + 1 \in 1..n /\ i \in write .. write + n - 1
    BY <1>0, <1>2, <1>3 DEF Offset
  <2>2. mem'[i] = bytes[i - write + 1]
    BY <2>1, <1>1
  <2> QED BY <2>1, <2>2, <1>0
<1>4. ASSUME NEW i \in Offset, ~ (i \in write .. write + n - 1)
      PROVE  mem'[i] = mem[i]
  BY <1>1, <1>4
<1>5. TypeOK'
  <2>1. ASSUME NEW i \in Offset PROVE mem'[i] \in Byte
    <3>1. CASE i \in write .. write + n - 1
      BY <3>1, <1>0, <1>2, <1>3 DEF Byte, Text, Offset
    <3>2. CASE ~ (i \in write .. write + n - 1)
      BY <3>2, <1>2, <1>4
    <3> QED BY <3>1, <3>2
  <2>2. mem' \in [Offset -> Byte]
    BY <1>1, <2>1
  <2> QED BY <2>2, <1>0, <1>1, <1>2 DEF FramingInv, TypeOK
<1>6. EndsInBuffer(write)' <=>
        \E j \in write + n .. Capacity - 1 : before[j] = "NUL"
  <2>1. ASSUME NEW j \in write .. Capacity - 1, j < write + n
        PROVE  mem'[j] # "NUL"
    <3>1. j \in Offset
      BY <1>2 DEF Offset
    <3>2. mem'[j] \in Text
      BY <3>1, <2>1, <1>2, <1>3
    <3> QED BY <3>2 DEF Text
  <2>2. ASSUME NEW j \in write + n .. Capacity - 1
        PROVE  mem'[j] = before[j]
    <3>1. /\ j \in Offset /\ j \in write + 1 .. Capacity - 1
          /\ ~ (j \in write .. write + n - 1)
      BY <1>0, <1>1, <1>2 DEF Offset
    <3> QED BY <3>1, <1>2, <1>4
  <2>3. ASSUME NEW j \in write .. Capacity - 1, mem'[j] = "NUL"
        PROVE  j \in write + n .. Capacity - 1 /\ before[j] = "NUL"
    BY <2>1, <2>2, <2>3, <1>0, <1>2
  <2>4. ASSUME NEW j \in write + n .. Capacity - 1, before[j] = "NUL"
        PROVE  j \in write .. Capacity - 1 /\ mem'[j] = "NUL"
    BY <2>2, <2>4, <1>0, <1>2
  <2>5. EndsInBuffer(write)' <=> \E j \in write .. Capacity - 1 : mem'[j] = "NUL"
    BY <1>1 DEF EndsInBuffer
  <2> QED BY <2>3, <2>4, <2>5
<1>7. Mirror'
  <2>1. base' <= Len(received')
    BY <1>1 DEF FramingInv, Mirror
  <2>2. StringsEnd'
    BY <1>1, <1>6 DEF StringsEnd
  <2> QED BY <2>1, <2>2, <1>1 DEF Mirror
<1>8. Cuts'
  BY <1>1 DEF FramingInv, Cuts, IsLine, LineEnds
<1> QED BY <1>5, <1>7, <1>8 DEF FramingInv

LEMMA NextCommand ==
    ASSUME FramingInv, NEW i \in Offset, next_command(i)
    PROVE  FramingInv'
<1> USE FramingAssumption
<1> DEFINE cmd == [from |-> base, to |-> i,
                   text |-> [j \in 1 .. i - base |-> mem[base + j - 1]]]
<1>1. /\ pc = "scan" /\ pc' = pc
      /\ mem' = [mem EXCEPT ![i] = "NUL"]
      /\ executed' = Append(executed, cmd)
      /\ base' = i + 2
      /\ write' = write /\ total' = total /\ bytes_read' = bytes_read
      /\ refused' = refused /\ received' = received /\ before' = before
  BY DEF next_command
<1>2. /\ i \in base .. Capacity - 2 /\ i \in Nat
      /\ mem[i] = "CR" /\ mem[i + 1] = "LF"
      /\ \A j \in base .. i - 1 : mem[j] # "NUL" /\ ~IsEnd(j)
  BY DEF next_command, IsNextEnd, IsEnd, Offset
<1>3. /\ base \in Nat /\ write \in Nat /\ write = Len(received) /\ base <= write
      /\ total = write /\ mem[write] = "NUL" /\ write \in Offset
      /\ \A j \in base .. write - 1 : mem[j] = received[j + 1]
      /\ received \in Seq(Text) /\ executed \in Seq(Command)
      /\ mem \in [Offset -> Byte]
      /\ \A j \in write + 1 .. Capacity - 1 : mem[j] = before[j]
  BY <1>1 DEF FramingInv, TypeOK, Mirror, StringsEnd
<1>4. i + 2 <= write
  <2>1. CASE write < i
    BY <2>1, <1>2, <1>3
  <2>2. CASE write = i \/ write = i + 1
    BY <2>2, <1>2, <1>3
  <2> QED BY <2>1, <2>2, <1>2, <1>3
<1>5. received[i + 1] = "CR" /\ received[i + 2] = "LF"
  <2>1. i \in base .. write - 1 /\ i + 1 \in base .. write - 1
    BY <1>2, <1>3, <1>4
  <2>2. (i + 1) + 1 = i + 2
    BY <1>2
  <2> QED BY <2>1, <2>2, <1>2, <1>3
<1>6. i + 1 \in LineEnds
  BY <1>2, <1>3, <1>4, <1>5 DEF LineEnds
<1>7. cmd.text = SubSeq(received, base + 1, i) /\ cmd.text \in Seq(Text)
  <2>1. \A j \in 1 .. i - base :
           /\ base + j - 1 \in base .. write - 1
           /\ (base + j - 1) + 1 = (base + 1) + j - 1
           /\ j + (base + 1) - 1 = (base + 1) + j - 1
           /\ (base + 1) + j - 1 \in 1 .. Len(received)
    BY <1>2, <1>3, <1>4
  <2>2. SubSeq(received, base + 1, i) =
          [j \in 1 .. i - base |-> received[(base + 1) + j - 1]]
    <3>1. 1 + i - (base + 1) = i - base
      BY <1>2, <1>3
    <3> QED BY <2>1, <3>1, <1>2, <1>3
  <2>3. \A j \in 1 .. i - base :
           /\ mem[base + j - 1] = received[(base + 1) + j - 1]
           /\ received[(base + 1) + j - 1] \in Text
    <3>1. ASSUME NEW j \in 1 .. i - base
          PROVE  /\ mem[base + j - 1] = received[(base + 1) + j - 1]
                 /\ received[(base + 1) + j - 1] \in Text
      <4>1. /\ base + j - 1 \in base .. write - 1
            /\ (base + j - 1) + 1 = (base + 1) + j - 1
            /\ (base + 1) + j - 1 \in 1 .. Len(received)
        BY <2>1
      <4>2. mem[base + j - 1] = received[(base + j - 1) + 1]
        BY <4>1, <1>3
      <4> QED BY <4>1, <4>2, <1>3
    <3> QED BY <3>1
  <2>4. i - base \in Nat
    BY <1>2, <1>3
  <2>5. cmd.text = [j \in 1 .. i - base |-> mem[base + j - 1]]
    OBVIOUS
  <2>6. [j \in 1 .. i - base |-> mem[base + j - 1]]
          = [j \in 1 .. i - base |-> received[(base + 1) + j - 1]]
    BY <2>3
  <2>7. [j \in 1 .. i - base |-> received[(base + 1) + j - 1]] \in [1 .. i - base -> Text]
    BY <2>3
  <2>8. \A n \in Nat : [1..n -> Text] \subseteq Seq(Text)
    BY DEF Seq
  <2>9. cmd.text = SubSeq(received, base + 1, i)
    BY <2>2, <2>5, <2>6
  <2>10. cmd.text \in [1 .. i - base -> Text]
    BY <2>5, <2>6, <2>7
  <2> HIDE DEF cmd
  <2> QED BY <2>4, <2>8, <2>9, <2>10
<1>8. /\ cmd \in Command /\ cmd.from = base /\ cmd.to = i
  BY <1>2, <1>3, <1>7 DEF Command
<1> HIDE DEF cmd
<1>9. /\ executed' \in Seq(Command)
      /\ Len(executed') = Len(executed) + 1
      /\ DOMAIN executed' = 1 .. Len(executed) + 1
      /\ DOMAIN executed = 1 .. Len(executed)
      /\ Len(executed) \in Nat
      /\ executed'[Len(executed) + 1] = cmd
      /\ \A k \in 1 .. Len(executed) : executed'[k] = executed[k]
  BY <1>1, <1>3, <1>8
<1>10. TypeOK'
  BY <1>1, <1>2, <1>3, <1>9 DEF FramingInv, TypeOK, Byte
<1>11. Mirror'
  <2>1. mem'[write] = "NUL"
    BY <1>1, <1>2, <1>3, <1>4
  <2>2. \A j \in i + 2 .. write - 1 : mem'[j] = received[j + 1]
    BY <1>1, <1>2, <1>3 DEF Offset
  <2>3. \A j \in write + 1 .. Capacity - 1 : mem'[j] = before[j]
    BY <1>1, <1>2, <1>3, <1>4 DEF Offset
  <2> QED BY <2>1, <2>2, <2>3, <1>1, <1>3, <1>4 DEF Mirror, StringsEnd
<1>12. LineEnds' = LineEnds
  BY <1>1 DEF LineEnds
<1>13. ASSUME NEW k \in DOMAIN executed'
       PROVE  IsLine(k)'
  <2>1. CASE k \in DOMAIN executed
    <3>1. IsLine(k) /\ k \in Nat
      BY <2>1, <1>9 DEF FramingInv, Cuts
    <3>2. executed'[k] = executed[k]
      BY <2>1, <1>9
    <3>3. k # 1 => executed'[k - 1] = executed[k - 1]
      BY <2>1, <1>9
    <3>4. executed[k].to + 2 <= base'
      BY <3>1, <1>1, <1>2, <1>3 DEF IsLine
    <3> QED BY <3>1, <3>2, <3>3, <3>4, <1>1, <1>12 DEF IsLine
  <2>2. CASE k = Len(executed) + 1
    <3>1. executed'[k].to = i /\ executed'[k].from = base
          /\ executed'[k].text = SubSeq(received, base + 1, i)
      BY <2>2, <1>7, <1>8, <1>9
    <3>2. base = (IF k = 1 THEN 0 ELSE executed'[k - 1].to + 2)
      <4>1. CASE executed = <<>>
        BY <4>1, <2>2 DEF FramingInv, Cuts
      <4>2. CASE executed # <<>>
        <5>1. k # 1 /\ k - 1 = Len(executed) /\ Len(executed) \in 1 .. Len(executed)
          BY <4>2, <2>2, <1>3, <1>9
        <5> QED BY <5>1, <4>2, <1>9 DEF FramingInv, Cuts
      <4> QED BY <4>1, <4>2
    <3> QED BY <3>1, <3>2, <1>1, <1>2, <1>6, <1>12 DEF IsLine
  <2> QED BY <2>1, <2>2, <1>9
<1>14. ASSUME NEW e \in LineEnds, e <= base'
       PROVE  \E k \in DOMAIN executed' : executed'[k].to + 1 = e
  <2>0. e \in 1 .. write - 1 /\ received[e] = "CR" /\ received[e + 1] = "LF"
    BY <1>3 DEF LineEnds
  <2>1. CASE e <= base
    <3>1. PICK k \in DOMAIN executed : executed[k].to + 1 = e
      BY <2>1 DEF FramingInv, Cuts
    <3> QED BY <3>1, <1>9
  <2>2. CASE e = i + 1
    BY <2>2, <1>8, <1>9
  <2>3. CASE e = i + 2
    BY <2>3, <2>0, <1>5
  <2>4. CASE e > base /\ e < i + 1
    <3>1. e - 1 \in base .. i - 1 /\ (e - 1) + 1 = e
      BY <2>4, <2>0, <1>2, <1>3
    <3>2. mem[e - 1] = "CR" /\ mem[e] = "LF"
      BY <3>1, <2>0, <2>4, <1>2, <1>3, <1>4
    <3>3. IsEnd(e - 1)
      BY <3>1, <3>2, <1>2, <1>3 DEF IsEnd
    <3> QED BY <3>1, <3>3, <1>2
  <2> QED BY <2>0, <2>1, <2>2, <2>3, <2>4, <1>1, <1>2, <1>3, <1>14
<1>15. Cuts'
  <2>1. base' = (IF executed' = <<>> THEN 0
                 ELSE executed'[Len(executed')].to + 2)
    BY <1>1, <1>8, <1>9
  <2> QED BY <2>1, <1>1, <1>12, <1>13, <1>14 DEF Cuts
<1> QED BY <1>10, <1>11, <1>15 DEF FramingInv

LEMMA NoCommand ==
    ASSUME FramingInv, no_command
    PROVE  FramingInv'
<1> USE FramingAssumption
<1>1. /\ pc = "scan" /\ pc' = "recv" /\ \A i \in Offset : ~IsEnd(i)
      /\ UNCHANGED <<mem, write, base, total, bytes_read, refused, before,
                     received, executed>>
  BY DEF no_command
<1>2. TypeOK' /\ Mirror'
  BY <1>1 DEF FramingInv, TypeOK, Mirror, StringsEnd
<1>3. ASSUME NEW e \in LineEnds
      PROVE  e <= base
  <2>1. /\ write = Len(received) /\ write \in Offset /\ base \in Nat
        /\ received \in Seq(Text)
        /\ \A j \in base .. write - 1 : mem[j] = received[j + 1]
    BY <1>1 DEF FramingInv, TypeOK, Mirror, StringsEnd
  <2>2. e \in 1 .. write - 1 /\ received[e] = "CR" /\ received[e + 1] = "LF"
    BY <2>1 DEF LineEnds
  <2>3. SUFFICES ASSUME e > base PROVE FALSE
    BY <2>1, <2>2 DEF Offset
  <2>4. e - 1 \in base .. write - 1 /\ e \in base .. write - 1 /\ (e - 1) + 1 = e
    BY <2>1, <2>2, <2>3 DEF Offset
  <2>5. mem[e - 1] = "CR" /\ mem[e] = "LF"
    BY <2>1, <2>2, <2>4
  <2>6. \A j \in base .. (e - 1) - 1 : mem[j] # "NUL"
    <3>1. ASSUME NEW j \in base .. (e - 1) - 1 PROVE mem[j] # "NUL"
      <4>1. j \in base .. write - 1 /\ j + 1 \in 1 .. Len(received)
        BY <2>1, <2>2 DEF Offset
      <4>2. received[j + 1] \in Text
        BY <4>1, <2>1
      <4> QED BY <4>1, <4>2, <2>1 DEF Text
    <3> QED BY <3>1
  <2>7. e - 1 \in base .. Capacity - 2 /\ e - 1 \in Offset
    BY <2>1, <2>2, <2>4 DEF Offset
  <2>8. IsEnd(e - 1)
    BY <2>4, <2>5, <2>6, <2>7 DEF IsEnd
  <2> QED BY <1>1, <2>7, <2>8
<1>4. Cuts'
  <2>1. LineEnds' = LineEnds /\ \A k \in DOMAIN executed : IsLine(k)' = IsLine(k)
    BY <1>1 DEF LineEnds, IsLine
  <2> QED BY <2>1, <1>1, <1>3 DEF FramingInv, Cuts
<1> QED BY <1>2, <1>4 DEF FramingInv

LEMMA FramingStep == FramingInv /\ [Next]_frameVars => FramingInv'
<1> SUFFICES ASSUME FramingInv, [Next]_frameVars PROVE FramingInv'
  OBVIOUS
<1>1. ASSUME NEW n \in 1..MaxCommand, NEW bytes \in [1..n -> Text],
             recv_text(bytes)
      PROVE  FramingInv'
  BY <1>1, RecvText
<1>2. ASSUME NEW bytes \in Excess, recv_too_long(bytes)
      PROVE  FramingInv'
  BY <1>2, RecvTooLong, FramingAssumption
<1>3. ASSUME NEW n \in {0, -1}, recv_ends(n)
      PROVE  FramingInv'
  BY <1>3, Over, FramingAssumption DEF recv_ends, FramingInv, TypeOK
<1>4. ASSUME NEW i \in Offset, next_command(i)
      PROVE  FramingInv'
  BY <1>4, NextCommand
<1>5. CASE no_command
  BY <1>5, NoCommand
<1>6. CASE refuse
  BY <1>6, Over DEF refuse, FramingInv, TypeOK
<1>7. CASE UNCHANGED frameVars
  BY <1>7 DEF frameVars, FramingInv, TypeOK, Mirror, StringsEnd, EndsInBuffer,
     Cuts, IsLine, LineEnds
<1> QED BY <1>1, <1>2, <1>3, <1>4, <1>5, <1>6, <1>7 DEF Next

(* The string that strstr, parse_input and the log of what came read ends  *)
(* at its NUL inside the buffer, and the one that the log of a too long    *)
(* text reads where the memory of before the session has a NUL, if at all. *)
THEOREM ReadsOfBufferEnd == Spec => []StringsEnd
<1>1. FramingInv => StringsEnd
  BY DEF FramingInv, Mirror
<1> QED BY <1>1, FramingInit, FramingStep, PTL DEF Spec

(* The commands executed are the complete lines of the stream, however TCP *)
(* segmented it.                                                           *)
THEOREM FramingIsCorrect == Spec => []ExecutedAreLines
<1>1. FramingInv => ExecutedAreLines
  <2> SUFFICES ASSUME FramingInv, pc # "scan" PROVE
        /\ LineEnds = {executed[k].to + 1 : k \in DOMAIN executed}
        /\ \A k \in DOMAIN executed :
             /\ executed[k].from = IF k = 1 THEN 0 ELSE executed[k - 1].to + 2
             /\ executed[k].text =
                  SubSeq(received, executed[k].from + 1, executed[k].to)
    BY DEF ExecutedAreLines
  <2>1. \A k \in DOMAIN executed : IsLine(k)
    BY DEF FramingInv, Cuts
  <2>2. \A e \in LineEnds : \E k \in DOMAIN executed : executed[k].to + 1 = e
    BY DEF FramingInv, Cuts
  <2> QED BY <2>1, <2>2 DEF IsLine
<1> QED BY <1>1, FramingInit, FramingStep, PTL DEF Spec

(* The place recv writes at never passes the longest command, whatever is  *)
(* received and however the lines of it are cut.                           *)
THEOREM FramingTypes == Spec => []TypeOK
<1>1. FramingInv => TypeOK
  BY DEF FramingInv
<1> QED BY <1>1, FramingInit, FramingStep, PTL DEF Spec
===============================================================================
