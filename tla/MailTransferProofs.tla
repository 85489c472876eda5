-------------------------- MODULE MailTransferProofs --------------------------
(***************************************************************************)
(* Proofs about module MailTransfer, for every mail and every size of the  *)
(* chunks: no mail can end its own transfer, whatever it holds and however *)
(* it is cut, and one that is as it should be arrives.                     *)
(***************************************************************************)
EXTENDS MailTransfer, TLAPS, SequenceTheorems, WellFoundedInduction

(* In s every dot that follows a "\n" is followed by a dot. *)
DotsDoubled(s) ==
    \A k \in 2 .. Len(s) :
        s[k] = "." /\ s[k - 1] = "LF" => k < Len(s) /\ s[k + 1] = "."

(* While the body is sent, what was sent has its dots doubled, and ends in  *)
(* "\n" only where the test for the next byte will see the start of a line.*)
BodyInv ==
    /\ Len(sent) >= 2
    /\ DotsDoubled(sent)
    /\ sent[Len(sent)] = "LF" => next = 1 \/ file[next - 1] = "LF"

(* Afterwards the terminator is behind such a body. *)
DoneInv ==
    \E body \in Seq(Byte) :
        /\ Len(body) >= 2
        /\ DotsDoubled(body)
        /\ sent = body \o Terminator

TransferInv ==
    /\ TypeOK
    /\ pc = "body" => BodyInv
    /\ pc = "done" => DoneInv

LEMMA TerminatorBytes ==
    /\ Terminator \in Seq(Byte) /\ Len(Terminator) = 5
    /\ Terminator[1] = "CR" /\ Terminator[2] = "LF" /\ Terminator[3] = "."
    /\ Terminator[4] = "CR" /\ Terminator[5] = "LF"
BY DEF Terminator, Byte

LEMMA Joined ==
    ASSUME NEW s \in Seq(Byte), NEW t \in Seq(Byte)
    PROVE  /\ s \o t \in Seq(Byte)
           /\ Len(s \o t) = Len(s) + Len(t)
           /\ \A i \in 1 .. Len(s) : (s \o t)[i] = s[i]
           /\ \A j \in 1 .. Len(t) : (s \o t)[Len(s) + j] = t[j]
<1>1. /\ s \o t \in Seq(Byte)
      /\ Len(s \o t) = Len(s) + Len(t)
      /\ \A i \in 1 .. Len(s) + Len(t) :
           (s \o t)[i] = IF i <= Len(s) THEN s[i] ELSE t[i - Len(s)]
  BY ConcatProperties
<1>2. Len(s) \in Nat /\ Len(t) \in Nat
  OBVIOUS
<1>3. ASSUME NEW j \in 1 .. Len(t) PROVE (s \o t)[Len(s) + j] = t[j]
  <2>1. /\ Len(s) + j \in 1 .. Len(s) + Len(t) /\ ~(Len(s) + j <= Len(s))
        /\ (Len(s) + j) - Len(s) = j
    BY <1>2
  <2> QED BY <1>1, <2>1
<1> QED BY <1>1, <1>2, <1>3

(* What is sent for one byte: a dot before it, or a CR after it, or neither *)
LEMMA SendingBytes ==
    ASSUME TypeOK, next <= Len(file)
    PROVE  /\ Sending(next) \in Seq(Byte)
           /\ Len(Sending(next)) \in {1, 2}
           /\ Stuffed(next) => Sending(next) = <<".", ".">>
           /\ ~Stuffed(next) => Sending(next)[1] = file[next]
           /\ Sending(next)[Len(Sending(next))] = "LF" => file[next] = "LF"
           /\ Len(Sending(next)) = 2 /\ ~Stuffed(next) =>
                Sending(next) = <<file[next], "CR">>
<1>1. file[next] \in Byte
  BY DEF TypeOK
<1>2. CASE Stuffed(next)
  <2>1. Sending(next) = <<".", ".">>
    BY <1>2 DEF Sending
  <2> QED BY <1>2, <2>1 DEF Byte
<1>3. CASE ~Stuffed(next) /\ Returned(next)
  <2>1. Sending(next) = <<"LF", "CR">> /\ file[next] = "LF"
    BY <1>3 DEF Sending, Returned
  <2> QED BY <1>3, <2>1 DEF Byte
<1>4. CASE ~Stuffed(next) /\ ~Returned(next)
  <2>1. Sending(next) = <<file[next]>>
    BY <1>4 DEF Sending
  <2> QED BY <1>1, <1>4, <2>1
<1> QED BY <1>2, <1>3, <1>4

LEMMA TransferInit == Init => TransferInv
<1> SUFFICES ASSUME Init PROVE TransferInv
  OBVIOUS
<1>1. /\ sent = <<"CR", "LF">> /\ next = 1 /\ pc = "body"
      /\ file \in Seq(Byte)
  BY TransferAssumption DEF Init, Crlf
<1>2. TypeOK
  BY <1>1 DEF TypeOK, Byte
<1>3. BodyInv
  BY <1>1 DEF BodyInv, DotsDoubled
<1> QED BY <1>1, <1>2, <1>3 DEF TransferInv

LEMMA SendByte ==
    ASSUME TransferInv, send_byte
    PROVE  TransferInv'
<1> DEFINE e == Sending(next)
<1>1. /\ pc = "body" /\ pc' = pc /\ next <= Len(file) /\ file' = file
      /\ sent' = sent \o e /\ next' = next + 1
  BY DEF send_byte
<1>2. /\ TypeOK /\ BodyInv /\ sent \in Seq(Byte) /\ Len(sent) \in Nat
      /\ Len(sent) >= 2 /\ next \in Nat /\ next >= 1 /\ Len(file) \in Nat
      /\ file \in Seq(Byte)
  BY <1>1 DEF TransferInv, TypeOK, BodyInv
<1>3. /\ e \in Seq(Byte) /\ Len(e) \in {1, 2}
      /\ Stuffed(next) => e = <<".", ".">>
      /\ ~Stuffed(next) => e[1] = file[next]
      /\ e[Len(e)] = "LF" => file[next] = "LF"
      /\ Len(e) = 2 /\ ~Stuffed(next) => e = <<file[next], "CR">>
  BY <1>1, <1>2, SendingBytes
<1> HIDE DEF e
<1>4. /\ sent' \in Seq(Byte) /\ Len(sent') = Len(sent) + Len(e)
      /\ \A i \in 1 .. Len(sent) : sent'[i] = sent[i]
      /\ \A j \in 1 .. Len(e) : sent'[Len(sent) + j] = e[j]
  BY <1>1, <1>2, <1>3, Joined
<1>5. TypeOK'
  <2>2. next' \in 1 .. Len(file') + 1
    BY <1>1, <1>2
  <2> QED BY <1>1, <1>2, <1>4, <2>2 DEF TypeOK
<1>6. DotsDoubled(sent')
  <2>1. SUFFICES ASSUME NEW k \in 2 .. Len(sent'), sent'[k] = ".",
                        sent'[k - 1] = "LF"
                 PROVE  k < Len(sent') /\ sent'[k + 1] = "."
    BY DEF DotsDoubled
  <2>2. CASE k <= Len(sent)
    <3>0. /\ k \in 2 .. Len(sent) /\ k \in 1 .. Len(sent)
          /\ k - 1 \in 1 .. Len(sent)
      BY <2>2, <1>2
    <3>1. sent'[k] = sent[k] /\ sent'[k - 1] = sent[k - 1] /\ k \in 2 .. Len(sent)
      BY <3>0, <1>4
    <3>2. k < Len(sent) /\ sent[k + 1] = "."
      BY <2>1, <3>1, <1>2 DEF BodyInv, DotsDoubled
    <3>3. k + 1 \in 1 .. Len(sent) /\ Len(sent) <= Len(sent')
      BY <3>0, <3>2, <1>2, <1>3, <1>4
    <3> QED BY <3>0, <3>2, <3>3, <1>4
  <2>3. CASE k = Len(sent) + 1
    <3>0. /\ 1 \in 1 .. Len(e) /\ k - 1 = Len(sent)
          /\ Len(sent) \in 1 .. Len(sent)
      BY <2>3, <1>2, <1>3
    <3>1. sent'[k] = e[1] /\ sent'[k - 1] = sent[Len(sent)]
      BY <3>0, <2>3, <1>4
    <3>2. next = 1 \/ file[next - 1] = "LF"
      BY <2>1, <3>1, <1>2 DEF BodyInv
    <3>3. Stuffed(next)
      <4>1. CASE Stuffed(next)
        BY <4>1
      <4>2. CASE ~Stuffed(next)
        <5>1. file[next] = "."
          BY <4>2, <2>1, <3>1, <1>3
        <5>2. next = 1 => StartsChunk(next)
          BY TransferAssumption DEF StartsChunk
        <5> QED BY <3>2, <5>1, <5>2 DEF Stuffed, Follows
      <4> QED BY <4>1, <4>2
    <3>4. Len(e) = 2 /\ e[2] = "."
      BY <3>3, <1>3
    <3>5. /\ 2 \in 1 .. Len(e) /\ k + 1 = Len(sent) + 2
          /\ k < Len(sent')
      BY <2>3, <3>4, <1>2, <1>4
    <3> QED BY <3>4, <3>5, <1>4
  <2>4. CASE k = Len(sent) + 2
    <3>0. Len(e) = 2
      BY <2>4, <1>2, <1>3, <1>4
    <3>1. sent'[k] = e[2] /\ sent'[k - 1] = e[1]
      <4>1. 1 \in 1 .. Len(e) /\ 2 \in 1 .. Len(e) /\ k - 1 = Len(sent) + 1
        BY <3>0, <2>4, <1>2
      <4> QED BY <4>1, <2>4, <1>4
    <3>2. e = <<".", ".">> \/ e = <<file[next], "CR">>
      BY <3>0, <1>3
    <3>3. e = <<".", ".">> => e[1] = "."
      OBVIOUS
    <3>4. e = <<file[next], "CR">> => e[2] = "CR"
      OBVIOUS
    <3> QED BY <3>1, <3>2, <3>3, <3>4, <2>1
  <2>5. k <= Len(sent) \/ k = Len(sent) + 1 \/ k = Len(sent) + 2
    <3>1. Len(sent') = Len(sent) + 1 \/ Len(sent') = Len(sent) + 2
      BY <1>3, <1>4
    <3> QED BY <3>1, <1>2
  <2> QED BY <2>2, <2>3, <2>4, <2>5
<1>7. sent'[Len(sent')] = "LF" => file'[next' - 1] = "LF"
  <2>1. sent'[Len(sent')] = e[Len(e)]
    <3>1. Len(e) \in 1 .. Len(e)
      BY <1>3
    <3> QED BY <3>1, <1>4
  <2>2. next' - 1 = next
    BY <1>1, <1>2
  <2> QED BY <2>1, <2>2, <1>1, <1>3
<1>8. BodyInv'
  BY <1>2, <1>3, <1>4, <1>6, <1>7 DEF BodyInv
<1> QED BY <1>1, <1>5, <1>8 DEF TransferInv

LEMMA SendDot ==
    ASSUME TransferInv, send_dot
    PROVE  TransferInv'
<1>1. /\ pc = "body" /\ pc' = "done" /\ sent' = sent \o Terminator
      /\ file' = file /\ next' = next
  BY DEF send_dot
<1>2. TypeOK /\ BodyInv /\ sent \in Seq(Byte)
  BY <1>1 DEF TransferInv, TypeOK
<1>3. sent' \in Seq(Byte) /\ Len(sent') = Len(sent) + 5
  BY <1>1, <1>2, TerminatorBytes, Joined
<1>4. TypeOK'
  BY <1>1, <1>2, <1>3 DEF TypeOK
<1>5. DoneInv'
  BY <1>1, <1>2 DEF DoneInv, BodyInv
<1> QED BY <1>1, <1>4, <1>5 DEF TransferInv

LEMMA TransferStep == TransferInv /\ [Next]_transferVars => TransferInv'
<1> SUFFICES ASSUME TransferInv, [Next]_transferVars PROVE TransferInv'
  OBVIOUS
<1>1. CASE send_byte
  BY <1>1, SendByte
<1>2. CASE send_dot
  BY <1>2, SendDot
<1>3. CASE UNCHANGED transferVars
  BY <1>3 DEF transferVars, TransferInv, TypeOK, BodyInv, DoneInv, DotsDoubled
<1> QED BY <1>1, <1>2, <1>3 DEF Next

(* The "\r\n.\r\n" that ends a mail is the only one the client gets, for   *)
(* every mail and every size of the chunks.                                *)
THEOREM MailCannotEndItself == Spec => []NoEarlyTerminator
<1>1. TransferInv => NoEarlyTerminator
  <2> SUFFICES ASSUME TransferInv, NEW k \in 1 .. Len(sent) - 4, EndsAt(k)
               PROVE  pc = "done" /\ k = Len(sent) - 4
    BY DEF NoEarlyTerminator
  <2>0. /\ sent \in Seq(Byte) /\ Len(sent) \in Nat /\ pc \in {"body", "done"}
        /\ sent[k + 1] = "LF" /\ sent[k + 2] = "." /\ sent[k + 3] = "CR"
    BY DEF TransferInv, TypeOK, EndsAt
  <2>1. CASE pc = "body"
    <3>1. k + 2 \in 2 .. Len(sent) /\ (k + 2) - 1 = k + 1 /\ (k + 2) + 1 = k + 3
      BY <2>0
    <3>2. sent[k + 3] = "."
      BY <2>0, <2>1, <3>1 DEF TransferInv, BodyInv, DotsDoubled
    <3> QED BY <2>0, <3>2
  <2>2. CASE pc = "done"
    <3>1. PICK body \in Seq(Byte) :
            Len(body) >= 2 /\ DotsDoubled(body) /\ sent = body \o Terminator
      BY <2>2 DEF TransferInv, DoneInv
    <3>2. /\ Len(body) \in Nat /\ Len(sent) = Len(body) + 5
          /\ \A i \in 1 .. Len(body) : sent[i] = body[i]
          /\ \A j \in 1 .. 5 : sent[Len(body) + j] = Terminator[j]
      <4>1. /\ Len(body \o Terminator) = Len(body) + Len(Terminator)
            /\ \A i \in 1 .. Len(body) : (body \o Terminator)[i] = body[i]
            /\ \A j \in 1 .. Len(Terminator) :
                 (body \o Terminator)[Len(body) + j] = Terminator[j]
        BY TerminatorBytes, Joined
      <4>2. Len(Terminator) = 5
        BY TerminatorBytes
      <4>3. Len(body) \in Nat
        OBVIOUS
      <4>4. sent = body \o Terminator
        BY <3>1
      <4> QED BY <4>1, <4>2, <4>3, <4>4
    <3>3. CASE k + 2 <= Len(body)
      <4>1. /\ sent[k + 1] = body[k + 1] /\ sent[k + 2] = body[k + 2]
            /\ k + 2 \in 2 .. Len(body) /\ (k + 2) - 1 = k + 1
            /\ (k + 2) + 1 = k + 3
        BY <3>2, <3>3, <2>0
      <4>2. k + 2 < Len(body) /\ body[k + 3] = "."
        BY <4>1, <3>1, <2>0 DEF DotsDoubled
      <4>3. sent[k + 3] = body[k + 3]
        BY <4>2, <3>2, <2>0
      <4> QED BY <4>2, <4>3, <2>0
    <3>4. CASE k + 2 > Len(body)
      <4>0. /\ k + 2 - Len(body) \in 1 .. 5
            /\ Len(body) + (k + 2 - Len(body)) = k + 2
        BY <3>2, <3>4, <2>0
      <4>1. Terminator[k + 2 - Len(body)] = "."
        BY <4>0, <3>2, <2>0
      <4>2. k + 2 - Len(body) = 3
        BY <4>0, <4>1, TerminatorBytes
      <4> QED BY <2>2, <4>2, <3>2
    <3> QED BY <3>2, <3>3, <3>4
  <2> QED BY <2>0, <2>1, <2>2
<1> QED BY <1>1, TransferInit, TransferStep, PTL DEF Spec

(* Reading the file never goes past its end, and what is sent are bytes. *)
THEOREM TransferTypes == Spec => []TypeOK
<1>1. TransferInv => TypeOK
  BY DEF TransferInv
<1> QED BY <1>1, TransferInit, TransferStep, PTL DEF Spec

-----------------------------------------------------------------------------
(* What a client makes of what it receives, byte by byte *)

LEMMA LeastNat ==
    ASSUME NEW T \in SUBSET Nat, T # {}
    PROVE  \E n \in T : \A m \in T : n <= m
<1>1. PICK n \in T : \A m \in T : <<m, n>> \notin OpToRel(<, Nat)
  BY NatLessThanWellFounded, WFMin
<1>2. ASSUME NEW m \in T PROVE n <= m
  <2>1. ~(m < n)
    BY <1>1 DEF OpToRel
  <2> QED BY <2>1
<1> QED BY <1>2

(* Byte k of s is a dot the client removes. *)
Removed(s, k) ==
    k > 2 /\ s[k] = "." /\ s[k - 1] = "LF" /\ s[k - 2] = "CR"

(* One more byte of s, when the client made r of those before it *)
Received(s, k, r) == IF Removed(s, k) THEN r ELSE Append(r, s[k])

(* f[k] is what the client made of the first k bytes of s, up to byte n. *)
Undots(f, s, n) ==
    f = [k \in 0 .. n |-> IF k = 0 THEN <<>> ELSE Received(s, k, f[k - 1])]

LEMMA UndotsExists ==
    ASSUME NEW s, NEW n \in Nat
    PROVE  \E f : Undots(f, s, n)
<1> DEFINE T == {m \in Nat : ~ \E f : Undots(f, s, m)}
<1>1. SUFFICES ASSUME T # {} PROVE FALSE
  OBVIOUS
<1>2. PICK m \in T : \A l \in T : m <= l
  <2> HIDE DEF T
  <2>1. T \in SUBSET Nat
    BY DEF T
  <2> QED BY <1>1, <2>1, LeastNat
<1>3. m # 0
  <2>1. Undots([k \in 0 .. 0 |-> <<>>], s, 0)
    BY DEF Undots
  <2> QED BY <2>1
<1>4. PICK f : Undots(f, s, m - 1)
  BY <1>2, <1>3
<1> DEFINE g == [k \in 0 .. m |-> IF k = m THEN Received(s, m, f[m - 1]) ELSE f[k]]
<1>5. Undots(g, s, m)
  <2>1. m \in Nat \ {0} /\ \A k \in 0 .. m : k # m <=> k \in 0 .. m - 1
    BY <1>3
  <2>2. \A k \in 0 .. m - 1 :
           f[k] = IF k = 0 THEN <<>> ELSE Received(s, k, f[k - 1])
    BY <1>4, <2>1 DEF Undots
  <2>3. ASSUME NEW k \in 0 .. m
        PROVE  g[k] = IF k = 0 THEN <<>> ELSE Received(s, k, g[k - 1])
    <3>1. k # 0 => k - 1 \in 0 .. m - 1 /\ g[k - 1] = f[k - 1]
      BY <2>1
    <3>2. CASE k = m
      BY <2>1, <3>1, <3>2
    <3>3. CASE k # m
      BY <2>1, <2>2, <3>1, <3>3
    <3> QED BY <3>2, <3>3
  <2>4. g = [k \in 0 .. m |-> g[k]]
    OBVIOUS
  <2> HIDE DEF g
  <2> QED BY <2>3, <2>4 DEF Undots
<1> QED BY <1>5

(* There is one such function only, and what it makes of the first bytes   *)
(* depends on them alone.                                                  *)
LEMMA UndotsAgree ==
    ASSUME NEW s, NEW t, NEW n \in Nat, NEW m \in Nat, n <= m,
           NEW f, NEW g, Undots(f, s, n), Undots(g, t, m),
           \A k \in 1 .. n : s[k] = t[k]
    PROVE  \A k \in 0 .. n : f[k] = g[k]
<1> DEFINE T == {k \in 0 .. n : f[k] # g[k]}
<1>1. SUFFICES ASSUME T # {} PROVE FALSE
  OBVIOUS
<1>2. PICK k \in T : \A l \in T : k <= l
  <2> HIDE DEF T
  <2>1. T \in SUBSET Nat
    BY DEF T
  <2> QED BY <1>1, <2>1, LeastNat
<1>3. /\ f[k] = IF k = 0 THEN <<>> ELSE Received(s, k, f[k - 1])
      /\ g[k] = IF k = 0 THEN <<>> ELSE Received(t, k, g[k - 1])
  <2>1. k \in 0 .. n /\ k \in 0 .. m
    OBVIOUS
  <2> QED BY <2>1 DEF Undots
<1>4. k # 0
  BY <1>3
<1>5. f[k - 1] = g[k - 1]
  BY <1>2, <1>4
<1>6. s[k] = t[k] /\ (k > 2 => s[k - 1] = t[k - 1] /\ s[k - 2] = t[k - 2])
  BY <1>4
<1>7. Removed(s, k) <=> Removed(t, k)
  BY <1>6 DEF Removed
<1> QED BY <1>3, <1>4, <1>5, <1>6, <1>7 DEF Received

LEMMA UnstuffedIs ==
    ASSUME NEW s \in Seq(Byte), NEW f, Undots(f, s, Len(s))
    PROVE  Unstuffed(s) = f[Len(s)]
<1> DEFINE g == CHOOSE h : Undots(h, s, Len(s))
<1>1. Undots(g, s, Len(s))
  BY UndotsExists
<1>2. Unstuffed(s) = g[Len(s)]
  BY DEF Unstuffed, Undots, Received, Removed
<1> HIDE DEF g
<1>3. f[Len(s)] = g[Len(s)]
  BY <1>1, UndotsAgree
<1> QED BY <1>2, <1>3

(* The client gets one more byte. *)
LEMMA UnstuffedAppend ==
    ASSUME NEW s \in Seq(Byte), NEW b \in Byte
    PROVE  Unstuffed(Append(s, b)) =
             IF /\ Len(s) >= 2 /\ b = "."
                /\ s[Len(s)] = "LF" /\ s[Len(s) - 1] = "CR"
             THEN Unstuffed(s) ELSE Append(Unstuffed(s), b)
<1> DEFINE t == Append(s, b)
<1>1. /\ t \in Seq(Byte) /\ Len(t) = Len(s) + 1 /\ t[Len(t)] = b
      /\ \A k \in 1 .. Len(s) : s[k] = t[k]
      /\ Len(s) \in Nat /\ Len(t) \in Nat
  OBVIOUS
<1> HIDE DEF t
<1>2. PICK f : Undots(f, s, Len(s))
  BY <1>1, UndotsExists
<1>3. PICK g : Undots(g, t, Len(t))
  BY <1>1, UndotsExists
<1>4. Unstuffed(s) = f[Len(s)] /\ Unstuffed(t) = g[Len(t)]
  <2>1. Unstuffed(s) = f[Len(s)]
    BY <1>2, UnstuffedIs
  <2>2. Unstuffed(t) = g[Len(t)]
    BY <1>1, <1>3, UnstuffedIs
  <2> QED BY <2>1, <2>2
<1>5. f[Len(s)] = g[Len(s)]
  <2>1. Len(t) \in Nat /\ Len(s) <= Len(t) /\ Len(s) \in 0 .. Len(s)
    BY <1>1
  <2>2. \A k \in 0 .. Len(s) : f[k] = g[k]
    BY <1>1, <1>2, <1>3, <2>1, UndotsAgree
  <2> QED BY <2>1, <2>2
<1>6. g[Len(t)] = Received(t, Len(t), g[Len(s)])
  <2>1. Len(t) \in 0 .. Len(t) /\ Len(t) # 0 /\ Len(t) - 1 = Len(s)
    BY <1>1
  <2> QED BY <1>3, <2>1 DEF Undots
<1>7. Removed(t, Len(t)) <=> /\ Len(s) >= 2 /\ b = "."
                             /\ s[Len(s)] = "LF" /\ s[Len(s) - 1] = "CR"
  <2>1. /\ Len(t) - 1 = Len(s) /\ Len(t) - 2 = Len(s) - 1
        /\ Len(t) > 2 <=> Len(s) >= 2
    BY <1>1
  <2>2. Len(s) >= 2 => Len(s) \in 1 .. Len(s) /\ Len(s) - 1 \in 1 .. Len(s)
    BY <1>1
  <2> QED BY <1>1, <2>1, <2>2 DEF Removed
<1> QED BY <1>1, <1>4, <1>5, <1>6, <1>7 DEF Received, t

-----------------------------------------------------------------------------
(* A mail that a client can get back, and what it has got of it.  What was *)
(* sent ends a line exactly where the file does, and the client has made   *)
(* of it the bytes up to the one to be sent next.                          *)
Faithful == Canonical(file) /\ WellCut(file)

(* What was sent ends a line. *)
AtLineStart == sent[Len(sent)] = "LF" /\ sent[Len(sent) - 1] = "CR"

ArriveInv ==
    /\ Len(sent) >= 2
    /\ Unstuffed(sent) = Crlf \o SubSeq(file, 1, next - 1)
    /\ next = 1 => AtLineStart
    /\ next > 1 => /\ sent[Len(sent)] = file[next - 1]
                   /\ file[next - 1] = "LF" => AtLineStart

ArrivalInv ==
    /\ TypeOK
    /\ pc = "body" /\ Faithful => ArriveInv
    /\ MailArrives

LEMMA UnstuffedNothing == Unstuffed(<<>>) = <<>>
<1>1. /\ <<>> \in Seq(Byte) /\ Len(<<>>) = 0
  OBVIOUS
<1>2. PICK f : Undots(f, <<>>, Len(<<>>))
  BY <1>1, UndotsExists
<1>3. f[Len(<<>>)] = <<>>
  BY <1>1, <1>2 DEF Undots
<1> QED BY <1>1, <1>2, <1>3, UnstuffedIs

(* The client gets a byte that it keeps. *)
LEMMA Kept ==
    ASSUME NEW s \in Seq(Byte), NEW b \in Byte,
           b # "." \/ s[Len(s)] # "LF" \/ s[Len(s) - 1] # "CR"
    PROVE  Unstuffed(Append(s, b)) = Append(Unstuffed(s), b)
BY UnstuffedAppend

LEMMA UnstuffedCrlf ==
    /\ Unstuffed(Crlf) = Crlf
    /\ Crlf \in Seq(Byte) /\ Len(Crlf) = 2 /\ Crlf[1] = "CR" /\ Crlf[2] = "LF"
<1>1. "CR" \in Byte /\ "LF" \in Byte /\ <<>> \in Seq(Byte)
  BY DEF Byte
<1>2. Unstuffed(<<"CR">>) = <<"CR">>
  <2>1. Append(<<>>, "CR") = <<"CR">>
    OBVIOUS
  <2> QED BY <1>1, <2>1, UnstuffedAppend, UnstuffedNothing
<1>3. Unstuffed(<<"CR", "LF">>) = <<"CR", "LF">>
  <2>1. <<"CR">> \in Seq(Byte) /\ Append(<<"CR">>, "LF") = <<"CR", "LF">>
    <3>1. <<"CR">> \in Seq(Byte) /\ <<"CR", "LF">> \in Seq(Byte)
      BY <1>1
    <3>2. Append(<<"CR">>, "LF") \in Seq(Byte)
      BY <1>1, <3>1, AppendProperties
    <3>3. /\ Len(Append(<<"CR">>, "LF")) = 2 /\ Len(<<"CR", "LF">>) = 2
          /\ Append(<<"CR">>, "LF")[1] = "CR" /\ Append(<<"CR">>, "LF")[2] = "LF"
      BY <1>1, <3>1
    <3>4. \A i \in 1 .. 2 : Append(<<"CR">>, "LF")[i] = <<"CR", "LF">>[i]
      BY <3>3
    <3> QED BY <3>1, <3>2, <3>3, <3>4, SeqEqual
  <2>2. Unstuffed(Append(<<"CR">>, "LF")) = Append(Unstuffed(<<"CR">>), "LF")
    BY <1>1, <2>1, Kept
  <2> QED BY <1>2, <2>1, <2>2
<1> QED BY <1>1, <1>3 DEF Crlf

(* What is sent for a byte of a faithful mail *)
LEMMA FaithfulSending ==
    ASSUME TypeOK, Faithful, ArriveInv, next <= Len(file)
    PROVE  /\ file[next] = "." /\ AtLineStart => Sending(next) = <<".", ".">>
           /\ ~(file[next] = "." /\ AtLineStart) => Sending(next) = <<file[next]>>
           /\ file[next] = "LF" => next > 1 /\ sent[Len(sent)] = "CR"
<1>1. /\ next \in DOMAIN file /\ next \in 1 .. Len(file) /\ next \in Nat
      /\ next >= 1 /\ Len(file) \in Nat
  BY DEF TypeOK
<1>2. next = 1 => StartsChunk(next)
  BY TransferAssumption DEF StartsChunk
<1>3. next > 1 /\ StartsChunk(next) =>
        /\ file[next] = "." => file[next - 1] = "LF"
        /\ file[next] = "LF" => file[next - 1] # "CR"
  BY <1>1 DEF Faithful, WellCut
<1>4. file[next] = "LF" => next > 1 /\ file[next - 1] = "CR"
  BY <1>1 DEF Faithful, Canonical
<1>5. AtLineStart <=> next = 1 \/ file[next - 1] = "LF"
  BY <1>1 DEF ArriveInv, AtLineStart
<1>6. file[next] = "." => (Stuffed(next) <=> AtLineStart)
  BY <1>1, <1>2, <1>3, <1>5 DEF Stuffed, Follows
<1>7. file[next] # "." => ~Stuffed(next)
  BY DEF Stuffed
<1>8. ~Returned(next)
  BY <1>1, <1>2, <1>3, <1>4 DEF Returned, Follows
<1>9. file[next] = "LF" => next > 1 /\ sent[Len(sent)] = "CR"
  BY <1>4 DEF ArriveInv
<1> QED BY <1>6, <1>7, <1>8, <1>9 DEF Sending

LEMMA ArriveByte ==
    ASSUME TypeOK, Faithful, ArriveInv, send_byte
    PROVE  ArriveInv'
<1> DEFINE b == file[next]
<1>1. /\ next <= Len(file) /\ file' = file /\ next' = next + 1
      /\ sent' = sent \o Sending(next)
      /\ next \in 1 .. Len(file) /\ b \in Byte /\ sent \in Seq(Byte)
      /\ file \in Seq(Byte) /\ Len(sent) \in Nat /\ Len(sent) >= 2
  BY DEF send_byte, TypeOK, ArriveInv
<1>2. /\ b = "." /\ AtLineStart => sent' = Append(Append(sent, "."), b)
      /\ ~(b = "." /\ AtLineStart) => sent' = Append(sent, b)
      /\ b = "LF" => sent[Len(sent)] = "CR"
  <2>1. /\ b = "." /\ AtLineStart => Sending(next) = <<".", ".">>
        /\ ~(b = "." /\ AtLineStart) => Sending(next) = <<b>>
        /\ b = "LF" => sent[Len(sent)] = "CR"
    BY <1>1, FaithfulSending
  <2> HIDE DEF b
  <2>2. "." \in Byte
    BY DEF Byte
  <2>3. /\ sent \o <<".", ".">> = Append(Append(sent, "."), ".")
        /\ sent \o <<b>> = Append(sent, b)
    BY <1>1, <2>2
  <2> QED BY <1>1, <2>1, <2>3
<1>3. Append(Crlf \o SubSeq(file, 1, next - 1), b) = Crlf \o SubSeq(file, 1, next)
  <2> DEFINE u == SubSeq(file, 1, next - 1)
  <2>1. u \in Seq(Byte) /\ SubSeq(file, 1, next) = u \o <<b>>
    <3>1. 1 \in 1 .. Len(file) /\ next \in 1 .. Len(file)
      BY <1>1
    <3>2. SubSeq(file, 1, next) = u \o <<file[next]>>
      BY <1>1, <3>1, SubSeqRecursiveSecond
    <3>3. u \in Seq(Byte)
      BY <1>1
    <3> QED BY <3>2, <3>3
  <2> HIDE DEF u, b
  <2>2. Crlf \o u \in Seq(Byte) /\ <<b>> \in Seq(Byte)
    BY <1>1, <2>1, UnstuffedCrlf
  <2>3. Append(Crlf \o u, b) = (Crlf \o u) \o <<b>>
    BY <1>1, <2>2, AppendIsConcat
  <2>4. (Crlf \o u) \o <<b>> = Crlf \o (u \o <<b>>)
    BY <2>1, <2>2, UnstuffedCrlf, ConcatAssociative
  <2> QED BY <2>1, <2>3, <2>4 DEF u
<1>4. Unstuffed(sent) = Crlf \o SubSeq(file, 1, next - 1)
  BY DEF ArriveInv
<1> HIDE DEF b
<1>5. /\ Unstuffed(sent') = Append(Unstuffed(sent), b)
      /\ Len(sent') > Len(sent) /\ sent'[Len(sent')] = b
      /\ b = "LF" => sent'[Len(sent') - 1] = "CR"
  <2>1. CASE b = "." /\ AtLineStart
    <3> DEFINE s == Append(sent, ".")
    <3>1. /\ s \in Seq(Byte) /\ Len(s) = Len(sent) + 1 /\ s[Len(s)] = "."
      BY <1>1, <2>1
    <3>2. Unstuffed(s) = Unstuffed(sent)
      BY <1>1, <2>1, UnstuffedAppend DEF AtLineStart
    <3>3. sent' = Append(s, b)
      BY <1>2, <2>1
    <3> HIDE DEF s
    <3>4. Unstuffed(sent') = Append(Unstuffed(s), b)
      BY <1>1, <3>1, <3>3, Kept
    <3>5. Len(sent') = Len(s) + 1 /\ sent'[Len(sent')] = b
      BY <1>1, <3>1, <3>3
    <3> QED BY <1>1, <2>1, <3>1, <3>2, <3>4, <3>5
  <2>2. CASE ~(b = "." /\ AtLineStart)
    <3>1. sent' = Append(sent, b)
      BY <1>2, <2>2
    <3>2. /\ Len(sent') = Len(sent) + 1 /\ sent'[Len(sent')] = b
          /\ sent'[Len(sent') - 1] = sent[Len(sent)]
      BY <1>1, <3>1
    <3>3. Unstuffed(sent') = Append(Unstuffed(sent), b)
      BY <1>1, <2>2, <3>1, Kept DEF AtLineStart
    <3> QED BY <1>1, <1>2, <3>2, <3>3
  <2> QED BY <2>1, <2>2
<1>6. next' - 1 = next /\ next' > 1
  BY <1>1
<1>7. b = "LF" => AtLineStart'
  BY <1>5 DEF AtLineStart
<1>8. Unstuffed(sent') = Crlf \o SubSeq(file', 1, next' - 1)
  BY <1>1, <1>3, <1>4, <1>5, <1>6
<1>9. sent'[Len(sent')] = file'[next' - 1] /\ Len(sent') >= 2
  BY <1>1, <1>5, <1>6 DEF b
<1>10. file'[next' - 1] = "LF" => AtLineStart'
  BY <1>1, <1>6, <1>7 DEF b
<1> QED BY <1>6, <1>8, <1>9, <1>10 DEF ArriveInv

(* After the last byte comes the end: the "\r\n" of the terminator is the   *)
(* empty line, and the client is done when the rest of it comes.            *)
LEMMA ArriveDot ==
    ASSUME TypeOK, Faithful, ArriveInv, send_dot
    PROVE  Unstuffed(SubSeq(sent', 1, Len(sent') - 3)) = Crlf \o file \o Crlf
<1> DEFINE s == Append(Append(sent, "CR"), "LF")
<1>1. /\ sent' = sent \o Terminator /\ next > Len(file)
      /\ sent \in Seq(Byte) /\ file \in Seq(Byte) /\ next = Len(file) + 1
      /\ "CR" \in Byte /\ "LF" \in Byte /\ Len(sent) \in Nat
  BY DEF send_dot, TypeOK, Byte
<1>2. SubSeq(sent', 1, Len(sent') - 3) = s
  <2>1. /\ sent' \in Seq(Byte) /\ Len(sent') = Len(sent) + 5
        /\ \A i \in 1 .. Len(sent) : sent'[i] = sent[i]
        /\ \A j \in 1 .. 5 : sent'[Len(sent) + j] = Terminator[j]
    <3>1. /\ sent \o Terminator \in Seq(Byte)
          /\ Len(sent \o Terminator) = Len(sent) + Len(Terminator)
          /\ \A i \in 1 .. Len(sent) : (sent \o Terminator)[i] = sent[i]
          /\ \A j \in 1 .. Len(Terminator) :
               (sent \o Terminator)[Len(sent) + j] = Terminator[j]
      BY <1>1, TerminatorBytes, Joined
    <3>2. Len(Terminator) = 5 /\ sent' = sent \o Terminator
      BY <1>1, TerminatorBytes
    <3> QED BY <3>1, <3>2
  <2>2. sent'[Len(sent) + 1] = "CR" /\ sent'[Len(sent) + 2] = "LF"
    BY <2>1, TerminatorBytes
  <2>3. /\ s \in Seq(Byte) /\ Len(s) = Len(sent) + 2
        /\ \A i \in 1 .. Len(sent) : s[i] = sent[i]
        /\ s[Len(sent) + 1] = "CR" /\ s[Len(sent) + 2] = "LF"
    BY <1>1
  <2> HIDE DEF s
  <2> DEFINE u == SubSeq(sent', 1, Len(sent') - 3)
  <2>4. /\ u \in Seq(Byte) /\ Len(u) = Len(sent) + 2
        /\ \A i \in 1 .. Len(sent) + 2 : u[i] = sent'[i]
    BY <1>1, <2>1
  <2> HIDE DEF u
  <2>5. ASSUME NEW i \in 1 .. Len(sent) + 2 PROVE u[i] = s[i]
    <3>1. u[i] = sent'[i]
      BY <2>4
    <3>2. CASE i \in 1 .. Len(sent)
      BY <2>1, <2>3, <3>1, <3>2
    <3>3. CASE i = Len(sent) + 1 \/ i = Len(sent) + 2
      BY <2>2, <2>3, <3>1, <3>3
    <3> QED BY <1>1, <3>2, <3>3
  <2>6. u = s
    BY <2>3, <2>4, <2>5, SeqEqual
  <2> QED BY <2>6 DEF u
<1>3. Unstuffed(s) = Append(Append(Unstuffed(sent), "CR"), "LF")
  <2>1. Append(sent, "CR") \in Seq(Byte)
    BY <1>1
  <2> QED BY <1>1, <2>1, Kept
<1>4. Unstuffed(sent) = Crlf \o file
  <2>1. SubSeq(file, 1, next - 1) = file
    BY <1>1
  <2> QED BY <2>1 DEF ArriveInv
<1>5. Append(Append(Crlf \o file, "CR"), "LF") = Crlf \o file \o Crlf
  <2>1. Crlf \o file \in Seq(Byte)
    BY <1>1, UnstuffedCrlf
  <2> QED BY <1>1, <2>1 DEF Crlf
<1> QED BY <1>2, <1>3, <1>4, <1>5

(* A mail that is as RFC 5322 has it, and is cut where the chunks do no    *)
(* harm, is what the client makes of the answer, for every such mail and   *)
(* every size of the chunks.                                               *)
THEOREM ClientGetsTheMail == Spec => []MailArrives
<1>1. Init => ArrivalInv
  <2> SUFFICES ASSUME Init PROVE ArrivalInv
    OBVIOUS
  <2>1. TypeOK /\ pc = "body"
    BY TransferInit DEF TransferInv, Init
  <2>2. sent = Crlf /\ next = 1 /\ file \in Seq(Byte)
    BY <2>1 DEF Init, TypeOK
  <2>3. Crlf \o SubSeq(file, 1, 1 - 1) = Crlf
    BY <2>2, UnstuffedCrlf
  <2>4. ArriveInv
    BY <2>2, <2>3, UnstuffedCrlf DEF ArriveInv, AtLineStart
  <2> QED BY <2>1, <2>4 DEF ArrivalInv, MailArrives
<1>2. TransferInv /\ TransferInv' /\ ArrivalInv /\ [Next]_transferVars => ArrivalInv'
  <2> SUFFICES ASSUME TransferInv', ArrivalInv, [Next]_transferVars
               PROVE  ArrivalInv'
    OBVIOUS
  <2>0. TypeOK /\ TypeOK' /\ MailArrives /\ (pc = "body" /\ Faithful => ArriveInv)
    BY DEF ArrivalInv, TransferInv
  <2>1. CASE send_byte
    <3>1. pc = "body" /\ pc' = "body" /\ file' = file
      BY <2>1 DEF send_byte
    <3>2. Faithful' => ArriveInv'
      <4>1. Faithful' => Faithful
        BY <3>1 DEF Faithful, WellCut, Canonical, StartsChunk
      <4> QED BY <2>0, <2>1, <3>1, <4>1, ArriveByte
    <3> QED BY <2>0, <3>1, <3>2 DEF ArrivalInv, MailArrives
  <2>2. CASE send_dot
    <3>1. pc = "body" /\ pc' = "done" /\ file' = file
      BY <2>2 DEF send_dot
    <3>2. Canonical(file') /\ WellCut(file') => Faithful
      BY <3>1 DEF Faithful
    <3> QED BY <2>0, <2>2, <3>1, <3>2, ArriveDot DEF ArrivalInv, MailArrives
  <2>3. CASE UNCHANGED transferVars
    BY <2>0, <2>3 DEF transferVars, ArrivalInv, Faithful, ArriveInv, AtLineStart,
                      MailArrives
  <2> QED BY <2>1, <2>2, <2>3 DEF Next
<1>3. ArrivalInv => MailArrives
  BY DEF ArrivalInv
<1> QED BY <1>1, <1>2, <1>3, TransferInit, TransferStep, PTL DEF Spec
===============================================================================
