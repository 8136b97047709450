--------------------------- MODULE SessionLinkProofs ---------------------------
(* Type correctness and the safety of the queue index and of delivery, for every *)
(* number of requests, pushes, breaks and reconnects.                            *)
EXTENDS SessionLink, SequenceTheorems, TLAPS

-------------------------------------------------------------------------------
(* What the operations of Xfer preserve and return, for every queue and sn.      *)

(* The queue of a sound endpoint: typed, consecutive numbers, index in range.    *)
XferOK(x) == x \in XferState /\ Contiguous(x) /\ SendIndexOK(x)

(* The pop loop has an answer on a queue of consecutive numbers, and it stops    *)
(* where the numbers pass the ack.                                               *)
LEMMA AckedPrefixExists ==
  ASSUME NEW x \in XferState, Contiguous(x), NEW ack \in Nat, ack <= x.tail_sn
  PROVE  LET q == x.que
             n == AckedPrefix(q, ack)
         IN  /\ n \in 0..Len(q)
             /\ \A i \in 1..n : q[i].sn <= ack
             /\ n < Len(q) => q[n + 1].sn > ack
<1> DEFINE q == x.que
           base == x.tail_sn - Len(q)
           P(n) == /\ \A i \in 1..n : q[i].sn <= ack
                   /\ n < Len(q) => q[n + 1].sn > ack
           w == IF ack < base THEN 0 ELSE ack - base
<1>1. q \in Seq(Packet) /\ Len(q) \in Nat /\ x.tail_sn \in Nat
  BY DEF XferState
<1>2. Len(q) <= x.tail_sn /\ \A i \in 1..Len(q) : q[i].sn = base + i
  BY DEF Contiguous
<1>3. w \in 0..Len(q)
  BY <1>1, <1>2
<1>4. P(w)
  <2>1. ASSUME NEW i \in 1..w
        PROVE  q[i].sn <= ack
    <3>1. i \in 1..Len(q) /\ base + i <= ack
      BY <1>1, <1>2, <1>3
    <3>2. QED
      BY <3>1, <1>2
  <2>2. ASSUME w < Len(q)
        PROVE  q[w + 1].sn > ack
    <3>1. w + 1 \in 1..Len(q) /\ base + (w + 1) > ack
      BY <2>2, <1>1, <1>2, <1>3
    <3>2. QED
      BY <3>1, <1>2
  <2>3. QED
    BY <2>1, <2>2
<1>5. \E n \in 0..Len(q) : P(n)
  BY <1>3, <1>4
<1> HIDE DEF P, q
<1>6. (CHOOSE n \in 0..Len(q) : P(n)) \in 0..Len(q) /\ P(CHOOSE n \in 0..Len(q) : P(n))
  BY <1>5
<1>7. QED
  BY <1>6 DEF AckedPrefix, P, q

(* An ack for something that was sent pops only what was sent: the index does    *)
(* not wrap, the sent and unsent parts of the queue stay what they were, and     *)
(* everything popped was acknowledged.                                           *)
LEMMA UpdateRecvAckSound ==
  ASSUME NEW x, XferOK(x), NEW ack \in Nat, ack <= SentSn(x)
  PROVE  LET y == UpdateRecvAck(x, ack)
         IN  /\ XferOK(y)
             /\ SentSn(y) = SentSn(x)
             /\ y.tail_sn = x.tail_sn
             /\ y.recv_sn = x.recv_sn /\ y.sent_ack_sn = x.sent_ack_sn
             /\ \A i \in 1..Len(x.que) :
                  x.que[i].sn > ack => \E j \in 1..Len(y.que) : y.que[j] = x.que[i]
             /\ \A j \in 1..Len(y.que) : \E i \in 1..Len(x.que) : x.que[i] = y.que[j]
<1> DEFINE q == x.que
           n == AckedPrefix(q, ack)
           y == UpdateRecvAck(x, ack)
           base == x.tail_sn - Len(q)
<1>1. /\ q \in Seq(Packet) /\ Len(q) \in Nat
      /\ x.tail_sn \in Nat /\ x.send_index \in 0..Len(q)
  BY DEF XferOK, XferState, SendIndexOK
<1>2. Len(q) <= x.tail_sn /\ \A i \in 1..Len(q) : q[i].sn = base + i
  BY DEF XferOK, Contiguous
<1>3. ack <= base + x.send_index /\ ack <= x.tail_sn
  BY <1>1, <1>2 DEF SentSn
<1>4. /\ n \in 0..Len(q)
      /\ \A i \in 1..n : q[i].sn <= ack
      /\ n < Len(q) => q[n + 1].sn > ack
  BY <1>3, AckedPrefixExists DEF XferOK
<1>5. n <= x.send_index
  <2>1. CASE n = 0
    BY <2>1, <1>1
  <2>2. CASE n # 0
    <3>1. q[n].sn = base + n /\ q[n].sn <= ack
      BY <2>2, <1>1, <1>2, <1>4
    <3>2. QED
      BY <3>1, <1>1, <1>3, <1>4
  <2>3. QED
    BY <2>1, <2>2
<1> HIDE DEF n
<1>6. /\ SubSeq(q, n + 1, Len(q)) \in Seq(Packet)
      /\ Len(SubSeq(q, n + 1, Len(q))) = Len(q) - n
      /\ \A i \in 1..(Len(q) - n) : SubSeq(q, n + 1, Len(q))[i] = q[n + i]
  <2>1. \A i \in (n + 1)..Len(q) : q[i] \in Packet
    BY <1>1, <1>4
  <2>2. n + 1 \in Int /\ Len(q) \in Int
    BY <1>1, <1>4
  <2>3. QED
    BY <2>1, <2>2, <1>4, SubSeqProperties, Z3
<1>7. y = [x EXCEPT !.que = SubSeq(q, n + 1, Len(q)), !.send_index = x.send_index - n]
  BY <1>1, <1>4, <1>5 DEF UpdateRecvAck, UsizeSub, n
<1>8. /\ y \in XferState
      /\ y.que = SubSeq(q, n + 1, Len(q))
      /\ y.send_index = x.send_index - n
      /\ y.tail_sn = x.tail_sn /\ y.recv_sn = x.recv_sn
      /\ y.sent_ack_sn = x.sent_ack_sn
  <2>1. x.send_index - n \in Nat
    BY <1>1, <1>4, <1>5
  <2>2. x \in [que : Seq(Packet), tail_sn : Nat, send_index : Nat,
               recv_sn : Nat, sent_ack_sn : Nat]
    BY DEF XferOK, XferState
  <2> HIDE DEF y, q
  <2>3. QED
    BY <2>1, <2>2, <1>6, <1>7 DEF XferState
<1> HIDE DEF y
<1>9. Contiguous(y) /\ SendIndexOK(y) /\ SentSn(y) = SentSn(x)
  <2>1. Len(y.que) = Len(q) - n /\ Len(y.que) <= y.tail_sn
    BY <1>1, <1>2, <1>4, <1>6, <1>8
  <2>2. ASSUME NEW i \in 1..Len(y.que)
        PROVE  y.que[i].sn = y.tail_sn - Len(y.que) + i
    <3>1. i \in 1..(Len(q) - n) /\ n + i \in 1..Len(q)
      BY <2>1, <1>1, <1>4
    <3>2. y.que[i] = q[n + i] /\ q[n + i].sn = base + (n + i)
      BY <3>1, <1>2, <1>6, <1>8
    <3>3. QED
      BY <3>2, <2>1, <1>1, <1>4, <1>8
  <2>3. Contiguous(y)
    BY <2>1, <2>2 DEF Contiguous
  <2>4. /\ Len(q) \in Nat /\ n \in Nat /\ n <= Len(q) /\ x.tail_sn \in Nat
        /\ x.send_index \in Nat /\ x.send_index <= Len(q) /\ n <= x.send_index
    BY <1>1, <1>4, <1>5
  <2> HIDE DEF q
  <2>5. y.send_index \in 0..Len(y.que)
    BY <2>1, <2>4, <1>8
  <2>6. y.tail_sn - Len(y.que) + y.send_index = x.tail_sn - Len(q) + x.send_index
    BY <2>1, <2>4, <1>8
  <2>7. QED
    BY <2>3, <2>5, <2>6 DEF SendIndexOK, SentSn, q
<1>10. ASSUME NEW i \in 1..Len(q), q[i].sn > ack
       PROVE  \E j \in 1..Len(y.que) : y.que[j] = q[i]
  <2>1. i > n
    BY <1>10, <1>1, <1>2, <1>4
  <2>2. i - n \in 1..(Len(q) - n) /\ n + (i - n) = i
    BY <2>1, <1>1, <1>4
  <2>3. y.que[i - n] = q[n + (i - n)] /\ i - n \in 1..Len(y.que)
    BY <2>2, <1>6, <1>8
  <2>4. QED
    BY <2>2, <2>3
<1>11. ASSUME NEW j \in 1..Len(y.que)
       PROVE  \E i \in 1..Len(q) : q[i] = y.que[j]
  <2>1. j \in 1..(Len(q) - n) /\ n + j \in 1..Len(q)
    BY <1>1, <1>4, <1>6, <1>8
  <2>2. QED
    BY <2>1, <1>6, <1>8
<1>12. QED
  BY <1>8, <1>9, <1>10, <1>11 DEF XferOK, y

(* A queued packet gets the next number, and what was sent does not change.      *)
LEMMA AddQos1Sound ==
  ASSUME NEW x, XferOK(x)
  PROVE  LET y == AddQos1(x, 0)
         IN  /\ XferOK(y)
             /\ SentSn(y) = SentSn(x)
             /\ y.tail_sn = x.tail_sn + 1
             /\ \A i \in 1..Len(x.que) : i \in 1..Len(y.que) /\ y.que[i] = x.que[i]
<1> DEFINE p == [sn |-> x.tail_sn + 1, ack |-> FillAck(x, 0)]
           y == AddQos1(x, 0)
<1>1. /\ x.que \in Seq(Packet) /\ Len(x.que) \in Nat /\ x.send_index \in 0..Len(x.que)
      /\ x.tail_sn \in Nat /\ x.recv_sn \in Nat /\ x.sent_ack_sn \in Nat
  BY DEF XferOK, XferState, SendIndexOK
<1>2. FillAck(x, 0) \in Nat /\ p \in Packet
  BY <1>1 DEF FillAck, Packet
<1>3. /\ Append(x.que, p) \in Seq(Packet)
      /\ Len(Append(x.que, p)) = Len(x.que) + 1
      /\ \A i \in 1..Len(x.que) : Append(x.que, p)[i] = x.que[i]
      /\ Append(x.que, p)[Len(x.que) + 1] = p
  BY <1>1, <1>2, AppendProperties
<1> HIDE DEF p
<1>4. /\ y \in XferState
      /\ y.que = Append(x.que, p)
      /\ y.send_index = x.send_index
      /\ y.tail_sn = x.tail_sn + 1
  <2>1. y = [x EXCEPT !.que = Append(x.que, p), !.tail_sn = x.tail_sn + 1,
                      !.sent_ack_sn = IF FillAck(x, 0) > x.sent_ack_sn
                                      THEN FillAck(x, 0) ELSE x.sent_ack_sn]
    BY DEF AddQos1, p
  <2>2. (IF FillAck(x, 0) > x.sent_ack_sn THEN FillAck(x, 0) ELSE x.sent_ack_sn) \in Nat
    BY <1>1, <1>2
  <2>3. x \in [que : Seq(Packet), tail_sn : Nat, send_index : Nat,
               recv_sn : Nat, sent_ack_sn : Nat]
    BY DEF XferOK, XferState
  <2>4. x.tail_sn + 1 \in Nat /\ Append(x.que, p) \in Seq(Packet)
    BY <1>1, <1>3
  <2> HIDE DEF y
  <2>5. QED
    BY <2>1, <2>2, <2>3, <2>4 DEF XferState
<1> HIDE DEF y
<1>5. Len(y.que) = Len(x.que) + 1 /\ \A i \in 1..Len(x.que) : y.que[i] = x.que[i]
  BY <1>3, <1>4
<1>6. Contiguous(y)
  <2>1. Len(x.que) <= x.tail_sn
        /\ \A i \in 1..Len(x.que) : x.que[i].sn = x.tail_sn - Len(x.que) + i
    BY DEF XferOK, Contiguous
  <2>2. ASSUME NEW i \in 1..Len(y.que)
        PROVE  y.que[i].sn = y.tail_sn - Len(y.que) + i
    <3>1. CASE i = Len(x.que) + 1
      <4>1. y.que[i].sn = x.tail_sn + 1
        BY <3>1, <1>3, <1>4 DEF p
      <4>2. QED
        BY <4>1, <3>1, <1>1, <1>4, <1>5
    <3>2. CASE i # Len(x.que) + 1
      <4>1. i \in 1..Len(x.que)
        BY <3>2, <1>1, <1>5
      <4>2. y.que[i].sn = x.tail_sn - Len(x.que) + i
        BY <4>1, <2>1, <1>5
      <4>3. y.tail_sn - Len(y.que) = x.tail_sn - Len(x.que)
        BY <1>1, <1>4, <1>5
      <4>4. QED
        BY <4>2, <4>3
    <3>3. QED
      BY <3>1, <3>2
  <2>3. Len(y.que) <= y.tail_sn
    BY <2>1, <1>1, <1>4, <1>5
  <2>4. QED
    BY <2>2, <2>3 DEF Contiguous
<1>7. y.send_index \in 0..Len(y.que)
      /\ y.tail_sn - Len(y.que) + y.send_index = x.tail_sn - Len(x.que) + x.send_index
  <2>1. Len(x.que) \in Nat /\ x.send_index \in 0..Len(x.que) /\ x.tail_sn \in Nat
    BY <1>1
  <2>2. y.send_index = x.send_index /\ y.tail_sn = x.tail_sn + 1 /\ Len(y.que) = Len(x.que) + 1
    BY <1>4, <1>5
  <2>3. \A n \in Nat : \A s \in 0..n : \A t \in Nat :
          s \in 0..(n + 1) /\ (t + 1) - (n + 1) + s = t - n + s
    OBVIOUS
  <2>4. /\ x.send_index \in 0..(Len(x.que) + 1)
        /\ (x.tail_sn + 1) - (Len(x.que) + 1) + x.send_index = x.tail_sn - Len(x.que) + x.send_index
    BY <2>1, <2>3
  <2>5. QED
    BY <2>2, <2>4
<1>8. \A i \in 1..Len(x.que) : i \in 1..Len(y.que)
  BY <1>1, <1>5
<1>9. QED
  BY <1>4, <1>5, <1>6, <1>7, <1>8 DEF XferOK, SendIndexOK, SentSn, y

(* Handing out the next unsent packet moves the boundary past exactly its sn.    *)
LEMMA MarkSentSound ==
  ASSUME NEW x, XferOK(x), HasUnsent(x)
  PROVE  /\ XferOK(MarkSent(x))
         /\ NextUnsent(x) \in Packet
         /\ NextUnsent(x).sn = SentSn(x) + 1
         /\ SentSn(MarkSent(x)) = SentSn(x) + 1
         /\ MarkSent(x).que = x.que
         /\ MarkSent(x).tail_sn = x.tail_sn
<1>1. /\ x.que \in Seq(Packet) /\ Len(x.que) \in Nat
      /\ x.send_index \in 0..Len(x.que) /\ x.tail_sn \in Nat
  BY DEF XferOK, XferState, SendIndexOK
<1>2. x.send_index + 1 \in 1..Len(x.que)
  BY <1>1 DEF HasUnsent
<1>3. /\ MarkSent(x) \in XferState /\ MarkSent(x).que = x.que
      /\ MarkSent(x).send_index = x.send_index + 1
      /\ MarkSent(x).tail_sn = x.tail_sn
  BY <1>1 DEF MarkSent, XferOK, XferState
<1> DEFINE y == MarkSent(x)
<1> HIDE DEF y
<1>4. y.send_index \in 0..Len(y.que) /\ SentSn(y) = SentSn(x) + 1
  BY <1>1, <1>2, <1>3 DEF SentSn, y
<1>5. Contiguous(y)
  BY <1>3 DEF XferOK, Contiguous, y
<1>6. NextUnsent(x) \in Packet /\ NextUnsent(x).sn = x.tail_sn - Len(x.que) + (x.send_index + 1)
  BY <1>1, <1>2 DEF NextUnsent, XferOK, Contiguous
<1>7. QED
  BY <1>1, <1>3, <1>4, <1>5, <1>6 DEF XferOK, SendIndexOK, SentSn, y

(* Receiving sns and committing acks leave the queue alone.                      *)
LEMMA RecvSideSound ==
  ASSUME NEW x, XferOK(x), NEW sn \in Nat
  PROVE  /\ XferOK(UpdateRecvSn(x, sn)) /\ XferOK(MarkAckSent(x))
         /\ UpdateRecvSn(x, sn).que = x.que /\ MarkAckSent(x).que = x.que
         /\ SentSn(UpdateRecvSn(x, sn)) = SentSn(x)
         /\ SentSn(MarkAckSent(x)) = SentSn(x)
         /\ UpdateRecvSn(x, sn).tail_sn = x.tail_sn
         /\ MarkAckSent(x).tail_sn = x.tail_sn
  BY DEF XferOK, XferState, Contiguous, SendIndexOK, SentSn, UpdateRecvSn, MarkAckSent

(* What is still unsent carries the numbers above SentSn, and nothing else does. *)
LEMMA UnsentNumbers ==
  ASSUME NEW x, XferOK(x)
  PROVE  /\ SentSn(x) \in Nat /\ SentSn(x) <= x.tail_sn /\ x.tail_sn \in Nat
         /\ \A i \in 1..Len(x.que) : i > x.send_index <=> x.que[i].sn > SentSn(x)
         /\ {x.que[i].sn : i \in (x.send_index + 1)..Len(x.que)}
              = (SentSn(x) + 1)..x.tail_sn
<1> DEFINE base == x.tail_sn - Len(x.que)
           unsent == {x.que[i].sn : i \in (x.send_index + 1)..Len(x.que)}
<1>1. /\ Len(x.que) \in Nat /\ x.tail_sn \in Nat /\ x.send_index \in Nat
      /\ x.send_index <= Len(x.que) /\ Len(x.que) <= x.tail_sn
      /\ \A i \in 1..Len(x.que) : x.que[i].sn = base + i
  BY DEF XferOK, XferState, Contiguous, SendIndexOK
<1>2. SentSn(x) = base + x.send_index /\ base \in Nat
  BY <1>1 DEF SentSn
<1> HIDE DEF base
<1>3. \A i \in 1..Len(x.que) : i > x.send_index <=> x.que[i].sn > SentSn(x)
  BY <1>1, <1>2
<1>4. x.tail_sn = base + Len(x.que)
  BY <1>1 DEF base
<1>5. ASSUME NEW n \in unsent PROVE n \in (SentSn(x) + 1)..x.tail_sn
  <2>1. PICK i \in (x.send_index + 1)..Len(x.que) : n = x.que[i].sn
    OBVIOUS
  <2>2. i \in 1..Len(x.que) /\ n = base + i
    BY <2>1, <1>1
  <2>3. QED
    BY <2>1, <2>2, <1>1, <1>2, <1>4
<1>6. ASSUME NEW n \in (SentSn(x) + 1)..x.tail_sn PROVE n \in unsent
  <2>1. /\ n - base \in (x.send_index + 1)..Len(x.que)
        /\ n - base \in 1..Len(x.que) /\ n = base + (n - base)
    <3>1. /\ base \in Nat /\ x.send_index \in Nat /\ Len(x.que) \in Nat
          /\ n \in Nat /\ base + x.send_index + 1 <= n /\ n <= base + Len(x.que)
      <4>1. /\ base \in Nat /\ x.send_index \in Nat /\ Len(x.que) \in Nat
            /\ SentSn(x) = base + x.send_index /\ x.tail_sn = base + Len(x.que)
        BY <1>1, <1>2, <1>4
      <4>2. QED
        BY <4>1
    <3>2. QED
      BY <3>1
  <2>2. x.que[n - base].sn = n
    BY <2>1, <1>1
  <2>3. QED
    BY <2>1, <2>2
<1>7. unsent = (SentSn(x) + 1)..x.tail_sn
  <2> HIDE DEF unsent
  <2> QED
    BY <1>5, <1>6
<1>8. SentSn(x) \in Nat /\ SentSn(x) <= x.tail_sn /\ x.tail_sn \in Nat
  <2>1. /\ SentSn(x) = base + x.send_index /\ base \in Nat
        /\ x.tail_sn = base + Len(x.que) /\ x.send_index <= Len(x.que)
        /\ x.send_index \in Nat /\ Len(x.que) \in Nat
    BY <1>1, <1>2, <1>4
  <2>2. QED
    BY <2>1
<1>9. QED
  BY <1>3, <1>7, <1>8 DEF unsent

(* What a new packet carries, and what it counts as acknowledged.                *)
LEMMA AddQos1Shape ==
  ASSUME NEW x \in XferState
  PROVE  LET p == [sn |-> x.tail_sn + 1, ack |-> FillAck(x, 0)]
             y == AddQos1(x, 0)
         IN  /\ p \in Packet
             /\ y.que = Append(x.que, p)
             /\ y.tail_sn = x.tail_sn + 1
             /\ y.send_index = x.send_index
             /\ y.recv_sn = x.recv_sn
             /\ y.sent_ack_sn = x.sent_ack_sn
                  \/ (y.sent_ack_sn = p.ack /\ p.ack = x.recv_sn)
             /\ p.ack = 0 \/ p.ack = x.recv_sn
BY DEF XferState, Packet, AddQos1, FillAck

(* Only these fields change when a packet or an ack is sent, or a sn received.   *)
LEMMA FieldsKept ==
  ASSUME NEW x \in XferState, NEW sn \in Nat
  PROVE  /\ MarkSent(x).recv_sn = x.recv_sn /\ MarkSent(x).que = x.que
         /\ MarkSent(x).sent_ack_sn = x.sent_ack_sn
         /\ MarkSent(x).send_index = x.send_index + 1
         /\ MarkAckSent(x).recv_sn = x.recv_sn /\ MarkAckSent(x).que = x.que
         /\ MarkAckSent(x).sent_ack_sn = x.recv_sn
         /\ MarkAckSent(x).send_index = x.send_index
         /\ UpdateRecvSn(x, sn).recv_sn = (IF sn > x.recv_sn THEN sn ELSE x.recv_sn)
         /\ UpdateRecvSn(x, sn).que = x.que
         /\ UpdateRecvSn(x, sn).sent_ack_sn = x.sent_ack_sn
         /\ UpdateRecvSn(x, sn).tail_sn = x.tail_sn
         /\ UpdateRecvSn(x, sn).send_index = x.send_index
BY DEF XferState, MarkSent, MarkAckSent, UpdateRecvSn

(* The numbers of a typed endpoint are numbers.                                  *)
LEMMA QueueTypes ==
  ASSUME NEW x \in XferState
  PROVE  /\ x.que \in Seq(Packet) /\ Len(x.que) \in Nat
         /\ x.tail_sn \in Nat /\ x.send_index \in Nat
         /\ x.recv_sn \in Nat /\ x.sent_ack_sn \in Nat
         /\ \A i \in 1..Len(x.que) : x.que[i].sn \in Nat /\ x.que[i].ack \in Nat
<1>1. x.que \in Seq(Packet) /\ \A i \in 1..Len(x.que) : x.que[i] \in Packet
  BY DEF XferState
<1>2. QED
  BY <1>1 DEF XferState, Packet


-------------------------------------------------------------------------------
(* The inductive invariant.  SentSn(xfer) is where the numbers handed to a        *)
(* connection end; everything the server received or has in flight towards it    *)
(* is at or below, every ack in flight to the client at or below what the server *)
(* received: an ack names a packet that was sent, so popping it keeps the index. *)
SentBound == /\ srv_recv <= SentSn(xfer)
             /\ \A i \in 1..Len(c2s) : c2s[i].sn <= SentSn(xfer)

GotBound == \A m \in got : m.sn <= srv_recv

AckBound == \A i \in 1..Len(s2c) : s2c[i].ack <= srv_recv

LinkInv == /\ TypeOK
           /\ XferOK(xfer)
           /\ SentBound
           /\ GotBound
           /\ AckBound
           /\ InOrderAtMostOnce

-------------------------------------------------------------------------------
LEMMA InFlightType ==
  ASSUME NEW S, NEW ch \in Seq(S)
  PROVE  InFlight(ch) \subseteq S
  BY DEF InFlight

LEMMA SentSnNat ==
  ASSUME NEW x, XferOK(x)
  PROVE  SentSn(x) \in Nat
  BY DEF XferOK, XferState, Contiguous, SendIndexOK, SentSn

LEMMA ChannelNumbers ==
  ASSUME TypeOK
  PROVE  /\ Len(c2s) \in Nat /\ \A i \in 1..Len(c2s) : c2s[i].sn \in Nat
         /\ Len(s2c) \in Nat /\ \A i \in 1..Len(s2c) : s2c[i].ack \in Nat
<1>1. /\ Len(c2s) \in Nat /\ \A i \in 1..Len(c2s) : c2s[i] \in ToServer
      /\ Len(s2c) \in Nat /\ \A i \in 1..Len(s2c) : s2c[i] \in ToClient
  BY DEF TypeOK
<1>2. QED
  BY <1>1 DEF ToServer, ToClient

(* The messages a client and a server build have the declared shape.             *)
LEMMA MessageTypes ==
  /\ \A p \in Packet : DataMsg(p) \in ToServer /\ DataMsg(p).sn = p.sn
  /\ \A n \in Nat : AckMsg(n) \in ToServer /\ AckMsg(n).sn = 0
  /\ \A n \in Nat : ReconnMsg(n) \in ToServer /\ ReconnMsg(n).sn = 0
  BY DEF Packet, ToServer, DataMsg, AckMsg, ReconnMsg

(* conn.send_packet keeps the channel and the history typed.                     *)
LEMMA PutType ==
  ASSUME TypeOK, NEW m \in ToServer, Put(m)
  PROVE  c2s' \in Seq(ToServer) /\ lost' \subseteq ToServer
<1>1. CASE up
  BY <1>1, AppendProperties DEF TypeOK, Put
<1>2. CASE ~up
  BY <1>2 DEF TypeOK, Put
<1>3. QED
  BY <1>1, <1>2

(* A packet without a number changes nothing that is said about numbers.         *)
LEMMA PutUnnumbered ==
  ASSUME LinkInv, NEW m \in ToServer, m.sn = 0, Put(m),
         SentSn(xfer') = SentSn(xfer), UNCHANGED srv_recv
  PROVE  SentBound' /\ InOrderAtMostOnce'
<1>0. SentSn(xfer) \in Nat
  BY SentSnNat DEF LinkInv
<1>1. CASE up
  <2>1. /\ c2s' = Append(c2s, m) /\ c2s \in Seq(ToServer)
    BY <1>1 DEF Put, LinkInv, TypeOK
  <2>2. /\ Len(c2s') = Len(c2s) + 1
        /\ \A i \in 1..Len(c2s) : c2s'[i] = c2s[i]
        /\ c2s'[Len(c2s) + 1] = m
    BY <2>1, AppendProperties
  <2>3. Len(c2s) \in Nat
    BY <2>1
  <2>4. \A i \in 1..Len(c2s') : i \in 1..Len(c2s) \/ c2s'[i].sn = 0
    BY <2>2, <2>3
  <2>5. \A i \in 1..Len(c2s') : c2s'[i].sn <= SentSn(xfer)
    BY <2>2, <2>4, <1>0 DEF LinkInv, SentBound
  <2>6. ASSUME NEW i \in 1..Len(c2s'), c2s'[i].sn # 0
        PROVE  /\ srv_recv < c2s'[i].sn
               /\ \A j \in 1..(i - 1) : c2s'[j].sn < c2s'[i].sn
    <3>1. i \in 1..Len(c2s)
      BY <2>4, <2>6
    <3>2. \A j \in 1..(i - 1) : j \in 1..Len(c2s)
      BY <3>1, <2>3
    <3>3. QED
      BY <3>1, <3>2, <2>2, <2>6 DEF LinkInv, InOrderAtMostOnce
  <2>7. QED
    BY <2>5, <2>6 DEF LinkInv, SentBound, InOrderAtMostOnce
<1>2. CASE ~up
  BY <1>2 DEF Put, LinkInv, SentBound, InOrderAtMostOnce
<1>3. QED
  BY <1>1, <1>2

(* A step that touches neither the queue, the channels, nor what the server has. *)
LEMMA QuietStep ==
  ASSUME LinkInv, TypeOK', UNCHANGED <<xfer, c2s, s2c, srv_recv, got>>
  PROVE  LinkInv'
  BY DEF LinkInv, SentBound, GotBound, AckBound, InOrderAtMostOnce

-------------------------------------------------------------------------------
LEMMA InitInv == Init => LinkInv
<1> SUFFICES ASSUME Init PROVE LinkInv
  OBVIOUS
<1> USE LinkAssumption
<1>1. /\ OpenQue \in Seq(Packet) /\ Len(OpenQue) = OpenReqs
      /\ \A i \in 1..OpenReqs : OpenQue[i] = [sn |-> i, ack |-> 0]
  BY DEF OpenQue, Packet
<1>2. /\ c2s \in Seq(ToServer) /\ Len(c2s) = OpenReqs
      /\ \A i \in 1..OpenReqs : c2s[i].sn = i
  <2>1. \A i \in 1..OpenReqs : /\ DataMsg(OpenQue[i]) \in ToServer
                                /\ DataMsg(OpenQue[i]).sn = i
    BY <1>1 DEF DataMsg, ToServer
  <2>2. c2s = [i \in 1..OpenReqs |-> DataMsg(OpenQue[i])]
    BY DEF Init
  <2>3. QED
    BY <2>1, <2>2
<1>3. xfer = [que |-> OpenQue, tail_sn |-> OpenReqs, send_index |-> OpenReqs,
              recv_sn |-> 0, sent_ack_sn |-> 0]
  BY DEF Init, NewXfer
<1>4. XferOK(xfer)
  BY <1>1, <1>3 DEF XferOK, XferState, Contiguous, SendIndexOK
<1>5. SentSn(xfer) = OpenReqs
  BY <1>1, <1>3 DEF SentSn
<1>6. TypeOK
  BY <1>2, <1>4 DEF Init, TypeOK, XferOK
<1>7. SentBound /\ GotBound /\ AckBound /\ InOrderAtMostOnce
  BY <1>2, <1>5 DEF Init, SentBound, GotBound, AckBound, InOrderAtMostOnce
<1>8. QED
  BY <1>4, <1>6, <1>7 DEF LinkInv

-------------------------------------------------------------------------------
(* One lemma per group of actions.                                               *)

(* Actions that only move the program counter, or what reconnecting counts.      *)
Moves == \/ ProcessFail \/ ProcessDone \/ SendPacketFail \/ SendDone
         \/ SendAckFail \/ NoAckDue \/ Wake \/ RecvFail \/ HeartbeatTimeout
         \/ DialFail \/ ReconnectFail \/ ReconnectTimeout \/ Stop \/ Closed

LEMMA MovesStep == LinkInv /\ Moves => LinkInv'
<1> SUFFICES ASSUME LinkInv, Moves PROVE LinkInv'
  OBVIOUS
<1>1. UNCHANGED <<xfer, c2s, s2c, srv_recv, got>>
  BY DEF Moves, ProcessFail, ProcessDone, SendPacketFail, SendDone, SendAckFail,
         NoAckDue, Wake, RecvFail, HeartbeatTimeout, DialFail, ReconnectFail,
         ReconnectTimeout, Stop, Closed, vars, clientVars, linkVars, srvVars, histVars
<1>2. TypeOK'
  <2>1. UNCHANGED <<pending_hb_sn, try_seq, last_success_seq, up, srvVars,
                    lost, delivered, accepted>>
    BY DEF Moves, ProcessFail, ProcessDone, SendPacketFail, SendDone, SendAckFail,
           NoAckDue, Wake, RecvFail, HeartbeatTimeout, DialFail, ReconnectFail,
           ReconnectTimeout, Stop, Closed, vars, clientVars, linkVars, srvVars, histVars
  <2>2. /\ pc' = pc \/ pc' \in {"process", "send", "ack", "recv", "dial", "closed"}
        /\ flush_for' = flush_for \/ flush_for' = "op"
        /\ dials' = dials \/ dials' = dials + 1
    BY DEF Moves, AfterFlush, ProcessFail, ProcessDone, SendPacketFail, SendDone,
           SendAckFail, NoAckDue, Wake, RecvFail, HeartbeatTimeout, DialFail,
           ReconnectFail, ReconnectTimeout, Stop, Closed,
           vars, clientVars, linkVars, srvVars, histVars
  <2>3. QED
    BY <1>1, <2>1, <2>2 DEF LinkInv, TypeOK, srvVars
<1>3. QED
  BY <1>1, <1>2, QuietStep

(* A request or a heartbeat joins the queue.                                     *)
LEMMA AddStep == LinkInv /\ (ProcessOp \/ HeartbeatTick) => LinkInv'
<1> SUFFICES ASSUME LinkInv, ProcessOp \/ HeartbeatTick PROVE LinkInv'
  OBVIOUS
<1>1. /\ xfer' = AddQos1(xfer, 0)
      /\ UNCHANGED <<c2s, s2c, srv_recv, got>>
  BY DEF ProcessOp, HeartbeatTick, linkVars, srvVars, histVars
<1>2. /\ XferOK(xfer') /\ SentSn(xfer') = SentSn(xfer)
      /\ xfer'.tail_sn = xfer.tail_sn + 1
  BY <1>1, AddQos1Sound DEF LinkInv
<1>3. xfer' \in XferState /\ xfer'.tail_sn \in Nat
  BY <1>2 DEF XferOK, XferState
<1>4. TypeOK'
  BY <1>3 DEF LinkInv, TypeOK, ProcessOp, HeartbeatTick, linkVars, srvVars, histVars
<1>5. SentBound' /\ GotBound' /\ AckBound' /\ InOrderAtMostOnce'
  BY <1>1, <1>2 DEF LinkInv, SentBound, GotBound, AckBound, InOrderAtMostOnce
<1>6. QED
  BY <1>2, <1>4, <1>5 DEF LinkInv

(* The next unsent packet goes out: it is numbered one above everything sent.    *)
LEMMA SendStep == LinkInv /\ SendPacket => LinkInv'
<1> SUFFICES ASSUME LinkInv, SendPacket PROVE LinkInv'
  OBVIOUS
<1> DEFINE m == DataMsg(NextUnsent(xfer))
<1>1. /\ XferOK(xfer') /\ SentSn(xfer') = SentSn(xfer) + 1
      /\ NextUnsent(xfer) \in Packet /\ NextUnsent(xfer).sn = SentSn(xfer) + 1
  BY MarkSentSound DEF LinkInv, SendPacket
<1>2. SentSn(xfer) \in Nat
  BY SentSnNat DEF LinkInv
<1>3. m \in ToServer /\ m.sn = SentSn(xfer) + 1 /\ Put(m)
  BY <1>1, MessageTypes DEF SendPacket
<1> HIDE DEF m
<1>4. UNCHANGED <<s2c, srv_recv, got>>
  BY DEF SendPacket, srvVars
<1>5. TypeOK'
  <2>1. c2s' \in Seq(ToServer) /\ lost' \subseteq ToServer
    BY <1>3, PutType DEF LinkInv
  <2>2. xfer' \in XferState
    BY <1>1 DEF XferOK
  <2>3. QED
    BY <2>1, <2>2 DEF LinkInv, TypeOK, SendPacket, srvVars
<1>6. SentBound' /\ InOrderAtMostOnce'
  <2>1. srv_recv \in Nat /\ srv_recv <= SentSn(xfer)
    BY DEF LinkInv, TypeOK, SentBound
  <2>2. CASE up
    <3>1. c2s' = Append(c2s, m) /\ c2s \in Seq(ToServer)
      BY <1>3, <2>2 DEF Put, LinkInv, TypeOK
    <3>2. /\ Len(c2s') = Len(c2s) + 1 /\ Len(c2s) \in Nat
          /\ \A i \in 1..Len(c2s) : c2s'[i] = c2s[i]
          /\ c2s'[Len(c2s) + 1] = m
      BY <1>3, <3>1, AppendProperties
    <3>3. \A i \in 1..Len(c2s) : c2s'[i].sn \in Nat /\ c2s'[i].sn <= SentSn(xfer)
      BY <3>2, ChannelNumbers DEF LinkInv, SentBound
    <3>4. \A i \in 1..Len(c2s') : i \in 1..Len(c2s) \/ i = Len(c2s) + 1
      BY <3>2
    <3>5. \A i \in 1..Len(c2s') : c2s'[i].sn <= SentSn(xfer) + 1
      BY <3>2, <3>3, <3>4, <1>2, <1>3
    <3>6. ASSUME NEW i \in 1..Len(c2s'), c2s'[i].sn # 0
          PROVE  /\ srv_recv < c2s'[i].sn
                 /\ \A j \in 1..(i - 1) : c2s'[j].sn < c2s'[i].sn
      <4>1. \A j \in 1..(i - 1) : j \in 1..Len(c2s)
        BY <3>2
      <4>2. CASE i \in 1..Len(c2s)
        BY <4>1, <4>2, <3>2, <3>6 DEF LinkInv, InOrderAtMostOnce
      <4>3. CASE i = Len(c2s) + 1
        <5>1. c2s'[i].sn = SentSn(xfer) + 1
          BY <4>3, <3>2, <1>3
        <5>2. \A j \in 1..(i - 1) : c2s'[j].sn < SentSn(xfer) + 1
          BY <4>1, <3>3, <1>2
        <5>3. QED
          BY <5>1, <5>2, <2>1, <1>2
      <4>4. QED
        BY <3>4, <4>2, <4>3
    <3>7. srv_recv <= SentSn(xfer) + 1
      BY <2>1, <1>2
    <3>8. QED
      BY <3>5, <3>6, <3>7, <1>1, <1>4 DEF SentBound, InOrderAtMostOnce
  <2>3. CASE ~up
    <3>1. UNCHANGED c2s
      BY <1>3, <2>3 DEF Put
    <3>2. \A i \in 1..Len(c2s) : c2s[i].sn \in Nat
      BY ChannelNumbers DEF LinkInv
    <3>3. \A i \in 1..Len(c2s) : c2s[i].sn <= SentSn(xfer) + 1
      BY <3>2, <1>2 DEF LinkInv, SentBound
    <3>4. srv_recv <= SentSn(xfer) + 1
      BY <2>1, <1>2
    <3>5. QED
      BY <3>1, <3>3, <3>4, <1>1, <1>4 DEF LinkInv, SentBound, InOrderAtMostOnce
  <2>4. QED
    BY <2>2, <2>3
<1>7. GotBound' /\ AckBound'
  BY <1>4 DEF LinkInv, GotBound, AckBound
<1>8. QED
  BY <1>1, <1>5, <1>6, <1>7 DEF LinkInv

(* What a received packet does to the queue, when its ack names something sent.  *)
LEMMA ReceivedSound ==
  ASSUME NEW x, XferOK(x), NEW m \in ToClient, m.ack <= SentSn(x)
  PROVE  LET y == Received(x, m)
         IN  /\ XferOK(y)
             /\ SentSn(y) = SentSn(x)
             /\ \A i \in 1..Len(x.que) :
                  x.que[i].sn > m.ack => \E j \in 1..Len(y.que) : y.que[j] = x.que[i]
<1> DEFINE a == IF m.ack # 0 THEN UpdateRecvAck(x, m.ack) ELSE x
           y == Received(x, m)
<1>1. m.ack \in Nat /\ m.sn \in Nat
  BY DEF ToClient
<1>2. /\ XferOK(a) /\ SentSn(a) = SentSn(x)
      /\ \A i \in 1..Len(x.que) :
           x.que[i].sn > m.ack => \E j \in 1..Len(a.que) : a.que[j] = x.que[i]
  <2>1. CASE m.ack # 0
    BY <2>1, <1>1, UpdateRecvAckSound
  <2>2. CASE m.ack = 0
    BY <2>2
  <2>3. QED
    BY <2>1, <2>2
<1>3. y = IF m.sn # 0 THEN UpdateRecvSn(a, m.sn) ELSE a
  BY DEF Received
<1> HIDE DEF a, y
<1>4. XferOK(y) /\ SentSn(y) = SentSn(a) /\ y.que = a.que
  BY <1>1, <1>2, <1>3, RecvSideSound
<1>5. QED
  BY <1>2, <1>4 DEF y

(* The packet at the head of s2c is one, and its ack names something sent.       *)
LEMMA HeadSound ==
  ASSUME LinkInv, s2c # <<>>
  PROVE  /\ Head(s2c) \in ToClient /\ Tail(s2c) \in Seq(ToClient)
         /\ Head(s2c).ack <= srv_recv /\ Head(s2c).ack <= SentSn(xfer)
         /\ \A i \in 1..Len(Tail(s2c)) : Tail(s2c)[i].ack <= srv_recv
<1>1. s2c \in Seq(ToClient) /\ Len(s2c) \in Nat
  BY DEF LinkInv, TypeOK
<1>2. Len(s2c) > 0 /\ Head(s2c) = s2c[1]
  BY <1>1, EmptySeq
<1>3. /\ Head(s2c) \in ToClient /\ Tail(s2c) \in Seq(ToClient)
      /\ Len(Tail(s2c)) = Len(s2c) - 1
      /\ \A i \in 1..Len(Tail(s2c)) : Tail(s2c)[i] = s2c[i + 1]
  BY <1>1, HeadTailProperties
<1>4. \A i \in 1..Len(Tail(s2c)) : i + 1 \in 1..Len(s2c)
  BY <1>1, <1>3
<1>5. /\ Head(s2c).ack <= srv_recv
      /\ \A i \in 1..Len(Tail(s2c)) : Tail(s2c)[i].ack <= srv_recv
  BY <1>1, <1>2, <1>3, <1>4 DEF LinkInv, AckBound
<1>6. /\ Head(s2c).ack \in Nat /\ srv_recv \in Nat /\ SentSn(xfer) \in Nat
      /\ srv_recv <= SentSn(xfer)
  BY <1>3, SentSnNat DEF ToClient, LinkInv, TypeOK, SentBound
<1>7. QED
  BY <1>3, <1>5, <1>6

(* The client reads a packet, in the work loop or from a new connection.         *)
LEMMA ReadStep == LinkInv /\ (RecvPacket \/ Reconnected) => LinkInv'
<1> SUFFICES ASSUME LinkInv, RecvPacket \/ Reconnected PROVE LinkInv'
  OBVIOUS
<1>1. /\ s2c # <<>> /\ s2c' = Tail(s2c)
      /\ xfer' = Received(xfer, Head(s2c))
      /\ delivered' = delivered \cup ({Head(s2c).sn} \ {0})
      /\ UNCHANGED <<c2s, srv_recv, got>>
  BY DEF RecvPacket, Reconnected, AdoptConnection, srvVars
<1>2. XferOK(xfer') /\ SentSn(xfer') = SentSn(xfer)
  BY <1>1, HeadSound, ReceivedSound DEF LinkInv
<1>3. TypeOK'
  <2>1. xfer' \in XferState /\ s2c' \in Seq(ToClient) /\ delivered' \subseteq Nat
    BY <1>1, <1>2, HeadSound DEF XferOK, ToClient, LinkInv, TypeOK
  <2>2. /\ UNCHANGED <<try_seq, up, c2s, srvVars, got, lost, accepted, dials>>
        /\ pc' \in {"process", "dial", "send"}
        /\ flush_for' = flush_for \/ flush_for' = "reconnect"
        /\ pending_hb_sn' = pending_hb_sn \/ pending_hb_sn' = 0
        /\ last_success_seq' = last_success_seq \/ last_success_seq' = try_seq
    BY DEF RecvPacket, Reconnected, AdoptConnection
  <2>3. QED
    BY <2>1, <2>2 DEF LinkInv, TypeOK, srvVars
<1>4. SentBound' /\ GotBound' /\ InOrderAtMostOnce'
  BY <1>1, <1>2 DEF LinkInv, SentBound, GotBound, InOrderAtMostOnce
<1>5. AckBound'
  BY <1>1, HeadSound DEF AckBound
<1>6. QED
  BY <1>2, <1>3, <1>4, <1>5 DEF LinkInv

(* A reconnect attempt is refused: the queue is not touched.                     *)
LEMMA RefusedStep == LinkInv /\ ReconnectRefused => LinkInv'
<1> SUFFICES ASSUME LinkInv, ReconnectRefused PROVE LinkInv'
  OBVIOUS
<1>1. /\ s2c # <<>> /\ s2c' = Tail(s2c)
      /\ UNCHANGED <<xfer, pending_hb_sn, try_seq, last_success_seq, flush_for,
                     up, c2s, srvVars, histVars>>
      /\ pc' \in {"closed", "dial"}
  BY DEF ReconnectRefused
<1>2. TypeOK'
  BY <1>1, HeadSound DEF LinkInv, TypeOK, srvVars, histVars
<1>3. AckBound'
  BY <1>1, HeadSound DEF AckBound, srvVars
<1>4. XferOK(xfer)' /\ SentBound' /\ GotBound' /\ InOrderAtMostOnce'
  BY <1>1 DEF LinkInv, SentBound, GotBound, InOrderAtMostOnce, srvVars, histVars
<1>5. QED
  BY <1>2, <1>3, <1>4 DEF LinkInv

(* The cumulative ack goes out by itself, in a flush ...                         *)
LEMMA SendAckStep == LinkInv /\ SendAck => LinkInv'
<1> SUFFICES ASSUME LinkInv, SendAck PROVE LinkInv'
  OBVIOUS
<1> DEFINE m == AckMsg(xfer.recv_sn)
<1>1. xfer.recv_sn \in Nat
  BY DEF LinkInv, TypeOK, XferState
<1>2. m \in ToServer /\ m.sn = 0 /\ Put(m)
  BY <1>1, MessageTypes DEF SendAck
<1> HIDE DEF m
<1>3. xfer' = MarkAckSent(xfer) /\ UNCHANGED <<s2c, srv_recv, got>>
  BY DEF SendAck, srvVars
<1>4. XferOK(xfer') /\ SentSn(xfer') = SentSn(xfer)
  BY <1>1, <1>3, RecvSideSound DEF LinkInv
<1>5. SentBound' /\ InOrderAtMostOnce'
  BY <1>2, <1>3, <1>4, PutUnnumbered
<1>6. TypeOK'
  <2>1. c2s' \in Seq(ToServer) /\ lost' \subseteq ToServer /\ xfer' \in XferState
    BY <1>2, <1>4, PutType DEF LinkInv, XferOK
  <2>2. QED
    BY <2>1 DEF LinkInv, TypeOK, SendAck, AfterFlush, srvVars
<1>7. GotBound' /\ AckBound'
  BY <1>3 DEF LinkInv, GotBound, AckBound
<1>8. QED
  BY <1>4, <1>5, <1>6, <1>7 DEF LinkInv

(* ... or on the way out, after a Closed push.                                   *)
LEMMA RecvClosedStep == LinkInv /\ RecvClosed => LinkInv'
<1> SUFFICES ASSUME LinkInv, RecvClosed PROVE LinkInv'
  OBVIOUS
<1> DEFINE x == Received(xfer, Head(s2c))
           m == AckMsg(x.recv_sn)
<1>1. /\ s2c # <<>> /\ s2c' = Tail(s2c)
      /\ delivered' = delivered \cup ({Head(s2c).sn} \ {0})
      /\ \/ Put(m) /\ xfer' = MarkAckSent(x)
         \/ xfer' = x /\ UNCHANGED <<c2s, lost>>
      /\ pc' = "closed"
      /\ UNCHANGED <<pending_hb_sn, try_seq, last_success_seq, flush_for, up,
                     srvVars, got, accepted, dials>>
  BY DEF RecvClosed
<1>2. XferOK(x) /\ SentSn(x) = SentSn(xfer)
  BY <1>1, HeadSound, ReceivedSound DEF LinkInv
<1>3. x.recv_sn \in Nat
  BY <1>2 DEF XferOK, XferState
<1>4. m \in ToServer /\ m.sn = 0
  BY <1>3, MessageTypes
<1> HIDE DEF x, m
<1>5. XferOK(xfer') /\ SentSn(xfer') = SentSn(xfer)
  BY <1>1, <1>2, <1>3, RecvSideSound
<1>6. UNCHANGED srv_recv
  BY <1>1 DEF srvVars
<1>7. SentBound' /\ InOrderAtMostOnce' /\ c2s' \in Seq(ToServer) /\ lost' \subseteq ToServer
  <2>1. CASE Put(m)
    BY <2>1, <1>4, <1>5, <1>6, PutUnnumbered, PutType DEF LinkInv
  <2>2. CASE UNCHANGED <<c2s, lost>>
    BY <2>2, <1>5, <1>6 DEF LinkInv, TypeOK, SentBound, InOrderAtMostOnce
  <2>3. QED
    BY <1>1, <2>1, <2>2
<1>8. AckBound' /\ GotBound'
  BY <1>1, <1>6, HeadSound DEF LinkInv, AckBound, GotBound
<1>9. TypeOK'
  <2>1. xfer' \in XferState /\ s2c' \in Seq(ToClient) /\ delivered' \subseteq Nat
    BY <1>1, <1>5, HeadSound DEF XferOK, ToClient, LinkInv, TypeOK
  <2>2. QED
    BY <2>1, <1>1, <1>7 DEF LinkInv, TypeOK, srvVars
<1>10. QED
  BY <1>5, <1>7, <1>8, <1>9 DEF LinkInv

(* A connection goes down, or a new one replaces it.                             *)
LEMMA ConnectionStep == LinkInv /\ (Break \/ Dial) => LinkInv'
<1> SUFFICES ASSUME LinkInv, Break \/ Dial PROVE LinkInv'
  OBVIOUS
<1>1. /\ UNCHANGED <<xfer, srv_recv, got>>
      /\ c2s' = <<>> \/ (try_seq' \in Nat /\ c2s' = <<ReconnMsg(try_seq')>>)
      /\ s2c' = <<>> \/ s2c' = s2c
  BY DEF Break, Dial, clientVars, srvVars, NextTrySeq, LinkInv, TypeOK
<1>2. /\ c2s' \in Seq(ToServer)
      /\ \A i \in 1..Len(c2s') : c2s'[i].sn = 0
  <2>1. CASE c2s' = <<>>
    BY <2>1
  <2>2. CASE try_seq' \in Nat /\ c2s' = <<ReconnMsg(try_seq')>>
    <3>1. ReconnMsg(try_seq') \in ToServer /\ ReconnMsg(try_seq').sn = 0
      BY <2>2, MessageTypes
    <3>2. QED
      BY <2>2, <3>1
  <2>3. QED
    BY <1>1, <2>1, <2>2
<1>3. TypeOK'
  <2>1. InFlight(c2s) \subseteq ToServer
    BY InFlightType DEF LinkInv, TypeOK
  <2>2. s2c' \in Seq(ToClient) /\ lost' \subseteq ToServer
    <3>1. lost' = lost \cup InFlight(c2s)
      BY DEF Break, Dial
    <3>2. s2c \in Seq(ToClient) /\ <<>> \in Seq(ToClient) /\ lost \subseteq ToServer
      BY DEF LinkInv, TypeOK
    <3>3. QED
      BY <1>1, <2>1, <3>1, <3>2
  <2>3. CASE Break
    <3>1. /\ UNCHANGED <<xfer, pending_hb_sn, try_seq, last_success_seq, pc, flush_for,
                         srv_recv, srv_acked, srv_tail, srv_next, srv_joined, got,
                         delivered, accepted, dials>>
          /\ up' \in BOOLEAN
      BY <2>3 DEF Break, clientVars, srvVars
    <3>2. up' \in BOOLEAN /\ srv_joined' \in BOOLEAN
      BY <3>1 DEF LinkInv, TypeOK
    <3>3. /\ xfer' \in XferState /\ pending_hb_sn' \in Nat /\ try_seq' \in Nat
          /\ last_success_seq' \in Nat
          /\ pc' \in {"process", "send", "ack", "recv", "dial", "await", "closed"}
          /\ flush_for' \in {"op", "heartbeat", "reconnect"}
      BY <3>1 DEF LinkInv, TypeOK
    <3>4. /\ srv_recv' \in Nat /\ srv_acked' \in Nat /\ srv_tail' \in Nat
          /\ srv_next' \in Nat /\ got' \subseteq ToServer
          /\ delivered' \subseteq Nat /\ accepted' \subseteq Nat /\ dials' \in Nat
      BY <3>1 DEF LinkInv, TypeOK
    <3>5. QED
      BY <3>2, <3>3, <3>4, <2>2, <1>2, Zenon DEF TypeOK
  <2>4. CASE Dial
    <3>1. /\ UNCHANGED <<xfer, pending_hb_sn, last_success_seq, flush_for,
                         srv_recv, srv_acked, srv_tail, srv_next, got,
                         delivered, accepted>>
          /\ try_seq' = try_seq + 1 /\ dials' = dials + 1
          /\ pc' = "await" \/ pc' = pc
          /\ up' \in BOOLEAN /\ srv_joined' = FALSE
      BY <2>4 DEF Dial, NextTrySeq
    <3>2. up' \in BOOLEAN /\ srv_joined' \in BOOLEAN
      BY <3>1 DEF LinkInv, TypeOK
    <3>3. /\ xfer' \in XferState /\ pending_hb_sn' \in Nat /\ try_seq' \in Nat
          /\ last_success_seq' \in Nat
          /\ pc' \in {"process", "send", "ack", "recv", "dial", "await", "closed"}
          /\ flush_for' \in {"op", "heartbeat", "reconnect"}
      BY <3>1 DEF LinkInv, TypeOK
    <3>4. /\ srv_recv' \in Nat /\ srv_acked' \in Nat /\ srv_tail' \in Nat
          /\ srv_next' \in Nat /\ got' \subseteq ToServer
          /\ delivered' \subseteq Nat /\ accepted' \subseteq Nat /\ dials' \in Nat
      BY <3>1 DEF LinkInv, TypeOK
    <3>5. QED
      BY <3>2, <3>3, <3>4, <2>2, <1>2, Zenon DEF TypeOK
  <2>5. QED
    BY <2>3, <2>4
<1>4. SentSn(xfer) \in Nat
  BY SentSnNat DEF LinkInv
<1>5. SentBound' /\ InOrderAtMostOnce'
  BY <1>1, <1>2, <1>4 DEF LinkInv, SentBound, InOrderAtMostOnce
<1>6. GotBound' /\ AckBound'
  BY <1>1 DEF LinkInv, GotBound, AckBound
<1>7. QED
  BY <1>1, <1>3, <1>5, <1>6 DEF LinkInv

(* The head of c2s, and what is left behind it.                                  *)
LEMMA ServerHead ==
  ASSUME LinkInv, c2s # <<>>
  PROVE  /\ Head(c2s) \in ToServer /\ Tail(c2s) \in Seq(ToServer)
         /\ Head(c2s).sn <= SentSn(xfer)
         /\ \A i \in 1..Len(Tail(c2s)) :
              /\ Tail(c2s)[i].sn \in Nat
              /\ Tail(c2s)[i].sn <= SentSn(xfer)
              /\ Tail(c2s)[i].sn # 0 =>
                   /\ srv_recv < Tail(c2s)[i].sn
                   /\ Head(c2s).sn < Tail(c2s)[i].sn
                   /\ \A j \in 1..(i - 1) : Tail(c2s)[j].sn < Tail(c2s)[i].sn
<1>1. c2s \in Seq(ToServer) /\ Len(c2s) \in Nat
  BY DEF LinkInv, TypeOK
<1>2. Len(c2s) > 0 /\ Head(c2s) = c2s[1]
  BY <1>1, EmptySeq
<1>3. /\ Head(c2s) \in ToServer /\ Tail(c2s) \in Seq(ToServer)
      /\ Len(Tail(c2s)) = Len(c2s) - 1
      /\ \A i \in 1..Len(Tail(c2s)) : Tail(c2s)[i] = c2s[i + 1]
  BY <1>1, HeadTailProperties
<1>4. Head(c2s).sn <= SentSn(xfer)
  BY <1>1, <1>2 DEF LinkInv, SentBound
<1>5. ASSUME NEW i \in 1..Len(Tail(c2s))
      PROVE  /\ Tail(c2s)[i].sn \in Nat
             /\ Tail(c2s)[i].sn <= SentSn(xfer)
             /\ Tail(c2s)[i].sn # 0 =>
                  /\ srv_recv < Tail(c2s)[i].sn
                  /\ Head(c2s).sn < Tail(c2s)[i].sn
                  /\ \A j \in 1..(i - 1) : Tail(c2s)[j].sn < Tail(c2s)[i].sn
  <2>1. i + 1 \in 1..Len(c2s) /\ 1 \in 1..((i + 1) - 1) /\ Tail(c2s)[i] = c2s[i + 1]
    BY <1>1, <1>3
  <2>2. \A j \in 1..(i - 1) : /\ j \in 1..Len(Tail(c2s))
                               /\ j + 1 \in 1..((i + 1) - 1)
    BY <1>1, <1>3
  <2>3. c2s[i + 1].sn # 0 => /\ srv_recv < c2s[i + 1].sn
                             /\ \A j \in 1..((i + 1) - 1) : c2s[j].sn < c2s[i + 1].sn
    BY <2>1 DEF LinkInv, InOrderAtMostOnce
  <2>4. c2s[i + 1].sn \in Nat /\ c2s[i + 1].sn <= SentSn(xfer)
    BY <2>1, ChannelNumbers DEF LinkInv, SentBound
  <2>5. QED
    BY <2>1, <2>2, <2>3, <2>4, <1>2, <1>3
<1>6. QED
  BY <1>3, <1>4, <1>5

(* The server takes a packet: a number above all it had, below all still coming. *)
LEMMA SrvRecvStep == LinkInv /\ SrvRecv => LinkInv'
<1> SUFFICES ASSUME LinkInv, SrvRecv PROVE LinkInv'
  OBVIOUS
<1>1. /\ c2s # <<>> /\ c2s' = Tail(c2s)
      /\ srv_recv' = Larger(srv_recv, Head(c2s).sn)
      /\ srv_acked' = Larger(srv_acked, Head(c2s).ack)
      /\ got' = got \cup {Head(c2s)}
      /\ UNCHANGED <<xfer, s2c>>
      /\ UNCHANGED <<clientVars, up, srv_tail, srv_next, srv_joined,
                     lost, delivered, accepted, dials>>
  BY DEF SrvRecv, clientVars
<1>2. /\ Head(c2s) \in ToServer /\ Head(c2s).sn \in Nat /\ Head(c2s).ack \in Nat
      /\ srv_recv \in Nat /\ srv_acked \in Nat /\ SentSn(xfer) \in Nat
      /\ srv_recv <= SentSn(xfer)
  BY <1>1, ServerHead, SentSnNat DEF ToServer, LinkInv, TypeOK, SentBound
<1>3. /\ srv_recv' \in Nat /\ srv_acked' \in Nat
      /\ srv_recv <= srv_recv' /\ Head(c2s).sn <= srv_recv'
      /\ srv_recv' = srv_recv \/ srv_recv' = Head(c2s).sn
  BY <1>1, <1>2 DEF Larger
<1>4. TypeOK'
  BY <1>1, <1>2, <1>3, ServerHead DEF LinkInv, TypeOK, clientVars
<1>5. SentBound'
  BY <1>1, <1>2, <1>3, ServerHead DEF LinkInv, SentBound
<1>6. InOrderAtMostOnce'
  BY <1>1, <1>3, ServerHead DEF InOrderAtMostOnce
<1>7. GotBound'
  <2>1. \A m \in got : m.sn \in Nat /\ m.sn <= srv_recv
    BY DEF LinkInv, TypeOK, GotBound, ToServer
  <2>2. QED
    BY <2>1, <1>1, <1>2, <1>3 DEF GotBound
<1>8. AckBound'
  BY <1>1, <1>2, <1>3, ChannelNumbers DEF LinkInv, AckBound
<1>9. QED
  BY <1>1, <1>4, <1>5, <1>6, <1>7, <1>8 DEF LinkInv

(* The server puts a packet on s2c whose ack it may send.                        *)
LEMMA ServerPut ==
  ASSUME LinkInv, NEW m \in ToClient, m.ack <= srv_recv, UNCHANGED srv_recv,
         s2c' = Append(s2c, m)
  PROVE  s2c' \in Seq(ToClient) /\ AckBound'
<1>1. s2c \in Seq(ToClient) /\ Len(s2c) \in Nat
  BY DEF LinkInv, TypeOK
<1>2. /\ s2c' \in Seq(ToClient) /\ Len(s2c') = Len(s2c) + 1
      /\ \A i \in 1..Len(s2c) : s2c'[i] = s2c[i]
      /\ s2c'[Len(s2c) + 1] = m
  BY <1>1, AppendProperties
<1>3. \A i \in 1..Len(s2c') : i \in 1..Len(s2c) \/ i = Len(s2c) + 1
  BY <1>1, <1>2
<1>4. QED
  BY <1>2, <1>3 DEF LinkInv, AckBound

LEMMA SrvReconnectStep == LinkInv /\ SrvReconnect => LinkInv'
<1> SUFFICES ASSUME LinkInv, SrvReconnect PROVE LinkInv'
  OBVIOUS
<1>1. /\ c2s # <<>> /\ c2s' = Tail(c2s)
      /\ got' = got \cup {Head(c2s)} /\ Head(c2s).typ = "reconn"
      /\ UNCHANGED <<clientVars, up, srv_recv, srv_acked, srv_tail,
                     lost, delivered, dials>>
  BY DEF SrvReconnect
<1>2. /\ srv_recv \in Nat /\ srv_acked \in Nat /\ SentSn(xfer) \in Nat
      /\ srv_recv <= SentSn(xfer)
  BY SentSnNat DEF LinkInv, TypeOK, SentBound
<1>3. PICK t \in {"reconn_ok", "reconn_reject", "reconn_bad"}, ack \in {0, srv_recv} :
        s2c' = Append(s2c, [typ |-> t, sn |-> 0, ack |-> ack])
  BY DEF SrvReconnect
<1>4. s2c' \in Seq(ToClient) /\ AckBound'
  <2>1. /\ [typ |-> t, sn |-> 0, ack |-> ack] \in ToClient
        /\ [typ |-> t, sn |-> 0, ack |-> ack].ack <= srv_recv
    BY <1>2 DEF ToClient
  <2>2. QED
    BY <2>1, <1>1, <1>3, ServerPut
<1>5. /\ srv_joined' \in {srv_joined, TRUE}
      /\ srv_next' = srv_next \/ srv_next' = srv_acked + 1
      /\ accepted' = accepted \/ accepted' = accepted \cup {Head(c2s).seq}
  BY DEF SrvReconnect
<1>6. Head(c2s) \in ToServer /\ Head(c2s).seq \in Nat /\ Tail(c2s) \in Seq(ToServer)
  BY <1>1, ServerHead DEF ToServer
<1>7. TypeOK'
  <2>1. /\ c2s' \in Seq(ToServer) /\ s2c' \in Seq(ToClient)
        /\ got' \subseteq ToServer /\ accepted' \subseteq Nat
        /\ srv_next' \in Nat /\ srv_joined' \in BOOLEAN
    <3>1. c2s' \in Seq(ToServer) /\ s2c' \in Seq(ToClient)
      BY <1>1, <1>4, <1>6
    <3>2. got' \subseteq ToServer /\ accepted' \subseteq Nat
      BY <1>1, <1>5, <1>6 DEF LinkInv, TypeOK
    <3>3. srv_next' \in Nat
      BY <1>2, <1>5 DEF LinkInv, TypeOK
    <3>4. srv_joined' \in BOOLEAN
      BY <1>5 DEF LinkInv, TypeOK
    <3>5. QED
      BY <3>1, <3>2, <3>3, <3>4
  <2>2. UNCHANGED <<xfer, pending_hb_sn, try_seq, last_success_seq, pc, flush_for,
                    up, srv_recv, srv_acked, srv_tail, lost, delivered, dials>>
    BY <1>1 DEF clientVars
  <2>3. QED
    BY <2>1, <2>2 DEF LinkInv, TypeOK
<1>8. UNCHANGED <<xfer, srv_recv>>
  BY <1>1 DEF clientVars
<1>9. SentBound' /\ InOrderAtMostOnce'
  BY <1>1, <1>2, <1>8, ServerHead DEF SentBound, InOrderAtMostOnce
<1>10. GotBound'
  <2>1. Head(c2s).sn <= srv_recv
    BY <1>1, <1>2, <1>6 DEF ToServer
  <2>2. QED
    BY <2>1, <1>1 DEF LinkInv, GotBound
<1>11. QED
  BY <1>4, <1>7, <1>8, <1>9, <1>10 DEF LinkInv

LEMMA SrvSendStep == LinkInv /\ SrvSend => LinkInv'
<1> SUFFICES ASSUME LinkInv, SrvSend PROVE LinkInv'
  OBVIOUS
<1>1. UNCHANGED <<clientVars, up, c2s, srv_recv, srv_acked, srv_joined, histVars>>
  BY DEF SrvSend
<1>2. PICK t \in {"push", "rsp", "hb_rsp", "closed", "ack"},
           sn \in {0, srv_next}, ack \in {0, srv_recv} \cup Sns(got) :
        /\ s2c' = Append(s2c, [typ |-> t, sn |-> sn, ack |-> ack])
        /\ srv_next' = IF sn = 0 THEN srv_next ELSE sn + 1
        /\ srv_tail' = Larger(srv_tail, sn)
  BY DEF SrvSend
<1>3. /\ srv_recv \in Nat /\ srv_next \in Nat /\ srv_tail \in Nat
      /\ \A m \in got : m.sn \in Nat /\ m.sn <= srv_recv
  BY DEF LinkInv, TypeOK, GotBound, ToServer
<1>4. sn \in Nat /\ ack \in Nat /\ ack <= srv_recv
  BY <1>3 DEF Sns
<1>5. s2c' \in Seq(ToClient) /\ AckBound'
  <2>1. /\ [typ |-> t, sn |-> sn, ack |-> ack] \in ToClient
        /\ [typ |-> t, sn |-> sn, ack |-> ack].ack <= srv_recv
    BY <1>4 DEF ToClient
  <2>2. QED
    BY <2>1, <1>1, <1>2, ServerPut
<1>6. srv_next' \in Nat /\ srv_tail' \in Nat
  BY <1>2, <1>3, <1>4 DEF Larger
<1>7. TypeOK'
  <2>1. UNCHANGED <<xfer, pending_hb_sn, try_seq, last_success_seq, pc, flush_for,
                    up, c2s, srv_recv, srv_acked, srv_joined,
                    got, lost, delivered, accepted, dials>>
    BY <1>1 DEF clientVars, histVars
  <2>2. srv_joined' \in BOOLEAN /\ up' \in BOOLEAN
    BY <2>1 DEF LinkInv, TypeOK
  <2>3. QED
    BY <2>1, <2>2, <1>5, <1>6 DEF LinkInv, TypeOK
<1>8. XferOK(xfer)' /\ SentBound' /\ GotBound' /\ InOrderAtMostOnce'
  BY <1>1 DEF LinkInv, SentBound, GotBound, InOrderAtMostOnce, clientVars, histVars
<1>9. QED
  BY <1>5, <1>7, <1>8 DEF LinkInv

-------------------------------------------------------------------------------
LEMMA NextInv == LinkInv /\ [Next]_vars => LinkInv'
<1> SUFFICES ASSUME LinkInv, [Next]_vars PROVE LinkInv'
  OBVIOUS
<1>1. CASE Client
  BY <1>1, MovesStep, AddStep, SendStep, SendAckStep, ReadStep, RecvClosedStep,
     ConnectionStep, RefusedStep
     DEF Client, Process, Flush, Wait, Reconnect, Moves
<1>2. CASE Environment
  BY <1>2, ConnectionStep, SrvRecvStep, SrvReconnectStep, SrvSendStep
     DEF Environment, Server
<1>3. CASE Closed
  BY <1>3, MovesStep DEF Moves
<1>4. CASE UNCHANGED vars
  <2>1. UNCHANGED <<xfer, c2s, s2c, srv_recv, got>>
    BY <1>4 DEF vars, clientVars, linkVars, srvVars, histVars
  <2>2. TypeOK'
    BY <1>4 DEF LinkInv, TypeOK, vars, clientVars, linkVars, srvVars, histVars
  <2>3. QED
    BY <2>1, <2>2, QuietStep
<1>5. QED
  BY <1>1, <1>2, <1>3, <1>4 DEF Next

THEOREM InvariantHolds == Spec => []LinkInv
  BY InitInv, NextInv, PTL DEF Spec

(* Every variable keeps its type, whatever the bounds.                           *)
THEOREM TypeCorrect == Spec => []TypeOK
<1>1. LinkInv => TypeOK
  BY DEF LinkInv
<1>2. QED
  BY <1>1, InvariantHolds, PTL

(* `send_index -= 1` in update_recv_ack never wraps and the index never leaves   *)
(* the queue, for any interleaving of requests, acks, breaks and reconnects.     *)
THEOREM IndexNeverWraps == Spec => []SendIndexInRange
<1>1. LinkInv => SendIndexInRange
  BY DEF LinkInv, XferOK, SendIndexInRange
<1>2. QED
  BY <1>1, InvariantHolds, PTL

(* The server sees each number at most once and in increasing order.             *)
THEOREM DeliveryInOrder == Spec => []InOrderAtMostOnce
<1>1. LinkInv => InOrderAtMostOnce
  BY DEF LinkInv
<1>2. QED
  BY <1>1, InvariantHolds, PTL
=================================================================================
