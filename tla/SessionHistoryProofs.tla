-------------------------- MODULE SessionHistoryProofs --------------------------
(* What became of every packet of SessionLink, whatever breaks and reconnects:   *)
(* where each number is, which acks went out, what the client has read when it   *)
(* acknowledges, and what the counters of a reconnect request stand for.         *)
EXTENDS SessionLinkProofs

(* Everything that was ever handed to a connection.                              *)
Packets == got \cup lost \cup InFlight(c2s)

-------------------------------------------------------------------------------
(* Channels and numbers.                                                         *)
LEMMA InFlightAppend ==
  ASSUME NEW S, NEW ch \in Seq(S), NEW m \in S
  PROVE  InFlight(Append(ch, m)) = InFlight(ch) \cup {m}
<1>1. /\ Len(Append(ch, m)) = Len(ch) + 1 /\ Len(ch) \in Nat
      /\ \A i \in 1..Len(ch) : Append(ch, m)[i] = ch[i]
      /\ Append(ch, m)[Len(ch) + 1] = m
  BY AppendProperties
<1>2. \A i \in 1..(Len(ch) + 1) : i \in 1..Len(ch) \/ i = Len(ch) + 1
  BY <1>1
<1>3. \A i \in 1..Len(ch) : i \in 1..(Len(ch) + 1)
  BY <1>1
<1>4. Len(ch) + 1 \in 1..(Len(ch) + 1)
  BY <1>1
<1>5. QED
  BY <1>1, <1>2, <1>3, <1>4 DEF InFlight

LEMMA InFlightHead ==
  ASSUME NEW S, NEW ch \in Seq(S), ch # <<>>
  PROVE  InFlight(ch) = {Head(ch)} \cup InFlight(Tail(ch))
<1>1. /\ Len(ch) \in Nat /\ Len(ch) > 0 /\ Head(ch) = ch[1]
      /\ Len(Tail(ch)) = Len(ch) - 1
      /\ \A i \in 1..Len(Tail(ch)) : Tail(ch)[i] = ch[i + 1]
  BY EmptySeq, HeadTailProperties
<1>2. \A i \in 1..Len(Tail(ch)) : i + 1 \in 1..Len(ch)
  BY <1>1
<1>3. \A i \in 1..Len(ch) : i = 1 \/ (i - 1 \in 1..Len(Tail(ch)) /\ (i - 1) + 1 = i)
  BY <1>1
<1>4. 1 \in 1..Len(ch)
  BY <1>1
<1>5. QED
  BY <1>1, <1>2, <1>3, <1>4 DEF InFlight

LEMMA SnsUnion ==
  /\ \A A, B : Sns(A \cup B) = Sns(A) \cup Sns(B)
  /\ \A m : Sns({m}) = {m.sn} \ {0}
  /\ \A A, m : Sns(A \cup {m}) = Sns(A) \cup ({m.sn} \ {0})
BY DEF Sns

LEMMA InFlightShort ==
  InFlight(<<>>) = {} /\ \A m : InFlight(<<m>>) = {m}
<1>1. InFlight(<<>>) = {}
  BY DEF InFlight
<1>2. ASSUME NEW m PROVE InFlight(<<m>>) = {m}
  <2>1. Len(<<m>>) = 1 /\ <<m>>[1] = m
    OBVIOUS
  <2>2. 1..1 = {1}
    OBVIOUS
  <2>3. QED
    BY <2>1, <2>2 DEF InFlight
<1>3. QED
  BY <1>1, <1>2

(* conn.send_packet adds the packet to what is in flight or to what is lost.      *)
LEMMA PutAdds ==
  ASSUME TypeOK, NEW m \in ToServer, Put(m)
  PROVE  \/ lost' = lost /\ InFlight(c2s') = InFlight(c2s) \cup {m}
         \/ lost' = lost \cup {m} /\ c2s' = c2s
<1>1. c2s \in Seq(ToServer)
  BY DEF TypeOK
<1>2. InFlight(Append(c2s, m)) = InFlight(c2s) \cup {m}
  BY <1>1, InFlightAppend
<1>3. CASE up
  BY <1>2, <1>3 DEF Put
<1>4. CASE ~up
  BY <1>4 DEF Put
<1>5. QED
  BY <1>3, <1>4

LEMMA PutNumbers ==
  ASSUME TypeOK, NEW m \in ToServer, Put(m)
  PROVE  \/ /\ Sns(lost') = Sns(lost)
            /\ Sns(InFlight(c2s')) = Sns(InFlight(c2s)) \cup ({m.sn} \ {0})
         \/ /\ Sns(lost') = Sns(lost) \cup ({m.sn} \ {0})
            /\ Sns(InFlight(c2s')) = Sns(InFlight(c2s))
<1>1. /\ Sns(InFlight(c2s) \cup {m}) = Sns(InFlight(c2s)) \cup ({m.sn} \ {0})
      /\ Sns(lost \cup {m}) = Sns(lost) \cup ({m.sn} \ {0})
  BY SnsUnion
<1>2. QED
  BY <1>1, PutAdds

-------------------------------------------------------------------------------
(* The steps.                                                                    *)
LEMMA StepCases ==
  ASSUME [Next]_vars
  PROVE  \/ Moves \/ UNCHANGED vars \/ ProcessOp \/ HeartbeatTick
         \/ SendPacket \/ SendAck \/ RecvPacket \/ Reconnected
         \/ ReconnectRefused \/ RecvClosed \/ Break \/ Dial
         \/ SrvRecv \/ SrvReconnect \/ SrvSend
BY DEF Next, Client, Process, Flush, Wait, Reconnect, Moves, Environment, Server

(* A step that only moves the program counter, and where it may move it.          *)
LEMMA QuietKeeps ==
  ASSUME Moves \/ UNCHANGED vars
  PROVE  /\ UNCHANGED <<xfer, pending_hb_sn, try_seq, last_success_seq, up, c2s, s2c,
                        srv_recv, srv_acked, srv_tail, srv_next, srv_joined,
                        got, lost, delivered, accepted>>
         /\ pc' = "await" => pc = "await"
         /\ pc \in {"dial", "closed"} => pc' \in {"dial", "closed"}
         /\ pc \in {"dial", "await", "closed"} => pc' \in {"dial", "await", "closed"}
<1>1. UNCHANGED <<xfer, pending_hb_sn, try_seq, last_success_seq, up, c2s, s2c,
                  srv_recv, srv_acked, srv_tail, srv_next, srv_joined,
                  got, lost, delivered, accepted>>
  BY DEF Moves, ProcessFail, ProcessDone, SendPacketFail, SendDone, SendAckFail,
         NoAckDue, Wake, RecvFail, HeartbeatTimeout, DialFail, ReconnectFail,
         ReconnectTimeout, Stop, Closed, vars, clientVars, linkVars, srvVars, histVars
<1>2. /\ pc' = "await" => pc = "await"
      /\ pc \in {"dial", "closed"} => pc' \in {"dial", "closed"}
      /\ pc \in {"dial", "await", "closed"} => pc' \in {"dial", "await", "closed"}
  BY DEF Moves, ProcessFail, ProcessDone, SendPacketFail, SendDone, SendAckFail,
         NoAckDue, Wake, RecvFail, HeartbeatTimeout, DialFail, ReconnectFail,
         ReconnectTimeout, Reconnecting, Stop, Closed, AfterFlush, vars, clientVars
<1>3. QED
  BY <1>1, <1>2

(* What a received packet leaves of the endpoint: the unsent packets are those it *)
(* had, and no packet is new.                                                    *)
LEMMA ReceivedShape ==
  ASSUME NEW x, XferOK(x), NEW m \in ToClient, m.ack <= SentSn(x)
  PROVE  LET y == Received(x, m)
         IN  /\ XferOK(y) /\ SentSn(y) = SentSn(x)
             /\ y.tail_sn = x.tail_sn /\ y.sent_ack_sn = x.sent_ack_sn
             /\ y.recv_sn = (IF m.sn > x.recv_sn THEN m.sn ELSE x.recv_sn)
             /\ \A j \in 1..Len(y.que) : \E i \in 1..Len(x.que) : x.que[i] = y.que[j]
             /\ \A i \in (x.send_index + 1)..Len(x.que) :
                  \E j \in (y.send_index + 1)..Len(y.que) : y.que[j] = x.que[i]
<1> DEFINE a == IF m.ack # 0 THEN UpdateRecvAck(x, m.ack) ELSE x
           y == Received(x, m)
<1>1. m.ack \in Nat /\ m.sn \in Nat
  BY DEF ToClient
<1>2. /\ XferOK(a) /\ SentSn(a) = SentSn(x)
      /\ a.tail_sn = x.tail_sn /\ a.recv_sn = x.recv_sn /\ a.sent_ack_sn = x.sent_ack_sn
      /\ \A j \in 1..Len(a.que) : \E i \in 1..Len(x.que) : x.que[i] = a.que[j]
  <2>1. CASE m.ack # 0
    BY <2>1, <1>1, UpdateRecvAckSound
  <2>2. CASE m.ack = 0
    BY <2>2
  <2>3. QED
    BY <2>1, <2>2
<1>3. y = IF m.sn # 0 THEN UpdateRecvSn(a, m.sn) ELSE a
  BY DEF Received
<1> HIDE DEF a, y
<1>4. a \in XferState /\ x \in XferState /\ x.recv_sn \in Nat
  BY <1>2 DEF XferOK, XferState
<1>5. /\ y.que = a.que /\ y.tail_sn = a.tail_sn /\ y.sent_ack_sn = a.sent_ack_sn
      /\ y.recv_sn = (IF m.sn > x.recv_sn THEN m.sn ELSE x.recv_sn)
  BY <1>1, <1>2, <1>3, <1>4, FieldsKept
<1>6. /\ XferOK(y) /\ SentSn(y) = SentSn(x)
      /\ \A i \in 1..Len(x.que) :
           x.que[i].sn > m.ack => \E j \in 1..Len(y.que) : y.que[j] = x.que[i]
  BY ReceivedSound DEF y
<1>7. ASSUME NEW i \in (x.send_index + 1)..Len(x.que)
      PROVE  \E j \in (y.send_index + 1)..Len(y.que) : y.que[j] = x.que[i]
  <2>1. /\ x.send_index \in Nat /\ y.send_index \in Nat
        /\ Len(x.que) \in Nat /\ Len(y.que) \in Nat
    BY <1>6 DEF XferOK, XferState
  <2>2. i \in 1..Len(x.que) /\ i > x.send_index
    BY <2>1
  <2>3. x.que[i].sn > SentSn(x) /\ SentSn(x) \in Nat /\ x.que[i].sn \in Nat
    <3>1. x.que[i] \in Packet
      BY <2>2 DEF XferOK, XferState
    <3>2. QED
      BY <2>2, <3>1, UnsentNumbers DEF Packet
  <2>4. PICK j \in 1..Len(y.que) : y.que[j] = x.que[i]
    BY <2>2, <2>3, <1>1, <1>6
  <2>5. j > y.send_index
    BY <2>3, <2>4, <1>6, UnsentNumbers
  <2>6. QED
    BY <2>1, <2>4, <2>5
<1>8. QED
  BY <1>2, <1>5, <1>6, <1>7 DEF y

-------------------------------------------------------------------------------
(* Where every number is: up to SentSn it was received, lost or is in flight, and *)
(* above, it is in the queue.                                                    *)
Placed ==
  /\ Sns(got) \cup Sns(lost) \cup Sns(InFlight(c2s)) = 1..SentSn(xfer)
  /\ Sns(got) \cap Sns(lost) = {}
  /\ Sns(got) \cap Sns(InFlight(c2s)) = {}
  /\ Sns(lost) \cap Sns(InFlight(c2s)) = {}

LEMMA PlacedInit == Init => Placed
<1> SUFFICES ASSUME Init PROVE Placed
  OBVIOUS
<1>1. OpenReqs \in Nat
  BY LinkAssumption
<1>2. /\ Len(c2s) = OpenReqs /\ \A i \in 1..OpenReqs : c2s[i].sn = i
  BY <1>1 DEF Init, OpenQue, DataMsg
<1>3. Sns(InFlight(c2s)) = 1..OpenReqs
  BY <1>1, <1>2 DEF Sns, InFlight
<1>4. SentSn(xfer) = OpenReqs
  <2>1. /\ xfer.que = OpenQue /\ xfer.tail_sn = OpenReqs /\ xfer.send_index = OpenReqs
    BY DEF Init, NewXfer
  <2>2. Len(OpenQue) = OpenReqs
    BY <1>1 DEF OpenQue
  <2>3. QED
    BY <1>1, <2>1, <2>2 DEF SentSn
<1>5. Sns(got) = {} /\ Sns(lost) = {}
  BY DEF Init, Sns
<1>6. QED
  BY <1>3, <1>4, <1>5 DEF Placed

(* The head of c2s is received: its number is not among those still coming.      *)
LEMMA HeadTaken ==
  ASSUME LinkInv, c2s # <<>>
  PROVE  /\ Head(c2s).sn \notin Sns(InFlight(Tail(c2s)))
         /\ InFlight(c2s) = {Head(c2s)} \cup InFlight(Tail(c2s))
         /\ Sns(InFlight(c2s)) = ({Head(c2s).sn} \ {0}) \cup Sns(InFlight(Tail(c2s)))
<1>1. c2s \in Seq(ToServer)
  BY DEF LinkInv, TypeOK
<1>2. InFlight(c2s) = {Head(c2s)} \cup InFlight(Tail(c2s))
  BY <1>1, InFlightHead
<1>3. ASSUME NEW i \in 1..Len(Tail(c2s)), Tail(c2s)[i].sn # 0
      PROVE  Tail(c2s)[i].sn # Head(c2s).sn
  <2>1. Head(c2s) \in ToServer /\ Head(c2s).sn < Tail(c2s)[i].sn /\ Tail(c2s)[i].sn \in Nat
    BY <1>3, ServerHead
  <2>2. Head(c2s).sn \in Nat
    BY <2>1 DEF ToServer
  <2>3. QED
    BY <2>1, <2>2
<1>4. Head(c2s).sn \notin Sns(InFlight(Tail(c2s)))
  BY <1>3 DEF Sns, InFlight
<1>5. /\ Sns({Head(c2s)} \cup InFlight(Tail(c2s)))
           = Sns({Head(c2s)}) \cup Sns(InFlight(Tail(c2s)))
      /\ Sns({Head(c2s)}) = {Head(c2s).sn} \ {0}
  BY SnsUnion
<1>6. QED
  BY <1>2, <1>4, <1>5

(* What a step does to the numbers.                                              *)
LEMMA NumbersMove ==
  ASSUME LinkInv, [Next]_vars
  PROVE  \/ /\ SentSn(xfer') = SentSn(xfer)
            /\ Sns(got') = Sns(got) /\ Sns(lost') = Sns(lost)
            /\ Sns(InFlight(c2s')) = Sns(InFlight(c2s))
         \/ /\ SentSn(xfer') = SentSn(xfer) + 1
            /\ Sns(got') = Sns(got)
            /\ \/ /\ Sns(InFlight(c2s')) = Sns(InFlight(c2s)) \cup {SentSn(xfer) + 1}
                  /\ Sns(lost') = Sns(lost)
               \/ /\ Sns(lost') = Sns(lost) \cup {SentSn(xfer) + 1}
                  /\ Sns(InFlight(c2s')) = Sns(InFlight(c2s))
         \/ /\ SentSn(xfer') = SentSn(xfer)
            /\ Sns(got') = Sns(got)
            /\ Sns(lost') = Sns(lost) \cup Sns(InFlight(c2s))
            /\ Sns(InFlight(c2s')) = {}
         \/ /\ SentSn(xfer') = SentSn(xfer)
            /\ Sns(lost') = Sns(lost)
            /\ \E h : /\ h \notin Sns(InFlight(c2s'))
                      /\ Sns(InFlight(c2s)) = ({h} \ {0}) \cup Sns(InFlight(c2s'))
                      /\ Sns(got') = Sns(got) \cup ({h} \ {0})
<1>1. TypeOK /\ XferOK(xfer) /\ xfer.recv_sn \in Nat /\ SentSn(xfer) \in Nat
  BY SentSnNat DEF LinkInv, XferOK, XferState
<1>2. CASE Moves \/ UNCHANGED vars
  BY <1>2, QuietKeeps
<1>3. CASE ProcessOp \/ HeartbeatTick
  <2>1. SentSn(xfer') = SentSn(xfer)
    BY <1>1, <1>3, AddQos1Sound DEF ProcessOp, HeartbeatTick
  <2>2. QED
    BY <1>3, <2>1 DEF ProcessOp, HeartbeatTick, linkVars, histVars
<1>4. CASE SendPacket
  <2> DEFINE m == DataMsg(NextUnsent(xfer))
  <2>1. /\ SentSn(xfer') = SentSn(xfer) + 1 /\ NextUnsent(xfer) \in Packet
        /\ NextUnsent(xfer).sn = SentSn(xfer) + 1
    BY <1>1, <1>4, MarkSentSound DEF SendPacket
  <2>2. m \in ToServer /\ m.sn = SentSn(xfer) + 1 /\ Put(m) /\ got' = got
    BY <1>4, <2>1, MessageTypes DEF SendPacket
  <2> HIDE DEF m
  <2>3. {m.sn} \ {0} = {SentSn(xfer) + 1}
    BY <2>2, <1>1
  <2>4. QED
    BY <1>1, <2>1, <2>2, <2>3, PutNumbers
<1>5. CASE SendAck
  <2>1. /\ AckMsg(xfer.recv_sn) \in ToServer /\ AckMsg(xfer.recv_sn).sn = 0
        /\ Put(AckMsg(xfer.recv_sn)) /\ got' = got
    BY <1>1, <1>5, MessageTypes DEF SendAck
  <2>2. SentSn(xfer') = SentSn(xfer)
    BY <1>1, <1>5, RecvSideSound DEF SendAck
  <2>3. QED
    BY <1>1, <2>1, <2>2, PutNumbers
<1>6. CASE RecvPacket \/ Reconnected
  <2>1. SentSn(xfer') = SentSn(xfer)
    BY <1>1, <1>6, HeadSound, ReceivedSound DEF RecvPacket, Reconnected, AdoptConnection
  <2>2. QED
    BY <1>6, <2>1 DEF RecvPacket, Reconnected, AdoptConnection
<1>7. CASE ReconnectRefused \/ SrvSend
  BY <1>7 DEF ReconnectRefused, SrvSend, clientVars, histVars
<1>8. CASE RecvClosed
  <2> DEFINE x == Received(xfer, Head(s2c))
             m == AckMsg(x.recv_sn)
  <2>1. XferOK(x) /\ SentSn(x) = SentSn(xfer)
    BY <1>1, <1>8, HeadSound, ReceivedSound DEF RecvClosed
  <2>2. x.recv_sn \in Nat
    BY <2>1 DEF XferOK, XferState
  <2>3. /\ m \in ToServer /\ m.sn = 0 /\ got' = got
        /\ \/ Put(m) /\ xfer' = MarkAckSent(x)
           \/ xfer' = x /\ UNCHANGED <<c2s, lost>>
    BY <1>8, <2>2, MessageTypes DEF RecvClosed
  <2> HIDE DEF m, x
  <2>4. SentSn(xfer') = SentSn(xfer)
    BY <2>1, <2>2, <2>3, RecvSideSound
  <2>5. QED
    BY <1>1, <2>3, <2>4, PutNumbers
<1>9. CASE Break \/ Dial
  <2>1. /\ lost' = lost \cup InFlight(c2s) /\ UNCHANGED <<xfer, got>>
        /\ c2s' = <<>> \/ c2s' = <<ReconnMsg(try_seq')>>
    BY <1>9 DEF Break, Dial, clientVars
  <2>2. Sns(InFlight(c2s')) = {}
    BY <2>1, InFlightShort DEF Sns, ReconnMsg
  <2>3. Sns(lost') = Sns(lost) \cup Sns(InFlight(c2s))
    BY <2>1, SnsUnion
  <2>4. QED
    BY <2>1, <2>2, <2>3
<1>10. CASE SrvRecv \/ SrvReconnect
  <2>1. /\ c2s # <<>> /\ c2s' = Tail(c2s) /\ got' = got \cup {Head(c2s)}
        /\ UNCHANGED <<xfer, lost>>
    BY <1>10 DEF SrvRecv, SrvReconnect, clientVars
  <2>2. /\ Sns(got \cup {Head(c2s)}) = Sns(got) \cup Sns({Head(c2s)})
        /\ Sns({Head(c2s)}) = {Head(c2s).sn} \ {0}
    BY SnsUnion
  <2>3. QED
    BY <2>1, <2>2, HeadTaken
<1>11. QED
  BY <1>2, <1>3, <1>4, <1>5, <1>6, <1>7, <1>8, <1>9, <1>10, StepCases

LEMMA PlacedStep == LinkInv /\ Placed /\ [Next]_vars => Placed'
<1> SUFFICES ASSUME LinkInv, Placed, [Next]_vars PROVE Placed'
  OBVIOUS
<1>1. SentSn(xfer) \in Nat
  BY SentSnNat DEF LinkInv
<1> DEFINE n == SentSn(xfer) + 1
<1>2. 1..n = (1..SentSn(xfer)) \cup {n} /\ n \notin 1..SentSn(xfer)
  BY <1>1
<1>3. QED
  BY <1>2, NumbersMove DEF Placed

THEOREM PlacedHolds == Spec => [](LinkInv /\ Placed)
<1>1. Init => LinkInv /\ Placed
  BY InitInv, PlacedInit
<1>2. LinkInv /\ Placed /\ [Next]_vars => (LinkInv /\ Placed)'
  BY NextInv, PlacedStep
<1>3. QED
  BY <1>1, <1>2, PTL DEF Spec

(* Every number the client assigned is in exactly one place, for any number of    *)
(* requests, breaks and reconnects: update_recv_ack, SendIter and a new           *)
(* connection neither skip nor repeat a packet.                                  *)
THEOREM EveryNumberAccounted == Spec => []Accounted
<1>1. LinkInv /\ Placed => Accounted
  <2> SUFFICES ASSUME LinkInv, Placed PROVE Accounted
    OBVIOUS
  <2> DEFINE places == <<Sns(got), Sns(lost), Sns(InFlight(c2s)), Unsent(xfer)>>
  <2>1. /\ SentSn(xfer) \in Nat /\ xfer.tail_sn \in Nat /\ SentSn(xfer) <= xfer.tail_sn
        /\ Unsent(xfer) = (SentSn(xfer) + 1)..xfer.tail_sn
    BY UnsentNumbers DEF LinkInv, Unsent
  <2>2. 1..4 = {1, 2, 3, 4}
    OBVIOUS
  <2>3. InFlight(places) = {places[1], places[2], places[3], places[4]}
    BY <2>2 DEF InFlight
  <2>4. UNION InFlight(places)
          = Sns(got) \cup Sns(lost) \cup Sns(InFlight(c2s)) \cup Unsent(xfer)
    BY <2>3
  <2>5. 1..SentSn(xfer) \cup (SentSn(xfer) + 1)..xfer.tail_sn = 1..xfer.tail_sn
    BY <2>1
  <2>6. /\ UNION InFlight(places) = 1..xfer.tail_sn
        /\ 1..SentSn(xfer) \cap Unsent(xfer) = {}
    BY <2>1, <2>4, <2>5 DEF Placed
  <2>7. \A i, j \in 1..4 : i # j => places[i] \cap places[j] = {}
    BY <2>2, <2>6 DEF Placed
  <2>8. QED
    BY <2>6, <2>7 DEF Accounted
<1>2. QED
  BY <1>1, PlacedHolds, PTL

-------------------------------------------------------------------------------
(* A packet above all the server received stays in the queue.                     *)
LEMMA QueueKeeps ==
  ASSUME LinkInv, [Next]_vars
  PROVE  \A i \in 1..Len(xfer.que) : xfer.que[i].sn > srv_recv =>
           \E j \in 1..Len(xfer'.que) : xfer'.que[j] = xfer.que[i]
<1>1. /\ TypeOK /\ XferOK(xfer) /\ xfer \in XferState /\ srv_recv \in Nat
      /\ \A i \in 1..Len(xfer.que) : xfer.que[i].sn \in Nat
  BY QueueTypes DEF LinkInv, TypeOK
<1>2. CASE Moves \/ UNCHANGED vars
  BY <1>2, QuietKeeps
<1>3. CASE ProcessOp \/ HeartbeatTick
  BY <1>1, <1>3, AddQos1Sound DEF ProcessOp, HeartbeatTick
<1>4. CASE SendPacket \/ SendAck
  BY <1>1, <1>4, FieldsKept DEF SendPacket, SendAck
<1>5. ASSUME s2c # <<>>
      PROVE  LET x == Received(xfer, Head(s2c))
             IN  /\ x \in XferState
                 /\ \A i \in 1..Len(xfer.que) : xfer.que[i].sn > srv_recv =>
                      \E j \in 1..Len(x.que) : x.que[j] = xfer.que[i]
  <2>1. /\ Head(s2c) \in ToClient /\ Head(s2c).ack <= srv_recv
        /\ Head(s2c).ack <= SentSn(xfer) /\ Head(s2c).ack \in Nat
    BY <1>5, HeadSound DEF ToClient
  <2>2. \A i \in 1..Len(xfer.que) :
          xfer.que[i].sn > srv_recv => xfer.que[i].sn > Head(s2c).ack
    BY <1>1, <2>1
  <2>3. QED
    BY <1>1, <2>1, <2>2, ReceivedSound DEF XferOK
<1>6. CASE RecvPacket \/ Reconnected
  BY <1>5, <1>6 DEF RecvPacket, Reconnected, AdoptConnection
<1>7. CASE RecvClosed
  <2> DEFINE x == Received(xfer, Head(s2c))
  <2>1. s2c # <<>> /\ (xfer' = x \/ xfer' = MarkAckSent(x))
    BY <1>7 DEF RecvClosed
  <2>2. xfer'.que = x.que
    <3>1. x \in XferState
      BY <1>5, <2>1
    <3> HIDE DEF x
    <3>2. QED
      BY <2>1, <3>1 DEF MarkAckSent, XferState
  <2>3. QED
    BY <1>5, <2>1, <2>2
<1>8. CASE ReconnectRefused \/ SrvSend \/ Break \/ Dial \/ SrvRecv \/ SrvReconnect
  BY <1>8 DEF ReconnectRefused, SrvSend, Break, Dial, SrvRecv, SrvReconnect, clientVars
<1>9. QED
  BY <1>2, <1>3, <1>4, <1>6, <1>7, <1>8, StepCases

(* A packet leaves the queue only when the server has it or a later one, however  *)
(* late, stale or repeated the ack is that pops it in update_recv_ack.           *)
THEOREM OnlyAckedDropped == Spec => QueueDropsOnlyAcked
<1>1. LinkInv /\ [Next]_vars =>
        [Sns(InFlight(xfer.que)) \ Sns(InFlight(xfer'.que)) \subseteq 1..srv_recv]_vars
  <2> SUFFICES ASSUME LinkInv, [Next]_vars,
                      NEW n \in Sns(InFlight(xfer.que)), n \notin 1..srv_recv
               PROVE  n \in Sns(InFlight(xfer'.que))
    OBVIOUS
  <2>1. PICK i \in 1..Len(xfer.que) : n = xfer.que[i].sn /\ n # 0
    BY DEF Sns, InFlight
  <2>2. n \in Nat /\ srv_recv \in Nat
    BY <2>1, QueueTypes DEF LinkInv, TypeOK
  <2>3. n > srv_recv
    BY <2>1, <2>2
  <2>4. PICK j \in 1..Len(xfer'.que) : xfer'.que[j] = xfer.que[i]
    BY <2>1, <2>3, QueueKeeps
  <2>5. QED
    BY <2>1, <2>4 DEF Sns, InFlight
<1>2. QED
  BY <1>1, InvariantHolds, PTL DEF Spec, QueueDropsOnlyAcked

-------------------------------------------------------------------------------
(* What was handed to a connection is in flight, received or lost for good.       *)
LEMMA PacketsStay ==
  ASSUME LinkInv, [Next]_vars
  PROVE  Packets \subseteq Packets'
<1>1. TypeOK /\ XferOK(xfer) /\ xfer.recv_sn \in Nat
  BY DEF LinkInv, XferOK, XferState
<1>2. CASE Moves \/ UNCHANGED vars
  BY <1>2, QuietKeeps DEF Packets
<1>3. CASE SendPacket
  <2>1. DataMsg(NextUnsent(xfer)) \in ToServer /\ Put(DataMsg(NextUnsent(xfer)))
    BY <1>1, <1>3, MarkSentSound, MessageTypes DEF SendPacket
  <2>2. QED
    BY <1>1, <1>3, <2>1, PutAdds DEF SendPacket, Packets
<1>4. CASE SendAck
  <2>1. AckMsg(xfer.recv_sn) \in ToServer /\ Put(AckMsg(xfer.recv_sn))
    BY <1>1, <1>4, MessageTypes DEF SendAck
  <2>2. QED
    BY <1>1, <1>4, <2>1, PutAdds DEF SendAck, Packets
<1>5. CASE RecvClosed
  <2> DEFINE x == Received(xfer, Head(s2c))
  <2>1. x.recv_sn \in Nat
    BY <1>1, <1>5, HeadSound, ReceivedSound DEF RecvClosed, XferOK, XferState
  <2>2. /\ AckMsg(x.recv_sn) \in ToServer /\ got' = got
        /\ Put(AckMsg(x.recv_sn)) \/ UNCHANGED <<c2s, lost>>
    BY <1>5, <2>1, MessageTypes DEF RecvClosed
  <2>3. QED
    BY <1>1, <2>2, PutAdds DEF Packets
<1>6. CASE Break \/ Dial
  BY <1>6 DEF Break, Dial, Packets
<1>7. CASE SrvRecv \/ SrvReconnect
  BY <1>7, HeadTaken DEF SrvRecv, SrvReconnect, Packets
<1>8. CASE ProcessOp \/ HeartbeatTick \/ RecvPacket \/ Reconnected
           \/ ReconnectRefused \/ SrvSend
  BY <1>8 DEF ProcessOp, HeartbeatTick, RecvPacket, Reconnected, AdoptConnection,
              ReconnectRefused, SrvSend, linkVars, histVars, Packets
<1>9. QED
  BY <1>2, <1>3, <1>4, <1>5, <1>6, <1>7, <1>8, StepCases

(* A queued packet stays unsent until it is handed to a connection, with the ack  *)
(* it carries.                                                                   *)
LEMMA UnsentStays ==
  ASSUME LinkInv, [Next]_vars,
         NEW i \in (xfer.send_index + 1)..Len(xfer.que)
  PROVE  \/ DataMsg(xfer.que[i]) \in Packets'
         \/ \E j \in (xfer'.send_index + 1)..Len(xfer'.que) : xfer'.que[j] = xfer.que[i]
<1>1. /\ TypeOK /\ XferOK(xfer) /\ xfer \in XferState /\ Len(xfer.que) \in Nat
      /\ xfer.send_index \in Nat /\ xfer.recv_sn \in Nat
  BY QueueTypes DEF LinkInv, TypeOK
<1>2. CASE Moves \/ UNCHANGED vars
  BY <1>2, QuietKeeps
<1>3. CASE ProcessOp \/ HeartbeatTick
  <2>1. xfer' = AddQos1(xfer, 0) /\ i \in 1..Len(xfer.que)
    BY <1>1, <1>3 DEF ProcessOp, HeartbeatTick
  <2>2. xfer'.send_index = xfer.send_index
    BY <1>1, <2>1, AddQos1Shape
  <2>3. xfer'.que[i] = xfer.que[i] /\ i \in 1..Len(xfer'.que)
    BY <1>1, <2>1, AddQos1Sound
  <2>4. i \in (xfer'.send_index + 1)..Len(xfer'.que)
    BY <1>1, <2>2, <2>3
  <2>5. QED
    BY <2>3, <2>4
<1>4. CASE SendPacket
  <2> DEFINE m == DataMsg(NextUnsent(xfer))
  <2>1. m \in ToServer /\ Put(m) /\ got' = got
    BY <1>1, <1>4, MarkSentSound, MessageTypes DEF SendPacket
  <2>2. m \in Packets'
    BY <1>1, <2>1, PutAdds DEF Packets
  <2>3. xfer'.que = xfer.que /\ xfer'.send_index = xfer.send_index + 1
    BY <1>1, <1>4, FieldsKept DEF SendPacket
  <2>4. CASE i = xfer.send_index + 1
    BY <2>2, <2>4 DEF NextUnsent
  <2>5. CASE i # xfer.send_index + 1
    <3>1. i \in (xfer'.send_index + 1)..Len(xfer'.que)
      BY <1>1, <2>3, <2>5
    <3>2. QED
      BY <2>3, <3>1
  <2>6. QED
    BY <2>4, <2>5
<1>5. CASE SendAck
  BY <1>1, <1>5, FieldsKept DEF SendAck
<1>6. CASE RecvPacket \/ Reconnected
  <2>1. s2c # <<>> /\ xfer' = Received(xfer, Head(s2c))
    BY <1>6 DEF RecvPacket, Reconnected, AdoptConnection
  <2>2. Head(s2c) \in ToClient /\ Head(s2c).ack <= SentSn(xfer)
    BY <2>1, HeadSound
  <2>3. QED
    BY <1>1, <2>1, <2>2, ReceivedShape
<1>7. CASE RecvClosed
  <2> DEFINE x == Received(xfer, Head(s2c))
  <2>1. x \in XferState
        /\ \E j \in (x.send_index + 1)..Len(x.que) : x.que[j] = xfer.que[i]
    BY <1>1, <1>7, HeadSound, ReceivedShape DEF RecvClosed, XferOK
  <2>2. xfer' = x \/ xfer' = MarkAckSent(x)
    BY <1>7 DEF RecvClosed
  <2> HIDE DEF x
  <2>3. x.recv_sn \in Nat
    BY <2>1, QueueTypes
  <2>4. xfer'.que = x.que /\ xfer'.send_index = x.send_index
    BY <2>1, <2>2, <2>3, FieldsKept
  <2>5. QED
    BY <2>1, <2>4
<1>8. CASE ReconnectRefused \/ SrvSend \/ Break \/ Dial \/ SrvRecv \/ SrvReconnect
  BY <1>8 DEF ReconnectRefused, SrvSend, Break, Dial, SrvRecv, SrvReconnect, clientVars
<1>9. QED
  BY <1>2, <1>3, <1>4, <1>5, <1>6, <1>7, <1>8, StepCases

(* An ack is counted as sent only when it goes out or is put in the queue.        *)
LEMMA CountedIsCarried ==
  ASSUME LinkInv, [Next]_vars, xfer'.sent_ack_sn # xfer.sent_ack_sn
  PROVE  \/ \E m \in Packets' : m.ack = xfer'.sent_ack_sn
         \/ \E j \in (xfer'.send_index + 1)..Len(xfer'.que) :
              xfer'.que[j].ack = xfer'.sent_ack_sn
<1>1. /\ TypeOK /\ XferOK(xfer) /\ xfer \in XferState /\ xfer.recv_sn \in Nat
      /\ Len(xfer.que) \in Nat /\ xfer.send_index \in 0..Len(xfer.que)
  BY QueueTypes DEF LinkInv, TypeOK, XferOK, SendIndexOK
<1>2. CASE Moves \/ UNCHANGED vars
  BY <1>2, QuietKeeps
<1>3. CASE ProcessOp \/ HeartbeatTick
  <2> DEFINE p == [sn |-> xfer.tail_sn + 1, ack |-> FillAck(xfer, 0)]
  <2>1. /\ p \in Packet /\ xfer'.que = Append(xfer.que, p)
        /\ xfer'.send_index = xfer.send_index
        /\ xfer'.sent_ack_sn = xfer.sent_ack_sn \/ xfer'.sent_ack_sn = p.ack
    BY <1>1, <1>3, AddQos1Shape DEF ProcessOp, HeartbeatTick
  <2> HIDE DEF p
  <2>2. /\ Len(xfer'.que) = Len(xfer.que) + 1
        /\ xfer'.que[Len(xfer.que) + 1] = p
    BY <1>1, <2>1, AppendProperties, QueueTypes
  <2>3. Len(xfer.que) + 1 \in (xfer'.send_index + 1)..Len(xfer'.que)
    BY <1>1, <2>1, <2>2
  <2>4. QED
    BY <2>1, <2>2, <2>3
<1>4. CASE SendPacket
  BY <1>1, <1>4, FieldsKept DEF SendPacket
<1>5. CASE SendAck
  <2> DEFINE m == AckMsg(xfer.recv_sn)
  <2>1. /\ m \in ToServer /\ Put(m) /\ got' = got /\ m.ack = xfer.recv_sn
        /\ xfer'.sent_ack_sn = xfer.recv_sn
    BY <1>1, <1>5, MessageTypes, FieldsKept DEF SendAck, AckMsg
  <2> HIDE DEF m
  <2>2. m \in Packets'
    BY <1>1, <2>1, PutAdds DEF Packets
  <2>3. QED
    BY <2>1, <2>2
<1>6. CASE RecvPacket \/ Reconnected
  BY <1>1, <1>6, HeadSound, ReceivedShape DEF RecvPacket, Reconnected, AdoptConnection
<1>7. CASE RecvClosed
  <2> DEFINE x == Received(xfer, Head(s2c))
             m == AckMsg(x.recv_sn)
  <2>1. x \in XferState /\ x.sent_ack_sn = xfer.sent_ack_sn
    BY <1>1, <1>7, HeadSound, ReceivedShape DEF RecvClosed, XferOK
  <2>2. x.recv_sn \in Nat
    BY <2>1, QueueTypes
  <2>3. /\ m \in ToServer /\ m.ack = x.recv_sn /\ got' = got
        /\ xfer' = x \/ (xfer' = MarkAckSent(x) /\ Put(m))
    BY <1>7, <2>2, MessageTypes DEF RecvClosed, AckMsg
  <2> HIDE DEF x, m
  <2>4. xfer' = MarkAckSent(x) /\ Put(m)
    BY <2>1, <2>3
  <2>5. xfer'.sent_ack_sn = x.recv_sn /\ m \in Packets'
    BY <1>1, <2>1, <2>2, <2>3, <2>4, FieldsKept, PutAdds DEF Packets
  <2>6. QED
    BY <2>3, <2>5
<1>8. CASE ReconnectRefused \/ SrvSend \/ Break \/ Dial \/ SrvRecv \/ SrvReconnect
  BY <1>8 DEF ReconnectRefused, SrvSend, Break, Dial, SrvRecv, SrvReconnect, clientVars
<1>9. QED
  BY <1>2, <1>3, <1>4, <1>5, <1>6, <1>7, <1>8, StepCases

(* An ack that was counted as sent was sent, or waits in the queue to be: neither *)
(* a failed send nor a reconnect loses what fill_ack and AckIter count.          *)
THEOREM NoAckForgotten == Spec => []AckNotForgotten
<1>1. Init => AckNotForgotten
  BY DEF Init, NewXfer, AckNotForgotten
<1>2. LinkInv /\ AckNotForgotten /\ [Next]_vars => AckNotForgotten'
  <2> SUFFICES ASSUME LinkInv, AckNotForgotten, [Next]_vars, xfer'.sent_ack_sn # 0
               PROVE  \/ \E m \in Packets' : m.ack = xfer'.sent_ack_sn
                      \/ \E j \in (xfer'.send_index + 1)..Len(xfer'.que) :
                           xfer'.que[j].ack = xfer'.sent_ack_sn
    BY DEF AckNotForgotten, Packets
  <2>1. CASE xfer'.sent_ack_sn # xfer.sent_ack_sn
    BY <2>1, CountedIsCarried
  <2>2. CASE xfer'.sent_ack_sn = xfer.sent_ack_sn
    <3>1. CASE \E m \in Packets : m.ack = xfer.sent_ack_sn
      BY <2>2, <3>1, PacketsStay
    <3>2. CASE \E i \in (xfer.send_index + 1)..Len(xfer.que) :
                 xfer.que[i].ack = xfer.sent_ack_sn
      <4>1. PICK i \in (xfer.send_index + 1)..Len(xfer.que) :
              xfer.que[i].ack = xfer.sent_ack_sn
        BY <3>2
      <4>2. DataMsg(xfer.que[i]).ack = xfer.que[i].ack
        BY DEF DataMsg
      <4>3. QED
        BY <2>2, <4>1, <4>2, UnsentStays
    <3>3. QED
      BY <2>2, <3>1, <3>2 DEF AckNotForgotten, Packets
  <2>3. QED
    BY <2>1, <2>2
<1>3. QED
  BY <1>1, <1>2, InvariantHolds, PTL DEF Spec

-------------------------------------------------------------------------------
(* Acks follow what was read: none that is queued, in flight or received is above *)
(* the highest number the client has recorded.                                   *)
AcksBehind ==
  /\ xfer.sent_ack_sn <= xfer.recv_sn
  /\ \A p \in InFlight(xfer.que) : p.ack <= xfer.recv_sn
  /\ \A m \in InFlight(c2s) : m.ack <= xfer.recv_sn
  /\ srv_acked <= xfer.recv_sn

(* What is read next follows what was read: a number is at most one above the     *)
(* highest recorded, or its predecessor comes before it on the connection.       *)
GapFree(ch, r) ==
  \A i \in 1..Len(ch) :
    ch[i].sn <= r + 1 \/ \E j \in 1..(i - 1) : ch[j].sn = ch[i].sn - 1

NextFits(ch, n, r) == n <= r + 1 \/ \E j \in 1..Len(ch) : ch[j].sn = n - 1

(* After a refused or failed attempt the rest of a connection is never read.     *)
Reading == pc \notin {"dial", "closed"}

NoGap == Reading => /\ GapFree(s2c, xfer.recv_sn)
                    /\ srv_joined => NextFits(s2c, srv_next, xfer.recv_sn)

DeliveredAll == 1..xfer.recv_sn \subseteq delivered

ReadInv == AcksBehind /\ NoGap /\ DeliveredAll

Highest(r, n) == IF n > r THEN n ELSE r

-------------------------------------------------------------------------------
LEMMA GapFreeTail ==
  ASSUME NEW ch \in Seq(ToClient), ch # <<>>, NEW r \in Nat, GapFree(ch, r)
  PROVE  /\ Head(ch).sn <= r + 1
         /\ GapFree(Tail(ch), Highest(r, Head(ch).sn))
         /\ \A n \in Nat : NextFits(ch, n, r) =>
                             NextFits(Tail(ch), n, Highest(r, Head(ch).sn))
<1> DEFINE q == Highest(r, Head(ch).sn)
<1>1. /\ Len(ch) \in Nat /\ Len(ch) > 0 /\ Head(ch) = ch[1] /\ 1 \in 1..Len(ch)
      /\ Tail(ch) \in Seq(ToClient) /\ Len(Tail(ch)) = Len(ch) - 1
      /\ \A i \in 1..Len(Tail(ch)) : Tail(ch)[i] = ch[i + 1] /\ i + 1 \in 1..Len(ch)
  <2>1. Len(ch) \in Nat /\ Len(ch) > 0 /\ Head(ch) = ch[1]
    BY EmptySeq
  <2>2. /\ Tail(ch) \in Seq(ToClient) /\ Len(Tail(ch)) = Len(ch) - 1
        /\ \A i \in 1..Len(Tail(ch)) : Tail(ch)[i] = ch[i + 1]
    BY HeadTailProperties
  <2>3. QED
    BY <2>1, <2>2
<1>2. \A i \in 1..Len(ch) : ch[i].sn \in Nat
  <2>1. \A i \in 1..Len(ch) : ch[i] \in ToClient
    OBVIOUS
  <2>2. QED
    BY <2>1 DEF ToClient
<1>3. ch[1].sn <= r + 1
  BY <1>1 DEF GapFree
<1>4. q \in Nat /\ r <= q /\ ch[1].sn <= q
  BY <1>1, <1>2 DEF Highest
<1> HIDE DEF q
<1>5. ASSUME NEW n \in Nat, NEW k \in Nat, k <= Len(ch),
             n <= r + 1 \/ \E j \in 1..k : ch[j].sn = n - 1
      PROVE  n <= q + 1 \/ \E j \in 1..(k - 1) : Tail(ch)[j].sn = n - 1
  <2>1. CASE n <= r + 1
    BY <2>1, <1>4
  <2>2. CASE \E j \in 1..k : ch[j].sn = n - 1
    <3>1. PICK j \in 1..k : ch[j].sn = n - 1
      BY <2>2
    <3>2. CASE j = 1
      BY <3>1, <3>2, <1>2, <1>1, <1>4
    <3>3. CASE j # 1
      <4>1. j - 1 \in 1..(k - 1) /\ j - 1 \in 1..Len(Tail(ch)) /\ (j - 1) + 1 = j
        BY <3>3, <1>1, <1>5
      <4>2. Tail(ch)[j - 1] = ch[(j - 1) + 1]
        BY <4>1, <1>1
      <4>3. QED
        BY <3>1, <4>1, <4>2
    <3>4. QED
      BY <3>2, <3>3
  <2>3. QED
    BY <1>5, <2>1, <2>2
<1>6. ASSUME NEW i \in 1..Len(Tail(ch))
      PROVE  Tail(ch)[i].sn <= q + 1
               \/ \E j \in 1..(i - 1) : Tail(ch)[j].sn = Tail(ch)[i].sn - 1
  <2>1. Tail(ch)[i] = ch[i + 1] /\ i + 1 \in 1..Len(ch) /\ ch[i + 1].sn \in Nat
    BY <1>1, <1>2
  <2>2. ch[i + 1].sn <= r + 1 \/ \E j \in 1..((i + 1) - 1) : ch[j].sn = ch[i + 1].sn - 1
    BY <2>1 DEF GapFree
  <2>3. i \in Nat /\ i <= Len(ch) /\ (i + 1) - 1 = i
    BY <1>1
  <2>4. ch[i + 1].sn <= r + 1 \/ \E j \in 1..i : ch[j].sn = ch[i + 1].sn - 1
    BY <2>2, <2>3
  <2>5. PICK n : n = ch[i + 1].sn
    OBVIOUS
  <2>6. /\ n \in Nat /\ i \in Nat /\ i <= Len(ch)
        /\ n <= r + 1 \/ \E j \in 1..i : ch[j].sn = n - 1
    BY <2>1, <2>3, <2>4, <2>5
  <2>7. n <= q + 1 \/ \E j \in 1..(i - 1) : Tail(ch)[j].sn = n - 1
    BY <2>6, <1>5
  <2>8. QED
    BY <2>1, <2>5, <2>7
<1>7. ASSUME NEW n \in Nat, NextFits(ch, n, r)
      PROVE  NextFits(Tail(ch), n, q)
  <2>1. n <= q + 1 \/ \E j \in 1..(Len(ch) - 1) : Tail(ch)[j].sn = n - 1
    BY <1>1, <1>5, <1>7 DEF NextFits
  <2>2. QED
    BY <1>1, <2>1 DEF NextFits
<1>8. QED
  BY <1>1, <1>3, <1>6, <1>7 DEF GapFree, q

LEMMA GapFreeAppend ==
  ASSUME NEW ch \in Seq(ToClient), NEW m \in ToClient, NEW r \in Nat, GapFree(ch, r),
         m.sn = 0 \/ NextFits(ch, m.sn, r)
  PROVE  /\ GapFree(Append(ch, m), r)
         /\ \A n \in Nat : NextFits(ch, n, r) => NextFits(Append(ch, m), n, r)
         /\ NextFits(Append(ch, m), m.sn + 1, r)
<1> DEFINE new == Append(ch, m)
<1>1. /\ Len(ch) \in Nat /\ Len(new) = Len(ch) + 1
      /\ \A i \in 1..Len(ch) : new[i] = ch[i]
      /\ new[Len(ch) + 1] = m
  BY AppendProperties
<1>2. m.sn \in Nat
  BY DEF ToClient
<1> HIDE DEF new
<1>3. ASSUME NEW i \in 1..Len(new)
      PROVE  new[i].sn <= r + 1 \/ \E j \in 1..(i - 1) : new[j].sn = new[i].sn - 1
  <2>1. CASE i = Len(ch) + 1
    <3>1. i - 1 = Len(ch) /\ new[i] = m
      BY <2>1, <1>1
    <3>2. m.sn <= r + 1 \/ \E j \in 1..Len(ch) : ch[j].sn = m.sn - 1
      BY <1>2 DEF NextFits
    <3>3. QED
      BY <3>1, <3>2, <1>1
  <2>2. CASE i # Len(ch) + 1
    <3>1. i \in 1..Len(ch) /\ \A j \in 1..(i - 1) : j \in 1..Len(ch)
      BY <2>2, <1>1
    <3>2. QED
      BY <3>1, <1>1 DEF GapFree
  <2>3. QED
    BY <2>1, <2>2
<1>4. ASSUME NEW n \in Nat, NextFits(ch, n, r) PROVE NextFits(new, n, r)
  <2>1. \A j \in 1..Len(ch) : j \in 1..Len(new)
    BY <1>1
  <2>2. QED
    BY <2>1, <1>1, <1>4 DEF NextFits
<1>5. NextFits(new, m.sn + 1, r)
  <2>1. Len(ch) + 1 \in 1..Len(new) /\ new[Len(ch) + 1].sn = (m.sn + 1) - 1
    BY <1>1, <1>2
  <2>2. QED
    BY <2>1 DEF NextFits
<1>6. QED
  BY <1>3, <1>4, <1>5 DEF GapFree, new

-------------------------------------------------------------------------------
(* What a step reads from the connection: nothing, or its head.                   *)
LEMMA ReadsMove ==
  ASSUME LinkInv, [Next]_vars
  PROVE  \/ xfer'.recv_sn = xfer.recv_sn /\ delivered' = delivered
         \/ /\ s2c # <<>> /\ s2c' = Tail(s2c) /\ Reading
            /\ xfer'.recv_sn = Highest(xfer.recv_sn, Head(s2c).sn)
            /\ delivered' = delivered \cup ({Head(s2c).sn} \ {0})
            /\ UNCHANGED <<srv_next, srv_joined>>
<1>1. /\ TypeOK /\ XferOK(xfer) /\ xfer \in XferState /\ xfer.recv_sn \in Nat
  BY QueueTypes DEF LinkInv, TypeOK
<1>2. CASE Moves \/ UNCHANGED vars
  BY <1>2, QuietKeeps
<1>3. CASE ProcessOp \/ HeartbeatTick
  BY <1>1, <1>3, AddQos1Shape DEF ProcessOp, HeartbeatTick, histVars
<1>4. CASE SendPacket \/ SendAck
  BY <1>1, <1>4, FieldsKept DEF SendPacket, SendAck
<1>5. CASE RecvPacket \/ Reconnected
  <2>1. /\ s2c # <<>> /\ s2c' = Tail(s2c) /\ Reading
        /\ xfer' = Received(xfer, Head(s2c))
        /\ delivered' = delivered \cup ({Head(s2c).sn} \ {0})
        /\ UNCHANGED <<srv_next, srv_joined>>
    BY <1>5 DEF RecvPacket, Reconnected, AdoptConnection, Reading, srvVars
  <2>2. QED
    BY <1>1, <2>1, HeadSound, ReceivedShape DEF Highest
<1>6. CASE RecvClosed
  <2> DEFINE x == Received(xfer, Head(s2c))
  <2>1. /\ s2c # <<>> /\ s2c' = Tail(s2c) /\ Reading
        /\ xfer' = x \/ xfer' = MarkAckSent(x)
        /\ delivered' = delivered \cup ({Head(s2c).sn} \ {0})
        /\ UNCHANGED <<srv_next, srv_joined>>
    BY <1>6 DEF RecvClosed, Reading, srvVars
  <2>2. x \in XferState /\ x.recv_sn = Highest(xfer.recv_sn, Head(s2c).sn)
    BY <1>1, <2>1, HeadSound, ReceivedShape DEF Highest, XferOK
  <2> HIDE DEF x
  <2>3. x.recv_sn \in Nat
    BY <2>2, QueueTypes
  <2>4. xfer'.recv_sn = x.recv_sn
    BY <2>1, <2>2, <2>3, FieldsKept
  <2>5. QED
    BY <2>1, <2>2, <2>4
<1>7. CASE ReconnectRefused \/ SrvSend \/ Break \/ Dial \/ SrvRecv \/ SrvReconnect
  BY <1>7 DEF ReconnectRefused, SrvSend, Break, Dial, SrvRecv, SrvReconnect, clientVars,
              histVars
<1>8. QED
  BY <1>2, <1>3, <1>4, <1>5, <1>6, <1>7, StepCases

LEMMA RecvSnGrows ==
  ASSUME LinkInv, [Next]_vars
  PROVE  xfer.recv_sn \in Nat /\ xfer'.recv_sn \in Nat /\ xfer.recv_sn <= xfer'.recv_sn
<1>1. xfer.recv_sn \in Nat
  BY QueueTypes DEF LinkInv, TypeOK
<1>2. s2c # <<>> => Head(s2c).sn \in Nat
  BY HeadSound DEF ToClient
<1>3. QED
  BY <1>1, <1>2, ReadsMove DEF Highest

(* Where the acks of a step come from.                                           *)
AckFrom(n) == \/ n = 0 \/ n = xfer.recv_sn \/ n = xfer'.recv_sn
              \/ n = xfer.sent_ack_sn \/ n = srv_acked
              \/ \E p \in InFlight(xfer.que) \cup InFlight(c2s) : n = p.ack

LEMMA AcksMove ==
  ASSUME LinkInv, [Next]_vars
  PROVE  /\ AckFrom(xfer'.sent_ack_sn)
         /\ \A p \in InFlight(xfer'.que) : AckFrom(p.ack)
         /\ \A m \in InFlight(c2s') : AckFrom(m.ack)
         /\ AckFrom(srv_acked')
<1>1. /\ TypeOK /\ XferOK(xfer) /\ xfer \in XferState /\ xfer.recv_sn \in Nat
      /\ xfer.que \in Seq(Packet)
  BY QueueTypes DEF LinkInv, TypeOK
<1>2. CASE Moves \/ UNCHANGED vars
  BY <1>2, QuietKeeps DEF AckFrom
<1>3. CASE ProcessOp \/ HeartbeatTick
  <2> DEFINE p == [sn |-> xfer.tail_sn + 1, ack |-> FillAck(xfer, 0)]
  <2>1. /\ p \in Packet /\ xfer'.que = Append(xfer.que, p)
        /\ p.ack = 0 \/ p.ack = xfer.recv_sn
        /\ xfer'.sent_ack_sn = xfer.sent_ack_sn \/ xfer'.sent_ack_sn = xfer.recv_sn
        /\ UNCHANGED <<c2s, srv_acked>>
    BY <1>1, <1>3, AddQos1Shape DEF ProcessOp, HeartbeatTick, linkVars, srvVars
  <2> HIDE DEF p
  <2>2. InFlight(Append(xfer.que, p)) = InFlight(xfer.que) \cup {p}
    BY <1>1, <2>1, InFlightAppend
  <2>3. QED
    BY <2>1, <2>2 DEF AckFrom
<1>4. CASE SendPacket
  <2> DEFINE m == DataMsg(NextUnsent(xfer))
  <2>1. /\ m \in ToServer /\ Put(m) /\ m.ack = NextUnsent(xfer).ack
        /\ xfer'.que = xfer.que /\ xfer'.sent_ack_sn = xfer.sent_ack_sn
        /\ UNCHANGED srv_acked
    BY <1>1, <1>4, MarkSentSound, MessageTypes, FieldsKept DEF SendPacket, DataMsg, srvVars
  <2>2. xfer.send_index + 1 \in 1..Len(xfer.que)
    BY <1>1, <1>4, QueueTypes DEF SendPacket, HasUnsent
  <2>3. NextUnsent(xfer) \in InFlight(xfer.que)
    BY <2>2 DEF NextUnsent, InFlight
  <2> HIDE DEF m
  <2>4. QED
    BY <1>1, <2>1, <2>3, PutAdds DEF AckFrom
<1>5. CASE SendAck
  <2> DEFINE m == AckMsg(xfer.recv_sn)
  <2>1. /\ m \in ToServer /\ Put(m) /\ m.ack = xfer.recv_sn
        /\ xfer'.que = xfer.que /\ xfer'.sent_ack_sn = xfer.recv_sn
        /\ UNCHANGED srv_acked
    BY <1>1, <1>5, MessageTypes, FieldsKept DEF SendAck, AckMsg, srvVars
  <2> HIDE DEF m
  <2>2. QED
    BY <1>1, <2>1, PutAdds DEF AckFrom
<1>6. ASSUME s2c # <<>>
      PROVE  LET x == Received(xfer, Head(s2c))
             IN  /\ x \in XferState /\ x.sent_ack_sn = xfer.sent_ack_sn
                 /\ InFlight(x.que) \subseteq InFlight(xfer.que)
  <2> DEFINE x == Received(xfer, Head(s2c))
  <2>1. /\ x \in XferState /\ x.sent_ack_sn = xfer.sent_ack_sn
        /\ \A j \in 1..Len(x.que) : \E i \in 1..Len(xfer.que) : xfer.que[i] = x.que[j]
    BY <1>1, <1>6, HeadSound, ReceivedShape DEF XferOK
  <2> HIDE DEF x
  <2>2. InFlight(x.que) \subseteq InFlight(xfer.que)
    BY <2>1 DEF InFlight
  <2>3. QED
    BY <2>1, <2>2 DEF x
<1>7. CASE RecvPacket \/ Reconnected
  <2>1. /\ s2c # <<>> /\ xfer' = Received(xfer, Head(s2c))
        /\ UNCHANGED <<c2s, srv_acked>>
    BY <1>7 DEF RecvPacket, Reconnected, AdoptConnection, srvVars
  <2>2. QED
    BY <1>6, <2>1 DEF AckFrom
<1>8. CASE RecvClosed
  <2> DEFINE x == Received(xfer, Head(s2c))
             m == AckMsg(x.recv_sn)
  <2>1. /\ s2c # <<>> /\ UNCHANGED srv_acked
        /\ \/ xfer' = MarkAckSent(x) /\ Put(m)
           \/ xfer' = x /\ UNCHANGED <<c2s, lost>>
    BY <1>8 DEF RecvClosed, srvVars
  <2>2. /\ x \in XferState /\ x.sent_ack_sn = xfer.sent_ack_sn
        /\ InFlight(x.que) \subseteq InFlight(xfer.que)
    BY <1>6, <2>1
  <2>3. x.recv_sn \in Nat
    BY <2>2, QueueTypes
  <2>4. m \in ToServer /\ m.ack = x.recv_sn
    BY <2>3, MessageTypes DEF AckMsg
  <2> HIDE DEF x, m
  <2>5. xfer' = MarkAckSent(x) =>
          xfer'.recv_sn = x.recv_sn /\ xfer'.sent_ack_sn = x.recv_sn /\ xfer'.que = x.que
    BY <2>2, <2>3, FieldsKept
  <2>6. QED
    BY <1>1, <2>1, <2>2, <2>4, <2>5, PutAdds DEF AckFrom
<1>9. CASE Break \/ Dial
  <2>1. /\ c2s' = <<>> \/ c2s' = <<ReconnMsg(try_seq')>>
        /\ UNCHANGED <<xfer, srv_acked>>
    BY <1>9 DEF Break, Dial, clientVars, srvVars
  <2>2. \A m \in InFlight(c2s') : m.ack = 0
    BY <2>1, InFlightShort DEF ReconnMsg
  <2>3. QED
    BY <2>1, <2>2 DEF AckFrom
<1>10. CASE SrvRecv \/ SrvReconnect
  <2>1. /\ c2s # <<>> /\ c2s' = Tail(c2s) /\ UNCHANGED xfer
        /\ srv_acked' = srv_acked \/ srv_acked' = Head(c2s).ack
    BY <1>10 DEF SrvRecv, SrvReconnect, Larger, clientVars
  <2>2. QED
    BY <2>1, HeadTaken DEF AckFrom
<1>11. CASE ReconnectRefused \/ SrvSend
  BY <1>11 DEF ReconnectRefused, SrvSend, clientVars, srvVars, AckFrom
<1>12. QED
  BY <1>2, <1>3, <1>4, <1>5, <1>7, <1>8, <1>9, <1>10, <1>11, StepCases

LEMMA AcksStep == LinkInv /\ AcksBehind /\ [Next]_vars => AcksBehind'
<1> SUFFICES ASSUME LinkInv, AcksBehind, [Next]_vars PROVE AcksBehind'
  OBVIOUS
<1>1. /\ xfer.sent_ack_sn \in Nat /\ srv_acked \in Nat
      /\ \A p \in InFlight(xfer.que) \cup InFlight(c2s) : p.ack \in Nat
  <2>1. /\ InFlight(xfer.que) \subseteq Packet /\ InFlight(c2s) \subseteq ToServer
        /\ xfer.sent_ack_sn \in Nat /\ srv_acked \in Nat
    BY QueueTypes, InFlightType DEF LinkInv, TypeOK
  <2>2. QED
    BY <2>1 DEF Packet, ToServer
<1>2. \A n : AckFrom(n) => n <= xfer'.recv_sn
  BY <1>1, RecvSnGrows DEF AckFrom, AcksBehind
<1>3. QED
  BY <1>2, AcksMove DEF AcksBehind

LEMMA ReadInit == Init => ReadInv
<1> SUFFICES ASSUME Init PROVE ReadInv
  OBVIOUS
<1>1. OpenReqs \in Nat
  BY LinkAssumption
<1>2. \A i \in 1..OpenReqs : OpenQue[i].ack = 0 /\ DataMsg(OpenQue[i]).ack = 0
  BY DEF OpenQue, DataMsg
<1>3. /\ Len(OpenQue) = OpenReqs
      /\ Len(c2s) = OpenReqs /\ \A i \in 1..OpenReqs : c2s[i] = DataMsg(OpenQue[i])
  BY <1>1 DEF Init, OpenQue
<1>4. /\ xfer.que = OpenQue /\ xfer.recv_sn = 0 /\ xfer.sent_ack_sn = 0
      /\ s2c = <<>> /\ srv_next = 1 /\ srv_acked = 0
  BY DEF Init, NewXfer
<1>5. AcksBehind
  BY <1>2, <1>3, <1>4 DEF AcksBehind, InFlight
<1>6. NoGap /\ DeliveredAll
  BY <1>4 DEF NoGap, GapFree, NextFits, DeliveredAll
<1>7. QED
  BY <1>5, <1>6 DEF ReadInv

LEMMA GapStep == LinkInv /\ ReadInv /\ [Next]_vars => NoGap'
<1> SUFFICES ASSUME LinkInv, AcksBehind, NoGap, [Next]_vars, Reading'
             PROVE  /\ GapFree(s2c', xfer'.recv_sn)
                    /\ srv_joined' => NextFits(s2c', srv_next', xfer'.recv_sn)
  BY DEF ReadInv, NoGap
<1> DEFINE r == xfer.recv_sn
<1>1. /\ s2c \in Seq(ToClient) /\ r \in Nat /\ srv_next \in Nat /\ srv_acked \in Nat
      /\ xfer \in XferState
  BY QueueTypes DEF LinkInv, TypeOK
<1>2. CASE /\ UNCHANGED <<s2c, srv_next, srv_joined>> /\ xfer'.recv_sn = r /\ Reading
  BY <1>2 DEF NoGap
<1>3. CASE Moves \/ UNCHANGED vars
  BY <1>2, <1>3, QuietKeeps DEF Reading
<1>4. CASE ProcessOp \/ HeartbeatTick
  <2>1. /\ xfer' = AddQos1(xfer, 0) /\ Reading
        /\ UNCHANGED <<s2c, srv_next, srv_joined>>
    BY <1>4 DEF ProcessOp, HeartbeatTick, Reading, linkVars, srvVars
  <2>2. QED
    BY <1>1, <1>2, <2>1, AddQos1Shape
<1>5. CASE SendPacket \/ SendAck
  <2>1. /\ xfer' = MarkSent(xfer) \/ xfer' = MarkAckSent(xfer)
        /\ UNCHANGED <<s2c, srv_next, srv_joined>> /\ Reading
    BY <1>5 DEF SendPacket, SendAck, Reading, srvVars
  <2>2. QED
    BY <1>1, <1>2, <2>1, FieldsKept
<1>6. CASE RecvPacket \/ Reconnected
  <2>1. /\ s2c # <<>> /\ s2c' = Tail(s2c) /\ Reading
        /\ xfer' = Received(xfer, Head(s2c))
        /\ UNCHANGED <<srv_next, srv_joined>>
    BY <1>6 DEF RecvPacket, Reconnected, AdoptConnection, Reading, srvVars
  <2>2. xfer'.recv_sn = Highest(r, Head(s2c).sn)
    BY <2>1, HeadSound, ReceivedShape DEF LinkInv, Highest
  <2>3. QED
    BY <1>1, <2>1, <2>2, GapFreeTail DEF NoGap
<1>7. CASE ReconnectRefused \/ RecvClosed
  BY <1>7 DEF ReconnectRefused, RecvClosed, Reading
<1>8. CASE Break \/ SrvRecv
  BY <1>2, <1>8 DEF Break, SrvRecv, clientVars, srvVars, Reading
<1>9. CASE Dial
  <2>1. s2c' = <<>> /\ srv_joined' = FALSE
    BY <1>9 DEF Dial
  <2>2. QED
    BY <2>1 DEF GapFree
<1>10. CASE SrvReconnect
  <2>1. /\ UNCHANGED xfer /\ Reading
        /\ \/ srv_next' = srv_acked + 1
           \/ UNCHANGED <<srv_joined, srv_next>>
    BY <1>10 DEF SrvReconnect, clientVars, Reading
  <2>2. PICK t \in {"reconn_ok", "reconn_reject", "reconn_bad"}, ack \in {0, srv_recv} :
          s2c' = Append(s2c, [typ |-> t, sn |-> 0, ack |-> ack])
    BY <1>10 DEF SrvReconnect
  <2> DEFINE m == [typ |-> t, sn |-> 0, ack |-> ack]
  <2>3. m \in ToClient /\ m.sn = 0
    BY DEF ToClient, LinkInv, TypeOK
  <2> HIDE DEF m
  <2>4. /\ s2c' = Append(s2c, m)
        /\ GapFree(s2c', r)
        /\ NextFits(s2c, srv_next, r) => NextFits(s2c', srv_next, r)
    BY <1>1, <2>1, <2>2, <2>3, GapFreeAppend DEF NoGap, m
  <2>5. NextFits(s2c', srv_acked + 1, r)
    BY <1>1 DEF NextFits, AcksBehind
  <2>6. QED
    BY <2>1, <2>4, <2>5 DEF NoGap
<1>11. CASE SrvSend
  <2>1. UNCHANGED <<xfer, srv_joined>> /\ Reading /\ srv_joined
    BY <1>11 DEF SrvSend, clientVars, Reading
  <2>2. PICK t \in {"push", "rsp", "hb_rsp", "closed", "ack"},
             sn \in {0, srv_next}, ack \in {0, srv_recv} \cup Sns(got) :
          /\ s2c' = Append(s2c, [typ |-> t, sn |-> sn, ack |-> ack])
          /\ srv_next' = IF sn = 0 THEN srv_next ELSE sn + 1
    BY <1>11 DEF SrvSend
  <2> DEFINE m == [typ |-> t, sn |-> sn, ack |-> ack]
  <2>3. m \in ToClient /\ m.sn = sn
    <3>1. ack \in Nat
      BY DEF LinkInv, TypeOK, Sns, ToServer
    <3>2. QED
      BY <1>1, <3>1 DEF ToClient
  <2> HIDE DEF m
  <2>4. /\ s2c' = Append(s2c, m) /\ NextFits(s2c, srv_next, r) /\ GapFree(s2c, r)
        /\ m.sn = 0 \/ NextFits(s2c, m.sn, r)
    BY <2>1, <2>2, <2>3 DEF NoGap, m
  <2>5. /\ GapFree(s2c', r) /\ NextFits(s2c', srv_next, r)
        /\ NextFits(s2c', m.sn + 1, r)
    BY <1>1, <2>3, <2>4, GapFreeAppend
  <2>6. QED
    BY <2>1, <2>2, <2>3, <2>5
<1>12. QED
  BY <1>3, <1>4, <1>5, <1>6, <1>7, <1>8, <1>9, <1>10, <1>11, StepCases

LEMMA DeliveredStep == LinkInv /\ ReadInv /\ [Next]_vars => DeliveredAll'
<1> SUFFICES ASSUME LinkInv, ReadInv, [Next]_vars PROVE DeliveredAll'
  OBVIOUS
<1>1. CASE xfer'.recv_sn = xfer.recv_sn /\ delivered' = delivered
  BY <1>1 DEF ReadInv, DeliveredAll
<1>2. CASE /\ s2c # <<>> /\ Reading
           /\ xfer'.recv_sn = Highest(xfer.recv_sn, Head(s2c).sn)
           /\ delivered' = delivered \cup ({Head(s2c).sn} \ {0})
  <2>1. /\ s2c \in Seq(ToClient) /\ xfer.recv_sn \in Nat /\ Head(s2c).sn \in Nat
    BY <1>2, HeadSound, QueueTypes DEF LinkInv, TypeOK, ToClient
  <2>2. Head(s2c).sn <= xfer.recv_sn + 1
    BY <1>2, <2>1, GapFreeTail DEF ReadInv, NoGap
  <2>3. \A n \in 1..xfer'.recv_sn : n \in 1..xfer.recv_sn \/ n = Head(s2c).sn
    BY <1>2, <2>1, <2>2 DEF Highest
  <2>4. QED
    BY <1>2, <2>3 DEF ReadInv, DeliveredAll
<1>3. QED
  BY <1>1, <1>2, ReadsMove

THEOREM ReadHolds == Spec => [](LinkInv /\ ReadInv)
<1>1. Init => LinkInv /\ ReadInv
  BY InitInv, ReadInit
<1>2. LinkInv /\ ReadInv /\ [Next]_vars => (LinkInv /\ ReadInv)'
  BY NextInv, AcksStep, GapStep, DeliveredStep DEF ReadInv
<1>3. QED
  BY <1>1, <1>2, PTL DEF Spec

(* The cumulative ack never runs ahead of what the client has received, so the    *)
(* server forgets no packet the client still needs: recv_sn is a maximum, but on  *)
(* every connection, resumed after the last ack, the numbers come without a gap. *)
THEOREM AckNeverAhead == Spec => []AckedMeansReceived
<1>1. LinkInv /\ ReadInv => AckedMeansReceived
  <2> SUFFICES ASSUME LinkInv, ReadInv PROVE AckedMeansReceived
    OBVIOUS
  <2>1. srv_acked \in Nat /\ xfer.recv_sn \in Nat
    BY QueueTypes DEF LinkInv, TypeOK
  <2>2. 1..srv_acked \subseteq 1..xfer.recv_sn
    BY <2>1 DEF ReadInv, AcksBehind
  <2>3. QED
    BY <2>2 DEF ReadInv, DeliveredAll, AckedMeansReceived
<1>2. QED
  BY <1>1, ReadHolds, PTL

-------------------------------------------------------------------------------
(* The pending heartbeat is one of the current connection.                       *)
LEMMA HeartbeatStep ==
  LinkInv /\ Placed /\ PendingHeartbeatCurrent /\ [Next]_vars => PendingHeartbeatCurrent'
<1> SUFFICES ASSUME LinkInv, Placed, PendingHeartbeatCurrent, [Next]_vars,
                    up', pc' \notin {"dial", "await", "closed"}
             PROVE  pending_hb_sn' \notin Sns(lost')
  BY DEF PendingHeartbeatCurrent
<1> DEFINE Live == up /\ pc \notin {"dial", "await", "closed"}
<1>1. CASE UNCHANGED <<pending_hb_sn, lost>> /\ Live
  BY <1>1 DEF PendingHeartbeatCurrent
<1>2. CASE Moves \/ UNCHANGED vars
  BY <1>1, <1>2, QuietKeeps
<1>3. CASE ProcessOp
  BY <1>1, <1>3 DEF ProcessOp, linkVars, histVars
<1>4. CASE HeartbeatTick
  <2>1. pending_hb_sn' = xfer.tail_sn + 1 /\ lost' = lost
    BY <1>4, AddQos1Shape DEF HeartbeatTick, histVars, LinkInv, TypeOK
  <2>2. /\ SentSn(xfer) \in Nat /\ xfer.tail_sn \in Nat /\ SentSn(xfer) <= xfer.tail_sn
        /\ Sns(lost) \subseteq 1..SentSn(xfer)
    BY UnsentNumbers DEF LinkInv, Placed
  <2>3. QED
    BY <2>1, <2>2
<1>5. CASE SendPacket \/ SendAck
  BY <1>1, <1>5 DEF SendPacket, SendAck, Put
<1>6. CASE RecvPacket
  <2>1. lost' = lost /\ Live /\ pending_hb_sn' \in {pending_hb_sn, 0}
    BY <1>6 DEF RecvPacket
  <2>2. QED
    BY <2>1 DEF PendingHeartbeatCurrent, Sns
<1>7. CASE Reconnected
  BY <1>7 DEF Reconnected, AdoptConnection, Sns
<1>8. CASE ReconnectRefused \/ RecvClosed \/ Break \/ Dial
  BY <1>8 DEF ReconnectRefused, RecvClosed, Break, Dial
<1>9. CASE SrvRecv \/ SrvReconnect \/ SrvSend
  BY <1>1, <1>9 DEF SrvRecv, SrvReconnect, SrvSend, clientVars, histVars
<1>10. QED
  BY <1>2, <1>3, <1>4, <1>5, <1>6, <1>7, <1>8, <1>9, StepCases

(* The session never waits for the answer to a heartbeat that went down with an   *)
(* earlier connection: phase_reconnect clears pending_hb_sn before it flushes,    *)
(* and a new heartbeat has a number no connection ever carried.                  *)
THEOREM HeartbeatCurrent == Spec => []PendingHeartbeatCurrent
<1>1. Init => PendingHeartbeatCurrent
  BY DEF Init, PendingHeartbeatCurrent, Sns
<1>2. QED
  BY <1>1, HeartbeatStep, PlacedHolds, PTL DEF Spec

-------------------------------------------------------------------------------
(* What a reconnect request counts.  The one in flight carries the current        *)
(* try_seq and is the first packet of its connection; a positive answer in        *)
(* flight answers it.                                                            *)
AttemptInv ==
  /\ \A m \in Packets : m.seq <= try_seq
  /\ \A i \in 1..Len(c2s) : c2s[i].typ = "reconn" => i = 1 /\ c2s[i].seq = try_seq
  /\ TrySeqFresh

SuccessInv ==
  /\ last_success_seq <= try_seq
  /\ (\E m \in InFlight(s2c) : m.typ = "reconn_ok") => try_seq \in accepted
  /\ LastSuccessAccepted

LEMMA PacketSeqs ==
  ASSUME TypeOK
  PROVE  try_seq \in Nat /\ \A m \in Packets : m.seq \in Nat
<1>1. Packets \subseteq ToServer
  BY InFlightType DEF TypeOK, Packets
<1>2. QED
  BY <1>1 DEF TypeOK, ToServer

(* A packet that is no reconnect request changes nothing of this.                *)
LEMMA PutAttempt ==
  ASSUME TypeOK, AttemptInv, NEW m \in ToServer, m.typ # "reconn", Put(m),
         UNCHANGED <<got, try_seq>>
  PROVE  AttemptInv'
<1>1. m.seq = 0
  BY DEF ToServer
<1>2. \/ lost' = lost /\ InFlight(c2s') = InFlight(c2s) \cup {m}
      \/ lost' = lost \cup {m} /\ c2s' = c2s
  BY PutAdds
<1>3. \A n \in Packets' : n.seq <= try_seq'
  BY <1>1, <1>2, PacketSeqs DEF AttemptInv, Packets
<1>4. \A i \in 1..Len(c2s') : c2s'[i].typ = "reconn" => i = 1 /\ c2s'[i].seq = try_seq'
  <2>1. CASE c2s' = c2s
    BY <2>1 DEF AttemptInv
  <2>2. CASE c2s' = Append(c2s, m)
    <3>1. /\ Len(c2s') = Len(c2s) + 1 /\ Len(c2s) \in Nat
          /\ \A i \in 1..Len(c2s) : c2s'[i] = c2s[i]
          /\ c2s'[Len(c2s) + 1] = m
      BY <2>2, AppendProperties DEF TypeOK
    <3>2. \A i \in 1..Len(c2s') : i \in 1..Len(c2s) \/ i = Len(c2s) + 1
      BY <3>1
    <3>3. QED
      BY <3>1, <3>2 DEF AttemptInv
  <2>3. QED
    BY <2>1, <2>2 DEF Put
<1>5. TrySeqFresh'
  BY <1>2 DEF AttemptInv, TrySeqFresh
<1>6. QED
  BY <1>3, <1>4, <1>5 DEF AttemptInv

LEMMA AttemptInit == Init => AttemptInv /\ SuccessInv
<1> SUFFICES ASSUME Init PROVE AttemptInv /\ SuccessInv
  OBVIOUS
<1>1. \A i \in 1..Len(c2s) : c2s[i].seq = 0 /\ c2s[i].typ = "data"
  BY LinkAssumption DEF Init, DataMsg
<1>2. \A m \in Packets : m.seq = 0 /\ m.typ = "data"
  BY <1>1 DEF Init, Packets, InFlight
<1>3. AttemptInv
  <2>1. try_seq = 0
    BY DEF Init
  <2>2. \A m \in Packets : m.seq <= try_seq
    BY <1>2, <2>1
  <2>3. \A i \in 1..Len(c2s) : c2s[i].typ # "reconn"
    BY <1>1
  <2>4. TrySeqFresh
    BY <1>2 DEF TrySeqFresh, Packets
  <2>5. QED
    BY <2>2, <2>3, <2>4 DEF AttemptInv
<1>4. SuccessInv
  BY InFlightShort DEF Init, SuccessInv, LastSuccessAccepted
<1>5. QED
  BY <1>3, <1>4

LEMMA AttemptStep == LinkInv /\ AttemptInv /\ [Next]_vars => AttemptInv'
<1> SUFFICES ASSUME LinkInv, AttemptInv, [Next]_vars PROVE AttemptInv'
  OBVIOUS
<1>1. TypeOK /\ XferOK(xfer) /\ xfer.recv_sn \in Nat /\ try_seq \in Nat
  BY QueueTypes DEF LinkInv, TypeOK
<1>2. CASE UNCHANGED <<c2s, got, lost, try_seq>>
  BY <1>2 DEF AttemptInv, Packets, TrySeqFresh
<1>3. CASE Moves \/ UNCHANGED vars
  BY <1>2, <1>3, QuietKeeps
<1>4. CASE ProcessOp \/ HeartbeatTick \/ RecvPacket \/ Reconnected
           \/ ReconnectRefused \/ SrvSend
  BY <1>2, <1>4 DEF ProcessOp, HeartbeatTick, RecvPacket, Reconnected, AdoptConnection,
                    ReconnectRefused, SrvSend, linkVars, histVars, clientVars
<1>5. CASE SendPacket
  <2>1. DataMsg(NextUnsent(xfer)) \in ToServer /\ DataMsg(NextUnsent(xfer)).typ = "data"
    BY <1>1, <1>5, MarkSentSound, MessageTypes DEF SendPacket, DataMsg
  <2>2. QED
    BY <1>1, <1>5, <2>1, PutAttempt DEF SendPacket
<1>6. CASE SendAck
  <2>1. AckMsg(xfer.recv_sn) \in ToServer /\ AckMsg(xfer.recv_sn).typ = "ack"
    BY <1>1, MessageTypes DEF AckMsg
  <2>2. QED
    BY <1>1, <1>6, <2>1, PutAttempt DEF SendAck
<1>7. CASE RecvClosed
  <2> DEFINE x == Received(xfer, Head(s2c))
  <2>1. x.recv_sn \in Nat
    BY <1>1, <1>7, HeadSound, ReceivedShape, QueueTypes DEF RecvClosed, XferOK
  <2>2. AckMsg(x.recv_sn) \in ToServer /\ AckMsg(x.recv_sn).typ = "ack"
    BY <2>1, MessageTypes DEF AckMsg
  <2>3. /\ UNCHANGED <<got, try_seq>>
        /\ Put(AckMsg(x.recv_sn)) \/ UNCHANGED <<c2s, lost>>
    BY <1>7 DEF RecvClosed
  <2>4. QED
    BY <1>1, <1>2, <2>2, <2>3, PutAttempt
<1>8. CASE Break
  <2>1. c2s' = <<>> /\ lost' = lost \cup InFlight(c2s) /\ UNCHANGED <<got, try_seq>>
    BY <1>8 DEF Break, clientVars
  <2>2. QED
    BY <2>1, InFlightShort DEF AttemptInv, Packets, TrySeqFresh
<1>9. CASE Dial
  <2>1. /\ try_seq' = try_seq + 1 /\ lost' = lost \cup InFlight(c2s) /\ got' = got
        /\ c2s' = <<>> \/ c2s' = <<ReconnMsg(try_seq')>>
    BY <1>9 DEF Dial, NextTrySeq
  <2>2. \A m \in got' \cup lost' : m.seq \in Nat /\ m.seq < try_seq'
    BY <1>1, <2>1, PacketSeqs DEF AttemptInv, Packets
  <2>3. \A m \in InFlight(c2s') : m.seq = try_seq'
    BY <2>1, InFlightShort DEF ReconnMsg
  <2>4. \A i \in 1..Len(c2s') : i = 1 /\ c2s'[i].seq = try_seq'
    <3>1. CASE c2s' = <<>>
      BY <3>1
    <3>2. CASE c2s' = <<ReconnMsg(try_seq')>>
      <4>1. Len(c2s') = 1 /\ c2s'[1] = ReconnMsg(try_seq')
        BY <3>2
      <4>2. ReconnMsg(try_seq').seq = try_seq'
        BY DEF ReconnMsg
      <4>3. \A i \in 1..1 : i = 1
        OBVIOUS
      <4>4. QED
        BY <4>1, <4>2, <4>3
    <3>3. QED
      BY <2>1, <3>1, <3>2
  <2>5. \A m \in Packets' : m.seq <= try_seq'
    BY <1>1, <2>1, <2>2, <2>3 DEF Packets
  <2>6. TrySeqFresh'
    BY <1>1, <2>1, <2>2, <2>3 DEF TrySeqFresh
  <2>7. QED
    BY <2>4, <2>5, <2>6 DEF AttemptInv
<1>10. CASE SrvRecv \/ SrvReconnect
  <2>1. /\ c2s # <<>> /\ c2s' = Tail(c2s) /\ got' = got \cup {Head(c2s)}
        /\ UNCHANGED <<lost, try_seq>>
    BY <1>10 DEF SrvRecv, SrvReconnect, clientVars
  <2>2. /\ \A i \in 1..Len(Tail(c2s)) : /\ Tail(c2s)[i] = c2s[i + 1]
                                       /\ i + 1 \in 1..Len(c2s) /\ i + 1 # 1
    BY <1>1, <2>1, HeadTailProperties DEF TypeOK
  <2>3. \A i \in 1..Len(c2s') : c2s'[i].typ # "reconn"
    BY <2>1, <2>2 DEF AttemptInv
  <2>4. TrySeqFresh'
    BY <2>3 DEF TrySeqFresh, InFlight
  <2>5. \A m \in Packets' : m \in Packets
    BY <2>1, HeadTaken DEF Packets
  <2>6. QED
    BY <2>1, <2>3, <2>4, <2>5 DEF AttemptInv
<1>11. QED
  BY <1>3, <1>4, <1>5, <1>6, <1>7, <1>8, <1>9, <1>10, StepCases

LEMMA SuccessStep == LinkInv /\ AttemptInv /\ SuccessInv /\ [Next]_vars => SuccessInv'
<1> SUFFICES ASSUME LinkInv, AttemptInv, SuccessInv, [Next]_vars PROVE SuccessInv'
  OBVIOUS
<1>1. /\ s2c \in Seq(ToClient) /\ try_seq \in Nat /\ last_success_seq \in Nat
  BY DEF LinkInv, TypeOK
<1>2. CASE /\ UNCHANGED <<try_seq, last_success_seq, accepted>>
           /\ InFlight(s2c') \subseteq InFlight(s2c)
           /\ pc' = "await" => pc = "await"
  BY <1>2 DEF SuccessInv, LastSuccessAccepted
<1>3. s2c # <<>> => InFlight(Tail(s2c)) \subseteq InFlight(s2c)
                    /\ Head(s2c) \in InFlight(s2c)
  BY <1>1, InFlightHead
<1>4. CASE Moves \/ UNCHANGED vars
  BY <1>2, <1>4, QuietKeeps
<1>5. CASE ProcessOp \/ HeartbeatTick \/ SendPacket \/ SendAck
  BY <1>2, <1>5 DEF ProcessOp, HeartbeatTick, SendPacket, SendAck, AfterFlush,
                    linkVars, histVars
<1>6. CASE RecvPacket \/ ReconnectRefused \/ RecvClosed
  BY <1>2, <1>3, <1>6 DEF RecvPacket, ReconnectRefused, RecvClosed, histVars
<1>7. CASE Reconnected
  BY <1>1, <1>3, <1>7 DEF Reconnected, AdoptConnection, SuccessInv, LastSuccessAccepted
<1>8. CASE Break \/ SrvRecv
  BY <1>2, <1>8 DEF Break, SrvRecv, clientVars
<1>9. CASE Dial
  <2>1. /\ try_seq' = try_seq + 1 /\ s2c' = <<>>
        /\ UNCHANGED <<last_success_seq, accepted>>
    BY <1>9 DEF Dial, NextTrySeq
  <2>2. last_success_seq' < try_seq'
    BY <1>1, <2>1 DEF SuccessInv
  <2>3. QED
    BY <1>1, <2>1, <2>2, InFlightShort DEF SuccessInv, LastSuccessAccepted
<1>10. CASE SrvReconnect
  <2>1. c2s # <<>> /\ Head(c2s).typ = "reconn" /\ c2s \in Seq(ToServer)
    BY <1>10 DEF SrvReconnect, LinkInv, TypeOK
  <2>2. Head(c2s) = c2s[1] /\ 1 \in 1..Len(c2s)
    BY <2>1, EmptySeq
  <2>3. Head(c2s).seq = try_seq
    BY <2>1, <2>2 DEF AttemptInv
  <2>4. PICK t \in {"reconn_ok", "reconn_reject", "reconn_bad"}, ack \in {0, srv_recv} :
          /\ s2c' = Append(s2c, [typ |-> t, sn |-> 0, ack |-> ack])
          /\ \/ t = "reconn_ok" /\ accepted' = accepted \cup {Head(c2s).seq}
             \/ t # "reconn_ok" /\ accepted' = accepted
    BY <1>10 DEF SrvReconnect
  <2> DEFINE m == [typ |-> t, sn |-> 0, ack |-> ack]
  <2>5. m \in ToClient /\ m.typ = t
    BY DEF ToClient, LinkInv, TypeOK
  <2>6. InFlight(Append(s2c, m)) = InFlight(s2c) \cup {m}
    BY <1>1, <2>5, InFlightAppend
  <2>7. UNCHANGED <<try_seq, last_success_seq, pc>>
    BY <1>10 DEF SrvReconnect, clientVars
  <2> HIDE DEF m
  <2>8. s2c' = Append(s2c, m)
    BY <2>4 DEF m
  <2>9. QED
    BY <2>3, <2>4, <2>5, <2>6, <2>7, <2>8 DEF SuccessInv, LastSuccessAccepted
<1>11. CASE SrvSend
  <2>1. PICK t \in {"push", "rsp", "hb_rsp", "closed", "ack"},
             sn \in {0, srv_next}, ack \in {0, srv_recv} \cup Sns(got) :
          s2c' = Append(s2c, [typ |-> t, sn |-> sn, ack |-> ack])
    BY <1>11 DEF SrvSend
  <2> DEFINE m == [typ |-> t, sn |-> sn, ack |-> ack]
  <2>2. m \in ToClient /\ m.typ # "reconn_ok"
    <3>1. ack \in Nat /\ sn \in Nat
      BY DEF LinkInv, TypeOK, Sns, ToServer
    <3>2. QED
      BY <3>1 DEF ToClient
  <2> HIDE DEF m
  <2>3. InFlight(Append(s2c, m)) = InFlight(s2c) \cup {m} /\ s2c' = Append(s2c, m)
    BY <1>1, <2>1, <2>2, InFlightAppend DEF m
  <2>4. UNCHANGED <<try_seq, last_success_seq, pc, accepted>>
    BY <1>11 DEF SrvSend, clientVars, histVars
  <2>5. QED
    BY <2>2, <2>3, <2>4 DEF SuccessInv, LastSuccessAccepted
<1>12. QED
  BY <1>4, <1>5, <1>6, <1>7, <1>8, <1>9, <1>10, <1>11, StepCases

THEOREM AttemptsHold == Spec => [](LinkInv /\ AttemptInv /\ SuccessInv)
<1>1. LinkInv /\ AttemptInv /\ SuccessInv /\ [Next]_vars
        => (LinkInv /\ AttemptInv /\ SuccessInv)'
  BY NextInv, AttemptStep, SuccessStep
<1>2. QED
  BY <1>1, InitInv, AttemptInit, PTL DEF Spec

(* No two reconnect requests carry the same try_seq, however many attempts fail   *)
(* and wherever the earlier ones are: connect_loop raises it for each connection. *)
THEOREM AttemptsFresh == Spec => []TrySeqFresh
<1>1. AttemptInv => TrySeqFresh
  BY DEF AttemptInv
<1>2. QED
  BY <1>1, AttemptsHold, PTL

(* The last_success_seq of a reconnect request names an earlier attempt, one the  *)
(* server accepted: reconnect_session records it with the positive response only. *)
THEOREM SuccessIsAccepted == Spec => []LastSuccessAccepted
<1>1. SuccessInv => LastSuccessAccepted
  BY DEF SuccessInv
<1>2. QED
  BY <1>1, AttemptsHold, PTL

-------------------------------------------------------------------------------
(* The refinement of LinkPromise.  What it needs beyond the invariants above: a    *)
(* dead connection carries nothing, the task works only on a connection the server *)
(* agreed to, and the highest number the server has is one it received.            *)
LinkedInv ==
  /\ ~up => c2s = <<>>
  /\ pc \notin {"dial", "await", "closed"} => last_success_seq = try_seq
  /\ srv_recv # 0 => srv_recv \in Sns(got)

Released(x) == x.tail_sn - Len(x.que)

LEMMA LinkedInit == Init => LinkedInv
BY DEF Init, LinkedInv

LEMMA LinkedStep == LinkInv /\ LinkedInv /\ [Next]_vars => LinkedInv'
<1> SUFFICES ASSUME LinkInv, LinkedInv, [Next]_vars PROVE LinkedInv'
  OBVIOUS
<1>1. (~up => c2s = <<>>)'
  <2>1. CASE Moves \/ UNCHANGED vars
    BY <2>1, QuietKeeps DEF LinkedInv
  <2>2. CASE SendPacket \/ SendAck \/ RecvClosed
    BY <2>2 DEF LinkedInv, SendPacket, SendAck, RecvClosed, Put
  <2>3. CASE SrvRecv \/ SrvReconnect
    BY <2>3 DEF LinkedInv, SrvRecv, SrvReconnect
  <2>4. QED
    BY <2>1, <2>2, <2>3, StepCases
       DEF LinkedInv, ProcessOp, HeartbeatTick, RecvPacket, Reconnected, AdoptConnection,
           ReconnectRefused, Break, Dial, SrvSend, linkVars
<1>2. (pc \notin {"dial", "await", "closed"} => last_success_seq = try_seq)'
  <2>1. CASE Moves \/ UNCHANGED vars
    BY <2>1, QuietKeeps DEF LinkedInv
  <2>2. QED
    BY <2>1, StepCases
       DEF LinkedInv, ProcessOp, HeartbeatTick, SendPacket, SendAck, RecvPacket, RecvClosed,
           Reconnected, AdoptConnection, ReconnectRefused, Break, Dial, SrvRecv, SrvReconnect,
           SrvSend, clientVars
<1>3. (srv_recv # 0 => srv_recv \in Sns(got))'
  <2>1. CASE Moves \/ UNCHANGED vars
    BY <2>1, QuietKeeps DEF LinkedInv
  <2>2. CASE SrvRecv
    <3>1. /\ srv_recv' = Larger(srv_recv, Head(c2s).sn)
          /\ got' = got \cup {Head(c2s)}
      BY <2>2 DEF SrvRecv
    <3>2. Sns(got') = Sns(got) \cup ({Head(c2s).sn} \ {0})
      BY <3>1, SnsUnion
    <3>3. QED
      BY <3>1, <3>2 DEF LinkedInv, Larger
  <2>3. CASE SrvReconnect
    BY <2>3, SnsUnion DEF LinkedInv, SrvReconnect
  <2>4. QED
    BY <2>1, <2>2, <2>3, StepCases
       DEF LinkedInv, ProcessOp, HeartbeatTick, SendPacket, SendAck, RecvPacket, RecvClosed,
           Reconnected, AdoptConnection, ReconnectRefused, Break, Dial, SrvSend, srvVars, histVars
<1>4. QED
  BY <1>1, <1>2, <1>3 DEF LinkedInv

THEOREM LinkedHolds == Spec => [](LinkInv /\ ReadInv /\ SuccessInv /\ LinkedInv)
<1>1. LinkInv /\ LinkedInv /\ [Next]_vars => LinkedInv'
  BY LinkedStep
<1>2. QED
  BY <1>1, LinkedInit, ReadHolds, AttemptsHold, PTL DEF Spec

(* What leaves the queue: its front, and nothing above the ack.                    *)
LEMMA ReleasedMoves ==
  ASSUME NEW x, NEW y, XferOK(x), XferOK(y), y.tail_sn = x.tail_sn, NEW ack \in Nat,
         \A j \in 1..Len(y.que) : \E i \in 1..Len(x.que) : x.que[i] = y.que[j],
         \A i \in 1..Len(x.que) :
           x.que[i].sn > ack => \E j \in 1..Len(y.que) : y.que[j] = x.que[i]
  PROVE  /\ Released(x) \in Nat /\ Released(y) \in Nat
         /\ Released(x) <= Released(y)
         /\ Released(y) # Released(x) => Released(y) <= ack
<1>1. /\ x.tail_sn \in Nat /\ Len(x.que) \in Nat /\ Len(y.que) \in Nat
      /\ Len(x.que) <= x.tail_sn /\ Len(y.que) <= x.tail_sn
      /\ \A i \in 1..Len(x.que) : x.que[i].sn = Released(x) + i
      /\ \A j \in 1..Len(y.que) : y.que[j].sn = Released(y) + j
  BY DEF XferOK, XferState, Contiguous, Released
<1>2. /\ Released(x) \in Nat /\ Released(y) \in Nat
      /\ Len(x.que) = x.tail_sn - Released(x) /\ Len(y.que) = x.tail_sn - Released(y)
  <2>1. /\ x.tail_sn \in Nat /\ Len(x.que) \in Nat /\ Len(y.que) \in Nat
        /\ Len(x.que) <= x.tail_sn /\ Len(y.que) <= x.tail_sn
    BY <1>1
  <2>2. /\ Released(x) = x.tail_sn - Len(x.que)
        /\ Released(y) = x.tail_sn - Len(y.que)
    BY DEF Released
  <2>3. QED
    BY <2>1, <2>2
<1>3. Released(x) <= Released(y)
  <2>1. CASE Len(y.que) = 0
    BY <2>1, <1>1, <1>2
  <2>2. CASE Len(y.que) # 0
    <3>1. PICK i \in 1..Len(x.que) : x.que[i] = y.que[1]
      BY <2>2, <1>1
    <3>2. Released(x) + i = Released(y) + 1
      BY <3>1, <2>2, <1>1
    <3>3. QED
      BY <3>2, <1>1, <1>2
  <2>3. QED
    BY <2>1, <2>2
<1>4. ASSUME Released(y) # Released(x), Released(y) > ack PROVE FALSE
  <2>1. PICK i : i = Released(y) - Released(x)
    OBVIOUS
  <2>2. i \in 1..Len(x.que) /\ x.que[i].sn = Released(y)
    <3>1. /\ x.tail_sn \in Nat /\ Len(y.que) \in Nat
          /\ Released(x) \in Nat /\ Released(y) \in Nat
          /\ Len(x.que) = x.tail_sn - Released(x) /\ Len(y.que) = x.tail_sn - Released(y)
      BY <1>1, <1>2
    <3>2. i \in Nat /\ 1 <= i /\ Released(x) + i = Released(y) /\ i <= Len(x.que)
      BY <2>1, <3>1, <1>3, <1>4
    <3>3. i \in 1..Len(x.que)
      BY <3>1, <3>2
    <3>4. x.que[i].sn = Released(x) + i
      BY <3>3, <1>1
    <3>5. QED
      BY <3>2, <3>3, <3>4
  <2>3. PICK j \in 1..Len(y.que) : y.que[j] = x.que[i]
    BY <2>2, <1>4
  <2>4. Released(y) + j = Released(y)
    BY <2>2, <2>3, <1>1
  <2>5. QED
    BY <2>4, <1>1, <1>2
<1>5. QED
  BY <1>2, <1>3, <1>4

(* A packet read by the client is one TakePacket of LinkPromise.                    *)
LEMMA PacketTaken ==
  ASSUME LinkInv, ReadInv, LinkedInv, s2c # <<>>, Reading,
         XferOK(xfer'), UNCHANGED got,
         LET x == Received(xfer, Head(s2c))
         IN  /\ xfer'.que = x.que /\ xfer'.tail_sn = x.tail_sn
             /\ xfer'.recv_sn = x.recv_sn /\ xfer'.send_index = x.send_index
  PROVE  Promise!TakePacket /\ SentSn(xfer') = SentSn(xfer) /\ xfer'.tail_sn = xfer.tail_sn
<1> DEFINE m == Head(s2c)
           x == Received(xfer, m)
<1>1. /\ m \in ToClient /\ m.ack <= srv_recv /\ m.ack <= SentSn(xfer)
      /\ m.ack \in Nat /\ m.sn \in Nat /\ srv_recv \in Nat /\ xfer.recv_sn \in Nat
      /\ XferOK(xfer) /\ s2c \in Seq(ToClient)
  BY HeadSound, QueueTypes DEF LinkInv, TypeOK, ToClient
<1>2. /\ XferOK(x) /\ SentSn(x) = SentSn(xfer) /\ x.tail_sn = xfer.tail_sn
      /\ x.recv_sn = Highest(xfer.recv_sn, m.sn)
      /\ \A j \in 1..Len(x.que) : \E i \in 1..Len(xfer.que) : xfer.que[i] = x.que[j]
      /\ \A i \in 1..Len(xfer.que) :
           xfer.que[i].sn > m.ack => \E j \in 1..Len(x.que) : x.que[j] = xfer.que[i]
  BY <1>1, ReceivedShape, ReceivedSound DEF Highest
<1> HIDE DEF m, x
<1>3. m.sn <= xfer.recv_sn + 1
  BY <1>1, GapFreeTail DEF ReadInv, NoGap, m
<1>4. /\ xfer'.que = x.que /\ xfer'.tail_sn = x.tail_sn
      /\ xfer'.recv_sn = x.recv_sn /\ xfer'.send_index = x.send_index
  BY DEF x, m
<1>5. xfer'.recv_sn \in {xfer.recv_sn, xfer.recv_sn + 1}
  BY <1>1, <1>2, <1>3, <1>4 DEF Highest
<1>6. /\ Released(xfer) <= Released(x)
      /\ Released(x) # Released(xfer) => Released(x) <= m.ack
      /\ Released(x) \in Nat /\ Released(xfer) \in Nat
  BY <1>1, <1>2, ReleasedMoves
<1>7. Released(xfer') = Released(x)
  BY <1>4 DEF Released
<1>8. Released(x) # Released(xfer) => \E n \in Sns(got)' : Released(x) <= n
  <2> SUFFICES ASSUME Released(x) # Released(xfer)
               PROVE  \E n \in Sns(got) : Released(x) <= n
    OBVIOUS
  <2>1. Released(x) <= srv_recv /\ srv_recv # 0
    BY <1>1, <1>6
  <2>2. QED
    BY <2>1 DEF LinkedInv
<1>9. Promise!TakePacket
  <2>1. xfer'.tail_sn - Len(xfer'.que) >= xfer.tail_sn - Len(xfer.que)
    BY <1>6, <1>7 DEF Released
  <2>2. xfer'.tail_sn - Len(xfer'.que) # xfer.tail_sn - Len(xfer.que)
          => \E n \in Sns(got) : xfer'.tail_sn - Len(xfer'.que) <= n
    BY <1>7, <1>8 DEF Released
  <2>3. QED
    BY <1>5, <2>1, <2>2 DEF Promise!TakePacket
<1>10. QED
  BY <1>2, <1>4, <1>9 DEF SentSn

-------------------------------------------------------------------------------
(* Every step is a step of LinkPromise or a stutter.                               *)
NumbersKept ==
  UNCHANGED <<xfer.tail_sn, SentSn(xfer), Len(xfer.que), xfer.recv_sn, Sns(InFlight(c2s)),
              Sns(got), srv_acked, try_seq, last_success_seq>>

LEMMA KeptIsStutter ==
  ASSUME NumbersKept, pc' = "closed" <=> pc = "closed"
  PROVE  UNCHANGED Promise!vars
<1>1. (pc' = "closed") = (pc = "closed")
  OBVIOUS
<1>2. QED
  BY <1>1 DEF NumbersKept, Promise!vars, Promise!requests, Promise!attempts

(* The steps that hand over, receive and read nothing: they end the session or not. *)
LEMMA MovesPromise ==
  ASSUME Moves \/ UNCHANGED vars
  PROVE  [Promise!Next]_(Promise!vars)
<1>1. NumbersKept
  BY QuietKeeps DEF NumbersKept
<1>2. CASE pc # "closed" /\ pc' = "closed"
  BY <1>1, <1>2 DEF NumbersKept, Promise!Next, Promise!End, Promise!requests, Promise!attempts
<1>3. CASE pc = "closed" => pc' = "closed"
  <2>1. CASE pc' = "closed" <=> pc = "closed"
    BY <1>1, <2>1, KeptIsStutter
  <2>2. QED
    BY <1>2, <1>3, <2>1
<1>4. pc = "closed" => pc' = "closed"
  BY DEF Moves, ProcessFail, ProcessDone, SendPacketFail, SendDone, SendAckFail,
         NoAckDue, Wake, RecvFail, HeartbeatTimeout, DialFail, ReconnectFail,
         ReconnectTimeout, Reconnecting, Stop, Closed, vars, clientVars
<1>5. QED
  BY <1>3, <1>4

LEMMA AskPromise ==
  ASSUME LinkInv, ProcessOp \/ HeartbeatTick
  PROVE  Promise!Next
<1>1. /\ XferOK(xfer) /\ xfer \in XferState /\ xfer.que \in Seq(Packet)
      /\ xfer.tail_sn \in Nat /\ Len(xfer.que) \in Nat
  BY QueueTypes DEF LinkInv, TypeOK
<1>2. /\ xfer' = AddQos1(xfer, 0)
      /\ UNCHANGED <<c2s, got, srv_acked, try_seq, last_success_seq>>
      /\ pc # "closed" /\ pc' # "closed"
  BY DEF ProcessOp, HeartbeatTick, linkVars, srvVars, histVars
<1>3. /\ SentSn(xfer') = SentSn(xfer) /\ xfer'.tail_sn = xfer.tail_sn + 1
      /\ xfer'.recv_sn = xfer.recv_sn
      /\ \E p \in Packet : xfer'.que = Append(xfer.que, p)
  BY <1>1, <1>2, AddQos1Sound, AddQos1Shape
<1>4. Len(xfer'.que) = Len(xfer.que) + 1
  BY <1>1, <1>3, AppendProperties
<1>5. xfer'.tail_sn - Len(xfer'.que) = xfer.tail_sn - Len(xfer.que)
  BY <1>1, <1>3, <1>4
<1>6. QED
  BY <1>2, <1>3, <1>5 DEF Promise!Next, Promise!Ask, Promise!attempts

LEMMA HandPromise ==
  ASSUME LinkInv, LinkedInv, SendPacket
  PROVE  Promise!Next
<1> DEFINE m == DataMsg(NextUnsent(xfer))
<1>1. /\ TypeOK /\ XferOK(xfer) /\ xfer \in XferState /\ HasUnsent(xfer)
      /\ SentSn(xfer) \in Nat /\ SentSn(xfer) <= xfer.tail_sn /\ xfer.tail_sn \in Nat
  BY UnsentNumbers DEF LinkInv, TypeOK, SendPacket
<1>2. /\ xfer' = MarkSent(xfer) /\ Put(m) /\ pc = "send" /\ pc' = "send"
      /\ UNCHANGED <<got, srv_acked, try_seq, last_success_seq>>
  BY DEF SendPacket, srvVars
<1>3. /\ NextUnsent(xfer) \in Packet /\ NextUnsent(xfer).sn = SentSn(xfer) + 1
      /\ XferOK(xfer') /\ SentSn(xfer') = SentSn(xfer) + 1
      /\ xfer'.que = xfer.que /\ xfer'.tail_sn = xfer.tail_sn /\ xfer'.recv_sn = xfer.recv_sn
  BY <1>1, <1>2, MarkSentSound, FieldsKept
<1>4. m \in ToServer /\ m.sn = SentSn(xfer) + 1
  BY <1>3, MessageTypes
<1> HIDE DEF m
<1>5. SentSn(xfer) < xfer.tail_sn
  BY <1>3, UnsentNumbers, <1>1
<1>6. \/ Sns(InFlight(c2s')) = Sns(InFlight(c2s)) \cup {SentSn(xfer) + 1}
      \/ Sns(InFlight(c2s)) = {} /\ Sns(InFlight(c2s')) = Sns(InFlight(c2s))
  <2>1. CASE up
    <3>1. c2s \in Seq(ToServer) /\ c2s' = Append(c2s, m)
      BY <1>1, <1>2, <2>1 DEF Put, TypeOK
    <3>2. InFlight(c2s') = InFlight(c2s) \cup {m}
      BY <1>4, <3>1, InFlightAppend
    <3>3. {m.sn} \ {0} = {SentSn(xfer) + 1}
      BY <1>1, <1>4
    <3>4. QED
      BY <3>2, <3>3, SnsUnion
  <2>2. CASE ~up
    <3>1. c2s = <<>> /\ c2s' = c2s
      BY <1>2, <2>2 DEF Put, LinkedInv
    <3>2. Sns(InFlight(c2s)) = {}
      BY <3>1, InFlightShort DEF Sns
    <3>3. QED
      BY <3>1, <3>2
  <2>3. QED
    BY <2>1, <2>2
<1>7. last_success_seq = try_seq
  BY <1>2 DEF LinkedInv
<1>8. QED
  BY <1>2, <1>3, <1>5, <1>6, <1>7
     DEF Promise!Next, Promise!Hand, Promise!Connected, Promise!attempts

LEMMA SendAckPromise ==
  ASSUME LinkInv, SendAck
  PROVE  UNCHANGED Promise!vars
<1>1. /\ TypeOK /\ XferOK(xfer) /\ xfer \in XferState /\ xfer.recv_sn \in Nat
  BY QueueTypes DEF LinkInv, TypeOK
<1>2. /\ AckMsg(xfer.recv_sn) \in ToServer /\ AckMsg(xfer.recv_sn).sn = 0
      /\ Put(AckMsg(xfer.recv_sn)) /\ xfer' = MarkAckSent(xfer)
      /\ UNCHANGED <<got, srv_acked, try_seq, last_success_seq>>
  BY <1>1, MessageTypes DEF SendAck, srvVars
<1>3. Sns(InFlight(c2s')) = Sns(InFlight(c2s))
  BY <1>1, <1>2, PutNumbers
<1>4. /\ xfer'.tail_sn = xfer.tail_sn /\ SentSn(xfer') = SentSn(xfer)
      /\ xfer'.que = xfer.que /\ xfer'.recv_sn = xfer.recv_sn
  BY <1>1, <1>2, RecvSideSound, FieldsKept
<1>5. pc # "closed" /\ pc' # "closed"
  BY DEF SendAck, AfterFlush
<1>6. QED
  BY <1>2, <1>3, <1>4, <1>5, KeptIsStutter DEF NumbersKept

LEMMA ReadPromise ==
  ASSUME LinkInv, LinkInv', ReadInv, LinkedInv, RecvPacket
  PROVE  Promise!Next
<1>1. /\ s2c # <<>> /\ Reading /\ xfer' = Received(xfer, Head(s2c))
      /\ pc = "recv" /\ pc' # "closed"
      /\ UNCHANGED <<c2s, got, srv_acked, try_seq, last_success_seq>>
  BY DEF RecvPacket, Reading, srvVars
<1>2. XferOK(xfer')
  BY DEF LinkInv
<1>3. Promise!TakePacket /\ SentSn(xfer') = SentSn(xfer) /\ xfer'.tail_sn = xfer.tail_sn
  BY <1>1, <1>2, PacketTaken
<1>4. last_success_seq = try_seq
  BY <1>1 DEF LinkedInv
<1>5. QED
  BY <1>1, <1>3, <1>4
     DEF Promise!Next, Promise!Read, Promise!Connected, Promise!requests, Promise!attempts

LEMMA ClosedPromise ==
  ASSUME LinkInv, LinkInv', ReadInv, LinkedInv, RecvClosed
  PROVE  Promise!Next
<1> DEFINE x == Received(xfer, Head(s2c))
<1>1. /\ s2c # <<>> /\ Reading /\ pc = "recv" /\ pc' = "closed"
      /\ UNCHANGED <<got, srv_acked, try_seq, last_success_seq>>
      /\ \/ Put(AckMsg(x.recv_sn)) /\ xfer' = MarkAckSent(x)
         \/ xfer' = x /\ UNCHANGED <<c2s, lost>>
  BY DEF RecvClosed, Reading, srvVars
<1>2. XferOK(xfer') /\ TypeOK
  BY DEF LinkInv
<1>3. /\ XferOK(x) /\ x \in XferState /\ x.recv_sn \in Nat
  <2>1. XferOK(x)
    BY <1>1, HeadSound, ReceivedSound DEF LinkInv
  <2>2. QED
    BY <2>1 DEF XferOK, XferState
<1> HIDE DEF x
<1>4. /\ xfer'.que = x.que /\ xfer'.tail_sn = x.tail_sn
      /\ xfer'.recv_sn = x.recv_sn /\ xfer'.send_index = x.send_index
  BY <1>1, <1>3, FieldsKept, RecvSideSound
<1>5. Promise!TakePacket /\ SentSn(xfer') = SentSn(xfer) /\ xfer'.tail_sn = xfer.tail_sn
  BY <1>1, <1>2, <1>4, PacketTaken DEF x
<1>6. Sns(InFlight(c2s')) = Sns(InFlight(c2s))
  BY <1>1, <1>2, <1>3, MessageTypes, PutNumbers
<1>7. last_success_seq = try_seq
  BY <1>1 DEF LinkedInv
<1>8. QED
  BY <1>1, <1>5, <1>6, <1>7
     DEF Promise!Next, Promise!Read, Promise!Connected, Promise!requests, Promise!attempts

LEMMA AgreePromise ==
  ASSUME LinkInv, LinkInv', ReadInv, SuccessInv, LinkedInv, Reconnected
  PROVE  Promise!Next
<1>1. /\ s2c # <<>> /\ Reading /\ xfer' = Received(xfer, Head(s2c))
      /\ pc = "await" /\ pc' # "closed" /\ last_success_seq' = try_seq
      /\ UNCHANGED <<c2s, got, srv_acked, try_seq>>
  BY DEF Reconnected, AdoptConnection, Reading, srvVars
<1>2. XferOK(xfer')
  BY DEF LinkInv
<1>3. Promise!TakePacket /\ SentSn(xfer') = SentSn(xfer) /\ xfer'.tail_sn = xfer.tail_sn
  BY <1>1, <1>2, PacketTaken
<1>4. last_success_seq < try_seq
  BY <1>1 DEF SuccessInv, LastSuccessAccepted
<1>5. QED
  BY <1>1, <1>3, <1>4 DEF Promise!Next, Promise!Agree, Promise!requests

LEMMA CutPromise ==
  ASSUME Break \/ Dial, pc # "closed"
  PROVE  Promise!Next
<1>1. /\ UNCHANGED <<xfer, got, srv_acked, last_success_seq>>
      /\ try_seq' \in {try_seq, try_seq + 1}
      /\ c2s' = <<>> \/ c2s' = <<ReconnMsg(try_seq')>>
      /\ pc' # "closed"
  BY DEF Break, Dial, NextTrySeq, clientVars, srvVars
<1>2. Sns(InFlight(c2s')) = {}
  BY <1>1, InFlightShort DEF Sns, ReconnMsg
<1>3. QED
  BY <1>1, <1>2 DEF Promise!Next, Promise!Cut

LEMMA ArrivePromise ==
  ASSUME LinkInv, ReadInv, SrvRecv, pc # "closed"
  PROVE  Promise!Next
<1> DEFINE m == Head(c2s)
<1>1. /\ c2s # <<>> /\ c2s' = Tail(c2s) /\ got' = got \cup {m}
      /\ srv_acked' = Larger(srv_acked, m.ack)
      /\ UNCHANGED <<xfer, try_seq, last_success_seq, pc>>
  BY DEF SrvRecv, clientVars
<1>2. /\ m \in ToServer /\ m.sn \in Nat /\ m.ack \in Nat /\ m \in InFlight(c2s)
      /\ srv_acked \in Nat /\ xfer.recv_sn \in Nat
  BY <1>1, ServerHead, HeadTaken, QueueTypes DEF LinkInv, TypeOK, ToServer
<1>3. srv_acked' \in srv_acked..xfer.recv_sn
  BY <1>1, <1>2 DEF Larger, ReadInv, AcksBehind
<1>4. /\ m.sn \notin Sns(InFlight(c2s'))
      /\ Sns(InFlight(c2s)) = ({m.sn} \ {0}) \cup Sns(InFlight(c2s'))
      /\ Sns(got') = Sns(got) \cup ({m.sn} \ {0})
  <2>1. /\ m.sn \notin Sns(InFlight(Tail(c2s)))
        /\ Sns(InFlight(c2s)) = ({m.sn} \ {0}) \cup Sns(InFlight(Tail(c2s)))
    BY <1>1, HeadTaken
  <2>2. Sns(got \cup {m}) = Sns(got) \cup ({m.sn} \ {0})
    BY SnsUnion
  <2>3. QED
    BY <1>1, <2>1, <2>2
<1>5. \A k \in Sns(InFlight(c2s')) : m.sn <= k
  <2>1. \A i \in 1..Len(Tail(c2s)) :
          Tail(c2s)[i].sn \in Nat /\ (Tail(c2s)[i].sn # 0 => m.sn < Tail(c2s)[i].sn)
    BY <1>1, ServerHead
  <2>2. QED
    BY <1>1, <1>2, <2>1 DEF Sns, InFlight
<1> HIDE DEF m
<1>6. CASE m.sn = 0
  <2>1. Sns(InFlight(c2s')) = Sns(InFlight(c2s)) /\ Sns(got') = Sns(got)
    BY <1>4, <1>6
  <2>2. QED
    BY <1>1, <1>3, <2>1
       DEF Promise!Next, Promise!ConfirmOnly, Promise!Confirm, Promise!requests, Promise!attempts
<1>7. CASE m.sn # 0
  <2>1. PICK n : n = m.sn
    OBVIOUS
  <2>2. /\ n \in Sns(InFlight(c2s)) /\ Sns(InFlight(c2s')) = Sns(InFlight(c2s)) \ {n}
        /\ Sns(got') = Sns(got) \cup {n}
        /\ \A k \in Sns(InFlight(c2s)) : n <= k
    BY <1>2, <1>4, <1>5, <1>7, <2>1
  <2>3. Promise!Arrive(n)
    BY <1>1, <1>3, <2>2 DEF Promise!Arrive, Promise!Confirm, Promise!attempts
  <2>4. QED
    BY <1>1, <2>2, <2>3 DEF Promise!Next
<1>8. QED
  BY <1>6, <1>7

LEMMA OtherPromise ==
  ASSUME LinkInv, ReconnectRefused \/ SrvReconnect \/ SrvSend, pc # "closed"
  PROVE  [Promise!Next]_(Promise!vars)
<1>1. CASE ReconnectRefused
  <2>1. NumbersKept /\ UNCHANGED <<xfer, c2s, got>>
    BY <1>1 DEF ReconnectRefused, NumbersKept, srvVars, histVars
  <2>2. CASE pc' = "closed"
    BY <2>1, <2>2 DEF NumbersKept, Promise!Next, Promise!End, Promise!requests, Promise!attempts
  <2>3. CASE pc' # "closed"
    BY <2>1, <2>3, KeptIsStutter
  <2>4. QED
    BY <2>2, <2>3
<1>2. CASE SrvReconnect
  <2>1. /\ c2s # <<>> /\ Head(c2s).typ = "reconn" /\ c2s' = Tail(c2s)
        /\ got' = got \cup {Head(c2s)}
        /\ UNCHANGED <<xfer, srv_acked, try_seq, last_success_seq, pc>>
    BY <1>2 DEF SrvReconnect, clientVars
  <2>2. Head(c2s).sn = 0
    BY <2>1, ServerHead DEF ToServer
  <2>3. Sns(InFlight(c2s')) = Sns(InFlight(c2s)) /\ Sns(got') = Sns(got)
    <3>1. Sns(InFlight(c2s)) = ({Head(c2s).sn} \ {0}) \cup Sns(InFlight(Tail(c2s)))
      BY <2>1, HeadTaken
    <3>2. Sns(got \cup {Head(c2s)}) = Sns(got) \cup ({Head(c2s).sn} \ {0})
      BY SnsUnion
    <3>3. QED
      BY <2>1, <2>2, <3>1, <3>2
  <2>4. QED
    BY <2>1, <2>3, KeptIsStutter DEF NumbersKept
<1>3. CASE SrvSend
  BY <1>3, KeptIsStutter DEF NumbersKept, SrvSend, clientVars, histVars
<1>4. QED
  BY <1>1, <1>2, <1>3

LEMMA LinkPromiseStep ==
  LinkInv /\ LinkInv' /\ ReadInv /\ SuccessInv /\ LinkedInv /\ [Next]_vars
    => [Promise!Next]_(Promise!vars)
<1> SUFFICES ASSUME LinkInv, LinkInv', ReadInv, SuccessInv, LinkedInv, [Next]_vars
             PROVE  [Promise!Next]_(Promise!vars)
  OBVIOUS
<1>1. CASE Moves \/ UNCHANGED vars
  BY <1>1, MovesPromise
<1>2. CASE ~(Moves \/ UNCHANGED vars)
  <2>1. pc # "closed"
    BY <1>2 DEF Next, Client, Process, ProcessOp, ProcessFail, ProcessDone, Flush, SendPacket,
         SendPacketFail, SendDone, SendAck, SendAckFail, NoAckDue, Wait, Wake, RecvPacket,
         RecvClosed, RecvFail, HeartbeatTick, HeartbeatTimeout, Reconnect, DialFail, Dial,
         Reconnected, AdoptConnection, ReconnectRefused, ReconnectFail, ReconnectTimeout,
         Reconnecting, Stop, Environment, Moves
  <2>2. QED
    BY <1>2, <2>1, StepCases, AskPromise, HandPromise, SendAckPromise, ReadPromise,
       ClosedPromise, AgreePromise, CutPromise, ArrivePromise, OtherPromise
<1>3. QED
  BY <1>1, <1>2

LEMMA LinkPromiseInit == Init => Promise!Init
<1> SUFFICES ASSUME Init PROVE Promise!Init
  OBVIOUS
<1>1. OpenReqs \in Nat
  BY LinkAssumption
<1>2. /\ xfer.tail_sn = OpenReqs /\ xfer.que = OpenQue /\ xfer.send_index = OpenReqs
      /\ xfer.recv_sn = 0 /\ Len(OpenQue) = OpenReqs
  BY <1>1 DEF Init, NewXfer, OpenQue
<1>3. /\ Len(c2s) = OpenReqs /\ \A i \in 1..OpenReqs : c2s[i].sn = i
  BY <1>1 DEF Init, OpenQue, DataMsg
<1>4. Sns(InFlight(c2s)) = 1..OpenReqs
  BY <1>1, <1>3 DEF Sns, InFlight
<1>5. SentSn(xfer) = OpenReqs /\ xfer.tail_sn - Len(xfer.que) = 0
  BY <1>1, <1>2 DEF SentSn
<1>6. Sns(got) = {}
  BY DEF Init, Sns
<1>7. QED
  BY <1>2, <1>4, <1>5, <1>6 DEF Init, Promise!Init

(* For any number of requests, pushes, breaks and reconnects, the worker's session *)
(* does nothing to its numbers that LinkPromise does not allow: requests are       *)
(* handed over once, in order, and only on a connection the server agreed to;      *)
(* those of a dead connection and no others are lost; nothing read is skipped, and *)
(* no number ever goes back.                                                      *)
THEOREM SessionKeepsPromise == Spec => KeepsLinkPromise
<1>1. Init => Promise!Init
  BY LinkPromiseInit
<1>2. /\ LinkInv /\ ReadInv /\ SuccessInv /\ LinkedInv
      /\ (LinkInv /\ ReadInv /\ SuccessInv /\ LinkedInv)'
      /\ [Next]_vars
      => [Promise!Next]_(Promise!vars)
  BY LinkPromiseStep
<1>3. QED
  BY <1>1, <1>2, LinkedHolds, PTL DEF Spec, KeepsLinkPromise, Promise!Spec
=================================================================================
