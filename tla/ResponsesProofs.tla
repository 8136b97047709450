----------------------------- MODULE ResponsesProofs ----------------------------
(* The table of response handlers keeps exactly the requests that wait, and the   *)
(* application hears of each once, for any number of requests, heartbeats, pushes *)
(* and reconnects.                                                                *)
EXTENDS Responses, SessionLinkProofs

-------------------------------------------------------------------------------
(* The session below is that of SessionLink: only the server is held to more.     *)
LEMMA OpenedStep == [OpenedNext]_allVars => [Next]_vars
<1> SUFFICES ASSUME [OpenedNext]_allVars PROVE [Next]_vars
  OBVIOUS
<1>1. CASE QueueRequest \/ QueueHeartbeat \/ ReadResponse \/ ReadHeartbeat
             \/ ReadOther \/ Adopt
  BY <1>1 DEF QueueRequest, QueueHeartbeat, ReadResponse, ReadHeartbeat, ReadOther,
              Adopt, Reads, Next, Client, Process, Wait, Reconnect
<1>2. CASE Answer
  BY <1>2 DEF Answer, Next, Environment, Server
<1>3. CASE Elsewhere
  BY <1>3 DEF Elsewhere, Redial, Next, Client, Process, Wait, Reconnect,
              Environment, Server
<1>4. CASE UNCHANGED allVars
  BY <1>4 DEF allVars
<1>5. QED
  BY <1>1, <1>2, <1>3, <1>4 DEF OpenedNext

(* Every behaviour with a handler table is a behaviour of the session it sits on, *)
(* so what is proved of SessionLink holds here.                                   *)
THEOREM OpenedIsSession == OpenedSpec => Spec
<1>1. OpenedInit => Init
  BY DEF OpenedInit
<1>2. QED
  BY <1>1, OpenedStep, PTL DEF OpenedSpec, Spec

THEOREM OpenedLinkInv == OpenedSpec => []LinkInv
  BY OpenedIsSession, InvariantHolds, PTL

-------------------------------------------------------------------------------
(* Every action of SessionLink but those that assign a number.                    *)
Unnumbered == \/ Moves \/ SendPacket \/ SendAck
              \/ RecvPacket \/ RecvClosed \/ Reconnected \/ ReconnectRefused
              \/ Break \/ Dial \/ Server

LEMMA TailKept ==
  ASSUME LinkInv, Unnumbered
  PROVE  xfer'.tail_sn = xfer.tail_sn
<1>1. ASSUME NEW m \in ToClient, m.ack <= SentSn(xfer)
      PROVE  /\ Received(xfer, m).tail_sn = xfer.tail_sn
             /\ MarkAckSent(Received(xfer, m)).tail_sn = xfer.tail_sn
  <2> DEFINE a == IF m.ack # 0 THEN UpdateRecvAck(xfer, m.ack) ELSE xfer
  <2>1. m.ack \in Nat /\ m.sn \in Nat /\ XferOK(xfer)
    BY DEF ToClient, LinkInv
  <2>2. XferOK(a) /\ a.tail_sn = xfer.tail_sn
    <3>1. CASE m.ack # 0
      BY <3>1, <1>1, <2>1, UpdateRecvAckSound
    <3>2. CASE m.ack = 0
      BY <3>2, <2>1
    <3>3. QED
      BY <3>1, <3>2
  <2>3. Received(xfer, m) = IF m.sn # 0 THEN UpdateRecvSn(a, m.sn) ELSE a
    BY DEF Received
  <2> HIDE DEF a
  <2>4. XferOK(Received(xfer, m)) /\ Received(xfer, m).tail_sn = xfer.tail_sn
    BY <2>1, <2>2, <2>3, RecvSideSound
  <2>5. QED
    BY <2>4, RecvSideSound
<1>2. CASE RecvPacket \/ RecvClosed \/ Reconnected
  <2>1. /\ s2c # <<>>
        /\ \/ xfer' = Received(xfer, Head(s2c))
           \/ xfer' = MarkAckSent(Received(xfer, Head(s2c)))
    BY <1>2 DEF RecvPacket, RecvClosed, Reconnected, AdoptConnection
  <2>2. QED
    BY <2>1, <1>1, HeadSound
<1>3. CASE SendPacket
  BY <1>3, MarkSentSound DEF SendPacket, LinkInv
<1>4. CASE SendAck
  BY <1>4, RecvSideSound DEF SendAck, LinkInv
<1>5. CASE Moves \/ ReconnectRefused \/ Break \/ Dial \/ Server
  BY <1>5 DEF Moves, ProcessFail, ProcessDone, SendPacketFail, SendDone,
         SendAckFail, NoAckDue, Wake, RecvFail, HeartbeatTimeout, DialFail, ReconnectFail,
         ReconnectTimeout, Stop, Closed, ReconnectRefused, Break, Dial,
         Server, SrvRecv, SrvReconnect, SrvSend,
         vars, clientVars, linkVars, srvVars, histVars
<1>6. QED
  BY <1>2, <1>3, <1>4, <1>5 DEF Unnumbered

-------------------------------------------------------------------------------
(* The inductive invariant: what was read and what heartbeats use was assigned, a *)
(* call leaves a read number behind, and a response on its way answers a request. *)
ReadAssigned == read \subseteq 1..xfer.tail_sn /\ beats \subseteq 1..xfer.tail_sn

CallsRead == /\ calls \in [1..MaxSn -> Nat]
             /\ \A n \in 1..MaxSn : calls[n] <= 1 /\ (calls[n] # 0 => n \in read)

ResponsesExpected ==
  \A i \in 1..Len(s2c) :
    s2c[i].typ = "rsp" => s2c[i].ack \in (1..xfer.tail_sn) \ beats

TableInv == /\ TableExact
            /\ ReadAssigned
            /\ CallsRead
            /\ FirstAnswersFindTaker
            /\ ResponsesExpected

(* Nothing new on the way to the client.                                          *)
LEMMA ExpectedKept ==
  ASSUME LinkInv, ResponsesExpected, UNCHANGED <<xfer.tail_sn, beats>>,
         s2c' \in {s2c, <<>>} \/ (s2c # <<>> /\ s2c' = Tail(s2c))
  PROVE  ResponsesExpected'
<1>1. CASE s2c' \in {s2c, <<>>}
  BY <1>1 DEF ResponsesExpected
<1>2. CASE s2c # <<>> /\ s2c' = Tail(s2c)
  <2>1. s2c \in Seq(ToClient) /\ Len(s2c) \in Nat
    BY DEF LinkInv, TypeOK
  <2>2. /\ Len(s2c') = Len(s2c) - 1
        /\ \A i \in 1..Len(s2c') : s2c'[i] = s2c[i + 1]
    BY <1>2, <2>1, HeadTailProperties
  <2>3. \A i \in 1..Len(s2c') : i + 1 \in 1..Len(s2c)
    BY <2>1, <2>2
  <2>4. QED
    BY <2>2, <2>3 DEF ResponsesExpected
<1>3. QED
  BY <1>1, <1>2

(* A packet the server adds, if it is a response, answers a request.              *)
LEMMA ExpectedAdded ==
  ASSUME LinkInv, ResponsesExpected, UNCHANGED <<xfer.tail_sn, beats>>,
         NEW m \in ToClient, s2c' = Append(s2c, m),
         m.typ = "rsp" => m.ack \in (1..xfer.tail_sn) \ beats
  PROVE  ResponsesExpected'
<1>1. s2c \in Seq(ToClient) /\ Len(s2c) \in Nat
  BY DEF LinkInv, TypeOK
<1>2. /\ Len(s2c') = Len(s2c) + 1
      /\ \A i \in 1..Len(s2c) : s2c'[i] = s2c[i]
      /\ s2c'[Len(s2c) + 1] = m
  BY <1>1, AppendProperties
<1>3. \A i \in 1..Len(s2c') : i \in 1..Len(s2c) \/ i = Len(s2c) + 1
  BY <1>1, <1>2
<1>4. QED
  BY <1>2, <1>3 DEF ResponsesExpected

(* A step that leaves the table and the numbers alone.                            *)
LEMMA TableKept ==
  ASSUME TableInv, UNCHANGED <<xfer.tail_sn, tableVars, beats>>
  PROVE  TableExact' /\ ReadAssigned' /\ CallsRead' /\ FirstAnswersFindTaker'
  BY DEF TableInv, tableVars, TableExact, ReadAssigned, CallsRead, FirstAnswersFindTaker

-------------------------------------------------------------------------------
LEMMA TableInit == OpenedInit => TableInv
<1> SUFFICES ASSUME OpenedInit PROVE TableInv
  OBVIOUS
<1>1. xfer.tail_sn = OpenReqs /\ s2c = <<>>
  BY DEF OpenedInit, Init, NewXfer
<1>2. calls \in [1..MaxSn -> Nat] /\ \A n \in 1..MaxSn : calls[n] = 0
  BY DEF OpenedInit
<1>3. QED
  BY <1>1, <1>2 DEF OpenedInit, TableInv, TableExact, ReadAssigned, CallsRead,
                    FirstAnswersFindTaker, ResponsesExpected

(* A request takes the next number and leaves its handler there ...               *)
LEMMA RequestStep == LinkInv /\ TableInv /\ QueueRequest => TableInv'
<1> SUFFICES ASSUME LinkInv, TableInv, QueueRequest PROVE TableInv'
  OBVIOUS
<1>1. /\ xfer.tail_sn \in Nat /\ xfer'.tail_sn = xfer.tail_sn + 1
      /\ UNCHANGED <<s2c, calls, read, orphans, beats>>
      /\ handlers' = handlers \cup {xfer'.tail_sn}
  BY AddQos1Sound DEF LinkInv, TypeOK, XferState, QueueRequest, ProcessOp, linkVars, askVars
<1>2. TableExact' /\ ReadAssigned' /\ ResponsesExpected'
  <2>1. TableExact' /\ ReadAssigned'
    BY <1>1 DEF TableInv, TableExact, ReadAssigned
  <2>2. ResponsesExpected'
    BY <1>1 DEF TableInv, ResponsesExpected
  <2>3. QED
    BY <2>1, <2>2
<1>3. CallsRead' /\ FirstAnswersFindTaker'
  BY <1>1 DEF TableInv, CallsRead, FirstAnswersFindTaker
<1>4. QED
  BY <1>2, <1>3 DEF TableInv

(* ... a heartbeat takes it without one: no response on its way names it.         *)
LEMMA BeatStep == LinkInv /\ TableInv /\ QueueHeartbeat => TableInv'
<1> SUFFICES ASSUME LinkInv, TableInv, QueueHeartbeat PROVE TableInv'
  OBVIOUS
<1>1. /\ xfer.tail_sn \in Nat /\ xfer'.tail_sn = xfer.tail_sn + 1
      /\ UNCHANGED <<s2c, handlers, calls, read, orphans>>
      /\ beats' = beats \cup {xfer'.tail_sn}
  BY AddQos1Sound
     DEF LinkInv, TypeOK, XferState, QueueHeartbeat, HeartbeatTick, linkVars, tableVars
<1>2. TableExact' /\ ReadAssigned' /\ ResponsesExpected'
  <2>1. TableExact' /\ ReadAssigned'
    <3>1. 1..(xfer.tail_sn + 1) = (1..xfer.tail_sn) \cup {xfer.tail_sn + 1}
      BY <1>1
    <3>2. /\ read \subseteq 1..xfer.tail_sn /\ beats \subseteq 1..xfer.tail_sn
          /\ handlers = (1..xfer.tail_sn) \ (beats \cup read)
      BY DEF TableInv, TableExact, ReadAssigned
    <3>3. xfer.tail_sn + 1 \notin 1..xfer.tail_sn
      BY <1>1
    <3>4. handlers = (1..(xfer.tail_sn + 1)) \ (beats' \cup read')
      BY <1>1, <3>1, <3>2, <3>3
    <3>5. QED
      BY <1>1, <3>1, <3>2, <3>4 DEF TableExact, ReadAssigned
  <2>2. ResponsesExpected'
    BY <1>1 DEF TableInv, ResponsesExpected
  <2>3. QED
    BY <2>1, <2>2
<1>3. CallsRead' /\ FirstAnswersFindTaker'
  BY <1>1 DEF TableInv, CallsRead, FirstAnswersFindTaker
<1>4. QED
  BY <1>2, <1>3 DEF TableInv

(* A response finds the handler of its request, or was read before.               *)
LEMMA ResponseStep == LinkInv /\ TableInv /\ ReadResponse => TableInv'
<1> SUFFICES ASSUME LinkInv, TableInv, ReadResponse PROVE TableInv'
  OBVIOUS
<1> DEFINE n == Head(s2c).ack
<1>1. /\ s2c # <<>> /\ s2c' = Tail(s2c) /\ Head(s2c).typ = "rsp" /\ RecvPacket
      /\ Responded(n, handlers \ {n}) /\ UNCHANGED beats
  BY DEF ReadResponse, Reads, RecvPacket, askVars
<1>2. n \in (1..xfer.tail_sn) \ beats
  <2>1. s2c \in Seq(ToClient) /\ Len(s2c) > 0 /\ Head(s2c) = s2c[1]
    BY <1>1, EmptySeq DEF LinkInv, TypeOK
  <2>2. 1 \in 1..Len(s2c)
    BY <2>1
  <2>3. QED
    BY <1>1, <2>1, <2>2 DEF TableInv, ResponsesExpected
<1>3. xfer'.tail_sn = xfer.tail_sn
  BY <1>1, TailKept DEF Unnumbered
<1> HIDE DEF n
<1>4. read' = read \cup {n} /\ handlers' = handlers \ {n}
  BY <1>1 DEF Responded
<1>5. TableExact' /\ ReadAssigned'
  BY <1>1, <1>2, <1>3, <1>4 DEF TableInv, TableExact, ReadAssigned
<1>6. CASE n \notin handlers
  <2>1. n \in read
    BY <1>2, <1>6 DEF TableInv, TableExact
  <2>2. calls' = calls /\ orphans' = orphans
    BY <1>1, <1>6, <2>1 DEF Responded
  <2>3. QED
    BY <2>2, <1>1, <1>3, <1>4, <1>5, ExpectedKept
       DEF TableInv, CallsRead, FirstAnswersFindTaker
<1>7. CASE n \in handlers
  <2>1. n \notin read
    BY <1>7 DEF TableInv, TableExact
  <2>2. orphans' = orphans /\ calls' \in {calls, [calls EXCEPT ![n] = @ + 1]}
    BY <1>1, <1>7 DEF Responded
  <2>3. CallsRead'
    <3>1. calls \in [1..MaxSn -> Nat] /\ (n \in 1..MaxSn => calls[n] = 0)
      BY <2>1 DEF TableInv, CallsRead
    <3>2. CASE calls' = calls
      BY <3>2, <1>4 DEF TableInv, CallsRead
    <3>3. CASE calls' = [calls EXCEPT ![n] = @ + 1]
      <4>1. ASSUME NEW k \in 1..MaxSn
            PROVE  /\ calls'[k] \in Nat /\ calls'[k] <= 1
                   /\ calls'[k] # 0 => k \in read'
        <5>1. CASE k = n
          <6>1. calls'[k] = 1
            BY <3>1, <3>3, <5>1
          <6>2. QED
            BY <6>1, <5>1, <1>4
        <5>2. CASE k # n
          <6>1. calls'[k] = calls[k] /\ calls[k] \in Nat
            BY <3>1, <3>3, <5>2
          <6>2. QED
            BY <6>1, <1>4 DEF TableInv, CallsRead
        <5>3. QED
          BY <5>1, <5>2
      <4>2. calls' \in [1..MaxSn -> Nat]
        BY <3>1, <3>3, <4>1
      <4>3. QED
        BY <4>1, <4>2 DEF CallsRead
    <3>4. QED
      BY <2>2, <3>2, <3>3
  <2>4. QED
    BY <2>2, <2>3, <1>1, <1>3, <1>5, ExpectedKept DEF TableInv, FirstAnswersFindTaker
<1>8. QED
  BY <1>6, <1>7

(* What else the client reads, and a new connection, leave the table alone.       *)
LEMMA OtherReadStep ==
  LinkInv /\ TableInv /\ (ReadHeartbeat \/ ReadOther \/ Adopt) => TableInv'
<1> SUFFICES ASSUME LinkInv, TableInv, ReadHeartbeat \/ ReadOther \/ Adopt
             PROVE  TableInv'
  OBVIOUS
<1>1. /\ RecvPacket \/ Reconnected
      /\ UNCHANGED <<tableVars, beats>>
  BY DEF ReadHeartbeat, ReadOther, Adopt, Reads, askVars
<1>2. s2c # <<>> /\ s2c' = Tail(s2c)
  BY <1>1 DEF RecvPacket, Reconnected, AdoptConnection
<1>3. xfer'.tail_sn = xfer.tail_sn
  BY <1>1, TailKept DEF Unnumbered
<1>4. QED
  BY <1>1, <1>2, <1>3, TableKept, ExpectedKept DEF TableInv

(* The server answers in kind, and only what it received.                         *)
LEMMA AnswerStep == LinkInv /\ TableInv /\ Answer => TableInv'
<1> SUFFICES ASSUME LinkInv, TableInv, Answer PROVE TableInv'
  OBVIOUS
<1>1. SrvSend /\ UNCHANGED <<xfer, tableVars, beats>>
  BY DEF Answer, SrvSend, clientVars
<1>2. PICK t \in {"push", "rsp", "hb_rsp", "closed", "ack"},
           sn \in {0, srv_next}, ack \in {0, srv_recv} \cup Sns(got) :
        /\ t \in {"rsp", "hb_rsp"} => ack # 0
        /\ s2c' = Append(s2c, [typ |-> t, sn |-> sn, ack |-> ack])
  BY <1>1 DEF SrvSend
<1> DEFINE m == [typ |-> t, sn |-> sn, ack |-> ack]
<1>3. /\ srv_recv \in Nat /\ srv_next \in Nat /\ xfer.tail_sn \in Nat
      /\ srv_recv <= xfer.tail_sn
  BY DEF LinkInv, TypeOK, XferOK, XferState, SentBound, SentSn, SendIndexOK
<1>4. ack \in Nat /\ ack <= srv_recv
  <2>1. \A k \in Sns(got) : k \in Nat /\ k <= srv_recv
    BY DEF Sns, LinkInv, TypeOK, GotBound, ToServer
  <2>2. QED
    BY <2>1, <1>2, <1>3
<1>5. m \in ToClient
  BY <1>2, <1>3, <1>4 DEF ToClient
<1>6. s2c'[Len(s2c')] = m
  BY <1>2, <1>5, AppendProperties DEF LinkInv, TypeOK
<1>7. m.typ = "rsp" => m.ack \in (1..xfer.tail_sn) \ beats
  <2>1. t = "rsp" => ~(ack \in beats)
    BY <1>6 DEF Answer, Answers
  <2>2. QED
    BY <2>1, <1>2, <1>3, <1>4
<1>8. ResponsesExpected'
  BY <1>1, <1>2, <1>5, <1>7, ExpectedAdded DEF TableInv
<1>9. QED
  BY <1>1, <1>8, TableKept DEF TableInv

(* Nothing else touches the table, the numbers, or brings a response.             *)
LEMMA ElsewhereStep == LinkInv /\ TableInv /\ Elsewhere => TableInv'
<1> SUFFICES ASSUME LinkInv, TableInv, Elsewhere PROVE TableInv'
  OBVIOUS
<1>1. UNCHANGED <<tableVars, beats>>
  BY DEF Elsewhere, askVars
<1>2. CASE SrvReconnect
  <2>1. PICK t \in {"reconn_ok", "reconn_reject", "reconn_bad"}, ack \in {0, srv_recv} :
          s2c' = Append(s2c, [typ |-> t, sn |-> 0, ack |-> ack])
    BY <1>2 DEF SrvReconnect
  <2>2. [typ |-> t, sn |-> 0, ack |-> ack] \in ToClient
    BY DEF LinkInv, TypeOK, ToClient
  <2>3. UNCHANGED xfer
    BY <1>2 DEF SrvReconnect, clientVars
  <2>4. ResponsesExpected'
    BY <1>1, <2>1, <2>2, <2>3, ExpectedAdded DEF TableInv
  <2>5. QED
    BY <1>1, <2>3, <2>4, TableKept DEF TableInv
<1>3. CASE ~SrvReconnect
  <2>1. s2c' \in {s2c, <<>>} \/ (s2c # <<>> /\ s2c' = Tail(s2c))
    BY <1>3 DEF Elsewhere, Redial, Flush, ProcessFail, ProcessDone, SendPacket,
         SendPacketFail, SendDone, SendAck, SendAckFail, NoAckDue, Wake, RecvClosed,
         RecvFail, HeartbeatTimeout, DialFail, Dial, ReconnectRefused, ReconnectFail,
         ReconnectTimeout, Stop, Closed, Break, SrvRecv, vars, linkVars
  <2>2. xfer'.tail_sn = xfer.tail_sn
    <3>1. Unnumbered
      BY DEF Elsewhere, Redial, Flush, Unnumbered, Moves, Server
    <3>2. QED
      BY <3>1, TailKept
  <2>3. QED
    BY <1>1, <2>1, <2>2, TableKept, ExpectedKept DEF TableInv
<1>4. QED
  BY <1>2, <1>3

LEMMA TableNext == LinkInv /\ TableInv /\ [OpenedNext]_allVars => TableInv'
<1> SUFFICES ASSUME LinkInv, TableInv, [OpenedNext]_allVars PROVE TableInv'
  OBVIOUS
<1>1. CASE OpenedNext
  BY <1>1, RequestStep, BeatStep, ResponseStep, OtherReadStep, AnswerStep, ElsewhereStep
     DEF OpenedNext
<1>2. CASE UNCHANGED allVars
  <2>1. UNCHANGED <<xfer, s2c, tableVars, beats>>
    BY <1>2 DEF allVars, vars, clientVars, linkVars, askVars
  <2>2. QED
    BY <2>1, TableKept, ExpectedKept DEF TableInv
<1>3. QED
  BY <1>1, <1>2

THEOREM TableInvariant == OpenedSpec => []TableInv
  BY TableInit, TableNext, OpenedLinkInv, PTL DEF OpenedSpec

(* response_handlers holds a handler for every request that waits for a response, *)
(* and for nothing else, through any sequence of reconnects and repeated answers. *)
THEOREM TableIsExact == OpenedSpec => []TableExact
<1>1. TableInv => TableExact
  BY DEF TableInv
<1>2. QED
  BY <1>1, TableInvariant, PTL

(* on_response calls the application back at most once for a request.             *)
THEOREM CallbackOnce == OpenedSpec => []CalledOnce
<1>1. TableInv => CalledOnce
  BY DEF TableInv, CallsRead, CalledOnce
<1>2. QED
  BY <1>1, TableInvariant, PTL

(* A response read for the first time finds its handler, however late.            *)
THEOREM FirstResponseTaken == OpenedSpec => []FirstAnswersFindTaker
<1>1. TableInv => FirstAnswersFindTaker
  BY DEF TableInv
<1>2. QED
  BY <1>1, TableInvariant, PTL
=================================================================================
