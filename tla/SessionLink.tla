------------------------------ MODULE SessionLink ------------------------------
(* An opened signalling session: the worker task of client/worker.rs (its work  *)
(* loop, flush and reconnect) over its Xfer, a WebSocket that may break, and the *)
(* server, which is outside the repository and is modelled from what the client  *)
(* expects of it: the peer of the same Xfer protocol, which acknowledges only    *)
(* what it received and, after a reconnect, resumes from the first packet the    *)
(* client has not acknowledged (init_recv_ack).                                  *)
(*                                                                              *)
(* A connection is a pair of FIFO channels.  When it breaks, what is in flight   *)
(* to the server is gone; what is in flight to the client may still be read      *)
(* until the client notices.  Until then a send either fails or is swallowed.    *)
EXTENDS Xfer

CONSTANTS OpenReqs,   \* requests on_opening queues before the session is open (3)
          MaxSn,      \* bound: sequence numbers the client assigns
          MaxPush,    \* bound: sequence numbers the server assigns
          MaxDials,   \* bound: connection attempts after the first connection
          MaxInFlight \* bound: packets in flight to the client

ASSUME LinkAssumption == /\ OpenReqs \in Nat
                         /\ MaxSn \in Nat /\ MaxPush \in Nat
                         /\ MaxDials \in Nat /\ MaxInFlight \in Nat

VARIABLES
  xfer,              \* Session::xfer
  pending_hb_sn,     \* Session::pending_hb_sn, 0 for None
  try_seq,           \* Task::reconnect_try_seq
  last_success_seq,  \* Task::reconnect_last_success_seq
  pc,                \* where the task awaits or loops
  flush_for,         \* who called the flush that is running
  up,                \* the current connection still carries packets
  c2s, s2c,          \* packets in flight on it
  srv_recv,          \* highest client sn the server received
  srv_acked,         \* highest ack the server received
  srv_tail,          \* highest sn the server assigned
  srv_next,          \* next sn the server puts on the current connection
  srv_joined,        \* the server bound the session to the current connection
  got,               \* history: packets the server received
  lost,              \* history: packets sent and never to be received
  delivered,         \* history: server sns the client received
  accepted,          \* history: try_seq values the server accepted
  dials              \* history: connection attempts after the first connection

clientVars == <<xfer, pending_hb_sn, try_seq, last_success_seq, pc, flush_for>>
linkVars   == <<up, c2s, s2c>>
srvVars    == <<srv_recv, srv_acked, srv_tail, srv_next, srv_joined>>
histVars   == <<got, lost, delivered, accepted, dials>>
vars == <<clientVars, linkVars, srvVars, histVars>>

ToServer == [typ : {"data", "ack"}, sn : Nat, ack : Nat, seq : {0}]
              \cup [typ : {"reconn"}, sn : {0}, ack : {0}, seq : Nat]
ToClient == [typ : {"reconn_ok", "reconn_reject", "reconn_bad",
                    "push", "rsp", "hb_rsp", "closed", "ack"}, sn : Nat, ack : Nat]

DataMsg(p)   == [typ |-> "data", sn |-> p.sn, ack |-> p.ack, seq |-> 0]
AckMsg(n)    == [typ |-> "ack", sn |-> 0, ack |-> n, seq |-> 0]
ReconnMsg(n) == [typ |-> "reconn", sn |-> 0, ack |-> 0, seq |-> n]

InFlight(ch) == {ch[i] : i \in 1..Len(ch)}
Sns(msgs)    == {m.sn : m \in msgs} \ {0}
Unsent(x)    == {x.que[i].sn : i \in (x.send_index + 1)..Len(x.que)}

-------------------------------------------------------------------------------
(* phase_open has just returned: on_opening's requests were flushed, the open    *)
(* response was read (its sn and ack are not recorded), the rest is in flight.   *)
OpenQue == [i \in 1..OpenReqs |-> [sn |-> i, ack |-> 0]]

Init ==
  /\ xfer = [NewXfer EXCEPT !.que = OpenQue, !.tail_sn = OpenReqs,
                            !.send_index = OpenReqs]
  /\ pending_hb_sn = 0 /\ try_seq = 0 /\ last_success_seq = 0
  /\ pc = "process" /\ flush_for = "op"
  /\ up = TRUE /\ s2c = <<>>
  /\ c2s = [i \in 1..OpenReqs |-> DataMsg(OpenQue[i])]
  /\ srv_recv = 0 /\ srv_acked = 0 /\ srv_tail = 0 /\ srv_next = 1
  /\ srv_joined = TRUE
  /\ got = {} /\ lost = {} /\ delivered = {} /\ accepted = {} /\ dials = 0

-------------------------------------------------------------------------------
(* The client.  conn.send_packet: the packet is in flight, or swallowed by a     *)
(* connection that is already broken.                                            *)
Put(m) == IF up THEN c2s' = Append(c2s, m) /\ UNCHANGED lost
                ELSE lost' = lost \cup {m} /\ UNCHANGED c2s

(* try_handle_op: on_process queues the requests of the inbox ...                *)
ProcessOp ==
  /\ pc = "process" /\ xfer.tail_sn < MaxSn
  /\ xfer' = AddQos1(xfer, 0)
  /\ UNCHANGED <<pending_hb_sn, try_seq, last_success_seq, pc, flush_for,
                 linkVars, srvVars, histVars>>

(* ... an operation that fails ends phase_work, whatever was queued stays ...    *)
ProcessFail ==
  /\ pc = "process"
  /\ pc' = "dial"
  /\ UNCHANGED <<xfer, pending_hb_sn, try_seq, last_success_seq, flush_for,
                 linkVars, srvVars, histVars>>

(* ... and flush_xfer follows.                                                   *)
ProcessDone ==
  /\ pc = "process"
  /\ pc' = "send" /\ flush_for' = "op"
  /\ UNCHANGED <<xfer, pending_hb_sn, try_seq, last_success_seq,
                 linkVars, srvVars, histVars>>

SendPacket ==
  /\ pc = "send" /\ HasUnsent(xfer)
  /\ Put(DataMsg(NextUnsent(xfer)))
  /\ xfer' = MarkSent(xfer)
  /\ UNCHANGED <<pending_hb_sn, try_seq, last_success_seq, pc, flush_for, up, s2c,
                 srvVars, got, delivered, accepted, dials>>

SendPacketFailSkips ==     \* defective variant: the index advances before the send
  /\ pc = "send" /\ HasUnsent(xfer) /\ ~up
  /\ pc' = "dial"
  /\ xfer' = MarkSent(xfer)
  /\ UNCHANGED <<pending_hb_sn, try_seq, last_success_seq, flush_for,
                 linkVars, srvVars, histVars>>

SendPacketFail ==
  /\ pc = "send" /\ HasUnsent(xfer) /\ ~up
  /\ pc' = "dial"
  /\ UNCHANGED <<xfer, pending_hb_sn, try_seq, last_success_seq, flush_for,
                 linkVars, srvVars, histVars>>

SendDone ==
  /\ pc = "send" /\ ~HasUnsent(xfer)
  /\ pc' = "ack"
  /\ UNCHANGED <<xfer, pending_hb_sn, try_seq, last_success_seq, flush_for,
                 linkVars, srvVars, histVars>>

(* Only the flush of try_handle_op is followed by the wait for a packet; the      *)
(* others are followed by the top of the work loop.                              *)
AfterFlush == IF flush_for = "op" THEN "recv" ELSE "process"

SendAck ==
  /\ pc = "ack" /\ AckDue(xfer)
  /\ Put(AckMsg(xfer.recv_sn))
  /\ xfer' = MarkAckSent(xfer)
  /\ pc' = AfterFlush
  /\ UNCHANGED <<pending_hb_sn, try_seq, last_success_seq, flush_for, up, s2c,
                 srvVars, got, delivered, accepted, dials>>

SendAckFailCommits ==      \* defective variant: the ack is committed before the send
  /\ pc = "ack" /\ AckDue(xfer) /\ ~up
  /\ pc' = "dial"
  /\ xfer' = MarkAckSent(xfer)
  /\ UNCHANGED <<pending_hb_sn, try_seq, last_success_seq, flush_for,
                 linkVars, srvVars, histVars>>

SendAckFail ==
  /\ pc = "ack" /\ AckDue(xfer) /\ ~up
  /\ pc' = "dial"
  /\ UNCHANGED <<xfer, pending_hb_sn, try_seq, last_success_seq, flush_for,
                 linkVars, srvVars, histVars>>

NoAckDue ==
  /\ pc = "ack" /\ ~AckDue(xfer)
  /\ pc' = AfterFlush
  /\ UNCHANGED <<xfer, pending_hb_sn, try_seq, last_success_seq, flush_for,
                 linkVars, srvVars, histVars>>

(* A commit token wakes recv_raw: back to the top of the loop.                   *)
Wake ==
  /\ pc = "recv"
  /\ pc' = "process"
  /\ UNCHANGED <<xfer, pending_hb_sn, try_seq, last_success_seq, flush_for,
                 linkVars, srvVars, histVars>>

ReceivedRewinds(x, m) ==   \* defective variant: init_recv_ack with its steps swapped
  LET a == IF m.ack # 0 THEN UpdateRecvAck([x EXCEPT !.send_index = 0], m.ack) ELSE x
  IN  IF m.sn # 0 THEN UpdateRecvSn(a, m.sn) ELSE a

(* What every received packet does to the Xfer, before it is looked at.          *)
Received(x, m) ==
  LET a == IF m.ack # 0 THEN UpdateRecvAck(x, m.ack) ELSE x
  IN  IF m.sn # 0 THEN UpdateRecvSn(a, m.sn) ELSE a

(* phase_work reads a packet: an ack, a response or a push.  on_response and      *)
(* on_push may fail, and so may a heartbeat response with a bad status; each     *)
(* failure ends phase_work.                                                      *)
RecvPacket ==
  /\ pc = "recv" /\ s2c # <<>>
  /\ s2c' = Tail(s2c)
  /\ LET m == Head(s2c)
     IN  /\ xfer' = Received(xfer, m)
         /\ delivered' = delivered \cup ({m.sn} \ {0})
         /\ \/ m.typ = "ack" /\ pc' = "process"
            \/ m.typ \in {"push", "rsp", "hb_rsp"} /\ pc' \in {"process", "dial"}
         /\ pending_hb_sn' = IF /\ m.typ = "hb_rsp" /\ pc' = "process"
                                /\ m.ack >= pending_hb_sn
                             THEN 0 ELSE pending_hb_sn
  /\ UNCHANGED <<try_seq, last_success_seq, flush_for, up, c2s,
                 srvVars, got, lost, accepted, dials>>

(* A Closed push: the ack is flushed if it can be, a close frame is sent, and    *)
(* the task ends.                                                                *)
RecvClosed ==
  /\ pc = "recv"
  /\ s2c # <<>>
  /\ LET m == Head(s2c)
         x == Received(xfer, m)
     IN  /\ m.typ = "closed"
         /\ s2c' = Tail(s2c)
         /\ delivered' = delivered \cup ({m.sn} \ {0})
         /\ \/ /\ AckDue(x)
               /\ Put(AckMsg(x.recv_sn))
               /\ xfer' = MarkAckSent(x)
            \/ /\ ~AckDue(x) \/ ~up
               /\ xfer' = x
               /\ UNCHANGED <<c2s, lost>>
  /\ pc' = "closed"
  /\ UNCHANGED <<pending_hb_sn, try_seq, last_success_seq, flush_for, up,
                 srvVars, got, accepted, dials>>

(* The connection fails under recv_packet.                                       *)
RecvFail ==
  /\ pc = "recv" /\ ~up
  /\ pc' = "dial"
  /\ UNCHANGED <<xfer, pending_hb_sn, try_seq, last_success_seq, flush_for,
                 linkVars, srvVars, histVars>>

HeartbeatTickNoFlush ==    \* defective variant: the heartbeat is queued, not flushed
  /\ pc = "recv" /\ pending_hb_sn = 0 /\ xfer.tail_sn < MaxSn
  /\ xfer' = AddQos1(xfer, 0)
  /\ pending_hb_sn' = xfer'.tail_sn
  /\ UNCHANGED <<try_seq, last_success_seq, pc, flush_for, linkVars, srvVars, histVars>>

(* handle_heartbeat_tick; time is abstracted: a tick and a heartbeat timeout may *)
(* come whenever the loop waits.                                                 *)
HeartbeatTick ==
  /\ pc = "recv" /\ pending_hb_sn = 0 /\ xfer.tail_sn < MaxSn
  /\ xfer' = AddQos1(xfer, 0)
  /\ pending_hb_sn' = xfer'.tail_sn
  /\ pc' = "send" /\ flush_for' = "heartbeat"
  /\ UNCHANGED <<try_seq, last_success_seq, linkVars, srvVars, histVars>>

HeartbeatTimeout ==
  /\ pc = "recv"
  /\ pc' = "dial"
  /\ UNCHANGED <<xfer, pending_hb_sn, try_seq, last_success_seq, flush_for,
                 linkVars, srvVars, histVars>>

(* connect_loop: an attempt that fails is retried; nothing else is recorded.     *)
DialFail ==
  /\ pc = "dial" /\ dials < MaxDials
  /\ dials' = dials + 1
  /\ UNCHANGED <<clientVars, linkVars, srvVars, got, lost, delivered, accepted>>

NextTrySeqAfterSuccess == last_success_seq + 1    \* defective variant

NextTrySeq == try_seq + 1

(* A new connection, and reconnect_session sends its request on it (or fails to, *)
(* and reconnect_loop tries again).  The old connection is no longer served.     *)
Dial ==
  /\ pc = "dial" /\ dials < MaxDials
  /\ dials' = dials + 1
  /\ try_seq' = NextTrySeq
  /\ lost' = lost \cup InFlight(c2s)
  /\ s2c' = <<>>
  /\ srv_joined' = FALSE
  /\ \/ /\ up' = TRUE /\ c2s' = <<ReconnMsg(try_seq')>>
        /\ pc' = "await"
     \/ /\ up' = FALSE /\ c2s' = <<>>
        /\ UNCHANGED pc
  /\ UNCHANGED <<xfer, pending_hb_sn, last_success_seq, flush_for,
                 srv_recv, srv_acked, srv_tail, srv_next, got, delivered, accepted>>

(* reconnect_session reads the response: accepted, it adopts the connection,     *)
(* restarts the heartbeat and flushes what is unsent.  It takes the ack as       *)
(* phase_work does: send_index is not rewound.                                   *)
AdoptConnection(x, pending) ==
  /\ pc = "await" /\ s2c # <<>> /\ Head(s2c).typ = "reconn_ok"
  /\ s2c' = Tail(s2c)
  /\ xfer' = x
  /\ delivered' = delivered \cup ({Head(s2c).sn} \ {0})
  /\ pending_hb_sn' = pending
  /\ last_success_seq' = try_seq
  /\ pc' = "send" /\ flush_for' = "reconnect"
  /\ UNCHANGED <<try_seq, up, c2s, srvVars, got, lost, accepted, dials>>

\* defective variants: everything unacknowledged goes again; the pending heartbeat stays
ReconnectedRewinds == AdoptConnection(InitRecvAck(xfer, Head(s2c).ack), 0)

ReconnectedKeepsHeartbeat ==
  AdoptConnection(Received(xfer, Head(s2c)), pending_hb_sn)

Reconnected == AdoptConnection(Received(xfer, Head(s2c)), 0)

(* A refusal with a status is final; a packet that is no reconnect response, or  *)
(* a connection that fails, only fails this attempt.                             *)
ReconnectRefused ==
  /\ pc = "await"
  /\ s2c # <<>>
  /\ \/ Head(s2c).typ = "reconn_reject" /\ pc' = "closed"
     \/ Head(s2c).typ \notin {"reconn_ok", "reconn_reject"} /\ pc' = "dial"
  /\ s2c' = Tail(s2c)
  /\ UNCHANGED <<xfer, pending_hb_sn, try_seq, last_success_seq, flush_for,
                 up, c2s, srvVars, histVars>>

ReconnectFailRecords ==    \* defective variant: an attempt counts as a success
  /\ pc = "await" /\ ~up
  /\ pc' = "dial"
  /\ last_success_seq' = try_seq
  /\ UNCHANGED <<xfer, pending_hb_sn, try_seq, flush_for, linkVars, srvVars, histVars>>

ReconnectFail ==
  /\ pc = "await" /\ ~up
  /\ pc' = "dial"
  /\ UNCHANGED <<xfer, pending_hb_sn, try_seq, last_success_seq, flush_for,
                 linkVars, srvVars, histVars>>

(* phase_reconnect gave up after max_timeout, wherever reconnect_loop was.       *)
Reconnecting == pc \in {"dial", "await"}
                  \/ (pc \in {"send", "ack"} /\ flush_for = "reconnect")

ReconnectTimeout ==
  /\ Reconnecting
  /\ pc' = "closed"
  /\ UNCHANGED <<xfer, pending_hb_sn, try_seq, last_success_seq, flush_for,
                 linkVars, srvVars, histVars>>

(* The owner stops the task while it waits: a forced leave or a dropped client.  *)
Stop ==
  /\ pc \in {"recv", "dial", "await"}
  /\ pc' = "closed"
  /\ UNCHANGED <<xfer, pending_hb_sn, try_seq, last_success_seq, flush_for,
                 linkVars, srvVars, histVars>>

-------------------------------------------------------------------------------
(* The network.                                                                  *)
Break ==
  /\ up
  /\ up' = FALSE /\ c2s' = <<>>
  /\ lost' = lost \cup InFlight(c2s)
  /\ UNCHANGED <<clientVars, s2c, srvVars, got, delivered, accepted, dials>>

(* The server.  It takes the highest sn and ack it has seen, as update_recv_sn   *)
(* and update_recv_ack do.                                                       *)
Larger(a, b) == IF a > b THEN a ELSE b

SrvRecv ==
  /\ c2s # <<>> /\ Head(c2s).typ # "reconn"
  /\ c2s' = Tail(c2s)
  /\ srv_recv' = Larger(srv_recv, Head(c2s).sn)
  /\ srv_acked' = Larger(srv_acked, Head(c2s).ack)
  /\ got' = got \cup {Head(c2s)}
  /\ UNCHANGED <<clientVars, up, s2c, srv_tail, srv_next, srv_joined,
                 lost, delivered, accepted, dials>>

SrvReconnect ==
  /\ c2s # <<>> /\ Head(c2s).typ = "reconn"
  /\ c2s' = Tail(c2s)
  /\ got' = got \cup {Head(c2s)}
  /\ \E ack \in {0, srv_recv} :
       \/ /\ s2c' = Append(s2c, [typ |-> "reconn_ok", sn |-> 0, ack |-> ack])
          /\ srv_joined' = TRUE
          /\ srv_next' = srv_acked + 1
          /\ accepted' = accepted \cup {Head(c2s).seq}
       \/ /\ \E t \in {"reconn_reject", "reconn_bad"} :
               s2c' = Append(s2c, [typ |-> t, sn |-> 0, ack |-> ack])
          /\ UNCHANGED <<srv_joined, srv_next, accepted>>
  /\ UNCHANGED <<clientVars, up, srv_recv, srv_acked, srv_tail, lost, delivered, dials>>

(* A response acks the request it answers; anything else carries the cumulative  *)
(* ack or none.  Numbered packets go out in order, resumed after a reconnect.    *)
SrvSend ==
  /\ up /\ srv_joined /\ Len(s2c) < MaxInFlight
  /\ \E t \in {"push", "rsp", "hb_rsp", "closed", "ack"},
        sn \in {0, srv_next}, ack \in {0, srv_recv} \cup Sns(got) :
       /\ sn <= MaxPush
       /\ t \in {"rsp", "hb_rsp"} => ack # 0
       /\ t \in {"push", "closed"} => ack \in {0, srv_recv}
       /\ t = "ack" => sn = 0 /\ ack = srv_recv /\ ack # 0
       /\ s2c' = Append(s2c, [typ |-> t, sn |-> sn, ack |-> ack])
       /\ srv_next' = IF sn = 0 THEN srv_next ELSE sn + 1
       /\ srv_tail' = Larger(srv_tail, sn)
  /\ UNCHANGED <<clientVars, up, c2s, srv_recv, srv_acked, srv_joined, histVars>>

-------------------------------------------------------------------------------
Process   == ProcessOp \/ ProcessFail \/ ProcessDone
Flush     == \/ SendPacket \/ SendPacketFail \/ SendDone
             \/ SendAck \/ SendAckFail \/ NoAckDue
Wait      == \/ Wake \/ RecvPacket \/ RecvClosed \/ RecvFail
             \/ HeartbeatTick \/ HeartbeatTimeout
Reconnect == \/ DialFail \/ Dial \/ Reconnected \/ ReconnectRefused
             \/ ReconnectFail \/ ReconnectTimeout
Client    == Process \/ Flush \/ Wait \/ Reconnect \/ Stop
Server    == SrvRecv \/ SrvReconnect \/ SrvSend

Closed == pc = "closed" /\ UNCHANGED vars

(* The task drops its connection when it ends; what the network and the server   *)
(* do after that is not followed.                                                *)
Environment == pc # "closed" /\ (Break \/ Server)

Next == Client \/ Environment \/ Closed

Spec == Init /\ [][Next]_vars

(* The task is polled, so it leaves every state it can leave by itself; the       *)
(* connection delivers what is in flight unless it breaks; the retry and maximum  *)
(* timers fire.  Nothing makes the server send, or a user call.                  *)
Fairness == /\ WF_vars(ProcessDone)
            /\ WF_vars(Flush)
            /\ WF_vars(Reconnect)
            /\ WF_vars(pc # "closed" /\ SrvRecv)

FairSpec == Spec /\ Fairness

-------------------------------------------------------------------------------
(* Properties.                                                                   *)

(* Every variable keeps the shape worker.rs and xfer.rs give it.                 *)
TypeOK ==
  /\ xfer \in XferState
  /\ pending_hb_sn \in Nat /\ try_seq \in Nat /\ last_success_seq \in Nat
  /\ pc \in {"process", "send", "ack", "recv", "dial", "await", "closed"}
  /\ flush_for \in {"op", "heartbeat", "reconnect"}
  /\ up \in BOOLEAN /\ c2s \in Seq(ToServer) /\ s2c \in Seq(ToClient)
  /\ srv_recv \in Nat /\ srv_acked \in Nat /\ srv_tail \in Nat
  /\ srv_next \in Nat /\ srv_joined \in BOOLEAN
  /\ got \subseteq ToServer /\ lost \subseteq ToServer
  /\ delivered \subseteq Nat /\ accepted \subseteq Nat /\ dials \in Nat

(* The usize index of update_recv_ack never goes below zero nor past the queue:  *)
(* no ack that can reach the client, however late, stale or repeated after a      *)
(* reconnect, pops a packet that was not handed to a connection.                 *)
SendIndexInRange == SendIndexOK(xfer)

(* Every sequence number ever assigned is in exactly one place: received by the  *)
(* server, lost with a connection, in flight, or waiting at or after send_index. *)
(* A failed send, an ack or a reconnect neither skips nor repeats one.           *)
Accounted ==
  LET places == <<Sns(got), Sns(lost), Sns(InFlight(c2s)), Unsent(xfer)>>
  IN  /\ UNION InFlight(places) = 1..xfer.tail_sn
      /\ \A i, j \in 1..4 : i # j => places[i] \cap places[j] = {}

(* The server sees sequence numbers in increasing order, each at most once,      *)
(* across connections: what is in flight is newer than anything it received.     *)
InOrderAtMostOnce ==
  \A i \in 1..Len(c2s) : c2s[i].sn # 0 =>
    /\ srv_recv < c2s[i].sn
    /\ \A j \in 1..(i - 1) : c2s[j].sn < c2s[i].sn

(* The cumulative ack never runs ahead: what the server believes acknowledged,   *)
(* and so will not send again after a reconnect, the client has received.        *)
AckedMeansReceived == 1..srv_acked \subseteq delivered

(* An ack counted as sent was sent: a packet with that ack went to a connection  *)
(* or still waits in the queue.  fill_ack counts it when the packet is queued,   *)
(* AckIter only after the send, and a failed send in between must not lose it.   *)
AckNotForgotten ==
  xfer.sent_ack_sn # 0 =>
    \/ \E m \in got \cup lost \cup InFlight(c2s) : m.ack = xfer.sent_ack_sn
    \/ \E i \in (xfer.send_index + 1)..Len(xfer.que) :
         xfer.que[i].ack = xfer.sent_ack_sn

(* The session never waits for the response to a heartbeat that went down with   *)
(* an earlier connection (the NOTE in phase_reconnect).                          *)
PendingHeartbeatCurrent ==
  up /\ pc \notin {"dial", "await", "closed"} => pending_hb_sn \notin Sns(lost)

(* The last_success_seq a reconnect request carries names an attempt the server  *)
(* accepted, and an earlier one.                                                 *)
LastSuccessAccepted ==
  /\ last_success_seq \in accepted \cup {0}
  /\ pc = "await" => last_success_seq < try_seq

(* A reconnect request never reuses the try_seq of an earlier one, so the server *)
(* can tell a late request from the current one.                                 *)
TrySeqFresh ==
  \A m \in InFlight(c2s) : m.typ = "reconn" => m \notin got \cup lost

(* A packet leaves the queue only when the server has received it or a later     *)
(* one; a part of KeepsLinkPromise, in the session's own terms.                  *)
QueueDropsOnlyAcked ==
  [][Sns(InFlight(xfer.que)) \ Sns(InFlight(xfer'.que)) \subseteq 1..srv_recv]_vars

(* The session keeps what LinkPromise says of its numbers, over every break and     *)
(* every reconnect: requests go out once and in order, and on a connection only    *)
(* after the server has agreed to the attempt that made it; what the server sends  *)
(* is recorded without a gap, and acknowledged no further than that.               *)
Promise == INSTANCE LinkPromise WITH
  Opening <- OpenReqs,
  asked <- xfer.tail_sn, handed <- SentSn(xfer), released <- xfer.tail_sn - Len(xfer.que),
  coming <- Sns(InFlight(c2s)), arrived <- Sns(got),
  read <- xfer.recv_sn, confirmed <- srv_acked,
  attempt <- try_seq, agreed <- last_success_seq, over <- pc = "closed"

KeepsLinkPromise == Promise!Spec

(* Whatever the loop is doing, a request once queued reaches the server or is    *)
(* lost with a connection, unless the task ends: no request stays behind.        *)
EveryRequestLeaves ==
  \A n \in 1..MaxSn :
    n \in Unsent(xfer) ~> (n \in Sns(got \cup lost) \/ pc = "closed")

(* What the client received it acknowledges, unless that ack is lost with a      *)
(* connection or the task ends.                                                  *)
EventuallyAcked ==
  \A n \in 1..MaxPush :
    xfer.recv_sn >= n ~> \/ srv_acked >= n \/ pc = "closed"
                         \/ \E m \in lost : m.ack >= n

(* v1.rs says of ReconnectRequest::try_seq that it counts every attempt to       *)
(* connect, whether the connection succeeds or not.                              *)
TrySeqCountsAttempts == pc = "await" => try_seq = dials
=================================================================================
