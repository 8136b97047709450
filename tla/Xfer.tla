---------------------------------- MODULE Xfer ----------------------------------
(* The reliable-transfer endpoint of client/xfer.rs, as operators on a record    *)
(* with the fields of struct Xfer.  A packet is the pair the queue keeps of it:  *)
(* its sequence number and the ack it carries; 0 stands for None in both fields  *)
(* (PacketRef::sn() reads 0 as None, and an ack is always at least 1).  Bodies   *)
(* are not modelled.  Sequence numbers are i64 and are not bounded here; the     *)
(* usize index keeps its width, because update_recv_ack decrements it.           *)
EXTENDS Integers, Sequences

CONSTANT UsizeCount      \* how many values a usize has (2^64 on the phone ABIs)

ASSUME UsizeAssumption == UsizeCount \in Nat \ {0}

Packet == [sn : Nat, ack : Nat]

XferState == [que : Seq(Packet), tail_sn : Nat, send_index : Nat,
              recv_sn : Nat, sent_ack_sn : Nat]

NewXfer == [que |-> <<>>, tail_sn |-> 0, send_index |-> 0,
            recv_sn |-> 0, sent_ack_sn |-> 0]

(* `send_index -= 1` done n times in a build without overflow checks.            *)
UsizeSub(i, n) == IF n <= i THEN i - n ELSE i - n + UsizeCount

(* How many packets the pop loop removes: the longest prefix with sn <= ack.     *)
AckedPrefixOffByOne(q, ack) ==     \* defective variant: pops one sn too many
  CHOOSE n \in 0..Len(q) : /\ \A i \in 1..n : q[i].sn <= ack + 1
                           /\ n < Len(q) => q[n + 1].sn > ack + 1

AckedPrefix(q, ack) ==
  CHOOSE n \in 0..Len(q) : /\ \A i \in 1..n : q[i].sn <= ack
                           /\ n < Len(q) => q[n + 1].sn > ack

UpdateRecvAckEager(x, ack) ==      \* defective variant: decrements before the test
  LET n == AckedPrefix(x.que, ack)
  IN  [x EXCEPT !.que = SubSeq(@, n + 1, Len(@)),
                !.send_index = @ - (IF n < Len(x.que) THEN n + 1 ELSE n)]

UpdateRecvAck(x, ack) ==
  LET n == AckedPrefix(x.que, ack)
  IN  [x EXCEPT !.que = SubSeq(@, n + 1, Len(@)),
                !.send_index = UsizeSub(@, n)]

(* Unlike update_recv_ack it rewinds, so everything unacknowledged goes again.   *)
InitRecvAck(x, ack) == [UpdateRecvAck(x, ack) EXCEPT !.send_index = 0]

UpdateRecvSn(x, sn) == [x EXCEPT !.recv_sn = IF sn > @ THEN sn ELSE @]

AckDueOffByOne(x) == x.sent_ack_sn + 1 < x.recv_sn       \* defective variant

AckDue(x) == x.sent_ack_sn < x.recv_sn

FillAckNextExpected(x, msg_id) ==  \* defective variant: acks the sn it expects next
  IF msg_id # 0 THEN msg_id ELSE IF AckDue(x) THEN x.recv_sn + 1 ELSE 0

(* The ack a new packet carries: the request a response answers, if it is one,   *)
(* else the cumulative ack when one is due.                                      *)
FillAck(x, msg_id) ==
  IF msg_id # 0 THEN msg_id ELSE IF AckDue(x) THEN x.recv_sn ELSE 0

(* fill_ack counts the ack as sent here, when the packet is queued.              *)
AddQos1(x, msg_id) ==
  LET sn  == x.tail_sn + 1
      ack == FillAck(x, msg_id)
  IN  [x EXCEPT !.que = Append(@, [sn |-> sn, ack |-> ack]),
                !.tail_sn = sn,
                !.sent_ack_sn = IF ack > @ THEN ack ELSE @]

(* SendIter: the packet it yields, and the index it advances on the call after,  *)
(* so that a send that failed leaves the packet to be sent again.                *)
HasUnsent(x) == x.send_index < Len(x.que)

NextUnsent(x) == x.que[x.send_index + 1]

MarkSent(x) == [x EXCEPT !.send_index = @ + 1]

(* AckIter: the commit that follows a successful send of the cumulative ack.     *)
MarkAckSent(x) == [x EXCEPT !.sent_ack_sn = x.recv_sn]

(* The sequence numbers handed to a connection so far end here: the queue holds  *)
(* consecutive numbers, and those from send_index on are still unsent.           *)
SentSn(x) == x.tail_sn - Len(x.que) + x.send_index

Contiguous(x) == /\ Len(x.que) <= x.tail_sn
                 /\ \A i \in 1..Len(x.que) : x.que[i].sn = x.tail_sn - Len(x.que) + i

SendIndexOK(x) == x.send_index \in 0..Len(x.que)
=================================================================================
