-------------------------------- MODULE WorkLoop --------------------------------
(* How phase_work of client/worker.rs waits: a select between the heartbeat timer  *)
(* and recv_packet, itself a select between the wake-up channel and the TungStream *)
(* of client/ws_tung/stream.rs.  Whichever branch is ready first drops the other,  *)
(* so what a branch has half done must survive in the stream.  SessionLink leaves  *)
(* time and frames out; here they are all there is of a connection.                *)
(*                                                                                 *)
(* The network, the server and the tungstenite socket are external: a server that  *)
(* is up answers a heartbeat within Delay; a socket that has ended yields None at  *)
(* once, every time it is polled.  Time is counted in ticks.  It passes while the  *)
(* task waits, and while a pending heartbeat keeps it going round the loop; work    *)
(* that is ready takes no time.  heartbeat_enable is on.                           *)
EXTENDS Integers, Sequences

CONSTANTS Interval,  \* heartbeat_interval
          Timeout,   \* heartbeat_timeout
          Delay,     \* how long a server that is up may take to answer a heartbeat
          MaxWire,   \* bound: frames in flight to the client
          MaxWakes   \* bound: wake-ups from the application

ASSUME LoopAssumption == /\ {Interval, Timeout, MaxWire} \subseteq Nat \ {0}
                         /\ {Delay, MaxWakes} \subseteq Nat

VARIABLES
  pc,           \* where the task is: "process"; "select", the outer select entered; "recv_raw",
                \* "pong", "take", inside a poll of recv_packet; "waiting", "pong_wait", the task
                \* has yielded; "left", phase_work returned an error
  cause,        \* history: why phase_work returned an error
  recv_packet,  \* TungStream::recv_packet, the number of the text, 0 for None
  recv_hb,      \* ... and whether it is the response to a heartbeat
  recv_ping,    \* TungStream::recv_ping is some
  pending,      \* Session::pending_hb_sn is some
  rx_age,       \* ticks since last_rx_at, counted up to Timeout
  hb_age,       \* ticks since last_hb_at, counted up to Interval
  token,        \* the channel holds a wake-up
  wakes,        \* wake-ups so far
  wire,         \* frames the socket will yield
  net,          \* "up", "dead" (silent), "ended" (closed) or "broken"
  owed,         \* ticks an unanswered heartbeat has been with the server, or NotOwed
  sent, handed  \* history: the last text the server sent, and the last handled

taskVars   == <<pc, cause, token>>
streamVars == <<recv_packet, recv_hb, recv_ping>>
beatVars   == <<pending, rx_age, hb_age>>
netVars    == <<wire, net, owed, sent>>
vars == <<taskVars, streamVars, beatVars, netVars, wakes, handed>>

(* Texts are numbered round a circle longer than what can be in flight.            *)
Circle == MaxWire + 2
After(n) == (n % Circle) + 1
NotOwed == Delay + 1

Frames == [kind : {"text"}, n : 1..Circle, hb : BOOLEAN]
            \cup [kind : {"ping", "other", "close"}]

Init ==
  /\ pc = "process" /\ cause = "none" /\ token = FALSE /\ wakes = 0
  /\ recv_packet = 0 /\ recv_hb = FALSE /\ recv_ping = FALSE
  /\ pending = FALSE /\ rx_age = 0 /\ hb_age = 0
  /\ wire = <<>> /\ net = "up" /\ owed = NotOwed
  /\ sent = Circle /\ handed = Circle

-------------------------------------------------------------------------------
(* The task.                                                                       *)
Goto(p) == pc' = p /\ UNCHANGED cause
Fail(c) == pc' = "left" /\ cause' = c

(* try_handle_op, then the outer select is entered.                                *)
Process ==
  /\ pc = "process"
  /\ Goto("select") \/ Fail("error")
  /\ UNCHANGED <<token, streamVars, beatVars, netVars, wakes, handed>>

(* Its branches are polled in any order: recv_packet first, or the timer.          *)
PollRecv ==
  /\ pc = "select"
  /\ Goto("recv_raw")
  /\ UNCHANGED <<token, streamVars, beatVars, netVars, wakes, handed>>

(* recv_raw: a wake-up; phase_work goes round its loop ...                         *)
Wake ==
  /\ pc = "recv_raw" /\ token
  /\ token' = FALSE /\ Goto("process")
  /\ UNCHANGED <<streamVars, beatVars, netVars, wakes, handed>>

(* ... or wait_next_recv: a packet left by a receive that was dropped comes first, *)
KeptIgnored == FALSE    \* defective variant: it always reads the socket

Kept == recv_packet # 0

WaitKept ==
  /\ pc = "recv_raw" /\ Kept
  /\ Goto("pong")
  /\ UNCHANGED <<token, streamVars, beatVars, netVars, wakes, handed>>

(* else it reads frames until a text, a close frame or the end of the stream.      *)
ReadFrame ==
  /\ pc = "recv_raw" /\ ~Kept /\ wire # <<>>
  /\ wire' = Tail(wire)
  /\ LET f == Head(wire)
     IN  /\ recv_packet' = IF f.kind = "text" THEN f.n ELSE 0
         /\ recv_hb' = (f.kind = "text" /\ f.hb)
         /\ recv_ping' = (recv_ping \/ f.kind = "ping")
         /\ Goto(IF f.kind \in {"text", "close"} THEN "pong" ELSE "recv_raw")
  /\ UNCHANGED <<token, beatVars, net, owed, sent, wakes, handed>>

ReadEnd ==
  /\ pc = "recv_raw" /\ ~Kept /\ wire = <<>> /\ net \in {"ended", "broken"}
  /\ IF net = "ended" THEN Goto("pong") ELSE Fail("error")
  /\ UNCHANGED <<token, streamVars, beatVars, netVars, wakes, handed>>

(* Nothing is ready: the task yields.                                              *)
Yield ==
  /\ pc = "recv_raw" /\ ~token /\ ~Kept /\ wire = <<>> /\ net \in {"up", "dead"}
  /\ Goto("waiting")
  /\ UNCHANGED <<token, streamVars, beatVars, netVars, wakes, handed>>

Ready == token \/ wire # <<>> \/ net \notin {"up", "dead"}

PollAgain ==
  /\ \/ pc = "waiting" /\ Ready /\ Goto("recv_raw")
     \/ pc = "pong_wait" /\ net # "dead" /\ Goto("take")
  /\ UNCHANGED <<token, streamVars, beatVars, netVars, wakes, handed>>

(* recv_next_packet: a ping is answered, which may fail, or have to wait ...       *)
PongEarlyTake ==    \* defective variant: the packet is taken before the pong is sent
  /\ pc = "pong"
  /\ recv_ping' = FALSE
  /\ \/ Goto("take") /\ UNCHANGED recv_packet
     \/ recv_ping /\ (Goto("pong_wait") \/ Fail("error")) /\ recv_packet' = 0
  /\ UNCHANGED <<token, recv_hb, beatVars, netVars, wakes, handed>>

Pong ==
  /\ pc = "pong"
  /\ recv_ping' = FALSE
  /\ \/ Goto("take")
     \/ recv_ping /\ (Goto("pong_wait") \/ Fail("error"))
  /\ UNCHANGED <<token, recv_packet, recv_hb, beatVars, netVars, wakes, handed>>

(* ... and the packet is taken; none, and recv_raw goes round.                     *)
TakeNone ==
  /\ pc = "take" /\ recv_packet = 0
  /\ Goto("recv_raw")
  /\ UNCHANGED <<token, streamVars, beatVars, netVars, wakes, handed>>

(* phase_work handles it, whatever it is; on_recv, then the response to a          *)
(* heartbeat ends the wait for it.  A packet that cannot be parsed or handled      *)
(* ends phase_work.                                                                *)
TakeKeepsPending ==    \* defective variant: only an ack above the pending number ends the wait
  /\ pc = "take" /\ recv_packet # 0
  /\ recv_packet' = 0 /\ recv_hb' = FALSE /\ handed' = recv_packet
  /\ rx_age' = 0
  /\ Goto("process") \/ Fail("error")
  /\ UNCHANGED <<token, recv_ping, pending, hb_age, netVars, wakes>>

Take ==
  /\ pc = "take" /\ recv_packet # 0
  /\ recv_packet' = 0 /\ recv_hb' = FALSE /\ handed' = recv_packet
  /\ rx_age' = 0
  /\ \/ Goto("process") /\ pending' = (pending /\ ~recv_hb)
     \/ Fail("error") /\ UNCHANGED pending
  /\ UNCHANGED <<token, recv_ping, hb_age, netVars, wakes>>

(* The timer branch is ready once last_hb_at + interval is past; it drops the      *)
(* receive wherever that waits.  handle_heartbeat_tick: too long a silence is an   *)
(* error, else a heartbeat is sent unless one is pending.                          *)
TimerPolled == pc \in {"select", "waiting", "pong_wait"} /\ hb_age >= Interval

SendHeartbeat ==
  /\ pending' = TRUE /\ hb_age' = 0
  /\ \/ Goto("process") /\ net \in {"up", "dead"}
          /\ owed' = IF net = "up" THEN 0 ELSE owed
     \/ Fail("error") /\ UNCHANGED owed

TimerPendingFirst ==    \* defective variant: a pending heartbeat returns early
  /\ TimerPolled
  /\ \/ pending /\ Goto("process") /\ UNCHANGED <<pending, hb_age, owed>>
     \/ ~pending /\ rx_age >= Timeout /\ Fail("timeout") /\ UNCHANGED <<pending, hb_age, owed>>
     \/ ~pending /\ rx_age < Timeout /\ SendHeartbeat
  /\ UNCHANGED <<token, streamVars, rx_age, wire, net, sent, wakes, handed>>

Timer ==
  /\ TimerPolled
  /\ \/ rx_age >= Timeout /\ Fail("timeout") /\ UNCHANGED <<pending, hb_age, owed>>
     \/ rx_age < Timeout /\ pending /\ Goto("process") /\ UNCHANGED <<pending, hb_age, owed>>
     \/ rx_age < Timeout /\ ~pending /\ SendHeartbeat
  /\ UNCHANGED <<token, streamVars, rx_age, wire, net, sent, wakes, handed>>

-------------------------------------------------------------------------------
(* The application, the server, the network, and time.                             *)
Commit ==
  /\ pc # "left" /\ wakes < MaxWakes
  /\ token' = TRUE /\ wakes' = wakes + 1
  /\ UNCHANGED <<pc, cause, streamVars, beatVars, netVars, handed>>

Send(hb) ==
  /\ pc # "left" /\ net = "up" /\ Len(wire) < MaxWire
  /\ hb => owed # NotOwed
  /\ sent' = After(sent)
  /\ wire' = Append(wire, [kind |-> "text", n |-> sent', hb |-> hb])
  /\ owed' = IF hb THEN NotOwed ELSE owed
  /\ UNCHANGED <<taskVars, streamVars, beatVars, net, wakes, handed>>

SendControl ==
  /\ pc # "left" /\ net = "up" /\ Len(wire) < MaxWire
  /\ \E k \in {"ping", "other"} : wire' = Append(wire, [kind |-> k])
  /\ UNCHANGED <<taskVars, streamVars, beatVars, net, owed, sent, wakes, handed>>

Cut ==
  /\ pc # "left" /\ net = "up"
  /\ \/ net' \in {"dead", "broken", "ended"} /\ UNCHANGED wire
     \/ net' = "ended" /\ wire' = Append(wire, [kind |-> "close"])
  /\ owed' = NotOwed
  /\ UNCHANGED <<taskVars, streamVars, beatVars, sent, wakes, handed>>

Older(age, limit) == IF age < limit THEN age + 1 ELSE age

Idle == ~Ready /\ ~Kept

Tick ==
  /\ \/ pc = "waiting" /\ Idle /\ hb_age < Interval /\ UNCHANGED pc
     \/ pc = "pong_wait" /\ net # "up" /\ hb_age < Interval /\ UNCHANGED pc
     \/ pc = "process" /\ Idle /\ pending /\ hb_age >= Interval /\ pc' = "select"
  /\ owed = NotOwed \/ owed < Delay
  /\ rx_age' = Older(rx_age, Timeout)
  /\ hb_age' = Older(hb_age, Interval)
  /\ owed' = IF owed = NotOwed THEN owed ELSE owed + 1
  /\ UNCHANGED <<cause, token, streamVars, pending, wire, net, sent, wakes, handed>>

Left == pc = "left" /\ UNCHANGED vars

Receive == Wake \/ WaitKept \/ ReadFrame \/ ReadEnd \/ Yield
             \/ PollAgain \/ Pong \/ TakeNone \/ Take
Task == Process \/ PollRecv \/ Receive \/ Timer
Environment == Commit \/ (\E hb \in BOOLEAN : Send(hb)) \/ SendControl \/ Cut

Next == Task \/ Environment \/ Tick \/ Left

Spec == Init /\ [][Next]_vars

(* The task is polled; a select polls its ready branches in random order, so none   *)
(* that is polled again and again ready is passed over for ever; time goes on.      *)
Fairness == /\ WF_vars(Task)
            /\ SF_vars(PollRecv) /\ SF_vars(Timer)
            /\ SF_vars(WaitKept \/ ReadFrame) /\ SF_vars(Wake)
            /\ SF_vars(PollAgain) /\ SF_vars(Tick)

FairSpec == Spec /\ Fairness

-------------------------------------------------------------------------------
(* Properties.                                                                     *)

(* Where texts are: the last one handled, the one kept in the stream, those on the  *)
(* wire; and that neighbours follow each other up to the given last one.           *)
Places == {p \in -1..Len(wire) : \/ p = -1
                                 \/ p = 0 /\ Kept
                                 \/ p > 0 /\ wire[p].kind = "text"}

Texts == [p \in Places |-> IF p = -1 THEN handed
                           ELSE IF p = 0 THEN recv_packet ELSE wire[p].n]

GapFree(texts, last) ==
  LET places == DOMAIN texts
  IN  /\ \A p, q \in places :
           p < q /\ (\A r \in places : r <= p \/ q <= r) => texts[q] = After(texts[p])
      /\ \A p \in places : (\A r \in places : r <= p) => texts[p] = last

(* Dropping a receive that was under way, for the timer, loses no text and repeats  *)
(* none: what is kept in the stream and what is on the wire follow the last text    *)
(* handled, without a gap, up to the last one sent.                                 *)
NothingLost == GapFree(Texts, sent)

(* A server that is up and answers heartbeats in time is never timed out, however   *)
(* little else it has to say.                                                       *)
LiveNotTimedOut == cause = "timeout" => net # "up"

(* A connection that has gone silent without an error is given up.                  *)
DeadNoticed == net = "dead" ~> pc = "left"

(* A text that arrives is handled, unless the connection is given up first, however *)
(* the timer and the application's wake-ups fall.                                   *)
TextsHandled ==
  \A n \in 1..Circle :
    (\E i \in 1..Len(wire) : wire[i].kind = "text" /\ wire[i].n = n)
      ~> (handed = n \/ pc = "left")

(* client/defines.rs calls heartbeat_timeout the threshold of the heartbeat, beyond *)
(* which the connection counts as lost: so a connection that the server has closed  *)
(* must be given up too.                                                            *)
EndNoticed == net = "ended" ~> pc = "left"
=================================================================================
