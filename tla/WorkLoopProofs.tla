------------------------------ MODULE WorkLoopProofs ------------------------------
(* Proofs about WorkLoop, for any interval and timeout, any number of frames in     *)
(* flight and of wake-ups: no text is lost or repeated though receives are dropped,  *)
(* and a server that answers in time is not timed out.                              *)
EXTENDS WorkLoop, SequenceTheorems, TLAPS

Typed ==
  /\ pc \in {"process", "select", "recv_raw", "pong", "take", "waiting", "pong_wait",
             "left"}
  /\ recv_packet \in 0..Circle /\ sent \in 1..Circle /\ handed \in 1..Circle
  /\ wire \in Seq(Frames) /\ net \in {"up", "dead", "ended", "broken"}
  /\ recv_hb \in BOOLEAN /\ pending \in BOOLEAN
  /\ rx_age \in 0..Timeout /\ hb_age \in 0..Interval /\ owed \in 0..NotOwed

(* The constants, and the circle of the texts' numbers.                             *)
LEMMA Numbers ==
  /\ Interval \in Nat \ {0} /\ Timeout \in Nat \ {0} /\ MaxWire \in Nat \ {0}
  /\ Delay \in Nat /\ NotOwed \in Nat /\ Circle \in Nat \ {0}
  /\ \A n \in 1..Circle : After(n) \in 1..Circle
<1>1. /\ Interval \in Nat \ {0} /\ Timeout \in Nat \ {0} /\ MaxWire \in Nat \ {0}
      /\ Delay \in Nat
  BY LoopAssumption
<1>2. NotOwed \in Nat /\ Circle \in Nat \ {0}
  BY <1>1 DEF NotOwed, Circle
<1>3. ASSUME NEW n \in 1..Circle PROVE After(n) \in 1..Circle
  <2>1. n % Circle \in 0..(Circle - 1)
    BY <1>2
  <2>2. QED
    BY <1>2, <2>1 DEF After
<1>4. QED
  BY <1>1, <1>2, <1>3

(* The frames: a text carries a number, and what the server appends is a frame.      *)
LEMMA FrameKinds ==
  /\ \A f \in Frames : f.kind = "text" => f.n \in 1..Circle /\ f.hb \in BOOLEAN
  /\ \A k \in 1..Circle, b \in BOOLEAN : [kind |-> "text", n |-> k, hb |-> b] \in Frames
  /\ \A k \in {"ping", "other", "close"} : [kind |-> k] \in Frames
BY DEF Frames

(* What a step takes from the wire or puts on it.                                   *)
LEMMA WireHead ==
  ASSUME Typed, wire # <<>>
  PROVE  /\ Head(wire) \in Frames /\ Head(wire) = wire[1] /\ Tail(wire) \in Seq(Frames)
         /\ Len(wire) \in Nat \ {0} /\ Len(Tail(wire)) = Len(wire) - 1
         /\ \A i \in 1..Len(Tail(wire)) : Tail(wire)[i] = wire[i + 1]
BY HeadTailProperties, EmptySeq DEF Typed

LEMMA WireEnd ==
  ASSUME Typed, NEW f \in Frames
  PROVE  /\ Append(wire, f) \in Seq(Frames) /\ Len(wire) \in Nat
         /\ Len(Append(wire, f)) = Len(wire) + 1
         /\ \A i \in 1..Len(wire) : Append(wire, f)[i] = wire[i]
         /\ Append(wire, f)[Len(wire) + 1] = f
BY AppendProperties DEF Typed

LEMMA TypedInit == Init => Typed
<1> SUFFICES ASSUME Init PROVE Typed
  OBVIOUS
<1>1. <<>> \in Seq(Frames)
  OBVIOUS
<1>2. /\ 0 \in 0..Circle /\ Circle \in 1..Circle /\ 0 \in 0..Timeout /\ 0 \in 0..Interval
      /\ NotOwed \in 0..NotOwed
  BY Numbers
<1>3. QED
  BY <1>1, <1>2 DEF Init, Typed

LEMMA TypedStep == Typed /\ [Next]_vars => Typed'
<1> SUFFICES ASSUME Typed, [Next]_vars PROVE Typed'
  OBVIOUS
<1> USE DEF Goto, Fail, streamVars, beatVars, netVars, taskVars
<1>1. CASE Process \/ PollRecv \/ Wake \/ WaitKept \/ ReadEnd \/ Yield \/ PollAgain
  BY <1>1 DEF Process, PollRecv, Wake, WaitKept, ReadEnd, Yield, PollAgain, Typed
<1>2. CASE ReadFrame
  <2>1. Tail(wire) \in Seq(Frames) /\ Head(wire) \in Frames
    BY <1>2, WireHead DEF ReadFrame
  <2>2. recv_packet' \in 0..Circle /\ recv_hb' \in BOOLEAN
    BY <1>2, <2>1, Numbers, FrameKinds DEF ReadFrame
  <2>3. QED
    BY <1>2, <2>1, <2>2 DEF ReadFrame, Typed
<1>3. CASE Pong \/ TakeNone
  BY <1>3 DEF Pong, TakeNone, Typed
<1>4. CASE Take
  <2>1. recv_packet \in 1..Circle /\ 0 \in 0..Circle /\ 0 \in 0..Timeout
    BY <1>4, Numbers DEF Take, Typed
  <2>2. pending' \in BOOLEAN
    BY <1>4 DEF Take, Typed
  <2>3. QED
    BY <1>4, <2>1, <2>2 DEF Take, Typed
<1>5. CASE Timer
  <2>1. 0 \in 0..Interval /\ 0 \in 0..NotOwed
    BY Numbers
  <2>2. QED
    BY <1>5, <2>1 DEF Timer, SendHeartbeat, Typed
<1>6. CASE Commit \/ Left \/ UNCHANGED vars
  BY <1>6 DEF Commit, Left, vars, Typed
<1>7. CASE \E hb \in BOOLEAN : Send(hb)
  <2>1. PICK hb \in BOOLEAN : Send(hb)
    BY <1>7
  <2>2. sent' \in 1..Circle
    BY <2>1, Numbers DEF Send, Typed
  <2>3. wire' \in Seq(Frames)
    BY <2>1, <2>2, FrameKinds, WireEnd DEF Send
  <2>4. owed' \in 0..NotOwed
    BY <2>1, Numbers DEF Send, Typed
  <2>5. QED
    BY <2>1, <2>2, <2>3, <2>4 DEF Send, Typed
<1>8. CASE SendControl
  BY <1>8, FrameKinds, WireEnd DEF SendControl, Typed
<1>9. CASE Cut
  <2>1. [kind |-> "close"] \in Frames
    BY FrameKinds
  <2>2. wire' \in Seq(Frames)
    BY <1>9, <2>1, WireEnd DEF Cut, Typed
  <2>3. NotOwed \in 0..NotOwed
    BY Numbers
  <2>4. QED
    BY <1>9, <2>2, <2>3 DEF Cut, Typed
<1>10. CASE Tick
  <2>1. rx_age' \in 0..Timeout /\ hb_age' \in 0..Interval
    BY <1>10, Numbers DEF Tick, Older, Typed
  <2>2. owed' \in 0..NotOwed
    BY <1>10, Numbers DEF Tick, NotOwed, Typed
  <2>3. QED
    BY <1>10, <2>1, <2>2 DEF Tick, Typed
<1>11. QED
  BY <1>1, <1>2, <1>3, <1>4, <1>5, <1>6, <1>7, <1>8, <1>9, <1>10
     DEF Next, Task, Receive, Environment

-------------------------------------------------------------------------------
(* LiveNotTimedOut, for settings that leave a server its time: the interval is below *)
(* the timeout, and an answer comes within an interval, or within what the timeout   *)
(* leaves of it after one.  The silence is then accounted for: with no heartbeat     *)
(* pending it is no longer than the time since the last, and with one it is at most  *)
(* an interval longer than the server has had to answer, until the answer is on its  *)
(* way and time stands still for it.                                                *)
InTime == Interval < Timeout /\ (Delay < Interval \/ Interval + Delay < Timeout)

HbComing == \/ Kept /\ recv_hb
            \/ \E i \in 1..Len(wire) : wire[i].kind = "text" /\ wire[i].hb

Silence ==
  /\ ~pending => rx_age <= hb_age
  /\ pending => \/ owed # NotOwed /\ hb_age <= owed /\ rx_age <= Interval + owed
                \/ HbComing /\ hb_age <= Delay /\ rx_age <= Interval + Delay

AliveInv ==
  net = "up" => cause # "timeout" /\ (pc # "left" => Silence)

LEMMA AliveInit == Init => AliveInv
<1> SUFFICES ASSUME Init PROVE AliveInv
  OBVIOUS
<1>1. 0 <= 0
  OBVIOUS
<1>2. QED
  BY <1>1 DEF Init, AliveInv, Silence

(* The clocks and the wire untouched, the silence stays what it was.                *)
LEMMA SilenceStays ==
  ASSUME AliveInv, net' = "up" => net = "up", pc' # "left" => pc # "left",
         cause' = cause \/ cause' # "timeout",
         UNCHANGED <<pending, rx_age, hb_age, owed>>, HbComing => HbComing'
  PROVE  AliveInv'
BY DEF AliveInv, Silence

LEMMA AliveStep == InTime /\ Typed /\ AliveInv /\ [Next]_vars => AliveInv'
<1> SUFFICES ASSUME InTime, Typed, AliveInv, [Next]_vars PROVE AliveInv'
  OBVIOUS
<1> USE DEF Goto, Fail, streamVars, beatVars, netVars, taskVars
<1>1. /\ Interval \in Nat /\ Timeout \in Nat /\ Delay \in Nat /\ NotOwed = Delay + 1
      /\ rx_age \in Nat /\ hb_age \in Nat /\ owed \in Nat /\ owed <= NotOwed
      /\ hb_age <= Interval /\ rx_age <= Timeout /\ pending \in BOOLEAN
  BY Numbers DEF Typed, NotOwed
<1>2. CASE \/ Process \/ PollRecv \/ Wake \/ WaitKept \/ ReadEnd \/ Yield \/ PollAgain
           \/ TakeNone \/ Commit \/ Left \/ UNCHANGED vars
  <2>1. /\ UNCHANGED <<pending, rx_age, hb_age, owed, wire, recv_packet, recv_hb, net>>
        /\ pc' # "left" => pc # "left"
        /\ cause' = cause \/ cause' = "error"
    BY <1>2 DEF Process, PollRecv, Wake, WaitKept, ReadEnd, Yield, PollAgain, TakeNone,
                Commit, Left, vars
  <2>2. HbComing => HbComing'
    BY <2>1 DEF HbComing, Kept
  <2>3. QED
    BY <2>1, <2>2, SilenceStays
<1>3. CASE ReadFrame
  <2>1. /\ UNCHANGED <<pending, rx_age, hb_age, owed, net, cause>> /\ pc # "left"
        /\ ~Kept /\ wire # <<>> /\ wire' = Tail(wire)
        /\ recv_packet' = IF Head(wire).kind = "text" THEN Head(wire).n ELSE 0
        /\ recv_hb' = (Head(wire).kind = "text" /\ Head(wire).hb)
    BY <1>3 DEF ReadFrame
  <2>2. HbComing => HbComing'
    <3>1. SUFFICES ASSUME HbComing PROVE HbComing'
      OBVIOUS
    <3>2. PICK i \in 1..Len(wire) : wire[i].kind = "text" /\ wire[i].hb
      BY <2>1, <3>1 DEF HbComing
    <3>3. CASE i = 1
      <4>1. Head(wire).kind = "text" /\ Head(wire).hb /\ Head(wire).n \in 1..Circle
        BY <2>1, <3>2, <3>3, WireHead, FrameKinds
      <4>2. recv_packet' \in 1..Circle /\ recv_hb'
        BY <2>1, <4>1
      <4>3. QED
        BY <4>2, Numbers DEF HbComing, Kept
    <3>4. CASE i # 1
      <4>1. i - 1 \in 1..Len(Tail(wire)) /\ Tail(wire)[i - 1] = wire[i]
        BY <2>1, <3>4, WireHead
      <4>2. QED
        BY <2>1, <3>2, <4>1 DEF HbComing
    <3>5. QED
      BY <3>3, <3>4
  <2>3. QED
    BY <2>1, <2>2, SilenceStays
<1>4. CASE Pong
  <2>1. /\ UNCHANGED <<pending, rx_age, hb_age, owed, wire, recv_packet, recv_hb, net>>
        /\ pc # "left" /\ (cause' = cause \/ cause' = "error")
    BY <1>4 DEF Pong
  <2>2. HbComing => HbComing'
    BY <2>1 DEF HbComing, Kept
  <2>3. QED
    BY <2>1, <2>2, SilenceStays
<1>5. CASE Take
  <2>1. /\ rx_age' = 0 /\ UNCHANGED <<hb_age, owed, net, wire>> /\ pc # "left"
        /\ cause' = cause \/ cause' = "error"
        /\ pc' # "left" => pending' = (pending /\ ~recv_hb)
    BY <1>5 DEF Take
  <2>2. HbComing /\ ~recv_hb => HbComing'
    BY <2>1 DEF HbComing
  <2>3. 0 <= hb_age /\ 0 <= Interval + owed /\ 0 <= Interval + Delay
    BY <1>1
  <2>4. pc' # "left" /\ pending' => pending /\ ~recv_hb
    BY <2>1
  <2>5. net = "up" /\ pending /\ ~recv_hb =>
          \/ owed # NotOwed /\ hb_age <= owed
          \/ HbComing' /\ hb_age <= Delay
    BY <2>1, <2>2 DEF AliveInv, Silence
  <2>6. NotOwed' = NotOwed
    BY DEF NotOwed
  <2>7. net = "up" /\ pc' # "left" => Silence'
    BY <2>1, <2>3, <2>4, <2>5, <2>6 DEF Silence
  <2>8. QED
    BY <2>1, <2>7 DEF AliveInv
<1>6. CASE Timer
  <2>1. pc # "left" /\ hb_age >= Interval /\ net' = net /\ rx_age' = rx_age /\ wire' = wire
        /\ UNCHANGED <<recv_packet, recv_hb>>
    BY <1>6 DEF Timer, TimerPolled
  <2>2. net = "up" => rx_age < Timeout
    BY <1>1, <2>1 DEF AliveInv, Silence, InTime
  <2>3. CASE rx_age < Timeout /\ pending /\ Goto("process") /\ UNCHANGED <<pending, hb_age, owed>>
    <3>1. HbComing => HbComing'
      BY <2>1 DEF HbComing, Kept
    <3>2. QED
      BY <2>1, <2>3, <3>1, SilenceStays
  <2>4. CASE rx_age < Timeout /\ ~pending /\ SendHeartbeat
    <3>1. CASE pc' = "left"
      BY <2>1, <2>4, <3>1 DEF SendHeartbeat, AliveInv
    <3>2. CASE pc' # "left"
      <4>1. net = "up" => owed' = 0 /\ hb_age' = 0 /\ rx_age <= Interval /\ pending'
        BY <1>1, <2>1, <2>4, <3>2 DEF SendHeartbeat, AliveInv, Silence
      <4>2. cause' = cause
        BY <2>4, <3>2 DEF SendHeartbeat
      <4>3. 0 # NotOwed
        BY <1>1
      <4>4. QED
        BY <1>1, <2>1, <4>1, <4>2, <4>3 DEF AliveInv, Silence
    <3>3. QED
      BY <3>1, <3>2
  <2>5. CASE rx_age >= Timeout /\ Fail("timeout")
    BY <1>1, <2>1, <2>2, <2>5 DEF AliveInv
  <2>6. QED
    BY <1>6, <2>3, <2>4, <2>5 DEF Timer
<1>7. CASE \E hb \in BOOLEAN : Send(hb)
  <2>1. PICK hb \in BOOLEAN : Send(hb)
    BY <1>7
  <2>2. [kind |-> "text", n |-> sent', hb |-> hb] \in Frames
    BY <2>1, Numbers, FrameKinds DEF Send, Typed
  <2>3. PICK f \in Frames : wire' = Append(wire, f) /\ f.kind = "text" /\ f.hb = hb
    BY <2>1, <2>2 DEF Send
  <2>4. /\ pc # "left" /\ hb => owed # NotOwed
        /\ UNCHANGED <<pc, cause, recv_packet, recv_hb, pending, rx_age, hb_age, net>>
        /\ owed' = IF hb THEN NotOwed ELSE owed
        /\ Len(wire) \in Nat /\ Len(wire') = Len(wire) + 1 /\ wire'[Len(wire) + 1] = f
        /\ \A i \in 1..Len(wire) : wire'[i] = wire[i]
    BY <2>1, <2>3, WireEnd DEF Send
  <2>5. HbComing => HbComing'
    <3>1. \A i \in 1..Len(wire) : i \in 1..Len(wire') /\ wire'[i] = wire[i]
      BY <2>4
    <3>2. QED
      BY <2>4, <3>1 DEF HbComing, Kept
  <2>6. hb => HbComing'
    <3>1. Len(wire') \in 1..Len(wire') /\ wire'[Len(wire')] = f
      BY <2>4
    <3>2. QED
      BY <2>3, <3>1 DEF HbComing
  <2>7. CASE hb
    BY <1>1, <2>4, <2>5, <2>6, <2>7 DEF AliveInv, Silence
  <2>8. CASE ~hb
    BY <2>4, <2>5, <2>8, SilenceStays
  <2>9. QED
    BY <2>7, <2>8
<1>8. CASE SendControl
  <2>1. /\ UNCHANGED <<pc, cause, recv_packet, recv_hb, pending, rx_age, hb_age, net, owed>>
        /\ \E g \in Frames : wire' = Append(wire, g)
    BY <1>8, FrameKinds DEF SendControl
  <2>2. \A i \in 1..Len(wire) : i \in 1..Len(wire') /\ wire'[i] = wire[i]
    BY <2>1, WireEnd
  <2>3. HbComing => HbComing'
    BY <2>1, <2>2 DEF HbComing, Kept
  <2>4. QED
    BY <2>1, <2>3, SilenceStays
<1>9. CASE Cut
  BY <1>9 DEF Cut, AliveInv
<1>10. CASE Tick
  <2>1. /\ UNCHANGED <<cause, recv_packet, recv_hb, pending, wire, net>> /\ pc # "left"
        /\ owed = NotOwed \/ owed < Delay
        /\ rx_age' = IF rx_age < Timeout THEN rx_age + 1 ELSE rx_age
        /\ hb_age' = IF hb_age < Interval THEN hb_age + 1 ELSE hb_age
        /\ owed' = IF owed = NotOwed THEN owed ELSE owed + 1
    BY <1>10 DEF Tick, Older
  <2>2. net = "up" => Idle /\ (hb_age < Interval \/ pending)
    BY <1>10 DEF Tick
  <2>3. Idle => ~HbComing
    <3>1. wire = <<>> => Len(wire) = 0
      OBVIOUS
    <3>2. QED
      BY <3>1 DEF Idle, Ready, HbComing
  <2>4. net = "up" => Silence'
    <3>1. SUFFICES ASSUME net = "up" PROVE Silence'
      OBVIOUS
    <3>2. Silence
      BY <2>1, <3>1 DEF AliveInv
    <3>3. CASE pending
      <4>1. owed # NotOwed /\ hb_age <= owed /\ rx_age <= Interval + owed
        BY <2>2, <2>3, <3>1, <3>2, <3>3 DEF Silence
      <4>2. owed' # NotOwed /\ hb_age' <= owed' /\ rx_age' <= Interval + owed'
        BY <1>1, <2>1, <4>1
      <4>3. QED
        BY <2>1, <3>3, <4>2 DEF Silence
    <3>4. CASE ~pending
      BY <1>1, <2>1, <2>2, <3>1, <3>2, <3>4 DEF Silence
    <3>5. QED
      BY <3>3, <3>4
  <2>5. QED
    BY <2>1, <2>4 DEF AliveInv
<1>11. QED
  BY <1>2, <1>3, <1>4, <1>5, <1>6, <1>7, <1>8, <1>9, <1>10
     DEF Next, Task, Receive, Environment

(* A server that is up and answers each heartbeat within Delay is never timed out,   *)
(* however the timer, the frames and the wake-ups fall, if the settings leave it     *)
(* that time: as the defaults do, 10 s and 30 s, for answers within 20 s.            *)
THEOREM LiveKept == ASSUME InTime PROVE Spec => []LiveNotTimedOut
<1>1. Init => Typed /\ AliveInv
  BY TypedInit, AliveInit
<1>2. Typed /\ AliveInv /\ [Next]_vars => (Typed /\ AliveInv)'
  BY TypedStep, AliveStep
<1>3. AliveInv => LiveNotTimedOut
  BY DEF AliveInv, LiveNotTimedOut
<1>4. QED
  BY <1>1, <1>2, <1>3, PTL DEF Spec

-------------------------------------------------------------------------------
(* No gap.  Every step that moves texts keeps them in order and drops none but the   *)
(* last handled, when the next is handled in its place: the places after the step    *)
(* are places before it, shifted.                                                   *)
LEMMA GapFreeMoves ==
  ASSUME NEW texts, NEW last, GapFree(texts, last), DOMAIN texts \subseteq Int,
         NEW moved, DOMAIN moved \subseteq Int,
         NEW from \in [DOMAIN moved -> DOMAIN texts],
         \A p \in DOMAIN moved : moved[p] = texts[from[p]],
         \A p, q \in DOMAIN moved : p < q => from[p] < from[q],
         \A p \in DOMAIN texts : \/ \E q \in DOMAIN moved : from[q] = p
                                 \/ \A q \in DOMAIN moved : p < from[q]
  PROVE  GapFree(moved, last)
<1> DEFINE P == DOMAIN texts
           Q == DOMAIN moved
<1>1. /\ P \subseteq Int /\ Q \subseteq Int /\ from \in [Q -> P]
      /\ \A p, q \in Q : p < q => from[p] < from[q]
      /\ \A p \in P : (\E q \in Q : from[q] = p) \/ (\A q \in Q : p < from[q])
      /\ \A p \in Q : moved[p] = texts[from[p]]
  OBVIOUS
<1>2. /\ \A p, q \in P : p < q /\ (\A r \in P : r <= p \/ q <= r)
                           => texts[q] = After(texts[p])
      /\ \A p \in P : (\A r \in P : r <= p) => texts[p] = last
  BY DEF GapFree
<1> HIDE DEF P, Q
<1>3. \A p, q \in Q : p <= q => from[p] <= from[q]
  <2>1. ASSUME NEW p \in Q, NEW q \in Q, p <= q PROVE from[p] <= from[q]
    <3>1. p \in Int /\ q \in Int /\ from[p] \in Int /\ from[q] \in Int
      BY <1>1
    <3>2. p = q \/ p < q
      BY <2>1, <3>1
    <3>3. QED
      BY <1>1, <3>1, <3>2
  <2>2. QED
    BY <2>1
<1>4. ASSUME NEW p \in Q, NEW q \in Q, p < q, \A r \in Q : r <= p \/ q <= r
      PROVE  moved[q] = After(moved[p])
  <2>1. from[p] \in P /\ from[q] \in P /\ from[p] < from[q]
    BY <1>1, <1>4
  <2>2. ASSUME NEW r \in P PROVE r <= from[p] \/ from[q] <= r
    <3>1. CASE \E t \in Q : from[t] = r
      BY <1>3, <1>4, <3>1
    <3>2. CASE r < from[p]
      BY <1>1, <2>1, <3>2
    <3>3. QED
      BY <1>1, <3>1, <3>2
  <2>3. QED
    BY <1>1, <1>2, <2>1, <2>2
<1>5. ASSUME NEW p \in Q, \A r \in Q : r <= p
      PROVE  moved[p] = last
  <2>1. ASSUME NEW r \in P PROVE r <= from[p]
    <3>1. CASE \E t \in Q : from[t] = r
      BY <1>3, <1>5, <3>1
    <3>2. CASE r < from[p]
      BY <1>1, <3>2
    <3>3. QED
      BY <1>1, <3>1, <3>2
  <2>2. QED
    BY <1>1, <1>2, <2>1
<1>6. QED
  BY <1>4, <1>5 DEF GapFree, Q

LEMMA PlacesShape ==
  ASSUME Typed
  PROVE  /\ DOMAIN Texts = Places /\ Places \subseteq Int /\ Len(wire) \in Nat
         /\ \A p \in Places : p >= -1 /\ p <= Len(wire)
         /\ -1 \in Places /\ Texts[-1] = handed
         /\ 0 \in Places <=> recv_packet # 0
         /\ 0 \in Places => Texts[0] = recv_packet
         /\ \A p \in 1..Len(wire) : p \in Places <=> wire[p].kind = "text"
         /\ \A p \in Places : p > 0 => p \in 1..Len(wire) /\ Texts[p] = wire[p].n
         /\ \A p \in Places : p = -1 \/ p = 0 \/ p > 0
<1>1. Len(wire) \in Nat
  BY DEF Typed
<1>2. QED
  BY <1>1 DEF Texts, Places, Kept

LEMMA LostInit == Init => NothingLost
<1> SUFFICES ASSUME Init PROVE NothingLost
  OBVIOUS
<1>1. Places = {-1} /\ Texts[-1] = handed /\ DOMAIN Texts = Places
  BY DEF Init, Places, Texts, Kept
<1>2. QED
  BY <1>1 DEF NothingLost, GapFree, Init

(* Steps that leave the texts where they are.                                       *)
LEMMA TextsStay ==
  ASSUME NothingLost, UNCHANGED <<wire, recv_packet, handed, sent>>
  PROVE  NothingLost'
<1>1. Texts' = Texts
  BY DEF Texts, Places, Kept
<1>2. QED
  BY <1>1 DEF NothingLost, GapFree, After

(* The step that reads a frame: what is on the wire comes one place nearer.         *)
LEMMA LostRead ==
  ASSUME Typed, Typed', NothingLost, ReadFrame
  PROVE  NothingLost'
<1> DEFINE from == [p \in Places' |-> IF p = -1 THEN -1 ELSE p + 1]
<1>1. /\ recv_packet = 0 /\ wire # <<>> /\ wire' = Tail(wire)
      /\ recv_packet' = IF Head(wire).kind = "text" THEN Head(wire).n ELSE 0
      /\ handed' = handed /\ sent' = sent
  BY DEF ReadFrame, Kept
<1>2. /\ Len(wire) \in Nat \ {0} /\ Len(wire') = Len(wire) - 1 /\ Head(wire) = wire[1]
      /\ \A i \in 1..Len(wire') : wire'[i] = wire[i + 1]
      /\ Head(wire).kind = "text" => Head(wire).n \in 1..Circle
  BY <1>1, WireHead, FrameKinds
<1>3. recv_packet' # 0 <=> wire[1].kind = "text"
  BY <1>1, <1>2, Numbers
<1>4. /\ DOMAIN Texts' = Places' /\ Places' \subseteq Int
      /\ \A p \in Places' : p >= -1 /\ p <= Len(wire')
      /\ Texts'[-1] = handed'
      /\ 0 \in Places' <=> recv_packet' # 0
      /\ 0 \in Places' => Texts'[0] = recv_packet'
      /\ \A p \in 1..Len(wire') : p \in Places' <=> wire'[p].kind = "text"
      /\ \A p \in Places' : p > 0 => p \in 1..Len(wire') /\ Texts'[p] = wire'[p].n
      /\ \A p \in Places' : p = -1 \/ p = 0 \/ p > 0
      /\ -1 \in Places'
  BY <1>1, <1>2 DEF Texts, Places, Kept
<1>5. ASSUME NEW p \in Places' PROVE from[p] \in Places /\ Texts'[p] = Texts[from[p]]
  <2>1. CASE p = -1
    BY <1>1, <1>4, <2>1, PlacesShape
  <2>2. CASE p = 0
    <3>1. wire[1].kind = "text" /\ 1 \in 1..Len(wire) /\ from[0] = 1
      BY <1>2, <1>3, <1>4, <2>2
    <3>2. QED
      BY <1>1, <1>2, <1>4, <2>2, <3>1, PlacesShape
  <2>3. CASE p > 0
    <3>1. p \in 1..Len(wire') /\ p + 1 \in 1..Len(wire) /\ from[p] = p + 1
      BY <1>2, <1>4, <2>3
    <3>2. p + 1 \in Places /\ p + 1 > 0
      BY <1>2, <1>4, <3>1, PlacesShape
    <3>3. Texts'[p] = wire'[p].n /\ Texts[p + 1] = wire[p + 1].n
      BY <1>4, <2>3, <3>2, PlacesShape
    <3>4. QED
      BY <1>2, <3>1, <3>2, <3>3
  <2>4. QED
    BY <1>4, <2>1, <2>2, <2>3
<1>6. \A p, q \in Places' : p < q => from[p] < from[q]
  BY <1>4
<1>7. ASSUME NEW p \in Places PROVE \E q \in Places' : from[q] = p
  <2>1. CASE p = -1
    BY <1>4, <2>1
  <2>2. CASE p = 1
    <3>1. 0 \in Places'
      BY <1>2, <1>3, <1>4, <2>2, PlacesShape
    <3>2. QED
      BY <2>2, <3>1
  <2>3. CASE p > 1
    <3>1. p \in 1..Len(wire) /\ wire[p].kind = "text" /\ p \in Int
      BY <2>3, PlacesShape
    <3>2. p - 1 \in 1..Len(wire') /\ (p - 1) + 1 = p /\ p - 1 # -1
      BY <1>2, <2>3, <3>1
    <3>3. p - 1 \in Places'
      BY <1>2, <1>4, <3>1, <3>2
    <3>4. QED
      BY <3>2, <3>3
  <2>4. p # 0
    BY <1>1, PlacesShape
  <2>5. QED
    BY <2>1, <2>2, <2>3, <2>4, PlacesShape
<1>8. GapFree(Texts', sent)
  <2>1. GapFree(Texts, sent) /\ DOMAIN Texts \subseteq Int /\ DOMAIN Texts = Places
    BY PlacesShape DEF NothingLost
  <2>2. from \in [DOMAIN Texts' -> DOMAIN Texts]
    BY <1>4, <1>5, <2>1
  <2>3. PICK texts, moved, g : texts = Texts /\ moved = Texts' /\ g = from
    OBVIOUS
  <2> HIDE DEF from
  <2>4. /\ GapFree(texts, sent) /\ DOMAIN texts \subseteq Int
        /\ DOMAIN moved \subseteq Int /\ g \in [DOMAIN moved -> DOMAIN texts]
        /\ \A p \in DOMAIN moved : moved[p] = texts[g[p]]
        /\ \A p, q \in DOMAIN moved : p < q => g[p] < g[q]
        /\ \A p \in DOMAIN texts : \E q \in DOMAIN moved : g[q] = p
    BY <1>4, <1>5, <1>6, <1>7, <2>1, <2>2, <2>3
  <2>5. GapFree(moved, sent)
    BY <2>4, GapFreeMoves
  <2>6. QED
    BY <2>3, <2>5
<1>9. QED
  BY <1>1, <1>8 DEF NothingLost

(* The step that hands the kept text over: the place of the last one handled is its  *)
(* own from now on.                                                                 *)
LEMMA LostTake ==
  ASSUME Typed, NothingLost, Take
  PROVE  NothingLost'
<1> DEFINE from == [p \in Places' |-> IF p = -1 THEN 0 ELSE p]
<1>1. /\ recv_packet # 0 /\ recv_packet' = 0 /\ handed' = recv_packet
      /\ UNCHANGED <<wire, sent>>
  BY DEF Take, netVars
<1>2. /\ DOMAIN Texts' = Places' /\ Places' \subseteq Int
      /\ \A p \in Places' : p = -1 \/ (p > 0 /\ p \in Places)
      /\ Texts'[-1] = recv_packet
      /\ \A p \in Places' : p > 0 => Texts'[p] = wire[p].n
      /\ \A p \in Places : p > 0 => p \in Places'
      /\ -1 \in Places'
  BY <1>1 DEF Texts, Places, Kept, Typed
<1>3. /\ 0 \in Places /\ Texts[0] = recv_packet
      /\ \A p \in Places : p > 0 => Texts[p] = wire[p].n
      /\ \A p \in Places : p = -1 \/ p = 0 \/ p > 0
  BY <1>1, PlacesShape
<1>4. \A p \in Places' : from[p] \in Places /\ Texts'[p] = Texts[from[p]]
  BY <1>2, <1>3
<1>5. \A p, q \in Places' : p < q => from[p] < from[q]
  BY <1>2
<1>6. \A p \in Places : \/ \E q \in Places' : from[q] = p
                        \/ \A q \in Places' : p < from[q]
  <2>1. \A q \in Places' : -1 < from[q]
    BY <1>2
  <2>2. from[-1] = 0
    BY <1>2
  <2>3. \A p \in Places : p > 0 => from[p] = p /\ p \in Places'
    BY <1>2
  <2> HIDE DEF from
  <2>4. ASSUME NEW p \in Places
        PROVE  (\E q \in Places' : from[q] = p) \/ (\A q \in Places' : p < from[q])
    <3>1. CASE p = -1
      BY <2>1, <3>1
    <3>2. CASE p = 0
      <4>1. -1 \in Places' /\ from[-1] = p
        BY <1>2, <2>2, <3>2
      <4>2. QED
        BY <4>1
    <3>3. CASE p > 0
      BY <2>3, <3>3
    <3>4. QED
      BY <1>3, <3>1, <3>2, <3>3
  <2>5. QED
    BY <2>4
<1>7. PICK texts, moved, g : texts = Texts /\ moved = Texts' /\ g = from
  OBVIOUS
<1>8. /\ GapFree(texts, sent) /\ DOMAIN texts \subseteq Int /\ DOMAIN texts = Places
  BY <1>7, PlacesShape DEF NothingLost
<1>9. g \in [DOMAIN moved -> DOMAIN texts]
  BY <1>2, <1>4, <1>7, <1>8
<1> HIDE DEF from
<1>10. /\ DOMAIN moved \subseteq Int
       /\ \A p \in DOMAIN moved : moved[p] = texts[g[p]]
       /\ \A p, q \in DOMAIN moved : p < q => g[p] < g[q]
       /\ \A p \in DOMAIN texts : \/ \E q \in DOMAIN moved : g[q] = p
                                  \/ \A q \in DOMAIN moved : p < g[q]
  BY <1>2, <1>4, <1>5, <1>6, <1>7, <1>8
<1>11. GapFree(moved, sent)
  BY <1>8, <1>9, <1>10, GapFreeMoves
<1>12. QED
  BY <1>1, <1>7, <1>11 DEF NothingLost

(* Frames that are no texts change nothing.                                         *)
LEMMA LostControl ==
  ASSUME Typed, NothingLost, NEW f \in Frames, f.kind # "text",
         wire' = Append(wire, f), UNCHANGED <<recv_packet, handed, sent>>
  PROVE  NothingLost'
<1>1. /\ Len(wire) \in Nat /\ Len(wire') = Len(wire) + 1 /\ wire'[Len(wire) + 1] = f
      /\ \A i \in 1..Len(wire) : wire'[i] = wire[i]
  BY WireEnd
<1>2. Places' = Places
  <2>1. \A p \in Int : p \in -1..Len(wire') <=> p \in -1..Len(wire) \/ p = Len(wire) + 1
    BY <1>1
  <2>2. \A p \in Int : p \in -1..Len(wire) /\ p > 0 => wire'[p] = wire[p]
    BY <1>1
  <2>3. Len(wire) + 1 > 0
    BY <1>1
  <2>4. QED
    BY <1>1, <2>1, <2>2, <2>3 DEF Places, Kept
<1>3. \A p \in Places : p = -1 \/ p = 0 \/ p \in 1..Len(wire)
  BY <1>1, PlacesShape
<1>4. Texts' = Texts
  BY <1>1, <1>2, <1>3 DEF Texts
<1>5. QED
  BY <1>4 DEF NothingLost, GapFree, After

(* A new text follows the last one sent.                                            *)
LEMMA LostSend ==
  ASSUME Typed, NothingLost, NEW f \in Frames, f.kind = "text", f.n = sent',
         sent' = After(sent), wire' = Append(wire, f), UNCHANGED <<recv_packet, handed>>
  PROVE  NothingLost'
<1>1. /\ Len(wire) \in Nat /\ Len(wire') = Len(wire) + 1 /\ wire'[Len(wire) + 1] = f
      /\ \A i \in 1..Len(wire) : wire'[i] = wire[i]
  BY WireEnd
<1> DEFINE new == Len(wire) + 1
<1>2. Places' = Places \cup {new}
  <2>1. \A p \in Int : p \in -1..Len(wire') <=> p \in -1..Len(wire) \/ p = new
    BY <1>1
  <2>2. \A p \in Int : p \in -1..Len(wire) /\ p > 0 => wire'[p] = wire[p]
    BY <1>1
  <2>3. new > 0 /\ new # -1 /\ new \in Int
    BY <1>1
  <2>4. QED
    BY <1>1, <2>1, <2>2, <2>3 DEF Places, Kept
<1>3. \A p \in Places : p \in Int /\ p < new /\ (p = -1 \/ p = 0 \/ p \in 1..Len(wire))
  BY <1>1, PlacesShape
<1>4. DOMAIN Texts' = Places' /\ Texts'[new] = After(sent)
      /\ \A p \in Places : Texts'[p] = Texts[p]
  <2>1. new # -1 /\ new # 0
    BY <1>1
  <2>2. QED
    BY <1>1, <1>2, <1>3, <2>1 DEF Texts
<1>5. /\ \A p, q \in Places : p < q /\ (\A r \in Places : r <= p \/ q <= r)
                               => Texts[q] = After(Texts[p])
      /\ \A p \in Places : (\A r \in Places : r <= p) => Texts[p] = sent
  BY PlacesShape DEF NothingLost, GapFree
<1>6. new \in Int
  BY <1>1
<1> HIDE DEF new
<1>7. ASSUME NEW p \in Places', NEW q \in Places', p < q,
             \A r \in Places' : r <= p \/ q <= r
      PROVE  Texts'[q] = After(Texts'[p])
  <2>1. CASE q = new
    <3>1. p \in Places
      BY <1>2, <1>6, <1>7, <2>1
    <3>2. \A r \in Places : r <= p
      <4>1. \A r \in Places : ~(new <= r)
        BY <1>3, <1>6
      <4>2. QED
        BY <1>2, <1>7, <2>1, <4>1
    <3>3. QED
      BY <1>4, <1>5, <2>1, <3>1, <3>2
  <2>2. CASE q # new
    <3>1. q \in Places /\ p \in Places
      BY <1>2, <1>3, <1>6, <1>7, <2>2
    <3>2. QED
      BY <1>2, <1>4, <1>5, <1>7, <3>1
  <2>3. QED
    BY <2>1, <2>2
<1>8. ASSUME NEW p \in Places', \A r \in Places' : r <= p
      PROVE  Texts'[p] = sent'
  <2>1. p = new
    <3>1. new <= p
      BY <1>2, <1>8
    <3>2. \A r \in Places : ~(new <= r)
      BY <1>3, <1>6
    <3>3. QED
      BY <1>2, <3>1, <3>2
  <2>2. QED
    BY <1>4, <2>1
<1>9. \A n : After(n)' = After(n)
  BY DEF After, Circle
<1>10. QED
  BY <1>4, <1>7, <1>8, <1>9 DEF NothingLost, GapFree

LEMMA LostStep == Typed /\ NothingLost /\ [Next]_vars => NothingLost'
<1> SUFFICES ASSUME Typed, NothingLost, [Next]_vars PROVE NothingLost'
  OBVIOUS
<1> USE DEF streamVars, netVars
<1>1. CASE \/ Process \/ PollRecv \/ Wake \/ WaitKept \/ ReadEnd \/ Yield \/ PollAgain
           \/ Pong \/ TakeNone \/ Commit \/ Left \/ Tick \/ Timer \/ UNCHANGED vars
  <2>1. UNCHANGED <<wire, recv_packet, handed, sent>>
    BY <1>1 DEF Process, PollRecv, Wake, WaitKept, ReadEnd, Yield, PollAgain, Pong,
                TakeNone, Commit, Left, Tick, Timer, vars
  <2>2. QED
    BY <2>1, TextsStay
<1>2. CASE ReadFrame
  BY <1>2, TypedStep, LostRead
<1>3. CASE Take
  BY <1>3, LostTake
<1>4. CASE \E hb \in BOOLEAN : Send(hb)
  <2>1. PICK hb \in BOOLEAN : Send(hb)
    BY <1>4
  <2>2. [kind |-> "text", n |-> sent', hb |-> hb] \in Frames
    BY <2>1, Numbers, FrameKinds DEF Send, Typed
  <2>3. PICK f \in Frames : wire' = Append(wire, f) /\ f.kind = "text" /\ f.n = sent'
    BY <2>1, <2>2 DEF Send
  <2>4. sent' = After(sent) /\ UNCHANGED <<recv_packet, handed>>
    BY <2>1 DEF Send
  <2>5. QED
    BY <2>3, <2>4, LostSend
<1>5. CASE SendControl \/ Cut
  <2>1. CASE UNCHANGED <<wire, recv_packet, handed, sent>>
    BY <2>1, TextsStay
  <2>2. CASE wire' # wire
    <3>1. \A k \in {"ping", "other", "close"} : [kind |-> k].kind # "text"
      OBVIOUS
    <3>2. PICK f \in Frames : wire' = Append(wire, f) /\ f.kind # "text"
      BY <1>5, <2>2, <3>1, FrameKinds DEF SendControl, Cut
    <3>3. UNCHANGED <<recv_packet, handed, sent>>
      BY <1>5 DEF SendControl, Cut
    <3>4. QED
      BY <3>2, <3>3, LostControl
  <2>3. QED
    BY <1>5, <2>1, <2>2 DEF SendControl, Cut
<1>6. QED
  BY <1>1, <1>2, <1>3, <1>4, <1>5 DEF Next, Task, Receive, Environment

(* No text is lost and none handed over twice, wherever the timer drops a receive,   *)
(* for any settings and any number of frames in flight.                             *)
THEOREM TextsKept == Spec => []NothingLost
<1>1. Init => Typed /\ NothingLost
  BY TypedInit, LostInit
<1>2. Typed /\ NothingLost /\ [Next]_vars => (Typed /\ NothingLost)'
  BY TypedStep, LostStep
<1>3. QED
  BY <1>1, <1>2, PTL DEF Spec
===================================================================================
