---------------------------- MODULE ConversionsProofs -----------------------------
(* Of the machines that MCConversions runs: what the application is told by Calls   *)
(* is what the server did, for any operations, pushes and configurations and        *)
(* whatever Encode and Decode do, as long as each side reads what the other meant;  *)
(* for a text and a buffer of any size, what FmtWriter gives the formatter is the   *)
(* text, in whole characters, and no write goes round without progress.             *)
EXTENDS Calls, FmtWriter, FiniteSetTheorems, SequenceTheorems, TLAPS

-------------------------------------------------------------------------------
(* Calls.                                                                           *)

Kinds == {"CreateX", "BEnd", "ConnX", "Pub", "UPub", "Mute", "Sub", "USub", "Close"}

(* A request in memory: one variant of the enum, and what its resolver captured is  *)
(* what it asks for.                                                                *)
OneKind(s, tag) == tag \in Kinds /\ DOMAIN s.msg = {"typ"} /\ DOMAIN s.msg.typ = {tag}

Captured(h, s) ==
  /\ OneKind(s, h.kind)
  /\ h.kind = "CreateX" => /\ "dir" \in DOMAIN s.msg.typ[h.kind]
                           /\ s.msg.typ[h.kind].dir = h.has.dir
  /\ h.kind = "Sub" => /\ s.msg.typ[h.kind].producer_id = h.has.producer_id
                       /\ s.msg.typ[h.kind].stream_id = h.has.stream_id
                       /\ s.msg.typ[h.kind].xid = h.has.x_id
  /\ h.kind \notin {"CreateX", "BEnd", "Close"} => h.has.call = s.call

Tag(s) == CHOOSE t \in DOMAIN s.msg.typ : TRUE

LEMMA TagIs ==
  ASSUME NEW s, NEW t, OneKind(s, t)
  PROVE  Tag(s) = t
BY DEF OneKind, Tag

LEMMA PutIs ==
  ASSUME NEW f, NEW k, NEW v
  PROVE  /\ DOMAIN Put(f, k, v) = DOMAIN f \cup {k}
         /\ Put(f, k, v)[k] = v
         /\ \A x \in DOMAIN f : x # k => Put(f, k, v)[x] = f[x]
BY DEF Put

LEMMA VariantIs ==
  ASSUME NEW tag, NEW v
  PROVE  DOMAIN Variant(tag, v) = {tag} /\ Variant(tag, v)[tag] = v
BY DEF Variant

LEMMA MessageIs ==
  ASSUME NEW tag \in Kinds, NEW type, NEW body, NEW captured, NEW call
  PROVE  LET req == Req(tag, type, body, captured)
             s   == [msg |-> Message(req), call |-> call]
         IN  /\ OneKind(s, tag) /\ s.msg.typ[tag] = body /\ s.call = call
             /\ Resolver(req).kind = tag /\ Resolver(req).has = captured
<1>1. Message(Req(tag, type, body, captured)) = [typ |-> Variant(tag, body)]
  BY DEF Message, Req
<1>2. Resolver(Req(tag, type, body, captured)) = [kind |-> tag, has |-> captured]
  BY DEF Resolver, Req
<1> DEFINE m == [msg |-> [typ |-> Variant(tag, body)], call |-> call]
<1>3. m.msg.typ = Variant(tag, body) /\ DOMAIN m.msg = {"typ"} /\ m.call = call
  OBVIOUS
<1>4. OneKind(m, tag) /\ m.msg.typ[tag] = body
  <2> HIDE DEF m
  <2> QED  BY <1>3, VariantIs DEF OneKind
<1>5. QED
  BY <1>1, <1>2, <1>3, <1>4

LEMMA CallCaptured ==
  ASSUME NEW tag \in Kinds \ {"CreateX", "Sub"}, NEW type, NEW body, NEW id
  PROVE  LET req == Req(tag, type, body, [call |-> id])
         IN  Captured(Resolver(req), [msg |-> Message(req), call |-> id])
<1>1. tag \in Kinds /\ tag # "CreateX" /\ tag # "Sub"
  OBVIOUS
<1>2. QED
  BY <1>1, MessageIs DEF Captured

LEMMA SubCaptured ==
  ASSUME NEW id, NEW c, NEW s, NEW x
  PROVE  LET req == SubRequest(id, c, s, x)
         IN  Captured(Resolver(req), [msg |-> Message(req), call |-> id])
<1> DEFINE producer == users[c.user][s].producer_id
<1> DEFINE body == [room_id |-> Leaf(""), stream_id |-> Leaf(s), producer_id |-> producer, xid |-> x]
<1> DEFINE captured == [call |-> id, x_id |-> x, producer_id |-> producer, stream_id |-> Leaf(s)]
<1>1. "Sub" \in Kinds
  BY DEF Kinds
<1>2. SubRequest(id, c, s, x) = Req("Sub", SubscribeRequestSer, body, captured)
  BY DEF SubRequest
<1>3. /\ body.producer_id = captured.producer_id /\ body.stream_id = captured.stream_id
      /\ body.xid = captured.x_id /\ captured.call = id
  OBVIOUS
<1> HIDE DEF body, captured
<1>4. QED
  BY <1>1, <1>2, <1>3, MessageIs DEF Captured

LEMMA RequestsCaptured ==
  ASSUME NEW id, NEW c \in Ops, NEW req \in Requests(id, c)
  PROVE  Captured(Resolver(req), [msg |-> Message(req), call |-> id])
<1>1. c.op \in {"conn_x", "pub", "upub", "mute", "sub", "unsub", "leave"}
  BY OpsAssumption
<1>2. {"ConnX", "Pub", "UPub", "Mute", "USub", "Close"} \subseteq Kinds \ {"CreateX", "Sub"}
  BY DEF Kinds
<1>3. CASE c.op = "conn_x"
  BY <1>2, <1>3, CallCaptured DEF Requests, ConnXCall
<1>4. CASE c.op = "pub"
  BY <1>2, <1>4, CallCaptured DEF Requests, PubCall
<1>5. CASE c.op = "upub"
  BY <1>2, <1>5, CallCaptured DEF Requests, UPubCall
<1>6. CASE c.op = "mute"
  BY <1>2, <1>6, CallCaptured DEF Requests, MuteCall
<1>7. CASE c.op = "sub"
  BY <1>7, SubCaptured DEF Requests, SubCall
<1>8. CASE c.op = "unsub"
  BY <1>2, <1>8, CallCaptured DEF Requests, UnsubCall
<1>9. CASE c.op = "leave"
  BY <1>2, <1>9, CallCaptured DEF Requests, LeaveCall
<1>10. QED
  BY <1>1, <1>3, <1>4, <1>5, <1>6, <1>7, <1>8, <1>9

(* The answer of its own kind that a request can get.                               *)
LEMMA AnswerOfKind ==
  ASSUME NEW tag \in Kinds, NEW sn, NEW rsp \in Answers(tag, sn),
         "typ" \in DOMAIN rsp, tag \in DOMAIN rsp.typ
  PROVE  rsp.typ[tag] = Payload(tag, sn)
<1>1. tag # "End"
  BY DEF Kinds
<1> DEFINE status == [status |-> [code |-> Leaf(1), reason |-> Leaf("refused")]]
           other  == [typ |-> Variant("End", [updated |-> Leaf("true")])]
           good   == [typ |-> Variant(tag, Payload(tag, sn))]
<1>2. rsp \in {good, status, other, <<>>}
  BY DEF Answers
<1>3. rsp # status
  OBVIOUS
<1>4. rsp # <<>>
  OBVIOUS
<1>5. rsp # other
  <2>1. other.typ = Variant("End", [updated |-> Leaf("true")])
    OBVIOUS
  <2>2. DOMAIN other.typ = {"End"}
    BY <2>1, VariantIs
  <2> HIDE DEF other
  <2>3. QED
    BY <1>1, <2>2
<1>6. good.typ[tag] = Payload(tag, sn)
  BY VariantIs
<1> HIDE DEF good, status, other
<1>7. QED
  BY <1>2, <1>3, <1>4, <1>5, <1>6

LEMMA PayloadIs ==
  ASSUME NEW sn
  PROVE  /\ Payload("CreateX", sn).xid = Leaf(sn)
         /\ Payload("Pub", sn).producer_id = Leaf(sn)
         /\ Payload("Sub", sn).consumer_id = Leaf(sn)
BY DEF Payload

-------------------------------------------------------------------------------
Numbers ==
  /\ asked \in Nat
  /\ inbox \in Seq([id : Nat, call : Ops])
  /\ \E n \in Nat : DOMAIN sent = 0..n /\ DOMAIN wire = 0..n
  /\ \E k \in Nat : DOMAIN heard = 0..(k - 1)
  /\ DOMAIN heard \subseteq DOMAIN sent

(* What waits for an answer waits for the one to what it asked.                     *)
Waiting ==
  /\ \A sn \in DOMAIN sent \ {0} : \E tag : OneKind(sent[sn], tag)
  /\ DOMAIN handlers \subseteq DOMAIN sent \ {0}
  /\ \A sn \in DOMAIN handlers : Captured(handlers[sn], sent[sn])

Asked(s) == s.msg.typ[Tag(s)]

(* The server did what it was asked for, and what it answers is what it did.        *)
DoneIs(m, s, sn, rsp) ==
  /\ rsp \in Answers(Tag(s), sn)
  /\ "typ" \in DOMAIN rsp /\ Tag(s) \in DOMAIN rsp.typ => m.done

Served ==
  /\ DOMAIN made \subseteq DOMAIN heard \ {0}
  /\ \A sn \in DOMAIN made : made[sn].body = Asked(sent[sn])
  /\ DOMAIN answers \subseteq DOMAIN made
  /\ \A sn \in DOMAIN answers : DoneIs(made[sn], sent[sn], sn, answers[sn].meant)

CallsInv == Numbers /\ Waiting /\ Served /\ ToldTrue

Reads == RequestsUnderstood /\ AnswersUnderstood

(* g has what f has.                                                                *)
Extends(f, g) == DOMAIN f \subseteq DOMAIN g /\ \A x \in DOMAIN f : g[x] = f[x]

LEMMA PutExtends ==
  ASSUME NEW f, NEW k, NEW v, k \notin DOMAIN f
  PROVE  Extends(f, Put(f, k, v))
<1>1. \A x \in DOMAIN f : x # k
  OBVIOUS
<1>2. DOMAIN f \subseteq DOMAIN Put(f, k, v)
  BY DEF Put
<1>3. \A x \in DOMAIN f : Put(f, k, v)[x] = f[x]
  BY <1>1 DEF Put
<1>4. QED
  BY <1>2, <1>3 DEF Extends

(* What was told stays true as requests are made and served.                        *)
LEMMA ToldKept ==
  ASSUME ToldTrue, DOMAIN made \subseteq DOMAIN sent,
         Extends(sent, sent'), Extends(made, made'), UNCHANGED <<told, created, dlink>>
  PROVE  ToldTrue'
<1>1. \A sn \in DOMAIN made : sn \in DOMAIN made' /\ made'[sn] = made[sn] /\ sent'[sn] = sent[sn]
  BY DEF Extends
<1>2. \A c \in DOMAIN told : \A sn \in DOMAIN made : Belongs(c, sn) => Belongs(c, sn)'
  BY <1>1 DEF Belongs
<1>3. \A dir, xid : MadeFor(dir, xid) => MadeFor(dir, xid)'
  BY <1>1 DEF MadeFor
<1>4. QED
  BY <1>1, <1>2, <1>3 DEF ToldTrue

LEMMA NextNumber ==
  ASSUME NEW n \in Nat, NEW f, DOMAIN f = 0..n
  PROVE  Cardinality(DOMAIN f) = n + 1
BY FS_Interval

LEMMA InitHolds == CallsInit => CallsInv
<1> SUFFICES ASSUME CallsInit PROVE CallsInv
  OBVIOUS
<1>1. PICK config \in Configs :
        LET req(sn) == IF sn = 0 THEN Req("Open", OpenSessionRequestSer, OpenBody(config), <<>>) ELSE First[sn]
        IN  /\ sent = [sn \in 0..3 |-> [msg |-> Message(req(sn)), call |-> 0]]
            /\ wire = [sn \in 0..3 |-> Packed(req(sn), sn)]
            /\ handlers = [sn \in 1..3 |-> Resolver(req(sn))]
  BY DEF CallsInit
<1>2. /\ DOMAIN sent = 0..3 /\ DOMAIN wire = 0..3 /\ DOMAIN handlers = 1..3
      /\ \A sn \in 1..3 : sent[sn] = [msg |-> Message(First[sn]), call |-> 0]
      /\ \A sn \in 1..3 : handlers[sn] = Resolver(First[sn])
  BY <1>1
<1>3. \A dir : Captured(Resolver(CreateX(dir)), [msg |-> Message(CreateX(dir)), call |-> 0])
  <2> TAKE dir
  <2> DEFINE body == [room_id |-> Leaf(""), dir |-> dir, kind |-> Leaf("0")]
             captured == [dir |-> dir]
  <2>1. /\ CreateX(dir) = Req("CreateX", CreateWebrtcTransportRequestSer, body, captured)
        /\ "CreateX" \in Kinds
    BY DEF CreateX, Kinds
  <2>2. "dir" \in DOMAIN body /\ body.dir = captured.dir
    OBVIOUS
  <2> HIDE DEF body, captured
  <2>3. QED
    BY <2>1, <2>2, MessageIs DEF Captured
<1>4. Captured(Resolver(BatchEnd), [msg |-> Message(BatchEnd), call |-> 0])
  <2>1. "BEnd" \in Kinds
    BY DEF Kinds
  <2>2. QED
    BY <2>1, MessageIs DEF Captured, BatchEnd
<1>5. \A sn \in 1..3 : Captured(handlers[sn], sent[sn])
  BY <1>2, <1>3, <1>4 DEF First
<1>6. Numbers
  <2>1. DOMAIN heard = 0..(0 - 1) /\ DOMAIN heard = {}
    BY DEF CallsInit
  <2>2. inbox \in Seq([id : Nat, call : Ops]) /\ asked \in Nat
    BY DEF CallsInit
  <2>3. \E n \in Nat : DOMAIN sent = 0..n /\ DOMAIN wire = 0..n
    BY <1>2
  <2>4. QED
    BY <2>1, <2>2, <2>3 DEF Numbers
<1>7. Waiting
  <2>1. DOMAIN handlers = DOMAIN sent \ {0} /\ DOMAIN handlers = 1..3
    BY <1>2
  <2>2. \A sn \in DOMAIN handlers : Captured(handlers[sn], sent[sn])
    BY <1>5, <2>1
  <2>3. \A sn \in DOMAIN handlers : \E tag : OneKind(sent[sn], tag)
    BY <2>2 DEF Captured
  <2>4. QED
    BY <2>1, <2>2, <2>3 DEF Waiting
<1>8. Served /\ ToldTrue
  BY DEF CallsInit, Served, ToldTrue
<1>9. QED
  BY <1>6, <1>7, <1>8 DEF CallsInv

-------------------------------------------------------------------------------
LEMMA AskKeeps == CallsInv /\ Ask => CallsInv'
<1> SUFFICES ASSUME CallsInv, Ask PROVE CallsInv'
  OBVIOUS
<1>1. /\ asked' \in Nat
      /\ inbox' \in Seq([id : Nat, call : Ops])
      /\ UNCHANGED <<dlink, handlers, wire, sent, heard, made, answers, told, created>>
  BY DEF CallsInv, Numbers, Ask
<1>2. Numbers'
  BY <1>1 DEF CallsInv, Numbers
<1>3. Waiting' /\ Served'
  BY <1>1 DEF CallsInv, Waiting, Served
<1>4. ToldTrue'
  BY <1>1 DEF CallsInv, ToldTrue, Belongs, MadeFor
<1>5. QED
  BY <1>2, <1>3, <1>4 DEF CallsInv

LEMMA ServedStays ==
  ASSUME Served, ToldTrue, UNCHANGED <<dlink, sent, heard, made, answers, told, created>>
  PROVE  Served' /\ ToldTrue'
<1>1. Served'
  BY DEF Served
<1>2. ToldTrue'
  BY DEF ToldTrue, Belongs, MadeFor
<1>3. QED
  BY <1>1, <1>2

LEMMA OnPushKeeps ==
  ASSUME NEW p, CallsInv, OnPush(p)
  PROVE  CallsInv'
<1>1. UNCHANGED <<dlink, inbox, handlers, wire, sent, heard, made, answers, told, created, asked>>
  BY DEF OnPush
<1>2. Numbers' /\ Waiting'
  BY <1>1 DEF CallsInv, Numbers, Waiting
<1>3. Served' /\ ToldTrue'
  BY <1>1, ServedStays DEF CallsInv
<1>4. QED
  BY <1>2, <1>3 DEF CallsInv

(* A request that is committed gets a number of its own.                            *)
LEMMA CommitKeeps ==
  ASSUME CallsInv, NEW id, NEW c \in Ops, NEW req \in Requests(id, c), Commit(id, req),
         inbox' \in Seq([id : Nat, call : Ops]), UNCHANGED <<dlink, heard, made, answers, told, created, asked>>
  PROVE  CallsInv'
<1>1. PICK n \in Nat : DOMAIN sent = 0..n /\ DOMAIN wire = 0..n
  BY DEF CallsInv, Numbers
<1>2. Cardinality(DOMAIN wire) = n + 1
  BY <1>1, NextNumber
<1>3. /\ wire' = Put(wire, n + 1, Packed(req, n + 1))
      /\ sent' = Put(sent, n + 1, [msg |-> Message(req), call |-> id])
      /\ handlers' = Put(handlers, n + 1, Resolver(req))
  BY <1>2 DEF Commit
<1>4. n + 1 \notin DOMAIN sent /\ n + 1 # 0
  BY <1>1
<1>5. Captured(Resolver(req), [msg |-> Message(req), call |-> id])
  BY RequestsCaptured
<1>6. /\ DOMAIN sent' = DOMAIN sent \cup {n + 1} /\ DOMAIN wire' = DOMAIN wire \cup {n + 1}
      /\ DOMAIN handlers' = DOMAIN handlers \cup {n + 1}
      /\ sent'[n + 1] = [msg |-> Message(req), call |-> id]
      /\ handlers'[n + 1] = Resolver(req)
      /\ \A x \in DOMAIN sent : x # n + 1 => sent'[x] = sent[x]
      /\ \A x \in DOMAIN handlers : x # n + 1 => handlers'[x] = handlers[x]
  BY <1>3 DEF Put
<1>7. Extends(sent, sent')
  BY <1>4, <1>6 DEF Extends
<1>8. Numbers'
  <2>1. DOMAIN sent' = 0..(n + 1) /\ DOMAIN wire' = 0..(n + 1) /\ n + 1 \in Nat
    BY <1>1, <1>6
  <2>2. QED
    BY <2>1, <1>6 DEF CallsInv, Numbers
<1>9. Waiting'
  <2>1. Captured(handlers'[n + 1], sent'[n + 1])
    BY <1>5, <1>6
  <2>2. \A sn \in DOMAIN handlers : handlers'[sn] = handlers[sn] /\ sent'[sn] = sent[sn]
    BY <1>4, <1>6 DEF CallsInv, Waiting
  <2>3. \A sn \in DOMAIN handlers' : Captured(handlers'[sn], sent'[sn])
    BY <2>1, <2>2, <1>6 DEF CallsInv, Waiting
  <2>4. \A sn \in DOMAIN sent' \ {0} : \E tag : OneKind(sent'[sn], tag)
    BY <2>1, <1>4, <1>6 DEF CallsInv, Waiting, Captured
  <2>5. DOMAIN handlers' \subseteq DOMAIN sent' \ {0}
    BY <1>4, <1>6 DEF CallsInv, Waiting
  <2>6. QED
    BY <2>3, <2>4, <2>5 DEF Waiting
<1>10. DOMAIN made \subseteq DOMAIN sent /\ DOMAIN answers \subseteq DOMAIN sent
  BY DEF CallsInv, Numbers, Served
<1>11. Served'
  BY <1>7, <1>10 DEF CallsInv, Served, Extends
<1>12. ToldTrue'
  BY <1>7, <1>10, ToldKept DEF CallsInv, Extends
<1>13. QED
  BY <1>8, <1>9, <1>11, <1>12 DEF CallsInv

LEMMA ProcessKeeps == CallsInv /\ Process => CallsInv'
<1> SUFFICES ASSUME CallsInv, Process PROVE CallsInv'
  OBVIOUS
<1> DEFINE id == Head(inbox).id
           c  == Head(inbox).call
<1>1. /\ c \in Ops /\ inbox' \in Seq([id : Nat, call : Ops])
      /\ UNCHANGED <<dlink, heard, made, answers, told, created, asked>>
  <2>1. /\ inbox # <<>> /\ inbox' = Tail(inbox)
        /\ UNCHANGED <<dlink, heard, made, answers, told, created, asked>>
    BY DEF Process
  <2>2. inbox \in Seq([id : Nat, call : Ops])
    BY DEF CallsInv, Numbers
  <2>3. Head(inbox) \in [id : Nat, call : Ops] /\ Tail(inbox) \in Seq([id : Nat, call : Ops])
    BY <2>1, <2>2, HeadTailProperties
  <2>4. QED
    BY <2>1, <2>3
<1>2. CASE UNCHANGED <<wire, sent, handlers>>
  <2>1. Numbers' /\ Waiting'
    BY <1>1, <1>2 DEF CallsInv, Numbers, Waiting
  <2>2. QED
    BY <1>1, <1>2, <2>1, ServedStays DEF CallsInv
<1>3. CASE \E req \in Requests(id, c) : Commit(id, req)
  BY <1>1, <1>3, CommitKeeps
<1>4. QED
  BY <1>2, <1>3 DEF Process

LEMMA SrvTakesKeeps == CallsInv /\ RequestsUnderstood' /\ SrvTakes => CallsInv'
<1> SUFFICES ASSUME CallsInv, RequestsUnderstood', SrvTakes PROVE CallsInv'
  OBVIOUS
<1>1. PICK k \in Nat : DOMAIN heard = 0..(k - 1)
  BY DEF CallsInv, Numbers
<1>2. Cardinality(DOMAIN heard) = k
  BY <1>1, FS_Interval
<1> DEFINE req == ParseAsClientReq(Decode(PacketRef, wire[k]))
<1>3. /\ SrvTake(k) /\ k \in DOMAIN wire /\ k \in DOMAIN sent
      /\ UNCHANGED <<users, dlink, inbox, handlers, wire, sent, told, created, asked>>
  BY <1>2 DEF CallsInv, Numbers, SrvTakes
<1>4. heard' = Put(heard, k, req)
  BY <1>3 DEF SrvTake
<1>5. DOMAIN heard' = 0..k /\ heard'[k] = req
  BY <1>1, <1>4 DEF Put
<1>6. Numbers'
  <2>1. \E n \in Nat : DOMAIN sent' = 0..n /\ DOMAIN wire' = 0..n
    BY <1>3 DEF CallsInv, Numbers
  <2>2. DOMAIN heard' = 0..((k + 1) - 1) /\ k + 1 \in Nat
    BY <1>5
  <2>3. DOMAIN heard' \subseteq DOMAIN sent'
    BY <1>1, <1>3, <1>5 DEF CallsInv, Numbers
  <2>4. QED
    BY <1>3, <2>1, <2>2, <2>3 DEF CallsInv, Numbers
<1>7. Waiting'
  BY <1>3 DEF CallsInv, Waiting
<1>8. DOMAIN made \subseteq DOMAIN heard' \ {0} /\ k \notin DOMAIN made /\ DOMAIN made \subseteq DOMAIN sent
  BY <1>1, <1>3, <1>5 DEF CallsInv, Served, Numbers
<1>9. CASE UNCHANGED <<made, answers>>
  <2>1. Served'
    BY <1>3, <1>8, <1>9 DEF CallsInv, Served
  <2>2. ToldTrue'
    BY <1>3, <1>9 DEF CallsInv, ToldTrue, Belongs, MadeFor
  <2>3. QED
    BY <1>6, <1>7, <2>1, <2>2 DEF CallsInv
<1>10. CASE ~UNCHANGED <<made, answers>>
  <2> DEFINE tag == CHOOSE t \in DOMAIN req.typ : TRUE
  <2>1. /\ req # Bad /\ k # 0
        /\ \E rsp \in Answers(tag, k) :
             /\ answers' = Put(answers, k, [packet |-> Answer(rsp), meant |-> rsp])
             /\ made' = Put(made, k, [done |-> "typ" \in DOMAIN rsp /\ tag \in DOMAIN rsp.typ,
                                      body |-> req.typ[tag]])
    BY <1>3, <1>10 DEF SrvTake
  <2>2. PICK kind : OneKind(sent[k], kind)
    BY <1>3, <2>1 DEF CallsInv, Waiting
  <2>3. req = sent[k].msg
    <3>1. req = Meant(sent[k].msg)
      BY <1>3, <1>5 DEF RequestsUnderstood
    <3>2. "Open" \notin DOMAIN sent[k].msg.typ
      BY <2>2 DEF OneKind, Kinds
    <3>3. QED
      BY <3>1, <3>2 DEF Meant
  <2>4. tag = Tag(sent[k])
    BY <2>3 DEF Tag
  <2>5. req.typ[tag] = Asked(sent[k])
    BY <2>3, <2>4 DEF Asked
  <2> HIDE DEF req, tag
  <2>6. PICK rsp \in Answers(tag, k) :
          /\ answers' = Put(answers, k, [packet |-> Answer(rsp), meant |-> rsp])
          /\ made' = Put(made, k, [done |-> "typ" \in DOMAIN rsp /\ tag \in DOMAIN rsp.typ,
                                   body |-> Asked(sent[k])])
    BY <2>1, <2>5
  <2>7. /\ DOMAIN made' = DOMAIN made \cup {k} /\ DOMAIN answers' = DOMAIN answers \cup {k}
        /\ made'[k].body = Asked(sent[k]) /\ answers'[k].meant = rsp
        /\ "typ" \in DOMAIN rsp /\ tag \in DOMAIN rsp.typ => made'[k].done
        /\ \A x \in DOMAIN made : x # k => made'[x] = made[x]
        /\ \A x \in DOMAIN answers : x # k => answers'[x] = answers[x]
    BY <2>6 DEF Put
  <2>8. DoneIs(made'[k], sent'[k], k, answers'[k].meant)
    BY <1>3, <2>4, <2>6, <2>7 DEF DoneIs
  <2>9. DOMAIN answers \subseteq DOMAIN made
    BY DEF CallsInv, Served
  <2>10. Served'
    <3>1. DOMAIN made' \subseteq DOMAIN heard' \ {0} /\ DOMAIN answers' \subseteq DOMAIN made'
      BY <1>5, <1>8, <2>1, <2>7, <2>9
    <3>2. \A sn \in DOMAIN made' : made'[sn].body = Asked(sent'[sn])
      BY <1>3, <1>8, <2>7 DEF CallsInv, Served
    <3>3. \A sn \in DOMAIN answers' : DoneIs(made'[sn], sent'[sn], sn, answers'[sn].meant)
      <4>1. \A sn \in DOMAIN answers : sn # k /\ made'[sn] = made[sn] /\ sent'[sn] = sent[sn] /\ answers'[sn] = answers[sn]
        BY <1>3, <1>8, <2>7, <2>9
      <4>2. \A sn \in DOMAIN answers : DoneIs(made'[sn], sent'[sn], sn, answers'[sn].meant)
        BY <4>1 DEF CallsInv, Served
      <4>3. QED
        BY <2>7, <2>8, <4>2
    <3>4. QED
      BY <3>1, <3>2, <3>3 DEF Served
  <2>11. Extends(made, made') /\ Extends(sent, sent')
    BY <1>3, <1>8, <2>7 DEF Extends
  <2>12. ToldTrue'
    BY <1>3, <1>8, <2>11, ToldKept DEF CallsInv
  <2>13. QED
    BY <1>6, <1>7, <2>10, <2>12 DEF CallsInv
<1>11. QED
  BY <1>9, <1>10

(* A resolver that takes the payload of its own request tells the truth about it.   *)
LEMMA ResolveTrue ==
  ASSUME NEW sn \in DOMAIN made, NEW h, Captured(h, sent[sn]), ToldTrue,
         made[sn].done, made[sn].body = Asked(sent[sn]),
         Resolve(h, Payload(h.kind, sn)), UNCHANGED <<sent, made>>
  PROVE  ToldTrue'
<1> DEFINE v == Payload(h.kind, sn)
<1>1. h.kind \in Kinds /\ Asked(sent[sn]) = sent[sn].msg.typ[h.kind]
  BY TagIs DEF Captured, OneKind, Asked
<1>2. \A dir, xid : MadeFor(dir, xid) => MadeFor(dir, xid)'
  BY DEF MadeFor
<1>3. CASE h.kind = "CreateX"
  <2>1. /\ created' = created \cup {[dir |-> h.has.dir, response |-> OnCreateXResponse(v)]}
        /\ dlink' = IF h.has.dir = Outbound THEN {v.xid} ELSE dlink
        /\ UNCHANGED told
    BY <1>3 DEF Resolve
  <2>2. v.xid = Leaf(sn) /\ OnCreateXResponse(v).xid = Leaf(sn)
    BY <1>3, PayloadIs DEF OnCreateXResponse
  <2>3. MadeFor(h.has.dir, Leaf(sn))'
    BY <1>1, <1>3 DEF Captured, MadeFor
  <2>4. \A e \in created' : MadeFor(e.dir, e.response.xid)'
    BY <1>2, <2>1, <2>2, <2>3 DEF ToldTrue
  <2>5. \A x \in dlink' : MadeFor(Outbound, x)'
    BY <1>2, <2>1, <2>2, <2>3 DEF ToldTrue
  <2>6. \A c \in DOMAIN told' : \E s \in DOMAIN made' : Belongs(c, s)'
    BY <2>1 DEF ToldTrue, Belongs
  <2>7. QED
    BY <2>4, <2>5, <2>6 DEF ToldTrue
<1>4. CASE h.kind \in {"BEnd", "Close"}
  BY <1>2, <1>4 DEF Resolve, ToldTrue, Belongs
<1>5. CASE h.kind \notin {"CreateX", "BEnd", "Close"}
  <2> DEFINE what == CASE h.kind = "Pub" -> PubReturn(v)
                       [] h.kind = "Sub" -> SubReturn(h, v)
                       [] OTHER -> <<>>
             c == h.has.call
  <2>1. told' = Put(told, c, what) /\ UNCHANGED <<created, dlink>>
    BY <1>5 DEF Resolve
  <2>2. /\ DOMAIN told' = DOMAIN told \cup {c} /\ told'[c] = what
        /\ \A x \in DOMAIN told : x # c => told'[x] = told[x]
    <3> HIDE DEF what
    <3> QED  BY <2>1 DEF Put
  <2>3. sent[sn].call = c
    BY <1>5 DEF Captured
  <2>4. Belongs(c, sn)'
    <3>1. CASE h.kind = "Pub"
      <4>1. told'[c] = [producer_id |-> Leaf(sn)]
        BY <2>2, <3>1, PayloadIs DEF PubReturn
      <4>2. DOMAIN told'[c] = {"producer_id"} /\ told'[c].producer_id = Leaf(sn)
        BY <4>1
      <4>3. QED
        BY <2>3, <4>2 DEF Belongs
    <3>2. CASE h.kind = "Sub"
      <4>1. told'[c] = SubReturn(h, v) /\ v.consumer_id = Leaf(sn)
        BY <2>2, <3>2, PayloadIs
      <4>2. /\ DOMAIN told'[c] = {"x_id", "consumer_id", "producer_id", "stream_id", "rtp"}
            /\ told'[c].consumer_id = Leaf(sn) /\ told'[c].x_id = h.has.x_id
            /\ told'[c].producer_id = h.has.producer_id /\ told'[c].stream_id = h.has.stream_id
        BY <4>1 DEF SubReturn
      <4>3. /\ made[sn].body.producer_id = h.has.producer_id /\ made[sn].body.stream_id = h.has.stream_id
            /\ made[sn].body.xid = h.has.x_id
        BY <1>1, <3>2 DEF Captured
      <4>4. [producer_id |-> h.has.producer_id, stream_id |-> h.has.stream_id, xid |-> h.has.x_id]
              = [f \in {"producer_id", "stream_id", "xid"} |-> made[sn].body[f]]
        BY <4>3
      <4>5. DOMAIN told'[c] # {"producer_id"}
        BY <4>2
      <4>6. QED
        BY <2>3, <4>2, <4>4, <4>5 DEF Belongs
    <3>3. CASE h.kind \notin {"Pub", "Sub"}
      <4>1. told'[c] = <<>>
        BY <2>2, <3>3
      <4>2. DOMAIN told'[c] = {}
        BY <4>1
      <4>3. QED
        BY <2>3, <4>2 DEF Belongs
    <3>4. QED
      BY <3>1, <3>2, <3>3
  <2> HIDE DEF what
  <2>5. \A x \in DOMAIN told : x # c => \A s \in DOMAIN made : Belongs(x, s) => Belongs(x, s)'
    BY <2>2 DEF Belongs
  <2>6. \A x \in DOMAIN told' : \E s \in DOMAIN made' : Belongs(x, s)'
    BY <2>2, <2>4, <2>5 DEF ToldTrue
  <2>7. QED
    BY <1>2, <2>1, <2>6 DEF ToldTrue
<1>6. QED
  BY <1>3, <1>4, <1>5

LEMMA OnResponseKeeps ==
  ASSUME CallsInv, AnswersUnderstood, NEW sn \in DOMAIN answers \cap DOMAIN handlers, OnResponse(sn),
         UNCHANGED <<users, inbox, wire, sent, heard, made, asked>>
  PROVE  CallsInv'
<1> DEFINE rsp == ParseAsServerRsp(Decode(PacketRef, answers[sn].packet))
           h   == handlers[sn]
<1>1. rsp = answers[sn].meant
  BY DEF AnswersUnderstood
<1>2. /\ sn \in DOMAIN made /\ DoneIs(made[sn], sent[sn], sn, answers[sn].meant)
      /\ made[sn].body = Asked(sent[sn])
  BY DEF CallsInv, Served
<1>3. Captured(h, sent[sn]) /\ Tag(sent[sn]) = h.kind /\ h.kind \in Kinds
  BY TagIs DEF CallsInv, Waiting, Captured, OneKind
<1>4. answers' = [s \in DOMAIN answers \ {sn} |-> answers[s]]
  BY DEF OnResponse
<1>5. Numbers' /\ Served'
  <2>1. Numbers'
    BY DEF CallsInv, Numbers
  <2>2. DOMAIN answers' \subseteq DOMAIN answers /\ \A s \in DOMAIN answers' : answers'[s] = answers[s]
    BY <1>4
  <2>3. Served'
    BY <2>2 DEF CallsInv, Served
  <2>4. QED
    BY <2>1, <2>3
<1>6. DOMAIN handlers' \subseteq DOMAIN handlers /\ \A s \in DOMAIN handlers' : handlers'[s] = handlers[s]
  BY DEF OnResponse
<1>7. Waiting'
  BY <1>6 DEF CallsInv, Waiting
<1>8. ToldTrue'
  <2>1. CASE UNCHANGED <<told, created, dlink>>
    BY <2>1, <1>5, ServedStays DEF CallsInv, ToldTrue, Belongs, MadeFor
  <2>2. CASE ~UNCHANGED <<told, created, dlink>>
    <3>1. "typ" \in DOMAIN rsp /\ h.kind \in DOMAIN rsp.typ /\ Resolve(h, rsp.typ[h.kind])
      BY <2>2 DEF OnResponse
    <3> HIDE DEF rsp, h
    <3>2. rsp \in Answers(h.kind, sn) /\ made[sn].done
      BY <1>1, <1>2, <1>3, <3>1 DEF DoneIs
    <3>3. rsp.typ[h.kind] = Payload(h.kind, sn)
      BY <1>3, <3>1, <3>2, AnswerOfKind
    <3>4. Resolve(h, Payload(h.kind, sn))
      BY <3>1, <3>3
    <3>5. QED
      BY <1>2, <1>3, <3>2, <3>4, ResolveTrue DEF CallsInv
  <2>3. QED
    BY <2>1, <2>2
<1>9. QED
  BY <1>5, <1>7, <1>8 DEF CallsInv

LEMMA CallsStep == CallsInv /\ Reads /\ Reads' /\ [CallsNext]_callVars => CallsInv'
<1> SUFFICES ASSUME CallsInv, Reads, Reads', [CallsNext]_callVars PROVE CallsInv'
  OBVIOUS
<1>1. CASE Ask
  BY <1>1, AskKeeps
<1>2. CASE Process
  BY <1>2, ProcessKeeps
<1>3. CASE SrvTakes
  BY <1>3, SrvTakesKeeps DEF Reads
<1>4. CASE Answered
  BY <1>4, OnResponseKeeps DEF Reads, Answered
<1>5. CASE \E p \in Pushes : OnPush(p)
  BY <1>5, OnPushKeeps
<1>6. CASE UNCHANGED callVars
  <2>1. Numbers' /\ Waiting'
    BY <1>6 DEF callVars, CallsInv, Numbers, Waiting
  <2>2. QED
    BY <1>6, <2>1, ServedStays DEF callVars, CallsInv
<1>7. QED
  BY <1>1, <1>2, <1>3, <1>4, <1>5, <1>6 DEF CallsNext

(* Whatever the codec, the operations and the pushes: as long as what is written is *)
(* read as it was meant, in both directions, the application is told what the       *)
(* server did, of the operation it asked for.                                       *)
THEOREM UnderstoodIsTold == CallsSpec /\ []Understood => []ToldTrue
<1>1. Understood => Reads
  BY DEF Understood, Reads
<1>2. CallsInv => ToldTrue
  BY DEF CallsInv
<1>3. QED
  BY <1>1, <1>2, InitHolds, CallsStep, PTL DEF CallsSpec

-------------------------------------------------------------------------------
(* FmtWriter.                                                                       *)

(* A place in the text where flush_buf may stop.                                    *)
Boundary(p) == p = 0 \/ p \in Ends

(* b holds the l bytes of the text after the first s.                               *)
Holds(b, l, s) == \A i \in 0..(l - 1) : b[i] = s + i + 1

(* flush_buf finds the longest prefix of whole characters; it leaves the beginning  *)
(* of one character at the most, and nothing if the text stops there.               *)
LEMMA WholeLargest ==
  ASSUME NEW b, NEW l \in Nat, NEW s \in Nat, Boundary(s), s + l <= Total, Holds(b, l, s)
  PROVE  /\ Whole(b, l) \in 0..l
         /\ Boundary(s + Whole(b, l))
         /\ l - Whole(b, l) <= 3
         /\ Boundary(s + l) => Whole(b, l) = l
<1> DEFINE Good(k) == /\ k \in 0..l
                      /\ k > 0 => b[k - 1] \in Ends
                      /\ \A j \in (k + 1)..l : b[j - 1] \notin Ends
<1>0. /\ Total \in Nat /\ Ends \subseteq 1..Total
      /\ \A p \in 1..Total : \E e \in Ends : p <= e /\ e <= p + 3
  BY TextAssumption
<1>1. \A k \in 1..l : b[k - 1] = s + k
  BY DEF Holds
<1>2. \E k \in 0..l : k + 3 >= l /\ (k > 0 => b[k - 1] \in Ends)
  <2>1. CASE l <= 3
    BY <2>1
  <2>2. CASE l > 3
    <3>1. PICK e \in Ends : s + l - 3 <= e /\ e <= s + l
      <4>1. s + l - 3 \in 1..Total
        BY <1>0, <2>2
      <4>2. QED  BY <4>1, <1>0
    <3>2. e - s \in 1..l /\ b[(e - s) - 1] = e /\ (e - s) + 3 >= l
      BY <3>1, <2>2, <1>0, <1>1
    <3>3. QED  BY <3>1, <3>2
  <2>3. QED  BY <2>1, <2>2
<1>3. \E k \in 0..l : Good(k) /\ k + 3 >= l
  <2>1. PICK k \in 0..l : k + 3 >= l /\ (k > 0 => b[k - 1] \in Ends)
    BY <1>2
  <2>2. CASE \A j \in (k + 1)..l : b[j - 1] \notin Ends
    BY <2>1, <2>2
  <2>3. CASE ~ \A j \in (k + 1)..l : b[j - 1] \notin Ends
    <3>1. \E j \in (k + 1)..l : b[j - 1] \in Ends /\ j + 2 >= l
      BY <2>1, <2>3
    <3>2. PICK j \in (k + 1)..l : b[j - 1] \in Ends /\ j + 2 >= l
      BY <3>1
    <3>3. CASE b[l - 1] \in Ends
      <4>1. Good(l)
        BY <3>3
      <4>2. QED  BY <4>1
    <3>4. CASE b[l - 1] \notin Ends /\ j + 1 < l /\ b[(l - 1) - 1] \in Ends
      <4>1. Good(l - 1)
        BY <3>2, <3>4
      <4>2. QED  BY <4>1, <3>4
    <3>5. CASE b[l - 1] \notin Ends /\ ~(j + 1 < l /\ b[(l - 1) - 1] \in Ends)
      <4>1. Good(j)
        BY <3>2, <3>5
      <4>2. QED  BY <4>1, <3>2
    <3>6. QED  BY <3>3, <3>4, <3>5
  <2>4. QED  BY <2>2, <2>3
<1>4. \A j, k \in 0..l : Good(j) /\ Good(k) => j = k
  OBVIOUS
<1>5. Good(Whole(b, l)) /\ l - Whole(b, l) <= 3
  <2>1. Whole(b, l) = CHOOSE k \in 0..l : Good(k)
    BY DEF Whole
  <2>2. Good(Whole(b, l))
    BY <2>1, <1>3
  <2>3. QED  BY <2>2, <1>3, <1>4
<1>6. Boundary(s + Whole(b, l))
  BY <1>5, <1>1 DEF Boundary
<1>7. ASSUME Boundary(s + l) PROVE Whole(b, l) = l
  BY <1>7, <1>5, <1>1, <1>0 DEF Boundary
<1>8. QED  BY <1>5, <1>6, <1>7

-------------------------------------------------------------------------------
(* The inductive invariant.  OutputFaithful does not say why the buffer has room    *)
(* when a round begins: because after each round it is less than half full, either  *)
(* as it was or with the beginning of one character.  WriterOK adds that, where the *)
(* calls of write end, and what is left when the writer is done.                    *)
Shapes ==
  /\ step \in {"idle", "write", "done", "failed"}
  /\ taken \in Nat /\ chunk \in Nat /\ len \in Nat
  /\ taken <= chunk /\ chunk <= Total /\ Boundary(chunk)
  /\ buf \in [Slots -> Nat] /\ out \in Seq(Nat)

WriterOK ==
  /\ Shapes
  /\ OutputFaithful
  /\ step # "failed" => len < BufSize \div 2
  /\ step \in {"idle", "done"} => taken = chunk
  /\ step = "done" => taken = Total /\ len = 0

(* What a concatenation is made of.                                                 *)
LEMMA ConcatParts ==
  ASSUME NEW p \in Seq(Nat), NEW q \in Seq(Nat)
  PROVE  /\ p \o q \in Seq(Nat) /\ Len(p \o q) = Len(p) + Len(q)
         /\ \A i \in 1..(Len(p) + Len(q)) :
              (p \o q)[i] = IF i <= Len(p) THEN p[i] ELSE q[i - Len(p)]
OBVIOUS

(* Half of the buffer is a number, not less than the rest of a character.           *)
LEMMA HalfBuffer == BufSize \in Nat /\ BufSize \div 2 \in Nat /\ BufSize \div 2 > 3 /\ BufSize \div 2 < BufSize
BY BufAssumption

(* A flush keeps the buffer next to what went out, whatever was in the buffer, and  *)
(* leaves less than half of it.                                                     *)
LEMMA FlushSound ==
  ASSUME Shapes,
         NEW b \in [Slots -> Nat], NEW l \in 0..BufSize, NEW next,
         \A i \in 1..Len(out) : out[i] = i, Boundary(Len(out)),
         Len(out) + l <= Total, Holds(b, l, Len(out)),
         FlushBuf(b, l, next)
  PROVE  /\ buf' \in [Slots -> Nat] /\ out' \in Seq(Nat) /\ len' \in 0..BufSize
         /\ \A i \in 1..Len(out') : out'[i] = i
         /\ Boundary(Len(out')) /\ Len(out') + len' = Len(out) + l
         /\ Holds(buf', len', Len(out'))
         /\ \/ step' = next /\ len' <= 3 /\ (Boundary(Len(out) + l) => len' = 0)
            \/ step' = "failed"
<1> DEFINE k == Whole(b, l)
           s == Len(out)
           given == [i \in 1..k |-> b[i - 1]]
<1>0. /\ s \in Nat /\ out \in Seq(Nat) /\ BufSize \in Nat /\ l \in Nat
      BY HalfBuffer DEF Shapes
<1>1. /\ k \in 0..l /\ Boundary(s + k) /\ l - k <= 3
      /\ Boundary(s + l) => k = l
  BY <1>0, WholeLargest
<1> HIDE DEF k
<1>2. \A i \in 0..(l - 1) : b[i] = s + i + 1 /\ i \in Slots
  BY <1>0 DEF Holds, Slots
<1>3. CASE /\ out' = out \o given
           /\ buf' = [i \in Slots |-> IF i < l - k THEN b[i + k] ELSE b[i]]
           /\ len' = l - k /\ step' = next
  <2>1. given \in Seq(Nat) /\ Len(given) = k /\ \A i \in 1..k : given[i] = s + i
    <3>1. \A i \in 1..k : b[i - 1] = s + i
      BY <1>0, <1>1, <1>2
    <3>2. QED  BY <3>1, <1>0, <1>1
  <2> HIDE DEF given
  <2>2. /\ out' \in Seq(Nat) /\ Len(out') = s + k
        /\ \A i \in 1..(s + k) : out'[i] = IF i <= s THEN out[i] ELSE given[i - s]
    BY <2>1, <1>3, <1>0, ConcatParts
  <2>3. \A i \in 1..Len(out') : out'[i] = i
    <3>1. SUFFICES ASSUME NEW i \in 1..(s + k) PROVE out'[i] = i
      BY <2>2
    <3>2. CASE i <= s
      BY <3>2, <2>2, <1>0
    <3>3. CASE i > s
      <4>1. i - s \in 1..k /\ s + (i - s) = i
        BY <3>3, <1>0, <1>1
      <4>2. out'[i] = given[i - s]
        BY <3>3, <2>2, <1>0, <1>1
      <4>3. QED  BY <4>1, <4>2, <2>1
    <3>4. QED  BY <3>2, <3>3, <1>0, <1>1
  <2>4. Holds(buf', len', Len(out'))
    <3>1. \A i \in 0..(l - k - 1) : i + k \in 0..(l - 1) /\ i \in Slots
      BY <1>0, <1>1 DEF Slots
    <3>2. QED  BY <3>1, <1>3, <1>2, <2>2, <1>0, <1>1 DEF Holds
  <2>5. buf' \in [Slots -> Nat]
    <3>1. \A i \in Slots : i < l - k => i + k \in Slots
      BY <1>0, <1>1 DEF Slots
    <3>2. QED  BY <3>1, <1>3
  <2>6. QED  BY <2>2, <2>3, <2>4, <2>5, <1>3, <1>0, <1>1
<1>4. CASE step' = "failed" /\ buf' = b /\ len' = l /\ UNCHANGED out
  BY <1>4, <1>0
<1>5. QED  BY <1>3, <1>4 DEF FlushBuf, k

-------------------------------------------------------------------------------
(* What a flush leaves makes the properties of the text again.                      *)
LEMMA FlushedText ==
  ASSUME out' \in Seq(Nat), len' \in 0..BufSize, taken' \in Nat,
         \A i \in 1..Len(out') : out'[i] = i,
         Boundary(Len(out')), Len(out') + len' = taken',
         Holds(buf', len', Len(out'))
  PROVE  OutputFaithful'
<1>1. out' # <<>> => Len(out') # 0
  OBVIOUS
<1>2. out' # <<>> => Len(out') \in Ends
  BY <1>1 DEF Boundary
<1>3. QED  BY <1>2 DEF OutputFaithful, Holds

LEMMA InitWriter == FmtInit => WriterOK
BY HalfBuffer, TextAssumption DEF FmtInit, WriterOK, Shapes, OutputFaithful, Boundary, Slots

(* What an unfinished flush may look at and assume.                                 *)
LEMMA BeforeFlush ==
  ASSUME WriterOK
  PROVE  /\ Boundary(Len(out)) /\ Len(out) \in Nat /\ Len(out) + len = taken /\ taken <= Total
         /\ Holds(buf, len, Len(out)) /\ \A i \in 1..Len(out) : out[i] = i
         /\ len \in 0..BufSize
BY TextAssumption DEF WriterOK, Shapes, OutputFaithful, Boundary, Holds

(* A round: the slice is copied to the end of the buffer as far as there is room,   *)
(* and what the buffer then holds still follows what went out.                      *)
LEMMA RoundStep == WriterOK /\ Round => WriterOK'
<1> SUFFICES ASSUME WriterOK, Round PROVE WriterOK'
  OBVIOUS
<1> DEFINE space   == BufSize - len
           to_copy == IF space < chunk - taken THEN space ELSE chunk - taken
           copied  == [i \in Slots |-> IF len <= i /\ i < len + to_copy
                                       THEN taken + (i - len) + 1 ELSE buf[i]]
           s       == Len(out)
<1>1. /\ Shapes /\ step = "write" /\ taken < chunk /\ len < BufSize \div 2 /\ OutputFaithful
      /\ chunk' = chunk /\ taken' = taken + to_copy /\ Total \in Nat
  BY TextAssumption DEF WriterOK, Round
<1>2. /\ to_copy \in Nat /\ len + to_copy \in 0..BufSize /\ taken' <= chunk /\ taken' \in Nat
      /\ space # 0 /\ s + (len + to_copy) = taken' /\ s \in Nat /\ Boundary(s)
      /\ BufSize \in Nat /\ len \in Nat /\ taken \in Nat
  BY <1>1, HalfBuffer, BeforeFlush DEF Shapes
<1>3. copied \in [Slots -> Nat] /\ Holds(copied, len + to_copy, s)
  <2>1. \A i \in 0..((len + to_copy) - 1) : i \in Slots /\ copied[i] = s + i + 1
    <3>1. \A i \in 0..(len - 1) : buf[i] = s + i + 1
      BY <1>1 DEF OutputFaithful
    <3>2. s + len = taken
      BY BeforeFlush
    <3>3. \A i \in 0..((len + to_copy) - 1) : i \in Slots
      BY <1>2 DEF Slots
    <3> HIDE DEF to_copy
    <3>4. SUFFICES ASSUME NEW i \in 0..((len + to_copy) - 1) PROVE copied[i] = s + i + 1
      BY <3>3
    <3>5. i \in Slots /\ i \in Nat /\ i < len + to_copy
      BY <3>3, <1>2
    <3>6. copied[i] = IF len <= i /\ i < len + to_copy THEN taken + (i - len) + 1 ELSE buf[i]
      BY <3>5
    <3>7. CASE len <= i
      BY <3>5, <3>6, <3>7, <3>2, <1>2
    <3>8. CASE i < len
      <4>1. i \in 0..(len - 1) /\ ~(len <= i)
        BY <3>8, <3>5, <1>2
      <4>2. QED  BY <4>1, <3>6, <3>1
    <3>9. QED  BY <3>5, <3>7, <3>8, <1>2
  <2>2. \A i \in Slots : i \in Int /\ buf[i] \in Nat
    BY <1>1, <1>2 DEF Shapes, Slots
  <2>3. copied \in [Slots -> Nat]
    <3> HIDE DEF to_copy
    <3>1. QED  BY <2>2, <1>2
  <2>4. QED
    <3> HIDE DEF to_copy, copied
    <3>1. QED  BY <2>1, <2>3 DEF Holds
<1>4. \/ len + to_copy >= BufSize \div 2 /\ FlushBuf(copied, len + to_copy, "write")
      \/ /\ len + to_copy < BufSize \div 2
         /\ buf' = copied /\ len' = len + to_copy /\ UNCHANGED <<step, out>>
  BY <1>1, <1>2, HalfBuffer DEF Round
<1> HIDE DEF to_copy, copied, space
<1>5. CASE FlushBuf(copied, len + to_copy, "write")
  <2>1. /\ buf' \in [Slots -> Nat] /\ out' \in Seq(Nat) /\ len' \in 0..BufSize
        /\ \A i \in 1..Len(out') : out'[i] = i
        /\ Boundary(Len(out')) /\ Len(out') + len' = taken'
        /\ Holds(buf', len', Len(out'))
        /\ (step' = "write" /\ len' <= 3) \/ step' = "failed"
    <3>1. s + (len + to_copy) <= Total
      BY <1>1, <1>2 DEF Shapes
    <3>2. QED  BY <3>1, <1>1, <1>2, <1>3, <1>5, FlushSound, BeforeFlush
  <2>2. OutputFaithful'
    BY <2>1, <1>2, FlushedText
  <2>3. Shapes'
    BY <2>1, <1>1, <1>2 DEF Shapes, Boundary
  <2>4. QED  BY <2>1, <2>2, <2>3, HalfBuffer DEF WriterOK
<1>6. CASE /\ len + to_copy < BufSize \div 2
           /\ buf' = copied /\ len' = len + to_copy /\ UNCHANGED <<step, out>>
  BY <1>1, <1>2, <1>3, <1>6 DEF WriterOK, Shapes, OutputFaithful, Holds
<1>7. QED  BY <1>4, <1>5, <1>6

LEMMA FlushStep == WriterOK /\ Flush => WriterOK'
<1> SUFFICES ASSUME WriterOK, Flush PROVE WriterOK'
  OBVIOUS
<1>1. Shapes /\ step = "idle" /\ taken = Total /\ FlushBuf(buf, len, "done")
      /\ chunk' = chunk /\ taken' = taken /\ taken = chunk /\ len < BufSize \div 2
  BY DEF WriterOK, Flush
<1>2. /\ buf' \in [Slots -> Nat] /\ out' \in Seq(Nat) /\ len' \in 0..BufSize
      /\ \A i \in 1..Len(out') : out'[i] = i
      /\ Boundary(Len(out')) /\ Len(out') + len' = Len(out) + len
      /\ Holds(buf', len', Len(out'))
      /\ (step' = "done" /\ (Boundary(Len(out) + len) => len' = 0)) \/ step' = "failed"
  BY <1>1, FlushSound, BeforeFlush DEF Shapes
<1>3. Len(out) + len = Total /\ Boundary(Total)
  BY <1>1, BeforeFlush DEF Shapes
<1>4. Len(out') + len' = taken' /\ taken' \in Nat
  BY <1>1, <1>2, <1>3 DEF Shapes
<1>5. OutputFaithful'
  BY <1>2, <1>4, FlushedText
<1>6. Shapes'
  BY <1>1, <1>2, <1>4 DEF Shapes, Boundary
<1>7. QED
  BY <1>1, <1>2, <1>3, <1>5, <1>6, HalfBuffer DEF WriterOK

LEMMA WriterStep == WriterOK /\ [FmtNext]_fmtVars => WriterOK'
<1> SUFFICES ASSUME WriterOK, [FmtNext]_fmtVars PROVE WriterOK'
  OBVIOUS
<1>1. CASE Write
  BY <1>1, TextAssumption DEF Write, WriterOK, Shapes, OutputFaithful, Boundary
<1>2. CASE Round
  BY <1>2, RoundStep
<1>3. CASE Written
  BY <1>3 DEF Written, WriterOK, Shapes, OutputFaithful, Boundary
<1>4. CASE Flush
  BY <1>4, FlushStep
<1>5. CASE UNCHANGED fmtVars
  BY <1>5 DEF fmtVars, WriterOK, Shapes, OutputFaithful, Boundary
<1>6. QED  BY <1>1, <1>2, <1>3, <1>4, <1>5 DEF FmtNext

THEOREM WriterInvariant == FmtSpec => []WriterOK
BY InitWriter, WriterStep, PTL DEF FmtSpec

(* Whatever pieces a JSON text is written in, the formatter gets exactly its        *)
(* characters, in order (FmtWriter::write, flush_buf).                              *)
THEOREM WritesTheText == FmtSpec => []OutputFaithful
<1>1. WriterOK => OutputFaithful
  BY DEF WriterOK
<1>2. QED  BY <1>1, WriterInvariant, PTL

(* The loop of FmtWriter::write always finds room in the buffer.                    *)
THEOREM WriteGoesOn == FmtSpec => []NeverStuck
<1>1. WriterOK => NeverStuck
  BY HalfBuffer DEF WriterOK, Shapes, NeverStuck
<1>2. QED  BY <1>1, WriterInvariant, PTL

(* JsonDisplay::fmt returns without an error only when the whole text is written.   *)
THEOREM WritesAll == FmtSpec => []NothingHeldBack
<1>1. WriterOK => NothingHeldBack
  BY DEF WriterOK, Shapes, OutputFaithful, NothingHeldBack
<1>2. QED  BY <1>1, WriterInvariant, PTL
=================================================================================
