--------------------------------- MODULE Calls ------------------------------------
(* What the application asks for, what the server understands of it, and what the   *)
(* application is told in the end: the bodies of the requests of glue/client.rs and *)
(* glue/defines.rs and the resolvers that take their responses apart.  An operation *)
(* waits in the inbox, its request on the wire and its resolver in the table, and   *)
(* meanwhile users change their streams and other answers come in.                  *)
(*                                                                                  *)
(* Requests arrive in order; which of them do, when their answers are read and what *)
(* becomes of the connection when a step fails is left open: SessionLink and        *)
(* Responses tell.                                                                  *)
EXTENDS Messages

CONSTANTS Ops,                  \* operations the application may ask for
          Pushes,               \* pushes of the server
          Configs,              \* SignalConfigs
          Rtp,                  \* RtpParameters the server answers a subscription with
          MaxAsks,              \* bound: operations asked for
          Encode(_, _),         \* serde: how a value of a type is written
          Decode(_, _)          \* and read, Bad if it cannot be

ASSUME OpsAssumption ==
  \A c \in Ops : /\ "op" \in DOMAIN c
                 /\ c.op \in {"conn_x", "pub", "upub", "mute", "sub", "unsub", "leave"}

VARIABLES
  users,     \* DelegateImpl.users: user id -> streams
  dlink,     \* dlink_x_id: {} or {transport id}
  inbox,     \* operations, not begun
  handlers,  \* response_handlers: sn -> what the resolver has captured
  wire,      \* packets to the server, by sn; the open request, which has none, is 0
  sent,      \* the same as the client had them in memory, and for which operation
  heard,     \* what the server understood
  made,      \* and what it did for it
  answers,   \* its responses, not read yet, and what it meant by them
  told,      \* what the application was told: operation -> return
  created,   \* on_created_x: set of [dir, response]
  asked

callVars == <<users, dlink, inbox, handlers, wire, sent, heard, made, answers, told, created, asked>>

Put(f, k, v) == [x \in DOMAIN f \cup {k} |-> IF x = k THEN v ELSE f[x]]

None == Null
Opt(field, v) == IF v = None THEN <<>> ELSE field :> v

-------------------------------------------------------------------------------
(* Stream types.                                                                    *)
StreamTypes == [camera |-> "1", mic |-> "2", screen |-> "3"]
StreamValue(stype) == Leaf(StreamTypes[stype])

Inbound == Leaf("0")
Outbound == Leaf("1")

(* A request: its tag and struct, the struct's value, what its resolver captures.   *)
Req(tag, type, body, captured) == [tag |-> tag, type |-> type, body |-> body, captured |-> captured]

Resolver(req) == [kind |-> req.tag, has |-> req.captured]
Message(req)  == [typ |-> Variant(req.tag, req.body)]

(* to_body_typed and the closures of sub_stream, unsub_stream and req_leave: the    *)
(* requests an operation may become, none if it fails.  JSON the application passed *)
(* is read here, and the user, his stream and the transport are those of now.       *)
ReadText(field, type, text) ==
  IF text = None THEN {<<>>}
  ELSE {field :> v : v \in {Decode(type, text)} \ {Bad}}

ConnXCall(id, c) ==
  {Req("ConnX", ConnectWebrtcTransportRequestSer, [xid |-> c.xid] @@ dtls, [call |-> id]) :
     dtls \in ReadText("dtls", DtlsParameters, c.dtls)}

PubCall(id, c) ==
  {Req("Pub", PublishRequestSer,
       [room_id |-> Leaf(""), xid |-> c.xid, stream_id |-> Leaf(c.stype),
        stype |-> StreamValue(c.stype), audio_type |-> Leaf("0")] @@ rtp @@ Opt("muted", c.muted),
       [call |-> id]) :
     rtp \in ReadText("rtp", RtpParameters, c.rtp)}

UPubCall(id, c) ==
  {Req("UPub", UnPublishRequestSer, [room_id |-> Leaf(""), stream_id |-> Leaf(c.stype)], [call |-> id])}

MuteCall(id, c) ==
  {Req("Mute", MuteRequestSer,
       [room_id |-> Leaf(""), stream_id |-> Leaf(c.stype), muted |-> c.muted], [call |-> id])}

SubRequest(id, c, s, x) ==
  LET producer == users[c.user][s].producer_id
  IN  Req("Sub", SubscribeRequestSer,
          [room_id |-> Leaf(""), stream_id |-> Leaf(s), producer_id |-> producer, xid |-> x],
          [call |-> id, x_id |-> x, producer_id |-> producer, stream_id |-> Leaf(s)])

SubCall(id, c) ==
  LET streams == IF c.user \in DOMAIN users
                 THEN {s \in DOMAIN users[c.user] : users[c.user][s].stype = StreamValue(c.stype)} ELSE {}
  IN  {SubRequest(id, c, p[1], p[2]) : p \in streams \X dlink}

UnsubCall(id, c) ==
  {Req("USub", UnsubscribeRequestSer, [room_id |-> Leaf(""), consumer_id |-> c.consumer], [call |-> id])}

LeaveCall(id, c) ==
  {Req("Close", CloseSessionRequestSer, [room_id |-> Leaf("")] @@ Opt("end", c.end), [call |-> id])}

Requests(id, c) ==
  CASE c.op = "conn_x" -> ConnXCall(id, c)
    [] c.op = "pub"    -> PubCall(id, c)
    [] c.op = "upub"   -> UPubCall(id, c)
    [] c.op = "mute"   -> MuteCall(id, c)
    [] c.op = "sub"    -> SubCall(id, c)
    [] c.op = "unsub"  -> UnsubCall(id, c)
    [] c.op = "leave"  -> LeaveCall(id, c)

CreateX(dir) ==
  Req("CreateX", CreateWebrtcTransportRequestSer,
      [room_id |-> Leaf(""), dir |-> dir, kind |-> Leaf("0")], [dir |-> dir])

BatchEnd == Req("BEnd", BatchEndRequestSer, <<>>, <<>>)

(* open_session_send, from a SignalConfig; an SDK is named if either part is known. *)
OpenBody(config) ==
  LET info == config.client_info
      client_info ==
        LET sdk == Opt("name", info.sdk_name) @@ Opt("version", info.sdk_version)
        IN  Opt("client_id", info.client_id) @@ Opt("platform", info.platform)
            @@ Opt("device", info.device) @@ (IF sdk = <<>> THEN <<>> ELSE [sdk |-> sdk])
  IN  [user_id |-> config.user_id, room_id |-> config.room_id] @@ Opt("token", config.token)
      @@ (IF info = None THEN <<>> ELSE [client_info |-> client_info])

-------------------------------------------------------------------------------
(* into_msg, the body and the packet around it.                                     *)
Packed(req, sn) ==
  Encode(PacketSer,
         [typ |-> Leaf("Request"),
          body |-> Encode(ClientRequestSer(req.tag, req.type), Message(req))]
         @@ (IF sn = 0 THEN <<>> ELSE [sn |-> Leaf(sn)]))

ParseAsClientReq(packet) ==
  IF packet # Bad /\ {"typ", "body"} \subseteq DOMAIN packet /\ packet.typ = Leaf("Request")
  THEN Decode(ClientMessage, packet.body) ELSE Bad

ParseAsServerRsp(packet) ==
  IF packet # Bad /\ "body" \in DOMAIN packet THEN Decode(Response, packet.body) ELSE Bad

ParseAsServerPush(packet) ==
  IF packet # Bad /\ "body" \in DOMAIN packet THEN Decode(ServerPush, packet.body) ELSE Bad

(* The packets of on_opening follow the open request.                               *)
First == <<CreateX(Inbound), CreateX(Outbound), BatchEnd>>

CallsInit ==
  /\ \E config \in Configs :
       LET req(sn) == IF sn = 0 THEN Req("Open", OpenSessionRequestSer, OpenBody(config), <<>>) ELSE First[sn]
       IN  /\ sent = [sn \in 0..3 |-> [msg |-> Message(req(sn)), call |-> 0]]
           /\ wire = [sn \in 0..3 |-> Packed(req(sn), sn)]
           /\ handlers = [sn \in 1..3 |-> Resolver(req(sn))]
  /\ users = <<>> /\ dlink = {} /\ inbox = <<>>
  /\ heard = <<>> /\ made = <<>> /\ answers = <<>> /\ told = <<>> /\ created = {}
  /\ asked = 0

-------------------------------------------------------------------------------
(* The application calls; what it passes is its own.                                *)
Ask ==
  /\ asked < MaxAsks /\ asked' = asked + 1
  /\ \E c \in Ops : inbox' = Append(inbox, [id |-> asked + 1, call |-> c])
  /\ UNCHANGED <<users, dlink, handlers, wire, sent, heard, made, answers, told, created>>

(* process_op: the request is built, queued with the next number, and its resolver  *)
(* stored under it.  An operation that fails is gone, and the connection with it.   *)
Commit(id, req) ==
  LET sn == Cardinality(DOMAIN wire)
  IN  /\ wire' = Put(wire, sn, Packed(req, sn))
      /\ sent' = Put(sent, sn, [msg |-> Message(req), call |-> id])
      /\ handlers' = Put(handlers, sn, Resolver(req))

Process ==
  /\ inbox # <<>> /\ inbox' = Tail(inbox)
  /\ LET id       == Head(inbox).id
         requests == Requests(id, Head(inbox).call)
     IN  \/ requests = {} /\ UNCHANGED <<wire, sent, handlers>>
         \/ \E req \in requests : Commit(id, req)
  /\ UNCHANGED <<users, dlink, heard, made, answers, told, created, asked>>

(* The server takes the next request, and answers now or never: with what was asked *)
(* for, with a status, or with something else.                                      *)
Candidate ==
  [foundation |-> Leaf("f"), priority |-> Leaf(1), address |-> Leaf("10.0.0.1"), protocol |-> Leaf("tcp"),
   port |-> Leaf(2), type |-> Leaf("host"), tcp_type |-> Leaf("passive")]

Payload(tag, sn) ==
  CASE tag = "CreateX" -> [xid |-> Leaf(sn), ice_candidates |-> [i \in {"0"} |-> Candidate],
                           ice_param |-> [username_fragment |-> Leaf("n"), password |-> Leaf("p")]]
    [] tag = "Pub"     -> [producer_id |-> Leaf(sn)]
    [] tag = "Sub"     -> [consumer_id |-> Leaf(sn), rtp |-> Rtp]
    [] OTHER           -> <<>>

Answers(tag, sn) ==
  {[typ |-> Variant(tag, Payload(tag, sn))],
   [status |-> [code |-> Leaf(1), reason |-> Leaf("refused")]],
   [typ |-> Variant("End", [updated |-> Leaf("true")])], <<>>}

Answer(rsp) ==
  Encode(PacketSer, [typ |-> Leaf("Response"), body |-> Encode(Response, rsp)])

SrvTake(sn) ==
  LET req == ParseAsClientReq(Decode(PacketRef, wire[sn]))
  IN  /\ heard' = Put(heard, sn, req)
      /\ IF req = Bad \/ sn = 0 THEN UNCHANGED <<made, answers>>
         ELSE LET tag == CHOOSE t \in DOMAIN req.typ : TRUE
              IN  \E rsp \in Answers(tag, sn) :
                    /\ answers' = Put(answers, sn, [packet |-> Answer(rsp), meant |-> rsp])
                    /\ made' = Put(made, sn, [done |-> "typ" \in DOMAIN rsp /\ tag \in DOMAIN rsp.typ,
                                           body |-> req.typ[tag]])

SrvTakes ==
  /\ Cardinality(DOMAIN heard) \in DOMAIN wire /\ SrvTake(Cardinality(DOMAIN heard))
  /\ UNCHANGED <<users, dlink, inbox, handlers, wire, sent, told, created, asked>>

(* The records the application gets.                                                *)
OnCreateXResponse(v) ==
  [xid |-> v.xid,
   ice_param |-> IF "ice_param" \in DOMAIN v THEN Encode(IceParameters, v.ice_param) ELSE None,
   ice_candidates |-> Encode(Each(IceCandidateSer),
                             [i \in DOMAIN v.ice_candidates |-> IceCandidateSerFrom(v.ice_candidates[i])]),
   dtls |-> IF "dtls" \in DOMAIN v THEN Encode(DtlsParameters, v.dtls) ELSE None]

(* SubReturn takes the ids from the resolver, the consumer from the response.       *)
SubReturnFromNow(h, v) ==    \* defective variant: the producer is looked up again
  [x_id |-> h.has.x_id, consumer_id |-> v.consumer_id, stream_id |-> h.has.stream_id,
   producer_id |-> IF \E u \in DOMAIN users : h.has.stream_id["="] \in DOMAIN users[u]
                   THEN LET u == CHOOSE u \in DOMAIN users : h.has.stream_id["="] \in DOMAIN users[u]
                        IN  users[u][h.has.stream_id["="]].producer_id
                   ELSE h.has.producer_id,
   rtp |-> IF "rtp" \in DOMAIN v THEN Encode(RtpParameters, v.rtp) ELSE None]

SubReturn(h, v) ==
  [x_id |-> h.has.x_id, consumer_id |-> v.consumer_id, producer_id |-> h.has.producer_id, stream_id |-> h.has.stream_id,
   rtp |-> IF "rtp" \in DOMAIN v THEN Encode(RtpParameters, v.rtp) ELSE None]

PubReturn(v) == [producer_id |-> v.producer_id]

(* The resolver of an operation, called with a response of its kind.                *)
Resolve(h, v) ==
  CASE h.kind = "CreateX" ->
         /\ created' = created \cup {[dir |-> h.has.dir, response |-> OnCreateXResponse(v)]}
         /\ dlink' = IF h.has.dir = Outbound THEN {v.xid} ELSE dlink
         /\ UNCHANGED told
    [] h.kind \in {"BEnd", "Close"} -> UNCHANGED <<told, created, dlink>>
    [] OTHER ->
         /\ told' = Put(told, h.has.call, CASE h.kind = "Pub" -> PubReturn(v)
                                           [] h.kind = "Sub" -> SubReturn(h, v)
                                           [] OTHER -> <<>>)
         /\ UNCHANGED <<created, dlink>>

(* on_response: the resolver leaves the table first; a status that is not zero ends *)
(* it there, a response of another kind, or of none, fails.                         *)
OnResponse(sn) ==
  LET rsp == ParseAsServerRsp(Decode(PacketRef, answers[sn].packet))
      h   == handlers[sn]
  IN  /\ answers' = [s \in DOMAIN answers \ {sn} |-> answers[s]]
      /\ IF rsp = Bad THEN UNCHANGED <<handlers, told, created, dlink>>
         ELSE /\ handlers' = [s \in DOMAIN handlers \ {sn} |-> handlers[s]]
              /\ IF /\ "status" \in DOMAIN rsp => rsp.status.code = Leaf(0)
                    /\ "typ" \in DOMAIN rsp /\ h.kind \in DOMAIN rsp.typ
                 THEN Resolve(h, rsp.typ[h.kind])
                 ELSE UNCHANGED <<told, created, dlink>>

Answered ==
  /\ \E sn \in DOMAIN answers \cap DOMAIN handlers : OnResponse(sn)
  /\ UNCHANGED <<users, inbox, wire, sent, heard, made, asked>>

(* A push, through the server's types and the client's.                             *)
ReadPush(push) ==
  ParseAsServerPush(Decode(PacketRef,
    Encode(PacketRef, [typ |-> Leaf("Push1"), body |-> Encode(ServerPushRef, [typ |-> push])])))

Readings == [p \in Pushes |-> ReadPush(p)]

(* Of a user's state only what a subscription will find; RoomUsers tells the rest.   *)
(* One who was known is forgotten if his snapshot starts, if he is offline, and if  *)
(* a call of the listener about him fails.                                          *)
Forgotten(id) == [u \in DOMAIN users \ {id} |-> users[u]]

OnPush(push) ==
  /\ Readings[push] # Bad
  /\ \/ /\ "UInit" \in DOMAIN Readings[push].typ
        /\ users' = Forgotten(Readings[push].typ.UInit.id["="])
     \/ /\ "UFull" \in DOMAIN Readings[push].typ
        /\ LET full == Readings[push].typ.UFull
               id   == full.id["="]
           IN  \/ id \in DOMAIN users /\ users' = Forgotten(id)
               \/ /\ full.online = Leaf("true") \/ id \notin DOMAIN users
                  /\ users' = Put(users, id, full.streams)
  /\ UNCHANGED <<dlink, inbox, handlers, wire, sent, heard, made, answers, told, created, asked>>

CallsNext == Ask \/ Process \/ SrvTakes \/ Answered \/ (\E p \in Pushes : OnPush(p))

CallsSpec == CallsInit /\ [][CallsNext]_callVars

-------------------------------------------------------------------------------
(* Properties.                                                                      *)

(* The OpenSessionRequest of the server has no place for token and client_info.     *)
Meant(msg) ==
  IF "Open" \in DOMAIN msg.typ
  THEN [typ |-> Variant("Open", [f \in DOMAIN msg.typ.Open \ {"token", "client_info"} |-> msg.typ.Open[f]])]
  ELSE msg

PushesUnderstood == \A p \in Pushes : ReadPush(p) = [typ |-> p]

(* What the session itself sends after it opened: SessionLink says when.            *)
OwnRequests ==
  LET reconn == [session_id |-> Leaf("s"), try_seq |-> Leaf(1), last_success_seq |-> Leaf(0), magic |-> Leaf(7)]
  IN  {Req("HB", HeartbeatRequestSer, <<>>, <<>>), Req("Reconn", ReconnectRequestSer, reconn, <<>>),
       Req("Reconn", ReconnectRequestSer, [token |-> Leaf("t")] @@ reconn, <<>>)}

OwnUnderstood ==
  \A req \in OwnRequests :
    ParseAsClientReq(Decode(PacketRef, Packed(req, 1))) = Message(req)

RequestsUnderstood == \A sn \in DOMAIN heard : heard[sn] = Meant(sent[sn].msg)

AnswersUnderstood ==
  \A sn \in DOMAIN answers :
    ParseAsServerRsp(Decode(PacketRef, answers[sn].packet)) = answers[sn].meant

(* What is read is what was written, although writer and reader have structs of     *)
(* their own: the server understands every request as the client meant it, the      *)
(* client every answer and every push; all that is lost on the way is what Meant    *)
(* leaves out.                                                                      *)
Understood == OwnUnderstood /\ RequestsUnderstood /\ AnswersUnderstood /\ PushesUnderstood

(* What an operation was told is what request sn came to at the server.             *)
Belongs(c, sn) ==
  /\ sent[sn].call = c /\ made[sn].done
  /\ "consumer_id" \in DOMAIN told[c] =>
       /\ told[c].consumer_id = Leaf(sn)
       /\ [producer_id |-> told[c].producer_id, stream_id |-> told[c].stream_id, xid |-> told[c].x_id]
            = [f \in {"producer_id", "stream_id", "xid"} |-> made[sn].body[f]]
  /\ DOMAIN told[c] = {"producer_id"} => told[c].producer_id = Leaf(sn)

(* The server made the transport for this direction.                               *)
MadeFor(dir, xid) ==
  \E sn \in DOMAIN made : made[sn].done /\ xid = Leaf(sn) /\ "dir" \in DOMAIN made[sn].body
                        /\ made[sn].body.dir = dir

(* The application is told what the server did, and of the operation it asked for:  *)
(* the consumer, the producer, the stream and the transport of a subscription       *)
(* belong together at the server, whatever became of the user in the meantime; no   *)
(* operation the server refused or answered with something else is reported done;   *)
(* a transport is announced in the direction it was made for, and the one that      *)
(* subscriptions use receives.                                                      *)
ToldTrue ==
  /\ \A c \in DOMAIN told : \E sn \in DOMAIN made : Belongs(c, sn)
  /\ \A e \in created : MadeFor(e.dir, e.response.xid)
  /\ \A x \in dlink : MadeFor(Outbound, x)
=================================================================================
