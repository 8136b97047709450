------------------------------ MODULE MCConversions -------------------------------
(* Three machines that turn one form of something into another, each run alone:     *)
(* messages on their way between application and server, the text of a message on   *)
(* its way into a string, and the source of a function before it is compiled.       *)
EXTENDS Calls, Serde, FmtWriter, MCTraceRewrite

VARIABLE machine

MCInit ==
  /\ CallsInit /\ FmtInit /\ RewriteInit
  /\ machine \in {"calls", "writer", "rewrite"}
  /\ machine # "rewrite" => item = CHOOSE f \in Items : TRUE

MCNext ==
  /\ UNCHANGED machine
  /\ \/ machine = "calls" /\ CallsNext /\ UNCHANGED <<fmtVars, rewriteVars>>
     \/ machine = "writer" /\ FmtNext /\ UNCHANGED <<callVars, rewriteVars>>
     \/ machine = "rewrite" /\ RewriteNext /\ UNCHANGED <<callVars, fmtVars>>

Text(algorithm, value) ==
  [role |-> Leaf("client"), fingerprints |-> ("0" :> [algorithm |-> Leaf(algorithm), value |-> Leaf(value)])]

Feedback == "0" :> [type |-> Leaf("nack")] @@ "1" :> [type |-> Leaf("nack"), parameter |-> Leaf("rrtr")]

Opus == [mimeType |-> Leaf("audio/OPUS"), payloadType |-> Leaf(111), clockRate |-> Leaf(48000)]
Vp8  == [mimeType |-> Leaf("video/vp8"), payloadType |-> Leaf(96), clockRate |-> Leaf(90000),
         rtcpFeedback |-> Feedback]
Ext(uri) == [uri |-> Leaf(uri), id |-> Leaf(1), encrypt |-> Leaf("false")]

RtpText(codec, encoding) ==
  [codecs |-> ("0" :> codec), headerExtensions |-> ("0" :> Ext("mid") @@ "1" :> Ext("private")),
   encodings |-> ("0" :> encoding), rtcp |-> [reducedSize |-> Leaf("true")]]

AudioText == RtpText([channels |-> Leaf(2)] @@ Opus, [ssrc |-> Leaf(1), dtx |-> Leaf("true"), scalabilityMode |-> Leaf("S1T1")])
VideoText == [mid |-> Leaf("0")] @@ RtpText(Vp8, [rid |-> Leaf("r"), scalabilityMode |-> Leaf("L3T3_KEY"),
                                                        rtx |-> [ssrc |-> Leaf(2)], maxBitrate |-> Null])
NoChannels == RtpText(Opus, <<>>)

MCRtp == JsonDecode(RtpParameters, VideoText)

MCOps ==
  {[op |-> "conn_x", xid |-> Leaf("x"), dtls |-> d] : d \in {Null, Text("sha-1", "20"), Text("sha-256", "20")}}
  \cup {[op |-> "pub", xid |-> Leaf("x"), stype |-> "mic", rtp |-> r, muted |-> Leaf("true")] :
          r \in {AudioText, NoChannels}}
  \cup {[op |-> "pub", xid |-> Leaf("x"), stype |-> "camera", rtp |-> r, muted |-> Null] :
          r \in {Null, VideoText}}
  \cup {[op |-> "upub", stype |-> "mic"], [op |-> "mute", stype |-> "mic", muted |-> Leaf("false")],
        [op |-> "sub", user |-> "a", stype |-> "camera"], [op |-> "unsub", consumer |-> Leaf("c")],
        [op |-> "leave", end |-> Null], [op |-> "leave", end |-> Leaf("true")]}

StreamOf(p, stype) == [seq |-> Leaf(1), stype |-> Leaf(stype), producer_id |-> Leaf(p), muted |-> Leaf("false")]
Full(streams, online) ==
  "UFull" :> [id |-> Leaf("a"), online |-> Leaf(online), streams |-> streams, inst_id |-> Leaf("i")]
MCPushes ==
  {Full("camera" :> StreamOf("p1", "1"), "true"),
   Full("camera" :> StreamOf("p2", "1") @@ "mic" :> StreamOf("p3", "2"), "true"),
   Full(<<>>, "false"),
   "Closed" :> <<>>, "Chat" :> [from |-> Leaf("u.a"), to |-> Leaf("r.r"), body |-> Leaf("hi")],
   "UTree" :> [path |-> Leaf("p"), id |-> Leaf("a")],
   "RTree" :> [path |-> Leaf("p"), value |-> Leaf("v"), prune |-> Leaf("true")],
   "UInit" :> [id |-> Leaf("a")], "UReady" :> [id |-> Leaf("a")],
   "RReady" :> [id |-> Leaf("r")]}

MCConfigs ==
  {[user_id |-> Leaf("me"), room_id |-> Leaf("r"), token |-> Leaf("t"),
    client_info |-> [client_id |-> Leaf("c"), platform |-> Null, sdk_name |-> Leaf("s"),
                     sdk_version |-> Null, device |-> Null]],
   [user_id |-> Leaf("me"), room_id |-> Leaf("r"), token |-> Null, client_info |-> Null]}
=================================================================================
