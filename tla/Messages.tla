------------------------------- MODULE Messages -----------------------------------
(* The structs of proto/v1.rs, proto/v1_ser.rs and proto/mediasoup as types of Wire.*)
(* A name that ends in Ser is what the client writes, a name that ends in Ref what  *)
(* the server writes; the others are what the peer reads them with.                 *)
EXTENDS Wire, Sequences

-------------------------------------------------------------------------------
(* Media descriptions.  The application passes them as JSON text; the client takes  *)
(* them apart and writes into its requests what it understood.                      *)
DtlsRole == Words({"auto", "client", "server"})

(* A fingerprint is so many bytes in hexadecimal; here it is their number.          *)
FingerprintBytes ==
  ("sha-1" :> "20") @@ ("sha-224" :> "28") @@ ("sha-256" :> "32") @@ ("sha-384" :> "48") @@ ("sha-512" :> "64")

DtlsFingerprint ==
  LET good == {[algorithm |-> Leaf(a), value |-> Leaf(FingerprintBytes[a])] : a \in DOMAIN FingerprintBytes}
  IN  Parsed(Strict(Struct("snake", {"algorithm", "value"}, {})), [g \in good |-> g], Bad)

DtlsParameters ==
  Nest(Struct("snake", {"role", "fingerprints"}, {}),
       [role |-> DtlsRole, fingerprints |-> Each(DtlsFingerprint)])

IceParameters == Struct("camel", {"username_fragment", "password"}, {"ice_lite"})

IceCandidateType == Words({"host", "srflx", "prflx", "relay"})

IceCandidate ==
  Alias(Nest(Skipping(Struct("camel", {"foundation", "priority", "address", "protocol", "port", "type"},
                             {"tcp_type"})),
             [protocol |-> Words({"tcp", "udp"}), type |-> IceCandidateType,
              tcp_type |-> Words({"passive"})]),
        [address |-> {"ip"}])

(* For the application the address is called ip.                                    *)
IceCandidateSer ==
  Skipping(Struct("camel", {"foundation", "priority", "ip", "protocol", "port", "type"}, {"tcp_type"}))

IceCandidateSerFrom(c) ==
  [f \in (DOMAIN c \ {"address"}) \cup {"ip"} |-> IF f = "ip" THEN c.address ELSE c[f]]

(* A mime type is read in any case of its letters and written in one.               *)
MimeTypeAudio ==
  LET names  == {"audio/opus", "audio/multiopus", "audio/PCMU", "audio/PCMA", "audio/ISAC", "audio/G722",
                 "audio/iLBC", "audio/SILK", "audio/CN", "audio/telephone-event", "audio/rtx", "audio/red"}
      others == "audio/pcmu" :> "audio/PCMU" @@ "audio/OPUS" :> "audio/opus"
  IN  Parsed(Opaque, [w \in {Leaf(n) : n \in names \cup DOMAIN others} |->
                        IF w["="] \in names THEN w ELSE Leaf(others[w["="]])], Bad)

MimeTypeVideo ==
  LET names  == {"video/VP8", "video/VP9", "video/H264", "video/AV1", "video/rtx", "video/red", "video/ulpfec"}
      others == "video/vp8" :> "video/VP8" @@ "video/h264" :> "video/H264"
  IN  Parsed(Opaque, [w \in {Leaf(n) : n \in names \cup DOMAIN others} |->
                        IF w["="] \in names THEN w ELSE Leaf(others[w["="]])], Bad)

(* Feedback the code does not know is kept as one unknown kind.                     *)
RtcpFeedback ==
  LET feedback(p) == [type |-> Leaf(p[1]), parameter |-> Leaf(p[2])]
      known == {<<"nack", "">>, <<"nack", "pli">>, <<"ccm", "fir">>, <<"goog-remb", "">>,
                <<"transport-cc", "">>, <<"unknown", "">>}
  IN  Parsed(Defaulting(Strict(Struct("snake", {"type", "parameter"}, {})), [parameter |-> Leaf("")]),
             [r \in {feedback(p) : p \in known} |-> r], feedback(<<"unknown", "">>))

(* An audio codec has channels; which of the two it is, its mime type tells.        *)
RtpCodecParameters ==
  LET codec(mime, more) ==
        Defaulting(Nest(Struct("camel", {"mime_type", "payload_type", "clock_rate", "parameters",
                                         "rtcp_feedback"} \cup more, {}),
                        [mime_type |-> mime, rtcp_feedback |-> Each(RtcpFeedback)]),
                   [parameters |-> <<>>, rtcp_feedback |-> <<>>])
  IN  Untagged(<<codec(MimeTypeAudio, {"channels"}), codec(MimeTypeVideo, {})>>)

RtpHeaderExtensionUri ==
  Parsed(Opaque,
    [w \in {Leaf(u) : u \in {"mid", "rtp-stream-id", "repaired-rtp-stream-id", "dependency-descriptor",
              "ssrc-audio-level", "video-orientation", "toffset", "transport-wide-cc", "abs-send-time",
              "abs-capture-time", "playout-delay"}} |-> w],
    Leaf("unsupported"))

RtpHeaderExtensionParameters ==
  Nest(Struct("snake", {"uri", "id", "encrypt"}, {}), [uri |-> RtpHeaderExtensionUri])

(* Scalability modes: those with a variant of their own, and customs, for which     *)
(* every name that begins with the layers will do.  S1T1 is none, and not written.  *)
ModeNames ==
  LET T == {"T1", "T2", "T3"}
  IN  {"S1T1"} \cup {"L1" \o t \o r : t \in {"T2", "T3"}, r \in {"", "h"}}
      \cup {l \o t \o r : l \in {"S2", "S3"}, t \in T, r \in {"", "h"}}
      \cup {l \o t \o r : l \in {"L2", "L3"}, t \in T, r \in {"", "h", "_KEY"}}
      \cup {l \o t \o "_KEY_SHIFT" : l \in {"L2", "L3"}, t \in T \ {"T1"}}
ScalabilityMode == Words(ModeNames \cup {"L1T4", "S4T2_KEY", "L3T3x"})

RtpEncodingParameters ==
  LET fields == Struct("camel", {"scalability_mode"},
                       {"ssrc", "rid", "codec_payload_type", "rtx", "dtx", "max_bitrate"})
  IN  Nest(SkippingAlso(Defaulting(Skipping(fields), [scalability_mode |-> Leaf("S1T1")]),
                        {"scalability_mode"}),
           [rtx |-> Struct("snake", {"ssrc"}, {}), scalability_mode |-> ScalabilityMode])

RtcpParameters == Skipping(Struct("camel", {"reduced_size"}, {"cname"}))

RtpParameters ==
  Nest(Skipping(Struct("camel", {"codecs", "header_extensions", "encodings", "rtcp"}, {"mid"})),
       [codecs |-> Each(RtpCodecParameters), header_extensions |-> Each(RtpHeaderExtensionParameters),
        encodings |-> Each(RtpEncodingParameters), rtcp |-> RtcpParameters])

-------------------------------------------------------------------------------
(* Requests, as the client writes them: a struct under its tag.                     *)
ClientRequestSer(tag, type) == Nest(Struct("snake", {"typ"}, {}), [typ |-> Enum(tag :> type)])

SdkInfoSer == Skipping(Struct("snake", {}, {"name", "version"}))
ClientInfoSer ==
  Nest(Skipping(Struct("snake", {}, {"client_id", "platform", "sdk", "device"})), [sdk |-> SdkInfoSer])
UpdateTreeRequestSer == Skipping(Struct("snake", {}, {"path", "value", "prune"}))
OpenSessionRequestSer ==
  Nest(Skipping(Struct("snake", {"user_id", "room_id"},
                       {"client_info", "token", "user_ext", "user_tree", "batch"})),
       [client_info |-> ClientInfoSer, user_tree |-> Each(UpdateTreeRequestSer)])
ReconnectRequestSer ==
  Skipping(Struct("snake", {"session_id", "try_seq", "last_success_seq", "magic"}, {"token"}))
CreateWebrtcTransportRequestSer ==
  Nest(Skipping(Struct("camel", {"room_id", "dir", "kind"}, {"dtls"})), [dtls |-> DtlsParameters])
ConnectWebrtcTransportRequestSer ==
  Nest(Skipping(Struct("camel", {"xid"}, {"dtls"})), [dtls |-> DtlsParameters])
PublishRequestSer ==
  Nest(Skipping(Struct("camel", {"room_id", "xid", "stream_id", "stype", "audio_type"}, {"rtp", "muted"})),
       [rtp |-> RtpParameters])
UnPublishRequestSer == Skipping(Struct("camel", {"room_id"}, {"producer_id", "stream_id"}))
MuteRequestSerSnake ==    \* defective variant: without rename_all
  Skipping(Struct("snake", {"room_id", "muted"}, {"producer_id", "stream_id"}))
MuteRequestSer == Skipping(Struct("camel", {"room_id", "muted"}, {"producer_id", "stream_id"}))
PreferredLayers == Struct("camel", {"spatial_layer", "temporal_layer"}, {})
SubscribeRequestSer ==
  Nest(Skipping(Struct("camel", {"room_id", "stream_id", "producer_id", "xid"}, {"preferred_layers"})),
       [preferred_layers |-> PreferredLayers])
UnsubscribeRequestSer == Struct("camel", {"room_id", "consumer_id"}, {})
BatchEndRequestSer == Struct("camel", {}, {})
HeartbeatRequestSer == Struct("camel", {}, {})
CloseSessionRequestSer == Skipping(Struct("snake", {"room_id"}, {"end"}))

(* The same as the server reads them.                                               *)
UpdateTreeRequest == Skipping(Struct("camel", {}, {"path", "value", "prune"}))
OpenSessionRequest ==
  Nest(Skipping(Struct("snake", {"user_id", "room_id"}, {"user_ext", "user_tree", "batch"})),
       [user_tree |-> Each(UpdateTreeRequest)])
ReconnectRequest ==
  Skipping(Struct("snake", {"session_id", "try_seq", "last_success_seq", "magic"}, {"token"}))
CreateWebrtcTransportRequest ==
  Nest(Struct("camel", {"room_id", "dir", "kind"}, {"dtls"}), [dtls |-> DtlsParameters])
ConnectWebrtcTransportRequest == Nest(Struct("camel", {"xid"}, {"dtls"}), [dtls |-> DtlsParameters])
PublishRequest ==
  Nest(Struct("camel", {"room_id", "xid", "stream_id", "stype", "audio_type"}, {"rtp", "muted"}),
       [rtp |-> RtpParameters])
UnPublishRequest == Struct("camel", {"room_id"}, {"producer_id", "stream_id"})
MuteRequest == Struct("camel", {"room_id", "muted"}, {"producer_id", "stream_id"})
LayerRequest ==
  Nest(Struct("camel", {"room_id", "consumer_id"}, {"preferred_layers"}), [preferred_layers |-> PreferredLayers])
SubscribeRequest ==
  Nest(Struct("camel", {"room_id", "stream_id", "producer_id", "xid"}, {"preferred_layers"}),
       [preferred_layers |-> PreferredLayers])
UnSubscribeRequest == Struct("camel", {"room_id", "consumer_id"}, {})
CloseSessionRequest == Struct("snake", {"room_id"}, {"end"})
Nothing == Struct("camel", {}, {})   \* EndRequest, BatchEndRequest, HeartbeatRequest and the empty responses

MsgType ==
  Enum([Open |-> OpenSessionRequest, Reconn |-> ReconnectRequest, Close |-> CloseSessionRequest,
        CreateX |-> CreateWebrtcTransportRequest, ConnX |-> ConnectWebrtcTransportRequest,
        Pub |-> PublishRequest, UPub |-> UnPublishRequest, Sub |-> SubscribeRequest,
        USub |-> UnSubscribeRequest, Mute |-> MuteRequest, Layer |-> LayerRequest, End |-> Nothing,
        UpExt |-> Struct("camel", {}, {"ext"}), UpUTree |-> UpdateTreeRequest, UpRTree |-> UpdateTreeRequest,
        Chat |-> Struct("camel", {"body"}, {"to"}), BEnd |-> Nothing, HB |-> Nothing])
ClientMessage == Nest(Struct("snake", {}, {"typ"}), [typ |-> MsgType])

-------------------------------------------------------------------------------
(* Responses: one type on both sides.                                               *)
Status == Struct("snake", {"code", "reason"}, {})
OpenSessionResponse == Struct("snake", {"session_id", "conn_id"}, {})
ReconnectResponse == Struct("snake", {"conn_id"}, {})
CreateWebrtcTransportResponse ==
  Nest(Struct("camel", {"xid", "ice_candidates"}, {"ice_param", "dtls"}),
       [ice_param |-> IceParameters, ice_candidates |-> Each(IceCandidate), dtls |-> DtlsParameters])
PublishResponse == Struct("camel", {"producer_id"}, {})
SubscribeResponse == Nest(Struct("camel", {"consumer_id"}, {"rtp"}), [rtp |-> RtpParameters])
EndResponse == Struct("camel", {"updated"}, {})

ResponseType ==
  Enum([Open |-> OpenSessionResponse, Reconn |-> ReconnectResponse, Close |-> Nothing,
        CreateX |-> CreateWebrtcTransportResponse, ConnX |-> Nothing, Pub |-> PublishResponse,
        UPub |-> Nothing, Sub |-> SubscribeResponse, USub |-> Nothing, Mute |-> Nothing, Layer |-> Nothing,
        End |-> EndResponse, UpExt |-> Nothing, UpUTree |-> Nothing, UpRTree |-> Nothing,
        Chat |-> Nothing, BEnd |-> Nothing, HB |-> Nothing])
Response == Nest(Struct("snake", {}, {"status", "typ"}), [status |-> Status, typ |-> ResponseType])

-------------------------------------------------------------------------------
(* Pushes: what the server writes ...                                               *)
IdRef         == Struct("snake", {"id"}, {})
ClosedNoticeRef == Nest(Skipping(Struct("snake", {}, {"status"})), [status |-> Status])
ChatNoticeRef == Struct("snake", {"from", "to", "body"}, {})
TreeStateRef  == Skipping(Struct("snake", {"path"}, {"value", "id", "prune"}))
StreamState   == Struct("snake", {"seq", "stype", "producer_id", "muted"}, {})
UserState ==
  Nest(Skipping(Struct("snake", {"id", "online", "streams", "inst_id"}, {"ext"})), [streams |-> Each(StreamState)])
ServerPushRef ==
  Nest(Struct("snake", {"typ"}, {}),
       [typ |-> Enum([Closed |-> ClosedNoticeRef, Chat |-> ChatNoticeRef, UInit |-> IdRef, UReady |-> IdRef,
                      UFull |-> UserState, UTree |-> TreeStateRef, RTree |-> TreeStateRef, RReady |-> IdRef])])

(* ... and what the client reads.                                                   *)
Id           == Struct("snake", {"id"}, {})
ClosedNotice == Nest(Skipping(Struct("snake", {}, {"status"})), [status |-> Status])
ChatNotice   == Struct("snake", {"from", "to", "body"}, {})
TreeState    == Struct("snake", {"path"}, {"value", "id", "prune"})
ServerPush ==
  Nest(Struct("snake", {"typ"}, {}),
       [typ |-> Enum([Closed |-> ClosedNotice, Chat |-> ChatNotice, UInit |-> Id, UReady |-> Id,
                      UFull |-> UserState, UTree |-> TreeState, RTree |-> TreeState, RReady |-> Id])])

-------------------------------------------------------------------------------
(* Packets.  The body is the message once more as JSON text; it stays taken apart.  *)
PacketType == {"Request", "Response", "Push0", "Push1", "Push2"}
PacketSer == Skipping(Struct("snake", {}, {"typ", "sn", "body", "ack"}))
PacketRef == Skipping(Struct("snake", {}, {"typ", "sn", "body", "ack"}))
=================================================================================
