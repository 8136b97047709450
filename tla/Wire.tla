--------------------------------- MODULE Wire -------------------------------------
(* The messages of proto/v1.rs and proto/v1_ser.rs as JSON.  The client writes its  *)
(* requests with the structs of v1_ser.rs and the server reads them with those of   *)
(* v1.rs; pushes are written with the ...Ref structs and read with their owning     *)
(* twins.  Nothing but the names, the options and the serde attributes ties the two *)
(* sides together, so these are what is kept here.                                  *)
(*                                                                                  *)
(* A JSON object is a function from its keys.  A value whose inside does not matter *)
(* is Leaf(x).  A struct in memory is a function from those of its fields that are  *)
(* not None; an array is a map from its indices.                                    *)
EXTENDS Naturals, TLC, FiniteSets

Leaf(x) == "=" :> x
Variant(tag, v) == [t \in {tag} |-> v]     \* a value of an enum
Null    == "null" :> "null"
Bad     == "bad" :> "bad"     \* serde reports an error

-------------------------------------------------------------------------------
(* Types.                                                                           *)
Opaque == [kind |-> "opaque"]
Each(type) == [kind |-> "each", of |-> type]       \* Vec, HashMap<String, _>
Enum(variants) == [kind |-> "enum", of |-> variants]
Parsed(type, table, other) ==                       \* what the code makes of a value read
  [kind |-> "parsed", of |-> type, table |-> table, other |-> other]
Words(names) == Parsed(Opaque, [w \in {Leaf(n) : n \in names} |-> w], Bad)
Untagged(types) == [kind |-> "untagged", of |-> types]   \* the first that fits
Struct(case, req, opt) ==                           \* fields of plain and of Option types
  [kind |-> "struct", case |-> case, req |-> req, opt |-> opt,
   skip |-> {}, dflt |-> <<>>, alias |-> <<>>, of |-> <<>>, strict |-> FALSE]
Nest(type, fields)  == [type EXCEPT !.of = fields]
Skipping(type)      == [type EXCEPT !.skip = type.opt]   \* skip_serializing_if is_none
SkippingAlso(type, fields) == [type EXCEPT !.skip = @ \cup fields]   \* ... if it is the default
Defaulting(type, values) == [type EXCEPT !.dflt = values]   \* serde(default)
Strict(type)        == [type EXCEPT !.strict = TRUE]     \* other fields are an error
Alias(type, fields) == [type EXCEPT !.alias = fields]

(* rename_all = "camelCase", for the names that change.                             *)
CamelCase ==
  [room_id |-> "roomId", stream_id |-> "streamId", producer_id |-> "producerId",
   consumer_id |-> "consumerId", audio_type |-> "audioType",
   local_address |-> "localAddress", local_port |-> "localPort",
   remote_ip |-> "remoteIp", remote_port |-> "remotePort",
   preferred_payload_type |-> "preferredPayloadType", preferred_id |-> "preferredId",
   preferred_encrypt |-> "preferredEncrypt",
   preferred_layers |-> "preferredLayers", spatial_layer |-> "spatialLayer",
   temporal_layer |-> "temporalLayer", ice_param |-> "iceParam",
   ice_candidates |-> "iceCandidates", tcp_type |-> "tcpType",
   username_fragment |-> "usernameFragment", ice_lite |-> "iceLite",
   header_extensions |-> "headerExtensions", mime_type |-> "mimeType",
   payload_type |-> "payloadType", clock_rate |-> "clockRate",
   rtcp_feedback |-> "rtcpFeedback", scalability_mode |-> "scalabilityMode",
   max_bitrate |-> "maxBitrate", codec_payload_type |-> "codecPayloadType",
   reduced_size |-> "reducedSize"]

Key(type, f) == IF type.case = "camel" /\ f \in DOMAIN CamelCase THEN CamelCase[f] ELSE f
Keys(type, f) == {Key(type, f)} \cup (IF f \in DOMAIN type.alias THEN type.alias[f] ELSE {})
Inside(type, f) == IF f \in DOMAIN type.of THEN type.of[f] ELSE Opaque

(* Which variant of an untagged enum a value in memory is: the one with its fields. *)
Fits(type, v) == type.req \subseteq DOMAIN v /\ DOMAIN v \subseteq type.req \cup type.opt
=================================================================================
