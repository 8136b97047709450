--------------------------------- MODULE Serde ------------------------------------
(* What serde and serde_json do with a value and a type of Wire: JsonEncode is      *)
(* Serialize, JsonDecode is Deserialize.                                            *)
EXTENDS Wire

RECURSIVE JsonEncode(_, _)
JsonEncode(type, v) ==
  CASE type.kind = "opaque" -> v
    [] type.kind = "each"   -> [k \in DOMAIN v |-> JsonEncode(type.of, v[k])]
    [] type.kind = "enum"   -> [k \in DOMAIN v |-> JsonEncode(type.of[k], v[k])]
    [] type.kind = "parsed" -> JsonEncode(type.of, v)
    [] type.kind = "untagged" -> JsonEncode(type.of[CHOOSE i \in DOMAIN type.of : Fits(type.of[i], v)], v)
    [] type.kind = "struct" ->
         LET usual(f) == IF f \in DOMAIN type.dflt THEN v[f] = type.dflt[f] ELSE f \notin DOMAIN v
             shown == {f \in type.req \cup type.opt : f \notin type.skip \/ ~usual(f)}
         IN  [key \in {Key(type, f) : f \in shown} |->
                LET f == CHOOSE f \in shown : Key(type, f) = key
                IN  IF f \in DOMAIN v THEN JsonEncode(Inside(type, f), v[f]) ELSE Null]

(* A missing or null Option is None, anything else missing is an error unless it    *)
(* has a default; what the struct does not name is ignored.                         *)
RECURSIVE JsonDecode(_, _)
JsonDecode(type, json) ==
  LET whole(v) == IF \E k \in DOMAIN v : v[k] = Bad THEN Bad ELSE v
  IN  CASE type.kind = "opaque" -> IF json = Null THEN Bad ELSE json
        [] type.kind = "each"   -> whole([k \in DOMAIN json |-> JsonDecode(type.of, json[k])])
        [] type.kind = "enum"   ->
             IF \E k \in DOMAIN type.of : DOMAIN json = {k}
             THEN whole([k \in DOMAIN json |-> JsonDecode(type.of[k], json[k])]) ELSE Bad
        [] type.kind = "parsed" ->
             LET read == JsonDecode(type.of, json)
             IN  IF read = Bad THEN Bad
                 ELSE IF read \in DOMAIN type.table THEN type.table[read] ELSE type.other
        [] type.kind = "untagged" ->
             LET read == [i \in DOMAIN type.of |-> JsonDecode(type.of[i], json)]
                 fit  == {i \in DOMAIN read : read[i] # Bad}
             IN  IF fit = {} THEN Bad ELSE read[CHOOSE i \in fit : \A j \in fit : i <= j]
        [] type.kind = "struct" ->
             LET here(f)  == Keys(type, f) \cap DOMAIN json
                 at(f)    == json[CHOOSE k \in here(f) : TRUE]
                 given(f) == here(f) # {} /\ (f \in type.opt => at(f) # Null)
                 known    == UNION {Keys(type, f) : f \in type.req \cup type.opt}
             IN  IF \/ \E f \in type.req \ DOMAIN type.dflt : here(f) = {}
                    \/ type.strict /\ ~(DOMAIN json \subseteq known)
                 THEN Bad
                 ELSE whole([f \in {g \in type.req \cup type.opt : given(g)} |->
                               JsonDecode(Inside(type, f), at(f))] @@ type.dflt)
=================================================================================
