----------------------------- MODULE MCSpanStore -----------------------------
(***************************************************************************)
(* What is checked of spans on their way: ended and traced, encoded and    *)
(* decoded, numbered and stored.  part says which of the four a behaviour  *)
(* is about; the codecs are functions, checked on every sample.            *)
(***************************************************************************)
EXTENDS SpanStore, Operations, Tracing, TLC

CONSTANTS r1, r2, a1, a2, x1, x2, y1, z1, none

VARIABLES part, sample

Homes == x1 :> r1 @@ x2 :> r1 @@ y1 :> r2 @@ z1 :> Unknown
Sizes == x1 :> 1 @@ x2 :> 2 @@ y1 :> 4 @@ z1 :> 1
Starts == r1 :> 1 @@ r2 :> 2
AdderSymmetry == Permutations(Adders)


-----------------------------------------------------------------------------
(* Samples. *)

Codec == INSTANCE Emitters WITH
           Segments <- "a" :> <<"a">> @@ "b" :> <<"b">> @@ "a.b" :> <<"a", "b">> @@ "0" :> <<"0">> @@ "1" :> <<"1">>
Emit == INSTANCE Emitters WITH
          Segments <- [k \in {"agentlightning", "reward", "name", "value", "tag", "link",
                                "key_match", "value_match"} |-> <<k>>]
Chat == INSTANCE TraceAdapters

DictsOf(keys, values) ==
  UNION {{Codec!Dict(f) : f \in [K -> values]} : K \in {K \in SUBSET keys : Cardinality(K) <= 2}}
ListsOf(values) == {Codec!List(s) : s \in UNION {[1..n -> values] : n \in 0..2}}
Small == {Codec!Leaf(1), Codec!Empty}
Flat == Small \cup DictsOf({"a", "0", "1"}, Small) \cup ListsOf(Small)
Trees == DictsOf({"a", "a.b", "0", "1"}, Flat) \cup ListsOf(Flat)

OneLink == <<[key |-> "response", value |-> "x"]>>
TwoLinks == Append(OneLink, [key |-> "span_id", value |-> "1"])
Dims == [names : {<<"a">>, <<"a", "b">>, <<"b", "a">>, <<"a", "b", "c">>, <<"c", "b", "a">>},
         primary : {"a", "b", "c"}, tags : {<<>>, <<"t">>, <<"t", "u">>}, links : {<<>>, OneLink, TwoLinks}]
Values3 == "a" :> "one" @@ "b" :> "two" @@ "c" :> "three"

Object(type, base, json) == [type |-> type, base |-> base, json |-> json, value |-> "it"]
Payloads ==
  [object : {Object("str", "str", TRUE), Object("bool", "int", TRUE), Object("float64", "float", TRUE),
             Object("MyBytes", "bytes", FALSE), Object("dict", "none", TRUE), Object("set", "none", FALSE)},
   others : {<<>>, Emit!Tagged(<<"t">>), Emit!Linked(OneLink)}]

Ids == [rollout : {none, r1, r2}, attempt : {none, a1}, number : {-3, -2, -1, 5}]
Mixed == {x \in Ids : x.rollout # none \/ x.attempt = none}
Requests == {<< [ids |-> ids, spans |-> s],
                [ids |-> [rollout |-> r1, attempt |-> a1, number |-> -3], spans |-> t] >> :
             ids \in Ids, s \in Mixed \X {x \in Mixed : x.attempt = none \/ x.number < -1},
             t \in {<<>>, << [rollout |-> none, attempt |-> none, number |-> -3] >>}}

Chats ==
  {<< [id |-> 1, parent |-> 0, prompt |-> p, completion |-> c, request |-> {}, tool |-> Chat!NoTool],
      [id |-> 2, parent |-> up, prompt |-> <<>>, completion |-> d, request |-> q, tool |-> x1],
      [id |-> 3, parent |-> over, prompt |-> <<>>, completion |-> <<>>, request |-> {}, tool |-> x2] >> :
   p \in {<<>>, <<Chat!Message("user", "hi", <<>>)>>},
   c \in {<<>>, <<Chat!Message("assistant", "yes", <<>>)>>, <<Chat!Message("user", "no", <<>>)>>},
   d \in {<<>>, <<Chat!Message("assistant", "so", <<>>)>>},
   q \in {{}, {"functions"}}, up \in 0..1, over \in 0..2}

Samples ==
  {[kind |-> "tree", of |-> t] : t \in Trees} \cup {[kind |-> "reward", of |-> d] : d \in Dims}
  \cup {[kind |-> "request", of |-> r] : r \in Requests} \cup {[kind |-> "chat", of |-> c] : c \in Chats}
  \cup {[kind |-> "payload", of |-> p] : p \in Payloads}

-----------------------------------------------------------------------------
MCInit ==
  /\ SpanInit /\ TraceInit /\ OperationInit /\ part \in {"store", "trace", "operation", "codec"}
  /\ IF part = "codec" THEN sample \in Samples ELSE sample = [kind |-> "none"]
  /\ part # "store" => ~threaded
  /\ part # "trace" => ~otlp
  /\ part # "operation" => propagate
InStore == part = "store" /\ SpanNext /\ UNCHANGED <<traced, operated, part, sample>>
InTrace == part = "trace" /\ TraceNext /\ UNCHANGED <<spanVars, operated, part, sample>>
InOperation == part = "operation" /\ OperationNext /\ UNCHANGED <<spanVars, traced, part, sample>>
MCSpec == MCInit /\ [][InStore \/ InTrace \/ InOperation]_<<spanVars, traced, operated, part, sample>>

\* What is encoded and decoded on the way comes back: nested attributes,
\* rewards between links and tags, the tool calls of a conversation, and the
\* numbers and ids of the spans of an OTLP request, in their order, and the
\* objects and messages that an agent emits.  What does not come back: an empty
\* list or dict, keys with dots, and objects of classes derived from builtin ones.
\* utils/otel.py, emitter/reward.py, emitter/object.py, adapter/messages.py, utils/otlp.py.
DataComeBack ==
  CASE sample.kind = "tree" -> Codec!ComesBack(sample.of)
    [] sample.kind = "reward" ->
         Emit!RewardComesBack(sample.of.names, Values3, sample.of.primary, sample.of.tags,
                                sample.of.links)
    [] sample.kind = "payload" -> Emit!PayloadComesBack(sample.of.object, sample.of.others)
    [] sample.kind = "chat" -> Chat!CallsToldOnce(sample.of)
    [] sample.kind = "request" -> RequestIsNumbered(sample.of, [r \in {r1, r2} |-> 3])
    [] OTHER -> TRUE
=============================================================================
