------------------------------ MODULE Emitters ------------------------------
(***************************************************************************)
(* The emitters: what an agent says of its work becomes the flat           *)
(* attributes of a span, between other attributes of that span, and is     *)
(* read from it again.  Rewards are read in three formats: the list of     *)
(* dimensions that is written today, the output of an AgentOps operation,  *)
(* and the single value of v0.2.                                           *)
(*                                                                         *)
(* Attributes are flat: dotted keys with plain values.  Emitters flatten   *)
(* nested data and readers nest it again, by utils/otel.py or by           *)
(* group_genai_dict of adapter/messages.py.  Nested data is a record       *)
(* [kind, at]: a leaf, a dict whose keys may hold dots, or a list.  Flat   *)
(* data is a sequence of pairs [key, value] (Python keeps the order of a   *)
(* dict) whose keys are sequences of segments.                             *)
(***************************************************************************)
EXTENDS Naturals, Sequences, FiniteSets, SequencesExt, Functions, TLC

CONSTANT Segments     \* of a dict key, the segments between its dots

Digit == "0" :> 0 @@ "1" :> 1 @@ "2" :> 2
IsDigit(segment) == segment \in DOMAIN Digit
Name(i) == CHOOSE d \in DOMAIN Digit : Digit[d] = i

Leaf(v) == [kind |-> "leaf", at |-> v]
Dict(f) == [kind |-> "dict", at |-> f]
List(s) == [kind |-> "list", at |-> s]
Empty == Dict(<<>>)
Entry(key, value) == [key |-> key, value |-> value]

\* flat[key] = value: a key that is there keeps its place.
Put(flat, entry) ==
  IF \E i \in DOMAIN flat : flat[i].key = entry.key
  THEN [i \in DOMAIN flat |-> IF flat[i].key = entry.key THEN entry ELSE flat[i]]
  ELSE Append(flat, entry)

\* flatten_attributes
RECURSIVE Walk(_, _, _)
Walk(flat, value, prefix) ==
  CASE value.kind = "leaf" -> Put(flat, Entry(prefix, value))
    [] value.kind = "dict" ->
         FoldLeft(LAMBDA f, k : Walk(f, value.at[k], prefix \o Segments[k]), flat, SetToSeq(DOMAIN value.at))
    [] value.kind = "list" ->
         FoldLeft(LAMBDA f, i : Walk(f, value.at[i], Append(prefix, Name(i - 1))), flat,
                  [i \in DOMAIN value.at |-> i])
Flatten(value) == Walk(<<>>, value, <<>>)

\* unflatten_attributes, first half: dicts only.  What is in the way of a
\* longer key is replaced by a dict.
RECURSIVE Inserted(_, _, _)
Inserted(node, key, value) ==
  LET k == Head(key)
      below == IF k \in DOMAIN node.at /\ node.at[k].kind = "dict" THEN node.at[k] ELSE Empty
      child == IF Len(key) = 1 THEN value ELSE Inserted(below, Tail(key), value)
  IN  Dict(k :> child @@ node.at)

\* A mutant: any digits make a list.
IsRangeAny(keys) == keys # {} /\ \A k \in keys : IsDigit(k)

IsRange(keys) ==
  keys # {} /\ (\A k \in keys : IsDigit(k)) /\ {Digit[k] : k \in keys} = 0 .. Cardinality(keys) - 1

\* Second half, the children first: the keys "0" to "n-1" make a list.
RECURSIVE Converted(_)
Converted(node) ==
  IF node.kind = "leaf" THEN node
  ELSE LET at == [k \in DOMAIN node.at |-> Converted(node.at[k])] IN
       IF ~IsRange(DOMAIN at) THEN Dict(at)
       ELSE List([i \in 1 .. Cardinality(DOMAIN at) |->
                    IF Name(i - 1) \in DOMAIN at THEN at[Name(i - 1)] ELSE Empty])

Unflatten(flat) == Converted(FoldLeft(LAMBDA n, e : Inserted(n, e.key, e.value), Empty, flat))

\* filter_and_unflatten_attributes; an attribute that is the prefix itself
\* raises ValueError.
Under(flat, prefix) == SelectSeq(flat, LAMBDA e : IsPrefix(prefix, e.key))
Stripped(flat, prefix) ==
  [i \in DOMAIN flat |-> [flat[i] EXCEPT !.key = SubSeq(@, Len(prefix) + 1, Len(@))]]
Nested(flat, prefix) == Unflatten(Stripped(Under(flat, prefix), prefix))

\* group_genai_dict: one digit at the front makes a list of dicts, without
\* gaps and without the keys that do not start with a digit; the value under
\* a bare index gets an empty key.
RECURSIVE Group(_)
Group(flat) ==
  LET heads == {flat[i].key[1] : i \in DOMAIN flat}
      of(h) == Stripped(SelectSeq(flat, LAMBDA e : e.key[1] = h), <<h>>)
      bare(f) == [i \in DOMAIN f |-> IF f[i].key = <<>> THEN [f[i] EXCEPT !.key = <<"">>] ELSE f[i]]
      digits == {h \in heads : IsDigit(h)}
      whole(h) == \E i \in DOMAIN flat : flat[i].key = <<h>>
      last(h) == Last(SelectSeq(flat, LAMBDA e : e.key = <<h>>)).value
  IN  IF digits # {}
      THEN List([i \in 1 .. Cardinality(digits) |->
                   Group(bare(of(CHOOSE h \in digits : Cardinality({g \in digits : Digit[g] < Digit[h]}) = i - 1)))])
      ELSE Dict([h \in heads |->
                   LET longer == SelectSeq(of(h), LAMBDA e : e.key # <<>>)
                   IN  IF longer = <<>> THEN last(h) ELSE Group(longer)])
Grouped(flat, prefix) ==
  Group(Stripped(SelectSeq(flat, LAMBDA e : IsStrictPrefix(prefix, e.key)), prefix))

\* extract_prompt_image_urls: the messages of a prompt, in order; extra keys
\* beside the indices are left out, and a dict without any is one message.
Entries(raw) ==
  LET digits == {k \in DOMAIN raw.at : IsDigit(k)} IN
  CASE raw.kind = "list" -> raw.at
    [] raw.kind = "dict" /\ digits # {} ->
         LET order == SetToSortSeq(digits, LAMBDA j, k : Digit[j] < Digit[k])
         IN  [i \in DOMAIN order |-> raw.at[order[i]]]
    [] raw.kind = "dict" /\ digits = {} -> <<raw>>
    [] OTHER -> <<>>

\* LightningSpanAttributes.REWARD and the keys of its entries.
RewardKey == <<"agentlightning", "reward">>

\* RewardDimension and LinkAttributes, as dicts.
Dimension(name, value) == Dict("name" :> Leaf(name) @@ "value" :> Leaf(value))

\* make_tag_attributes and make_link_attributes: a list under a key of its
\* own.  A link says which attribute, or which id, of another span matches.
Tagged(tags) ==
  Flatten(Dict("agentlightning" :> Dict("tag" :>
    List([i \in DOMAIN tags |-> Leaf(tags[i])]))))
Link(key, value) == Dict("key_match" :> Leaf(key) @@ "value_match" :> Leaf(value))
Linked(links) ==
  Flatten(Dict("agentlightning" :> Dict("link" :>
    List([i \in DOMAIN links |-> Link(links[i].key, links[i].value)]))))

\* What extract_links_from_attributes and extract_tags_from_attributes may
\* return.  Where there are none they find an empty dict, which is no list:
\* a ValidationError is raised and nothing returned.
LinksOf(attributes) ==
  {[i \in DOMAIN list.at |->
      [key |-> list.at[i].at["key_match"].at, value |-> list.at[i].at["value_match"].at]] :
   list \in {v \in {Nested(attributes, <<"agentlightning", "link">>)} : v.kind = "list"}}
TagsOf(attributes) ==
  {[i \in DOMAIN list.at |-> list.at[i].at] :
   list \in {v \in {Nested(attributes, <<"agentlightning", "tag">>)} : v.kind = "list"}}

\* query_linked_spans: all of the links.
Matches(span, links) ==
  \A i \in DOMAIN links : IF links[i].key = "span_id" THEN span.id = links[i].value
    ELSE \E j \in DOMAIN span.attributes :
           span.attributes[j] = Entry(<<links[i].key>>, Leaf(links[i].value))
LinkedSpans(spans, links) == SelectSeq(spans, LAMBDA s : Matches(s, links))

\* The primary key comes first, the others in the order of the dict.
Dimensions(names, rewards, primary) ==
  <<primary>> \o SelectSeq(names, LAMBDA k : k # primary)

\* emit_reward with a dict: without a primary key, or with one that is no
\* key of the dict, nothing is emitted.
Refused(names, primary) == ~Contains(names, primary)

\* emit_annotation: all attributes are flattened, in the order given; the same
\* key in both is the later one's.
Annotated(data, others) == FoldLeft(Put, Flatten(data), others)

\* The list of dimensions under its key, then the other attributes.
Emitted(names, rewards, primary, others) ==
  LET order == Dimensions(names, rewards, primary)
      list == List([i \in DOMAIN order |-> Dimension(order[i], rewards[order[i]])])
  IN  Annotated(Dict("agentlightning" :> Dict("reward" :> list)), others)

\* A number (float, int, bool) under its only dimension.
EmittedNumber(value, others) == Emitted(<<"primary">>, "primary" :> value, "primary", others)

\* What a call that raises emits, and what is read where nothing is: None.
Raised == <<>>
NoReward == "none"

\* The reward decorator: what the function returns is emitted, or with
\* AgentOps is the output of a span of AgentOps, where anything but a number
\* counts as no reward.
Decorated(isNumber, value, agentops) ==
  CASE ~agentops /\ isNumber -> EmittedNumber(value, <<>>)
    [] ~agentops /\ ~isNumber -> Raised
    [] OTHER ->
         <<Entry(<<"agentops", "task", "output">>,
                   Dict("type" :> Leaf("reward") @@
                          "value" :> Leaf(IF isNumber THEN value ELSE NoReward)))>>

\* Objects: type is the name of an object's own class, base the builtin class
\* it is an instance of, if that has a literal; json, whether it is JSON data.
Literals == {"str", "int", "float", "bool", "bytes"}
TypeName(object) == IF object.base = "bytes" THEN "bytes" ELSE object.type
ObjectKey(last) == <<"agentlightning", "object", last>>

\* encode_object.
Encoded(object) ==
  CASE object.base \in Literals ->
         <<Entry(ObjectKey("type"), Leaf(TypeName(object))),
           Entry(ObjectKey("literal"), Leaf(object.value))>>
    [] object.base \notin Literals /\ object.json ->
         <<Entry(ObjectKey("type"), Leaf(object.type)),
           Entry(ObjectKey("json"), Leaf(object.value))>>
    [] OTHER -> Raised

\* emit_object: the other attributes come after.
EmittedObject(object, others) ==
  IF Encoded(object) = Raised THEN Raised ELSE FoldLeft(Put, Encoded(object), others)

Value(span, key) ==
  LET at == SelectSeq(span.attributes, LAMBDA e : e.key = key)
  IN  IF at = <<>> THEN Empty ELSE at[1].value

\* get_rewards_from_span
Read(span) ==
  IF \E i \in DOMAIN span.attributes : IsPrefix(RewardKey, span.attributes[i].key)
  THEN Nested(span.attributes, RewardKey).at ELSE <<>>

\* get_reward_value, NoReward for None.
RewardOf(span) ==
  LET list == Read(span)
      output == Value(span, <<"agentops", "task", "output">>)
  IN  CASE list # <<>> -> list[1].at["value"].at
        [] list = <<>> /\ output.kind = "dict" /\ output # Empty -> output.at["value"].at
        [] list = <<>> /\ output = Empty /\ span.name = "annotation" /\ Value(span, <<"reward">>) # Empty ->
             Value(span, <<"reward">>).at
        [] OTHER -> NoReward

\* get_object_value: JSON goes first; a literal is read by its type's name,
\* and a name of no literal raises.
DecodedObject(span) ==
  LET json == Value(span, ObjectKey("json"))
      literal == Value(span, ObjectKey("literal"))
      type == Value(span, ObjectKey("type"))
  IN  CASE json # Empty -> json.at
        [] json = Empty /\ literal = Empty -> NoReward
        [] OTHER -> IF type = Empty \/ type.at \in Literals THEN literal.at ELSE "raised"

\* emit_message and get_message_value; emit_exception, whose span has the
\* exception as attributes and as an event.
Messaged(text, others) ==
  FoldLeft(Put, <<Entry(<<"agentlightning", "message", "body">>, Leaf(text))>>, others)
MessageOf(span) ==
  LET body == Value(span, <<"agentlightning", "message", "body">>)
  IN  IF body = Empty THEN NoReward ELSE body.at
Exception(name, text, others) ==
  FoldLeft(Put, <<Entry(<<"exception", "type">>, Leaf(name)),
                    Entry(<<"exception", "message">>, Leaf(text)),
                    Entry(<<"exception", "escaped">>, Leaf(TRUE))>>, others)

\* Span.from_opentelemetry: the span of an attempt for the store; nothing of
\* what was emitted is lost.
FromOpenTelemetry(ended, rollout, attempt, number) ==
  [rollout |-> rollout, attempt |-> attempt, number |-> number] @@ ended

\* Span.from_attributes: a span of nothing but attributes; what is not given
\* gets a default.
FromAttributes(given, attributes, newId) ==
  given @@ [attributes |-> attributes, rollout |-> "", attempt |-> "", number |-> 0,
            id |-> newId, parent |-> NoReward, name |-> "agentlightning.virtual"]

\* find_final_reward: the last one.
FinalReward(spans) ==
  LET rewarding == SelectSeq(spans, LAMBDA s : RewardOf(s) # NoReward)
  IN  IF rewarding = <<>> THEN NoReward ELSE RewardOf(Last(rewarding))

-----------------------------------------------------------------------------
(* What to expect of them. *)

\* Nothing is empty, no key has a dot and no dict has the keys of a list.
RECURSIVE Clean(_)
Clean(v) ==
  v.kind # "leaf" =>
    /\ DOMAIN v.at # {}
    /\ v.kind = "dict" => ~IsRange(DOMAIN v.at) /\ \A k \in DOMAIN v.at : Segments[k] = <<k>>
    /\ \A k \in DOMAIN v.at : Clean(v.at[k])

NoConflict(flat) == \A i, j \in DOMAIN flat : i # j => ~IsPrefix(flat[i].key, flat[j].key)

\* Dicts whose keys are no digits, and lists of such dicts.
RECURSIVE IsChat(_)
IsChat(v) ==
  CASE v.kind = "leaf" -> TRUE
    [] v.kind = "dict" -> \A k \in DOMAIN v.at : ~IsDigit(k) /\ IsChat(v.at[k])
    [] v.kind = "list" -> \A i \in DOMAIN v.at : v.at[i].kind = "dict" /\ IsChat(v.at[i])

\* What is emitted comes back as it was; attributes that nest without
\* conflict are the attributes of what they nest to; the two readers agree on
\* chat data under any prefix; and the messages of a prompt stay in order when
\* another key next to them keeps them from being a list.
ComesBack(v) ==
  LET flat == Flatten(v) IN
  /\ Clean(v) => Unflatten(flat) = v
  /\ NoConflict(flat) => ToSet(Flatten(Unflatten(flat))) = ToSet(flat)
  /\ Clean(v) /\ IsChat(v) =>
       LET deep == [i \in DOMAIN flat |-> [flat[i] EXCEPT !.key = <<"a", "b">> \o @]]
       IN  Grouped(deep, <<"a", "b">>) = Nested(deep, <<"a", "b">>)
  /\ Clean(v) /\ v.kind = "list" =>
       Entries(Unflatten(Append(flat, Entry(<<"b">>, Leaf("filter"))))) = v.at

\* A list that is not empty comes back, of an empty one nothing does.
Regained(list) == {list} \ {<<>>}

\* The primary reward that was emitted last is the final reward, whatever
\* other dimensions, links and tags the spans carry and whatever spans
\* follow; a span of links and tags alone is no reward; tags and links come
\* back, unless there were none: reading them then raises; and the links lead
\* to the spans they were made for and to no other.
RewardComesBack(names, rewards, primary, tags, links) ==
  LET others == Tagged(tags) \o Linked(links)
      call(id, response) ==
        [id |-> id, name |-> "call", attributes |-> <<Entry(<<"response">>, Leaf(response))>>]
      reward == [id |-> "2", name |-> "annotation", attributes |-> Emitted(names, rewards, primary, others)]
      plain == [id |-> "3", name |-> "annotation", attributes |-> others]
      old == [id |-> "4", name |-> "annotation", attributes |-> <<Entry(<<"reward">>, Leaf("old"))>>]
      other == [id |-> "5", name |-> "annotation", attributes |-> EmittedNumber("other", Tagged(tags))]
  IN  ~Refused(names, primary) =>
        /\ RewardOf(plain) = NoReward
        /\ FinalReward(<<old, other, reward, plain>>) = rewards[primary]
        /\ TagsOf(reward.attributes) = Regained(tags) /\ LinksOf(reward.attributes) = Regained(links)
        /\ \A agentops \in BOOLEAN :
             RewardOf([reward EXCEPT !.attributes = Decorated(TRUE, "one", agentops)]) = "one"
        /\ \A found \in LinksOf(reward.attributes) :
             LinkedSpans(<<call("1", "x"), reward, call("6", "x"), call("1", "y")>>, found)
               = SelectSeq(<<call("1", "x"), call("6", "x"), call("1", "y")>>,
                           LAMBDA s : \A i \in DOMAIN links :
                             links[i].value \in {s.id, s.attributes[1].value.at})

\* An object, message or exception that was emitted comes back from the
\* stored span, and from one made of its attributes, and no other kind of
\* payload does; an object of a class derived from a builtin one raises.
PayloadComesBack(object, others) ==
  LET stored(attributes) ==
        FromOpenTelemetry([id |-> "1", parent |-> NoReward, name |-> "any", attributes |-> attributes], "r", "a", 1)
      copy(span) == FromAttributes([number |-> span.number], span.attributes, "2")
      spans == {stored(EmittedObject(object, others)), copy(stored(EmittedObject(object, others)))}
      message == stored(Messaged("text", others))
      exception == stored(Exception("KeyError", "text", others))
  IN  /\ EmittedObject(object, others) = Raised <=> object.base \notin Literals /\ ~object.json
      /\ EmittedObject(object, others) # Raised =>
           \A s \in spans :
             /\ DecodedObject(s) =
                  IF object.base \in Literals /\ TypeName(object) \notin Literals THEN "raised" ELSE object.value
             /\ MessageOf(s) = NoReward /\ RewardOf(s) = NoReward /\ s.number = 1
      /\ MessageOf(message) = "text" /\ DecodedObject(message) = NoReward
      /\ \A s \in {message, exception} : TagsOf(s.attributes) = TagsOf(others)
      /\ {MessageOf(exception), DecodedObject(exception)} = {NoReward}
=============================================================================
