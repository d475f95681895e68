--------------------------- MODULE TraceAdapters ---------------------------
(***************************************************************************)
(* The adapters from the spans of a trace to what an algorithm reads.      *)
(* TracerTraceToTriplet: a flat list of spans becomes a tree, the tree is  *)
(* repaired, the LLM calls in it are found and rewards are matched to      *)
(* them.  A span is a record [id, parent, start, end, kind, response]:     *)
(* parent is Nobody or an id, kind is "call", "reward", "agent" (one that  *)
(* agent_match accepts), "stranger" (one it does not) or "other", response *)
(* is NoResponse or the id LLM providers give an answer.                   *)
(***************************************************************************)
EXTENDS Integers, Sequences, FiniteSets, SequencesExt, FiniteSetsExt

Nobody == 0
VirtualRoot == -1
NoResponse == 0

Ids(spans) == {spans[i].id : i \in DOMAIN spans}
SpanOf(spans, n) == CHOOSE s \in Range(spans) : s.id = n

\* from_spans: a parent that is not among the spans is made up, with the times
\* of its children, and so is a root over several roots.
Missing(spans) == {s.parent : s \in Range(spans)} \ (Ids(spans) \cup {Nobody})

Children(spans, n) == LET mine == SelectSeq(spans, LAMBDA s : s.parent = n)
                      IN [i \in DOMAIN mine |-> mine[i].id]

FromSpans(spans) ==
  LET roots == Children(spans, Nobody) \o SetToSeq(Missing(spans))
      nodes == Ids(spans) \cup Missing(spans)
      under(n) == {s \in Range(spans) : s.parent = n}
      start == [n \in nodes |-> IF n \in Ids(spans) THEN SpanOf(spans, n).start ELSE Min({s.start : s \in under(n)})]
      end == [n \in nodes |-> IF n \in Ids(spans) THEN SpanOf(spans, n).end ELSE Max({s.end : s \in under(n)})]
      kind == [n \in nodes |-> IF n \in Ids(spans) THEN SpanOf(spans, n).kind ELSE "other"]
      with(f, n, v) == [m \in DOMAIN f \cup {n} |-> IF m = n THEN v ELSE f[m]]
      tree == [root |-> roots[1], kids |-> [n \in nodes |-> Children(spans, n)],
               start |-> start, end |-> end, kind |-> kind]
  IN IF Len(roots) = 1 THEN tree
     ELSE [root |-> VirtualRoot, kids |-> with(tree.kids, VirtualRoot, roots),
           start |-> with(start, VirtualRoot, start[roots[1]]),
           end |-> with(end, VirtualRoot, end[Last(roots)]),
           kind |-> with(kind, VirtualRoot, "other")]

\* traverse: depth first.
Traverse(kids, top) ==
  LET below[n \in DOMAIN kids] == <<n>> \o FlattenSeq([i \in DOMAIN kids[n] |-> below[kids[n][i]]])
  IN below[top]

-----------------------------------------------------------------------------
(* repair_hierarchy. *)

\* Only children are descended through.
Entry(tree) ==
  LET down[n \in DOMAIN tree.kids] == IF Len(tree.kids[n]) = 1 THEN down[tree.kids[n][1]] ELSE n
  IN down[tree.root]

Slack(tree, m, n) == (tree.end[m] - tree.end[n]) + (tree.start[n] - tree.start[m])

\* A mutant: spans with the very same times envelop each other.
EnvelopsOrEquals(tree, m, n) == tree.start[m] <= tree.start[n] /\ tree.end[m] >= tree.end[n]

Envelops(tree, m, n) ==
  tree.start[m] <= tree.start[n] /\ tree.end[m] >= tree.end[n] /\ Slack(tree, m, n) > 0

\* A child moves under the node that envelops it most closely, the first of
\* them in traversal order, as long as it is not the only one left.
Reparent(tree, top, kids, n) ==
  LET others == SelectSeq(Traverse(kids, top), LAMBDA m : m \notin {n, top} /\ Envelops(tree, m, n))
      least == CHOOSE i \in DOMAIN others :
                 \A j \in DOMAIN others : Slack(tree, others[j], n) > Slack(tree, others[i], n)
                                          \/ (Slack(tree, others[j], n) = Slack(tree, others[i], n) /\ i <= j)
  IN IF Len(kids[top]) = 1 \/ others = <<>> THEN kids
     ELSE [kids EXCEPT ![top] = Remove(@, n), ![others[least]] = Append(@, n)]

Repaired(tree) ==
  LET top == Entry(tree)
  IN [tree EXCEPT !.kids = FoldLeft(LAMBDA kids, n : Reparent(tree, top, kids, n), tree.kids, tree.kids[top])]

-----------------------------------------------------------------------------
(* find_llm_calls: filters is a record [agents, repair, skip]: an agent_match is *)
(* given, the tree is repaired, calls left out for want of token ids.             *)

Ancestors(tree, n) ==
  LET nodes == Range(Traverse(tree.kids, tree.root))
  IN {m \in nodes \ {n} : n \in Range(Traverse(tree.kids, m))}

\* The nearest agent above n.
InAgent(tree, filters, n) ==
  LET agents == {m \in Ancestors(tree, n) : tree.kind[m] \in {"agent", "stranger"}}
  IN IF agents = {} THEN ~filters.agents
     ELSE \E m \in agents : /\ \A k \in agents : k = m \/ k \in Ancestors(tree, m)
                            /\ (filters.agents => tree.kind[m] = "agent")

\* Calls under a reward are left out, and an answer counts once: by its id, or
\* without one by its place under another call.
Qualifies(tree, filters, response, found, n) ==
  /\ tree.kind[n] = "call" /\ InAgent(tree, filters, n)
  /\ \A m \in Ancestors(tree, n) : tree.kind[m] # "reward"
  /\ IF response[n] = NoResponse THEN \A m \in Ancestors(tree, n) : m \notin Range(found)
     ELSE \A m \in Range(found) : response[m] # response[n]

Calls(tree, filters, response) ==
  FoldLeft(LAMBDA found, n : IF Qualifies(tree, filters, response, found, n) THEN Append(found, n) ELSE found,
           <<>>, Traverse(tree.kids, tree.root))

-----------------------------------------------------------------------------
(* match_rewards: from call to the reward span that is its reward. *)

\* A mutant: a reward may come before the end of the call.
OpenAny(tree, rewards, call, reward) == call \notin DOMAIN rewards

\* A call a reward can go to.
Open(tree, rewards, call, reward) == call \notin DOMAIN rewards /\ tree.end[call] <= tree.start[reward]

\* Items one by one: calls are remembered, a reward goes to the last one open.
Matched(tree, calls, before, items) ==
  LET step(acc, n) ==
        LET seen == IF n \in Range(calls) THEN Append(acc.seen, n) ELSE acc.seen
            open == SelectSeq(seen, LAMBDA c : Open(tree, acc.rewards, c, n))
        IN [seen |-> seen,
            rewards |-> IF tree.kind[n] = "reward" /\ open # <<>>
                        THEN [c \in DOMAIN acc.rewards \cup {Last(open)} |->
                                IF c = Last(open) THEN n ELSE acc.rewards[c]]
                        ELSE acc.rewards]
  IN FoldLeft(step, [seen |-> <<>>, rewards |-> before], items).rewards

ByStart(tree) ==
  LET order == Traverse(tree.kids, tree.root)
      key(i) == tree.start[order[i]] * (Len(order) + 1) + i
      at == SetToSortSeq(DOMAIN order, LAMBDA i, j : key(i) < key(j))
  IN [i \in DOMAIN order |-> order[at[i]]]

Rewards(tree, calls, policy) ==
  IF policy = "first_occurrence" THEN Matched(tree, calls, <<>>, ByStart(tree))
  ELSE FoldLeft(LAMBDA rewards, n : Matched(tree, calls, rewards, tree.kids[n]), <<>>,
                Traverse(tree.kids, tree.root))

\* span_to_triplet: the reward is still to come.
TripletOf(n) == [call |-> n, reward |-> Nobody]

\* to_trajectory: the calls in traversal order, each with its reward span or
\* Nobody.
ToTrajectory(tree, response, filters, policy) ==
  LET calls == SelectSeq(Calls(tree, filters, response), LAMBDA n : n \notin filters.skip)
      rewards == Rewards(tree, calls, policy)
  IN [i \in DOMAIN calls |->
        IF calls[i] \in DOMAIN rewards THEN [TripletOf(calls[i]) EXCEPT !.reward = rewards[calls[i]]]
        ELSE TripletOf(calls[i])]

\* adapt
Triplets(spans, filters, policy) ==
  LET tree == IF filters.repair THEN Repaired(FromSpans(spans)) ELSE FromSpans(spans)
      response == [n \in DOMAIN tree.kids |-> IF n \in Ids(spans) THEN SpanOf(spans, n).response ELSE NoResponse]
  IN ToTrajectory(tree, response, filters, policy)

-----------------------------------------------------------------------------
(* LlmProxyTraceToTriplet: the spans of an LLM proxy, whose clocks cannot  *)
(* be trusted, are ordered by their sequence ids, the requests with token  *)
(* ids are collected, once per request, and rewards go back to them.  A    *)
(* span is a record [id, seq, start, kind, prompt, response, choices, rid, *)
(* rewards]: kind is "raw" (raw_gen_ai_request), "request"                 *)
(* (litellm_request) or "other"; prompt, response and choices tell whether *)
(* the attribute holds token ids; rid is the request's id or NoRequestId;  *)
(* rewards tells whether it has a reward.                                  *)

NoRequestId == 0

\* By sequence id, then start; equals keep their order.
Ordered(spans) ==
  LET before(i, j) ==
        \/ spans[i].seq < spans[j].seq
        \/ spans[i].seq = spans[j].seq /\ spans[i].start < spans[j].start
        \/ spans[i].seq = spans[j].seq /\ spans[i].start = spans[j].start /\ i < j
      places == SortSeq([i \in DOMAIN spans |-> i], before)
  IN [i \in DOMAIN spans |-> spans[places[i]]]

\* _extract_tokens_from_raw: the response's ids, or else those of its choices.
RawTokens(s) == s.kind = "raw" /\ s.prompt /\ (s.response \/ s.choices)

\* _extract_tokens_from_openai
OpenAITokens(s) == s.kind = "request" /\ s.prompt /\ s.response

\* _request_id_from_attrs: whether the request was seen before.
Seen(requests, s) == s.rid # NoRequestId /\ \E i \in DOMAIN requests : requests[i].rid = s.rid

\* The requests with token ids, once each.
Requests(spans) ==
  FoldLeft(LAMBDA requests, s :
             IF (RawTokens(s) \/ OpenAITokens(s)) /\ ~Seen(requests, s) THEN Append(requests, s) ELSE requests,
           <<>>, Ordered(spans))

\* Each reward, in order, goes to the last request before it without one.
Assigned(spans) ==
  LET requests == Requests(spans)
      rewards == SelectSeq(Ordered(spans), LAMBDA s : s.rewards)
      give(got, r) ==
        LET free == {i \in DOMAIN requests : requests[i].id \notin DOMAIN got /\ requests[i].seq < r.seq}
        IN IF free = {} THEN got
           ELSE LET last == requests[CHOOSE i \in free : \A j \in free : j <= i].id
                IN [k \in DOMAIN got \cup {last} |-> IF k = last THEN r.id ELSE got[k]]
  IN FoldLeft(give, <<>>, rewards)

\* adapt
ProxyTriplets(spans) ==
  LET requests == Requests(spans)
      got == Assigned(spans)
  IN [i \in DOMAIN requests |->
        [call |-> requests[i].id,
         reward |-> IF requests[i].id \in DOMAIN got THEN got[requests[i].id] ELSE Nobody]]

-----------------------------------------------------------------------------
(* TraceToMessages: the spans of a trace as chat messages.  The data of a  *)
(* span are grouped attributes: prompt and completion are sequences of     *)
(* messages [role, text, calls], tool is the call that a span records.     *)

NoTool == "none"

\* get_tool_calls: the calls that direct children of the span recorded.
ToolsOf(span, spans) == SelectSeq(spans, LAMBDA s : s.parent = span.id /\ s.tool # NoTool)

\* adapt: a span without any gen_ai data is left out.
Chats(spans) ==
  SelectSeq(spans, LAMBDA s : s.prompt # <<>> \/ s.completion # <<>> \/ s.request # {})

Message(role, text, calls) == [role |-> role, text |-> text, calls |-> calls]

\* convert_to_openai_messages: a prompt message with tool calls loses its
\* text; only assistant completions count, and each gets all tool calls.
Prompted(m) == IF m.role = "assistant" /\ m.calls # <<>> THEN Message(m.role, "", m.calls)
               ELSE Message(m.role, m.text, <<>>)
Conversation(span, spans) ==
  LET tools == ToolsOf(span, spans)
      calls == [i \in DOMAIN tools |-> tools[i].tool]
      answers == SelectSeq(span.completion, LAMBDA m : m.role = "assistant")
  IN  [messages |-> [i \in DOMAIN span.prompt |-> Prompted(span.prompt[i])]
                    \o [i \in DOMAIN answers |-> Message("assistant", answers[i].text, calls)],
       tools |-> span.request]

Adapted(spans) ==
  LET chats == Chats(spans) IN [i \in DOMAIN chats |-> Conversation(chats[i], spans)]

\* No tool call is lost or told twice: every call below a span that answered
\* once is in exactly one message, and no other call is in any.
CallsToldOnce(spans) ==
  LET told == Adapted(spans)
      answered == {s \in ToSet(spans) : Len(SelectSeq(s.completion, LAMBDA m : m.role = "assistant")) = 1}
      places(tool) == {<<c, m, i>> \in (DOMAIN told) \X (1..4) \X (1..3) :
                         /\ m \in DOMAIN told[c].messages
                         /\ i \in DOMAIN told[c].messages[m].calls
                         /\ told[c].messages[m].calls[i] = tool}
  IN  \A s \in ToSet(spans) : s.tool # NoTool =>
        Cardinality(places(s.tool)) = Cardinality({a \in answered : a.id = s.parent})
=============================================================================
