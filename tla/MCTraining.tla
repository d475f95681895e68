----------------------------- MODULE MCTraining -----------------------------
(***************************************************************************)
(* What an algorithm does with rollouts: the task server and its workers,  *)
(* the prompt search, and two pure parts on enumerated inputs, the triplet *)
(* adapter and the training batch.  part says which one a behaviour is     *)
(* about; an input is chosen in two steps, half in Init.                   *)
(***************************************************************************)
EXTENDS LegacyServer, TraceAdapters, TrainBatch, Apo, TLC

VARIABLES part, input

all == <<trainVars, part, input, searchVars>>

\* An input is a record with a stage, "none", "half" or "whole".
NoInput == [stage |-> "none"]

\* Traces: three spans, their intervals, parents without a cycle (9 is a span
\* that was lost), and kinds.
Intervals == {<<0, 1>>, <<0, 2>>, <<1, 2>>}
ParentsOf == {p \in [1..3 -> {0, 1, 2, 3, 9}] :
                \A n \in 1..3 : p[n] # n /\ \A k \in 1..3 : p[n] = k => p[k] # n /\ (p[k] \in 1..3 => p[p[k]] # n)}
Adapters == {[policy |-> "first_occurrence", answers |-> "own", agents |-> FALSE, repair |-> TRUE, skip |-> {}],
             [policy |-> "first_sibling", answers |-> "none", agents |-> FALSE, repair |-> TRUE, skip |-> {}],
             [policy |-> "first_occurrence", answers |-> "same", agents |-> TRUE, repair |-> TRUE, skip |-> {2}],
             [policy |-> "first_occurrence", answers |-> "own", agents |-> FALSE, repair |-> FALSE, skip |-> {}]}
Answer(adapter, n) == IF adapter.answers = "own" THEN n ELSE IF adapter.answers = "same" THEN 1 ELSE NoResponse

HalfTraces == {[stage |-> "half", times |-> t, parents |-> p] : t \in [1..3 -> Intervals], p \in ParentsOf}
FullTraces(half) ==
  {[stage |-> "whole", spans |-> [n \in 1..3 |-> [id |-> n, parent |-> half.parents[n], start |-> half.times[n][1],
                               end |-> half.times[n][2], kind |-> k[n], response |-> Answer(a, n)]],
    adapter |-> a] :
     k \in {f \in [1..3 -> {"call", "reward", "agent"}] : Cardinality({n \in 1..3 : f[n] = "agent"}) <= 1},
     a \in Adapters}

\* Traces of a proxy: three spans, whose clocks run backwards.
ProxySpan(kind, p, r, c, rid) ==
  [kind |-> kind, prompt |-> p, response |-> r, choices |-> c, rid |-> rid, rewards |-> kind = "other"]
ProxySpans ==
  {ProxySpan("other", FALSE, FALSE, FALSE, 0), ProxySpan("request", TRUE, FALSE, FALSE, 1)}
  \cup {ProxySpan("request", TRUE, TRUE, FALSE, rid) : rid \in {0, 1}}
  \cup {ProxySpan("raw", p, r, ~r, rid) : p \in BOOLEAN, r \in BOOLEAN, rid \in {0, 1}}
Numbered(n, s, seq) == [id |-> n, seq |-> seq, start |-> 3 - n] @@ s
HalfProxy == {[stage |-> "half", first |-> Numbered(1, s, 2), seqs |-> q] : s \in ProxySpans, q \in {1, 2, 3} \X {1, 2, 3}}
FullProxy(half) ==
  {[stage |-> "whole", spans |-> <<half.first, Numbered(2, s, half.seqs[1]), Numbered(3, t, half.seqs[2])>>] :
     s \in ProxySpans, t \in ProxySpans}

\* Rollouts: a turn, and none, one or two of another, with up to three tokens
\* each where two fit; of the store, or of a legacy runner, whose agent
\* returned nothing or a reward.
Prompts == {<<>>, <<1>>, <<1, 2>>, <<1, 2, 3>>}
Responses == {<<>>, <<4>>, <<4, 5>>, <<4, 5, 6>>}
TurnSet == [prompt : Prompts, response : Responses, reward : {NoReward, 1, 2}]
HalfBatches == {[stage |-> "half", first |-> t] : t \in TurnSet}
FullBatches(half) ==
  {[stage |-> "whole", rollouts |-> <<[turns |-> <<half.first>>, result |-> NoReward, legacy |-> way.legacy],
                                      [turns |-> ts, result |-> way.result, legacy |-> way.legacy]>>] :
     ts \in {<<>>} \cup {<<t>> : t \in TurnSet} \cup {<<half.first, t>> : t \in TurnSet},
     way \in {[legacy |-> FALSE, result |-> NoReward], [legacy |-> TRUE, result |-> NoReward],
              [legacy |-> TRUE, result |-> 0]}}

PureInit ==
  \/ part = "triplets" /\ input \in HalfTraces
  \/ part = "proxy" /\ input \in HalfProxy
  \/ part = "batch" /\ input \in HalfBatches
  \/ part \in {"server", "search"} /\ input = NoInput

Choose ==
  /\ \/ part = "triplets" /\ input.stage = "half" /\ input' \in FullTraces(input)
     \/ part = "proxy" /\ input.stage = "half" /\ input' \in FullProxy(input)
     \/ part = "batch" /\ input.stage = "half" /\ input' \in FullBatches(input)
  /\ UNCHANGED <<part, trainVars, searchVars>>

Serving ==
  /\ part = "server" /\ TrainNext
  /\ UNCHANGED <<part, input, searchVars>>

Searching ==
  /\ part = "search" /\ SearchNext
  /\ UNCHANGED <<part, input, trainVars>>

ATrace == part = "triplets" /\ input.stage = "whole"
AProxyTrace == part = "proxy" /\ input.stage = "whole"
ABatch == part = "batch" /\ input.stage = "whole"

\* Only the server's part looks at the trainer's configuration.
MCInit == TrainInit /\ SearchInit /\ PureInit /\ (part = "server" \/ plan = [before |-> TRUE, only |-> TRUE, freq |-> 0, steps |-> 1])
MCNext == Choose \/ Serving \/ Searching

Spec == MCInit /\ [][MCNext]_all

\* Spans lie within their parents.
Nested(tree) == \A n \in DOMAIN tree.kids : \A c \in Range(tree.kids[n]) :
                  tree.start[n] <= tree.start[c] /\ tree.end[c] <= tree.end[n]

-----------------------------------------------------------------------------
\* The repair moves spans and never loses or doubles one, in traces whose spans
\* lie within their parents.  adapter/triplet.py, repair_hierarchy.
RepairKeepsSpans ==
  LET tree == FromSpans(input.spans)
      fixed == Repaired(tree)
      flat(t) == FlattenSeq([i \in 1..Cardinality(DOMAIN t.kids) |-> t.kids[SetToSeq(DOMAIN t.kids)[i]]])
  IN Nested(tree) =>
       /\ Range(Traverse(fixed.kids, fixed.root)) = DOMAIN tree.kids
       /\ Len(flat(fixed)) = Len(flat(tree))

\* A reward goes to one call only.
Shared(triplets) == \E i, j \in DOMAIN triplets : i # j /\ triplets[i].reward = triplets[j].reward /\ triplets[i].reward # Nobody

\* The tracer's spans: a reward goes to one call, which had ended when it
\* started; and when a call got none, no reward that went nowhere started after
\* it, if rewards may go to any earlier call; spans lie within their parents.
TracedRewards ==
  LET triplets == Triplets(input.spans, input.adapter, input.adapter.policy)
      span(n) == SpanOf(input.spans, n)
      used == {triplets[i].reward : i \in DOMAIN triplets} \ {Nobody}
  IN /\ ~Shared(triplets)
     /\ \A i \in DOMAIN triplets : triplets[i].reward # Nobody =>
          span(triplets[i].call).end <= span(triplets[i].reward).start
     /\ input.adapter.policy = "first_occurrence" =>
          \A i \in DOMAIN triplets : triplets[i].reward = Nobody =>
            \A n \in Ids(input.spans) \ used :
              ~(span(n).kind = "reward" /\ span(triplets[i].call).end <= span(n).start)

\* The proxy's: a request counts once, whichever of its spans tell of it, and a
\* reward goes to one request numbered before it, and to none only when all
\* those have one.
ProxiedRewards ==
  LET triplets == ProxyTriplets(input.spans)
      seq(n) == SpanOf(input.spans, n).seq
      rid(i) == SpanOf(input.spans, triplets[i].call).rid
      used == {triplets[i].reward : i \in DOMAIN triplets} \ {Nobody}
  IN /\ ~Shared(triplets)
     /\ \A i, j \in DOMAIN triplets : i # j => triplets[i].call # triplets[j].call /\ (rid(i) # rid(j) \/ rid(i) = 0)
     /\ \A i \in DOMAIN triplets :
          IF triplets[i].reward # Nobody THEN seq(triplets[i].call) < seq(triplets[i].reward)
          ELSE \A n \in Ids(input.spans) \ used :
                 SpanOf(input.spans, n).rewards => seq(n) <= seq(triplets[i].call)

\* Both adapters give each reward to one call at most, to one that came before
\* it, and leave no call without one that is there for it; and repairing a
\* trace first loses and doubles none of its spans.
\* adapter/triplet.py, match_rewards, repair_hierarchy and
\* LlmProxyTraceToTriplet.adapt.
RewardsFollowCalls ==
  /\ ATrace => RepairKeepsSpans
  /\ ATrace /\ Nested(FromSpans(input.spans)) => TracedRewards
  /\ AProxyTrace => ProxiedRewards

\* Every turn that is trained on gives what its rollout came to, once, to the
\* last token of its response, if it has a prompt and a response; only turns
\* with a prompt that is too long or less than a mini batch are left out; and
\* the same rollouts count the same in training and in validation.
\* verl/daemon.py, get_train_data_batch, get_test_metrics; verl/trainer.py,
\* _train_step.
ScoresFit ==
  ABatch => ScoredAtEnd(input.rollouts, 3, 2, 2, 2) /\ MetricsAgree(input.rollouts, 3, 2, 2)
=============================================================================
