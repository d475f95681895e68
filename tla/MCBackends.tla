----------------------------- MODULE MCBackends -----------------------------
(* The ways to a store, the collections of both backends, their queues and   *)
(* counters, the Mongo transaction, and the metrics that all of them count,  *)
(* for TLC: one behaviour is about one of them.                              *)
EXTENDS MongoTransaction, MongoPool, Queues, Metrics, TLC

CONSTANTS a, b, x, Null, MaxOps
VARIABLES roots, leaves, size, docs, ops,
          method, route, given, place, args,
          part

\* Two strings, of which one has the other in it but for a capital.
Strings == {"span", "Span of"}
Item(k1, k2, s, t) == [k1 |-> k1, k2 |-> k2, s |-> s, end_time |-> t]
Items == {Item(k1, k2, s, Null) : k1 \in {a, b}, k2 \in {a, b}, s \in Strings \cup {Null}}
Pair == <<Item(a, a, "span", Null), Item(b, a, Null, 2)>>
Payloads == {<<i>> : i \in {j \in Items : j.s # "Span of" \/ j.k1 # j.k2}}
            \cup {<<Item(k, k, "span", IF k = a THEN 2 ELSE 1)>> : k \in {a, b}}
            \cup {Pair, <<Pair[2], Item(a, b, "Span of", 1)>>}

Rank == [v \in Strings \cup {Null} |-> IF v = Null THEN 0 ELSE IF v = "Span of" THEN 1 ELSE 2]
Parts == "span" :> {"span"} @@ "Span of" :> {"Span of", "Span"}
Lower == "span" :> "span" @@ "Span" :> "span" @@ "Span of" :> "span of"
None == [f \in {} |-> Null]
On(field, op, e) == [f \in {field} |-> [o \in {op} |-> e]]
Pick(field) == {None, On(field, "exact", a), On(field, "exact", Null), On(field, "within", {b})}
Join(f, g) == [k \in DOMAIN f \cup DOMAIN g |-> IF k \in DOMAIN f THEN f[k] ELSE g[k]]
Marked == {None, On("s", "contains", "span")}
Queries == {[filter |-> Join(Join(f, g), h), must |-> m, logic |-> l] :
              f \in Pick("k1"), g \in Pick("k2") \ {On("k2", "within", {b})}, h \in Marked,
              m \in {None, On("k1", "exact", a), On("k1", "exact", b),
                     Join(On("k1", "exact", a), On("s", "exact", "span"))},
              l \in {"and", "or"}}

C == INSTANCE Collections WITH Outer <- {a, b}, Inner <- {a, b}, Marks <- Strings \cup {Null}, Latest <- 2

W == INSTANCE StoreRoutes WITH MaxConditions <- 2

Metric(k, l, bs, v) == [kind |-> k, labels |-> l, buckets |-> bs, level |-> v]
Registrations ==
  ("a.b" :> {Metric("counter", <<"l">>, "none", v) : v \in {0, 1}}) @@
  ("a_b" :> {Metric("histogram", <<>>, bs, 0) : bs \in {"none", "defaults"}} \cup {Metric("counter", <<"l">>, "none", 0)})
TwoMetrics == DOMAIN Registrations
OneLabel == {"l"}
OneNormal == [n \in TwoMetrics |-> "a_b"]

\* Two coroutines share a loop.
Loops2 == a :> 1 @@ b :> 1 @@ x :> 2
TwoNames == <<"rollouts", "attempts">>

cvars == <<roots, leaves, size, docs, ops>>
wvars == <<method, route, given, place, args>>

NoRoute == method = "" /\ route = "" /\ given = None /\ place = "" /\ args = None
BackendsInit ==
  /\ TxnInit /\ C!Init /\ QueueInit /\ MetricsInit /\ PoolInit
  /\ \/ part \in {"data", "queue", "transaction", "metrics", "pool"} /\ NoRoute
     \/ part = "routes" /\ W!RouteInit
  /\ part # "queue" => backend = "memory"
Data == part = "data" /\ C!Next /\ UNCHANGED <<txnVars, queueVars, wvars, metricsVars, pool, part>>
Queue == part = "queue" /\ QueueNext /\ UNCHANGED <<txnVars, cvars, wvars, metricsVars, pool, part>>
Transaction == part = "transaction" /\ TxnNext /\ UNCHANGED <<cvars, queueVars, wvars, metricsVars, pool, part>>
Routed == part = "routes" /\ W!RouteNext /\ UNCHANGED <<txnVars, cvars, queueVars, metricsVars, pool, part>>
Measured == part = "metrics" /\ MetricsNext /\ UNCHANGED <<txnVars, cvars, queueVars, wvars, pool, part>>
Pooled == part = "pool" /\ PoolNext /\ UNCHANGED <<txnVars, cvars, queueVars, wvars, metricsVars, part>>
BackendsSpec == BackendsInit /\ [][Data \/ Queue \/ Transaction \/ Routed \/ Measured \/ Pooled]_<<txnVars, cvars, queueVars, wvars, metricsVars, pool, part>>

=============================================================================
