----------------------------- MODULE StoreRoutes -----------------------------
(***************************************************************************)
(* The ways a query or an update takes to a CollectionBasedLightningStore: *)
(* the caller holds the store, a LightningStoreThreaded around it, the     *)
(* LightningStoreServer in its own process, or a LightningStoreClient that *)
(* sends a request to that server.  Each way passes every option on by     *)
(* hand, a request leaves out what is None or UNSET, and the server fills  *)
(* in the defaults of its request models; in the end the store turns the   *)
(* options into the question it asks a collection, or the fields it writes.*)
(*                                                                         *)
(* A call gives some options: args is a function on their names.  None and *)
(* the other values are strings; what an id or a status is, is left out.   *)
(***************************************************************************)
EXTENDS Integers, FiniteSetsExt, TLC

CONSTANT MaxConditions   \* bound on the conditions of one query

Queries == {"query_rollouts", "query_attempts", "query_resources", "query_workers", "query_spans"}
Updates == {"update_rollout", "update_attempt", "update_worker"}
Routes == {"direct", "threaded", "server", "client"}

\* The fields a span is found by, with an exact value or a part of it.
SpanFields == {"trace_id", "span_id", "parent_id", "name"}
Part == [trace_id |-> "trace_id_contains", span_id |-> "span_id_contains",
         parent_id |-> "parent_id_contains", name |-> "name_contains"]

\* The options of a method that are conditions.
Conditions(m) ==
  CASE m = "query_rollouts"  -> {"status_in", "status", "rollout_id_in", "rollout_ids", "rollout_id_contains"}
    [] m = "query_attempts"  -> {}
    [] m = "query_resources" -> {"resources_id", "resources_id_contains"}
    [] m = "query_workers"   -> {"status_in", "worker_id_contains"}
    [] m = "query_spans"     -> {"attempt_id"} \cup SpanFields \cup {Part[f] : f \in SpanFields}

Logical == {"query_rollouts", "query_workers", "query_spans"}   \* take filter_logic

\* The default of an option, in every signature and in the request models.
Default(m, o) ==
  CASE o = "limit" -> -1
    [] o = "offset" -> 0
    [] o = "filter_logic" -> "and"
    [] o = "sort_order" -> "asc"
    [] o = "sort_by" -> IF m \in {"query_attempts", "query_spans"} THEN "sequence_id" ELSE "None"
    [] OTHER -> "None"

Value(m, args, o) == IF o \in DOMAIN args THEN args[o] ELSE Default(m, o)
Given(m, args) == {o \in Conditions(m) : Value(m, args, o) # "None"}
Only(m, args, options) == [o \in options |-> Value(m, args, o)]
Either(m, args, new, old) == IF Value(m, args, new) # "None" THEN Value(m, args, new) ELSE Value(m, args, old)

-----------------------------------------------------------------------------
\* The arguments tried of each method, all of the right type.

Pages(m) ==
  {[limit |-> l, offset |-> o, sort_order |-> d] @@ s @@ g :
     l \in {-1, 0, 1}, o \in {0, 1}, d \in {"asc", "desc"},
     s \in {<< >>, "sort_by" :> "None", "sort_by" :> "known", "sort_by" :> "unknown"},
     g \in IF m \in Logical THEN {"filter_logic" :> "and", "filter_logic" :> "or"} ELSE {<< >>}}

Fields(m) ==
  CASE m = "update_rollout" -> [input |-> {"this", "None"}, mode |-> {"this", "None"}, resources_id |-> {"this", "None"},
                                status |-> {"running", "failed", "cancelled"}, config |-> {"this"}, metadata |-> {"this", "None"}]
    [] m = "update_attempt" -> [status |-> {"running", "failed", "timeout"}, worker_id |-> {"this"},
                                last_heartbeat_time |-> {"this"}, metadata |-> {"this", "None"}]
    [] m = "update_worker"  -> [heartbeat_stats |-> {"this"}]

Values(m, some) == {u \in [some -> UNION {Fields(m)[o] : o \in some}] : \A o \in some : u[o] \in Fields(m)[o]}

\* The deprecated names bring other values than the new ones.
Condition(o) == IF o \in {"status", "rollout_ids"} THEN "that" ELSE "this"

CallsOf(m) ==
  IF m \in Updates THEN UNION {Values(m, some) : some \in SUBSET DOMAIN Fields(m)}
  ELSE {p @@ [o \in c |-> Condition(o)] :
          p \in Pages(m), c \in UNION {kSubset(n, Conditions(m)) : n \in 0..MaxConditions}}

-----------------------------------------------------------------------------
\* What the client sends.

Paging == {"limit", "offset"}
Sorting(m, args) == IF Value(m, args, "sort_by") = "None" THEN {} ELSE {"sort_by", "sort_order"}

\* The deprecated names are given up here.
SentRollouts(args) ==
  LET m == "query_rollouts"
      status == Either(m, args, "status_in", "status")
      ids == Either(m, args, "rollout_id_in", "rollout_ids")
  IN (IF status = "None" THEN << >> ELSE ("status_in" :> status))
     @@ (IF ids = "None" THEN << >> ELSE ("rollout_id_in" :> ids))
     @@ Only(m, args, (Given(m, args) \cap {"rollout_id_contains"}) \cup Paging \cup {"filter_logic"} \cup Sorting(m, args))

SentAttempts(args) == Only("query_attempts", args, Paging \cup Sorting("query_attempts", args))

SentResources(args) ==
  LET m == "query_resources" IN Only(m, args, Given(m, args) \cup Paging \cup Sorting(m, args))

\* A mutant: the logic stays behind.
SentSpansOfAll(args) ==
  LET m == "query_spans" IN Only(m, args, Given(m, args) \cup Paging \cup Sorting(m, args))

SentSpans(args) ==
  LET m == "query_spans"
  IN Only(m, args, Given(m, args) \cup Paging \cup {"filter_logic"} \cup Sorting(m, args))

\* The page stays behind.
SentWorkers(args) ==
  LET m == "query_workers" IN Only(m, args, Given(m, args) \cup {"filter_logic"} \cup Sorting(m, args))

\* Of an update every field that is not UNSET, None included.
SentUpdate(args) == args

Sent(m, args) ==
  CASE m = "query_rollouts"  -> SentRollouts(args)
    [] m = "query_attempts"  -> SentAttempts(args)
    [] m = "query_resources" -> SentResources(args)
    [] m = "query_workers"   -> SentWorkers(args)
    [] m = "query_spans"     -> SentSpans(args)
    [] m \in Updates         -> SentUpdate(args)

-----------------------------------------------------------------------------
\* What the server makes of it.

\* _validate_paginated_request
Valid(m, body) ==
  /\ Value(m, body, "sort_by") # "unknown"
  /\ Value(m, body, "limit") > 0 \/ Value(m, body, "limit") = -1
  /\ Value(m, body, "offset") >= 0

\* The fields that a request may leave out, but not set to null.
Mandatory(m) ==
  CASE m = "update_rollout" -> {"status", "config"}
    [] m = "update_attempt" -> {"status", "worker_id", "last_heartbeat_time", "metadata"}
    [] m = "update_worker"  -> {"heartbeat_stats"}

\* _get_mandatory_field_or_unset
Legible(m, body) == \A o \in DOMAIN body \cap Mandatory(m) : body[o] # "None"

\* The request models fill in their defaults; deprecated names are unknown.
Options(m) == (Conditions(m) \ {"status", "rollout_ids"}) \cup Paging \cup {"sort_by", "sort_order"}
              \cup (IF m \in Logical THEN {"filter_logic"} ELSE {})
Received(m, body) == IF m \in Queries THEN Only(m, body, Options(m)) ELSE body

Refused(m, body) == IF m \in Queries THEN ~Valid(m, body) ELSE ~Legible(m, body)

\* LightningStoreServer in the process that owns the store.
Delegated(m, args) ==
  IF m \in Queries THEN Only(m, args, Options(m) \cup Conditions(m)) ELSE args

\* LightningStoreThreaded: query_workers does not pass the logic on.
Threaded(m, args) ==
  IF m = "query_workers" THEN Only(m, args, Options(m) \ {"filter_logic"}) ELSE Delegated(m, args)

-----------------------------------------------------------------------------
\* What the store asks its collections: the conditions that always hold, the
\* others by field and operator, or no filter at all, the order and the page.

Paged(m, args) ==
  [logic |-> IF m \in Logical THEN Value(m, args, "filter_logic") ELSE "and",
   sort |-> IF Value(m, args, "sort_by") = "None" THEN <<>>
            ELSE <<Value(m, args, "sort_by"), Value(m, args, "sort_order")>>,
   limit |-> Value(m, args, "limit"), offset |-> Value(m, args, "offset")]

\* A condition << field, operator, value >>, if there is a value.
Holding(field, op, value) == IF value = "None" THEN {} ELSE {<<field, op, value>>}

AskRollouts(args) ==
  LET m == "query_rollouts"
      filter == Holding("status", "within", Either(m, args, "status_in", "status"))
                \cup Holding("rollout_id", "within", Either(m, args, "rollout_id_in", "rollout_ids"))
                \cup Holding("rollout_id", "contains", Value(m, args, "rollout_id_contains"))
  IN Paged(m, args) @@ [must |-> {}, filter |-> filter, scan |-> filter = {}]

\* The rollout of the attempts is in the path, and not an option.
AskAttempts(args) == Paged("query_attempts", args) @@ [must |-> {}, filter |-> {}, scan |-> FALSE]

AskResources(args) ==
  LET m == "query_resources"
      filter == Holding("resources_id", "exact", Value(m, args, "resources_id"))
                \cup Holding("resources_id", "contains", Value(m, args, "resources_id_contains"))
  IN Paged(m, args) @@ [must |-> {}, filter |-> filter, scan |-> filter = {}]

AskWorkers(args) ==
  LET m == "query_workers"
      filter == Holding("status", "within", Value(m, args, "status_in"))
                \cup Holding("worker_id", "contains", Value(m, args, "worker_id_contains"))
  IN Paged(m, args) @@ [must |-> {}, filter |-> filter, scan |-> filter = {}]

\* Every field has an entry, an empty one too; "latest" is looked up before.
AskSpans(args) ==
  LET m == "query_spans"
  IN Paged(m, args) @@
     [must |-> Holding("attempt_id", "exact", Value(m, args, "attempt_id")),
      filter |-> UNION {Holding(f, "exact", Value(m, args, f))
                        \cup Holding(f, "contains", Value(m, args, Part[f])) : f \in SpanFields},
      scan |-> FALSE]

\* The fields a call writes, with the end that a final status brings.
WrittenRollout(args) ==
  args @@ (IF "status" \in DOMAIN args /\ args["status"] \in {"failed", "succeeded", "cancelled"}
           THEN ("end_time" :> "now") ELSE << >>)
WrittenAttempt(args) ==
  args @@ (IF "status" \in DOMAIN args /\ args["status"] \in {"failed", "succeeded"}
           THEN ("end_time" :> "now") ELSE << >>)
WrittenWorker(args) == args @@ ("last_heartbeat_time" :> "now")

Asked(m, args) ==
  CASE m = "query_rollouts"  -> AskRollouts(args)
    [] m = "query_attempts"  -> AskAttempts(args)
    [] m = "query_resources" -> AskResources(args)
    [] m = "query_workers"   -> AskWorkers(args)
    [] m = "query_spans"     -> AskSpans(args)
    [] m = "update_rollout"  -> WrittenRollout(args)
    [] m = "update_attempt"  -> WrittenAttempt(args)
    [] m = "update_worker"   -> WrittenWorker(args)

-----------------------------------------------------------------------------
VARIABLES method, route, given,   \* a call, the way it takes, and what the caller gave
          place, args             \* where it is, and the options as they are there

RouteInit ==
  /\ method \in Queries \cup Updates /\ route \in Routes /\ given \in CallsOf(method)
  /\ place = "caller" /\ args = given

Pass(from, to, new) == place = from /\ place' = to /\ args' = new /\ UNCHANGED <<method, route, given>>

PassDirect == route = "direct" /\ Pass("caller", "store", args)
PassThreaded == route = "threaded" /\ Pass("caller", "store", Threaded(method, args))
PassServer == route = "server" /\ Pass("caller", "store", Delegated(method, args))
PassClient == route = "client" /\ Pass("caller", "server", Sent(method, args))
Receive == ~Refused(method, args) /\ Pass("server", "store", Delegated(method, Received(method, args)))
Refuse == Refused(method, args) /\ Pass("server", "refused", args)

RouteNext == PassDirect \/ PassThreaded \/ PassServer \/ PassClient \/ Receive \/ Refuse

-----------------------------------------------------------------------------
\* What a way is known to lose: the client the page of query_workers and that
\* no order is wanted, the thread-safe store the logic of query_workers.
Lossy ==
  \/ method = "query_workers" /\ route = "client" /\ (Value(method, given, "limit") # -1 \/ Value(method, given, "offset") # 0)
  \/ method = "query_workers" /\ route = "threaded" /\ Value(method, given, "filter_logic") # "and"
  \/ method \in {"query_attempts", "query_spans"} /\ route = "client" /\ Value(method, given, "sort_by") = "None"

\* The same question reaches the store whichever way it takes, and the same
\* fields are written, the three known losses apart.
\* store/client_server.py, store/threading.py, store/collection_based.py.
SameQuestion == place = "store" /\ ~Lossy => Asked(method, args) = Asked(method, given)

=============================================================================
