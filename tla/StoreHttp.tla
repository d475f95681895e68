----------------------------- MODULE StoreHttp -----------------------------
(***************************************************************************)
(* A LightningStore shared over HTTP: LightningStoreServer owns the store, *)
(* clients in other processes (LightningStoreClient) send requests, retry  *)
(* them after failures and probe /health in between, and coroutines of the *)
(* owner's process call the store directly.  A request whose answer is     *)
(* lost, or comes after the client's timeout, has been or will be served   *)
(* all the same.  The store is reduced to what repeated calls can harm:    *)
(* the queue, the claims of dequeue, sequence numbers and spans.           *)
(***************************************************************************)
EXTENDS Integers, Sequences, FiniteSets, FiniteSetsExt

CONSTANTS
  Remote,     \* clients in other processes
  Local,      \* callers in the owner's process
  Retries,    \* Len(retry_delays)
  MaxCalls,   \* bound: calls of all callers together
  MaxFaults   \* bound: lost messages, late answers and outages

\* A caller is in the owner's process, or in another one.
ASSUME HttpAssumption == Remote \cap Local = {}

Callers == Remote \cup Local

VARIABLES
  store,      \* [queue, claims, spans, counter]
  up,         \* the server can be reached
  requests,   \* requests on their way to the server, or being served
  answers,    \* answers on their way to a client
  call,       \* the current or last call of each caller
  faults      \* faults left
vars == <<store, up, requests, answers, call, faults>>

\* unknown: the store raises ValueError (no such rollout); null: a field that
\* may not be null, refused by the route.
Kinds == {"enqueue", "dequeue", "otel", "read", "unknown", "null"}

More == MapThenSumSet(LAMBDA c : call[c].n, Callers) < MaxCalls

-----------------------------------------------------------------------------
(* The server: _call_store_method and the routes. *)

\* A mutant: the number after the largest stored one.
NextOfStored(s) ==
  1 + Cardinality({n \in 1..s.counter : \E x \in s.spans : x.number = n})

NextNumber(s) == s.counter + 1

\* What the store does for request r, with the HTTP status and the body of the
\* answer.  A rollout is named by the request that enqueued it.
Serve(s, r) ==
  LET Done(s2, status, value) == [store |-> s2, status |-> status, value |-> value]
      Name == <<r.by, r.n, r.try>>
  IN CASE r.op = "enqueue" -> Done([s EXCEPT !.queue = Append(@, Name)], 201, Name)
       [] r.op = "dequeue" /\ s.queue = <<>> -> Done(s, 200, <<>>)
       [] r.op = "dequeue" /\ s.queue # <<>> ->
            Done([s EXCEPT !.queue = Tail(@),
                           !.claims = @ \cup {[rollout |-> Head(s.queue), by |-> r.by, n |-> r.n]}],
                 200, Head(s.queue))
       [] r.op = "number" -> Done([s EXCEPT !.counter = NextNumber(s)], 200, <<NextNumber(s)>>)
       [] r.op = "span" ->
            IF \E x \in s.spans : x.by = r.by /\ x.n = r.n
            THEN Done(s, 201, <<>>)                       \* the primary key is there
            ELSE Done([s EXCEPT !.spans = @ \cup {[by |-> r.by, n |-> r.n, number |-> r.number]}],
                      201, <<r.number>>)
       [] r.op = "read" -> Done(s, 200, <<>>)
       [] r.op = "unknown" -> Done(s, 500, <<>>)          \* _app_exception_handler
       [] r.op = "null" -> Done(s, 400, <<>>)             \* _get_mandatory_field_or_unset

Handle(r) ==
  LET done == Serve(store, r)
  IN /\ r \in requests /\ up
     /\ store' = done.store
     /\ requests' = requests \ {r}
     /\ answers' = answers \cup
          {[by |-> r.by, n |-> r.n, op |-> r.op, try |-> r.try,
            status |-> done.status, value |-> done.value]}
     /\ UNCHANGED <<up, call, faults>>

-----------------------------------------------------------------------------
(* LightningStoreClient. *)

First(op) == IF op = "otel" THEN "number" ELSE op

\* session.post or session.get: request c.op, for the c.try-th time.
Sent(by, c) ==
  requests \cup {[by |-> by, n |-> c.n, op |-> c.op, try |-> c.try, number |-> c.number]}

Waiting(c) == call[c].pc = "waiting"
Mine(c, m) == m.by = c /\ m.n = call[c].n /\ m.op = call[c].op /\ m.try = call[c].try

Call(c, kind) ==
  LET new == [kind |-> kind, op |-> First(kind), n |-> call[c].n + 1, try |-> 0,
              pc |-> "waiting", number |-> 0, value |-> <<>>]
  IN /\ c \in Remote /\ call[c].pc \in {"idle", "returned", "raised"} /\ More
     /\ call' = [call EXCEPT ![c] = new]
     /\ requests' = Sent(c, new)
     /\ UNCHANGED <<store, up, answers, faults>>

Swallowing == {"read", "dequeue"}

Ended(c) == [call[c] EXCEPT !.pc = IF call[c].kind \in Swallowing THEN "returned" ELSE "raised",
                            !.number = 0]

\* A mutant: dequeue retries like the others.
NeverRetriedNone == {}

\* _dequeue_batch posts once.
NeverRetried == {"dequeue"}

\* The try failed: probe /health, unless there is no other try.
Broken(c) == IF call[c].kind \in NeverRetried THEN Ended(c) ELSE [call[c] EXCEPT !.pc = "probing"]

\* A good answer: the value; add_otel_span goes on to add_span.
Answered(c, m) ==
  /\ Waiting(c) /\ m \in answers /\ Mine(c, m) /\ up
  /\ answers' = answers \ {m}
  /\ LET next == [call[c] EXCEPT !.op = "span", !.try = 0, !.number = m.value[1]]
     IN IF m.status < 400 /\ m.op = "number"
        THEN call' = [call EXCEPT ![c] = next] /\ requests' = Sent(c, next)
        ELSE /\ requests' = requests
             /\ call' = [call EXCEPT ![c] =
                  CASE m.status < 400 -> [@ EXCEPT !.pc = "returned", !.value = m.value, !.number = 0]
                    [] m.status \in 400..499 -> Ended(c)      \* final
                    [] m.status >= 500 -> Broken(c)]
  /\ UNCHANGED <<store, up, faults>>

\* A network error or the timeout: free when the server is away or a message
\* was lost, else one of the faults (the answer will come too late).
Fails(c) ==
  LET pending == (\E m \in requests : Mine(c, m)) \/ \E m \in answers : Mine(c, m)
  IN /\ Waiting(c)
     /\ IF up /\ pending THEN faults > 0 /\ faults' = faults - 1 ELSE faults' = faults
     /\ call' = [call EXCEPT ![c] = Broken(c)]
     /\ UNCHANGED <<store, up, requests, answers>>

Resent(c) == [call[c] EXCEPT !.pc = "waiting", !.try = @ + 1]

\* /health answers 200; then the next delay and the next try, or no more.
Healthy(c) ==
  /\ call[c].pc = "probing" /\ up
  /\ IF call[c].try < Retries
     THEN call' = [call EXCEPT ![c] = Resent(c)] /\ requests' = Sent(c, Resent(c))
     ELSE call' = [call EXCEPT ![c] = Ended(c)] /\ requests' = requests
  /\ UNCHANGED <<store, up, answers, faults>>

\* No probe of _wait_until_healthy is answered: no retry.
Unhealthy(c) ==
  /\ call[c].pc = "probing" /\ ~up
  /\ call' = [call EXCEPT ![c] = Ended(c)]
  /\ UNCHANGED <<store, up, requests, answers, faults>>

-----------------------------------------------------------------------------
(* A call in the owner's process: no request, no retry; the sections of the
   store's methods follow each other without another caller's in between when
   the server's lock is held, so add_otel_span is one step. *)

Direct(c, kind) ==
  LET n == call[c].n + 1
      r(op, number) == [by |-> c, n |-> n, op |-> op, try |-> 0, number |-> number]
      one == Serve(store, r(First(kind), 0))
      done == IF kind = "otel" THEN Serve(one.store, r("span", one.value[1])) ELSE one
  IN /\ c \in Local /\ More /\ kind # "null"   \* no route to refuse it
     /\ store' = done.store
     /\ call' = [call EXCEPT ![c] =
          [kind |-> kind, op |-> First(kind), n |-> n, try |-> 0, number |-> 0,
           pc |-> IF done.status < 400 THEN "returned" ELSE "raised", value |-> done.value]]
     /\ UNCHANGED <<up, requests, answers, faults>>

-----------------------------------------------------------------------------
(* The network. *)

Lose(m) ==
  /\ faults > 0 /\ faults' = faults - 1
  /\ requests' = requests \ {m} /\ answers' = answers \ {m}
  /\ UNCHANGED <<store, up, call>>

Outage ==
  /\ up /\ faults > 0 /\ faults' = faults - 1
  /\ up' = FALSE
  /\ UNCHANGED <<store, requests, answers, call>>

Restored ==
  /\ ~up /\ up' = TRUE
  /\ UNCHANGED <<store, requests, answers, call, faults>>

Init ==
  /\ store = [queue |-> <<>>, claims |-> {}, spans |-> {}, counter |-> 0]
  /\ up = TRUE /\ requests = {} /\ answers = {} /\ faults = MaxFaults
  /\ call = [c \in Callers |-> [kind |-> "read", op |-> "read", n |-> 0, try |-> 0,
                                pc |-> "idle", number |-> 0, value |-> <<>>]]

Goes(c) == (\E m \in answers : Answered(c, m)) \/ Fails(c) \/ Healthy(c) \/ Unhealthy(c)

Next ==
  \/ \E c \in Callers, kind \in Kinds : Call(c, kind) \/ Direct(c, kind)
  \/ \E c \in Callers : Goes(c)
  \/ \E r \in requests : Handle(r)
  \/ \E m \in requests \cup answers : Lose(m)
  \/ Outage \/ Restored

\* The server serves what reaches it; a client's timers and probes go on.
Fairness ==
  /\ WF_vars(\E r \in requests : Handle(r))
  /\ \A c \in Remote : WF_vars(Goes(c))

Spec == Init /\ [][Next]_vars /\ Fairness

-----------------------------------------------------------------------------
\* However often requests are lost, repeated or late: a dequeue call claims at
\* most one rollout, and a rollout is claimed by at most one call.  (One that
\* is claimed by a call whose answer was lost stays with that worker.)
ClaimsAreSingle ==
  \A a, b \in store.claims : (a.by = b.by /\ a.n = b.n) \/ a.rollout = b.rollout => a = b

\* The spans of a caller carry numbers in the order they were made, and no two
\* spans share one, whatever gaps lost answers leave.
NumbersFollowSpans ==
  \A x, y \in store.spans :
    /\ x.number = y.number => x = y
    /\ x.by = y.by /\ x.n < y.n => x.number < y.number

\* What docs/deep-dive/store.md says: an application exception is not retried.
AppErrorsFinal ==
  \A c \in Remote : call[c].kind = "unknown" /\ faults = MaxFaults => call[c].try = 0
=============================================================================
