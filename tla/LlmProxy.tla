------------------------------ MODULE LlmProxy ------------------------------
(***************************************************************************)
(* LLMProxy: LiteLLM served by a PythonServerLauncher.  A middleware takes *)
(* a number for each request of an attempt from the store and puts attempt *)
(* and number into its headers; LiteLLM (external) answers, and ends the   *)
(* spans of the request one at a time, in an order of its own.  The        *)
(* exporter buffers them and writes a root with its subtree to the store.  *)
(***************************************************************************)
EXTENDS ServerLauncher

CONSTANTS
  Requests,    \* requests agents send
  AttemptOf    \* the attempt in the URL of each

ASSUME RequestAssumption == \A q \in Requests : AttemptOf[q] \in Nat

VARIABLES
  reqs,      \* of each request: [at, server, number]
  numbers,   \* of each attempt, the last sequence id the store gave out (external)
  ended,     \* spans that have ended
  late,      \* those that ended after the root of their request
  buffer,    \* _buffer of the exporters
  stored,    \* what is in the store: records [span, attempt, number]
  refused    \* spans of a subtree the store refused
proxyVars == <<reqs, numbers, ended, late, buffer, stored, refused>>

Attempts == {AttemptOf[q] : q \in Requests}

\* The root is created where LiteLLM authenticates, its child holds the call
\* and the requester's headers, and the child's child the raw request.
Above == [root |-> {}, call |-> {"root"}, raw |-> {"root", "call"}]
Span(q, kind) == [of |-> q, kind |-> kind]

\* The exporter of the process a request is served in.
Home(q) == IF InProcess THEN reqs[q].server ELSE 0

-----------------------------------------------------------------------------
(* LightningSpanExporter. *)

\* A mutant: only the children of a root are taken.
SubtreeShallow(root, spans) == {s \in spans : s.of = root.of /\ s.kind # "raw"}

\* _get_subtrees: the descent goes through spans that are in the buffer.
Subtree(root, spans) ==
  {s \in spans : s.of = root.of /\ \A kind \in Above[s.kind] : Span(s.of, kind) \in spans}

\* Headers of the subtree merged, later spans over earlier ones.
Headers(tree) == {[attempt |-> AttemptOf[s.of], number |-> reqs[s.of].number] : s \in {t \in tree : t.kind = "call"}}

\* _maybe_flush: without headers the subtree is dropped; when the store
\* raises, the subtree is out of the buffer, and a first part of it may be in
\* the store.
Export(s) ==
  LET here == {t \in buffer : Home(t.of) = Home(s.of)} \cup {s}
      tree == IF s.kind = "root" THEN Subtree(s, here) ELSE {}
  IN /\ buffer' = (buffer \cup {s}) \ tree
     /\ IF Headers(tree) = {} THEN UNCHANGED <<stored, refused, faults>>
        ELSE \E h \in Headers(tree), kept \in SUBSET tree :
               /\ kept # tree => faults < MaxFaults
               /\ faults' = IF kept = tree THEN faults ELSE faults + 1
               /\ refused' = refused \cup (tree \ kept)
               /\ stored' = stored \cup {[span |-> t, attempt |-> h.attempt, number |-> h.number] : t \in kept}

-----------------------------------------------------------------------------
(* Requests. *)

Serving(q) == reqs[q].server # 0 /\ servers[reqs[q].server].phase # "gone"
InServer == UNCHANGED <<args, running, held, call, result>>

Arrive(q, i) ==
  /\ reqs[q].at = "none" /\ servers[i].phase = "up"
  /\ reqs' = [reqs EXCEPT ![q] = [at |-> "arrived", server |-> i, number |-> 0]]
  /\ servers' = [servers EXCEPT ![i].open = @ \cup {q}]
  /\ InServer /\ UNCHANGED <<faults, numbers, ended, late, buffer, stored, refused>>

\* RolloutAttemptMiddleware, once the store has answered.
Number(q) ==
  /\ reqs[q].at = "arrived" /\ Serving(q)
  /\ numbers' = [numbers EXCEPT ![AttemptOf[q]] = @ + 1]
  /\ reqs' = [reqs EXCEPT ![q].at = "sent", ![q].number = numbers[AttemptOf[q]] + 1]
  /\ InServer /\ UNCHANGED <<servers, faults, ended, late, buffer, stored, refused>>

\* The response is sent; when the store refused the number, it is a 500.
Answer(q) ==
  /\ reqs[q].at \in {"arrived", "sent"} /\ Serving(q)
  /\ reqs[q].at = "arrived" => faults < MaxFaults
  /\ faults' = IF reqs[q].at = "arrived" THEN faults + 1 ELSE faults
  /\ reqs' = [reqs EXCEPT ![q].at = IF @ = "sent" THEN "answered" ELSE "failed"]
  /\ servers' = [servers EXCEPT ![reqs[q].server].open = @ \ {q}]
  /\ InServer /\ UNCHANGED <<numbers, ended, late, buffer, stored, refused>>

SpanEnds(q, kind) ==
  LET s == Span(q, kind)
  IN /\ reqs[q].at \in {"sent", "answered"} /\ s \notin ended
     /\ InPlace \/ servers[reqs[q].server].host = "alive"
     /\ ended' = ended \cup {s}
     /\ late' = IF Span(q, "root") \in ended THEN late \cup {s} ELSE late
     /\ Export(s)
     /\ InServer /\ UNCHANGED <<servers, reqs, numbers>>

-----------------------------------------------------------------------------
(* LLMProxy. *)

\* start: refused when the store does not support the mode.
ProxyStart == call = NoCall /\ Begins("start") /\ UNCHANGED proxyVars

\* stop and restart, which do nothing to a server that is not running.
ProxyStop ==
  /\ call = NoCall /\ running /\ Stop
  /\ UNCHANGED proxyVars

ProxyInit ==
  /\ Init
  /\ reqs = [q \in Requests |-> [at |-> "none", server |-> 0, number |-> 0]]
  /\ numbers = [a \in Attempts |-> 0]
  /\ ended = {} /\ late = {} /\ buffer = {} /\ stored = {} /\ refused = {}

Request(q) == (\E i \in DOMAIN servers : Arrive(q, i)) \/ Number(q) \/ Answer(q)
              \/ \E kind \in DOMAIN Above : SpanEnds(q, kind)

\* Any calls on the launcher, those of ProxyStart and ProxyStop among them.
ProxyNext ==
  \/ Next /\ UNCHANGED proxyVars
  \/ \E q \in Requests : Request(q)

ProxySpec == ProxyInit /\ [][ProxyNext]_<<vars, proxyVars>>

-----------------------------------------------------------------------------

\* When the root of a request has ended, each span of it that ended before,
\* with the spans between them, is in the store, unless the store refused it;
\* nothing of it stays in the buffer.  llm_proxy.py, _get_subtrees.
TraceComplete ==
  \A s \in ended :
    LET whole == {s} \cup {Span(s.of, kind) : kind \in Above[s.kind]}
    IN whole \subseteq ended \ late /\ Span(s.of, "call") \in ended \ late =>
         s \notin buffer /\ (s \in refused \/ \E e \in stored : e.span = s)
=============================================================================
