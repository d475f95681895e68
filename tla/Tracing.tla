------------------------------- MODULE Tracing -------------------------------
(***************************************************************************)
(* tracer/otel.py in one worker process: OtelTracer opens one context at a *)
(* time, for an attempt or for none, while threads of the agent end spans. *)
(* A span goes through two processors.  LightningSpanProcessor hands it to *)
(* the store on a loop of its own; LightningStoreOTLPExporter posts it to  *)
(* the store's OTLP route.  The context says which of the two does it, by  *)
(* fields that are written in one thread and read in another.              *)
(***************************************************************************)
EXTENDS Integers, Sequences, FiniteSets, SequencesExt, Selections

CONSTANTS
  Threads,      \* threads of the agent, each ends one span
  MaxContexts,  \* contexts opened, one after the other
  NoId          \* no such attribute: a rollout or an attempt id

ASSUME TraceAssumption == NoId \notin Nat

VARIABLES
  otlp,         \* the store has the capability otlp_traces
  context,      \* [open, pc, number] of OtelTracer.trace_context
  silent,       \* processor.disable_store_submission
  current,      \* ids of the LightningSpanProcessor, rollout and attempt
  exporter,     \* ids of the LightningStoreOTLPExporter
  buffer,       \* processor._spans
  ending,       \* [pc, rollout, steady, in] of the span of each thread
  submitted,    \* coroutines of the otel-loop: [span, rollout, attempt]
  arrived       \* what the store got: sequence of [span, rollout, attempt, number]
traced == <<otlp, context, silent, current, exporter, buffer, ending, submitted, arrived>>

\* Rollouts and attempts are named by the number of the context they run in.
NoIds == [rollout |-> NoId, attempt |-> NoId]
IdsOf(n) == [rollout |-> n, attempt |-> n]

TraceInit ==
  /\ otlp \in BOOLEAN
  /\ context = [open |-> FALSE, pc |-> "closed", number |-> 0]
  /\ silent = FALSE /\ current = NoIds /\ exporter = NoIds
  /\ buffer = {} /\ submitted = {} /\ arrived = <<>>
  /\ ending = [t \in Threads |-> [pc |-> "open", rollout |-> NoId, steady |-> FALSE, in |-> NoId]]

\* A span that is ending while the context changes belongs to neither.
Shaken == [t \in Threads |-> IF ending[t].pc = "open" THEN ending[t]
                             ELSE [ending[t] EXCEPT !.steady = @ /\ ending[t].pc = "done"]]

-----------------------------------------------------------------------------
(* utils/otlp.py: what the store's /v1/traces route makes of a request.  A *)
(* request is a sequence of groups [ids, spans]: the ids of the resource   *)
(* and those of each span, records [rollout, attempt, number].  Names,     *)
(* times, status, events and links of a span go through unchanged.         *)

Absent == -3        \* no sequence id
ToBeIssued == -1

\* The attribute of the span, or else that of its resource.
Own(mine, resource, none) == IF mine # none THEN mine ELSE resource

\* _normalize_sequence_id and the cases after it.
Given(n) == IF n >= 0 THEN n ELSE ToBeIssued

\* The span as it is to be stored.
SpanOf(ids, span) ==
  [rollout |-> Own(span.rollout, ids.rollout, NoId),
   attempt |-> Own(span.attempt, ids.attempt, NoId),
   number  |-> Given(Own(span.number, ids.number, Absent))]

\* A span without both ids is left out.
HasIds(span) == span.rollout # NoId /\ span.attempt # NoId

Parsed(request) ==
  LET spans == FlattenSeq([g \in DOMAIN request |->
                 [i \in DOMAIN request[g].spans |-> SpanOf(request[g].ids, request[g].spans[i])]])
  IN Only(spans, {span \in Range(spans) : HasIds(span)})

\* The numbers that are missing are issued by the store, in one call and in
\* the order of the spans; counter is the last number of each rollout.
Counted(counter, span) ==
  IF span.number # ToBeIssued THEN counter ELSE [counter EXCEPT ![span.rollout] = @ + 1]
WithNumber(span, n) == IF span.number # ToBeIssued THEN span ELSE [span EXCEPT !.number = n]

Issued(spans, counter) ==
  LET last[n \in 0..Len(spans)] == IF n = 0 THEN counter ELSE Counted(last[n - 1], spans[n])
  IN [i \in DOMAIN spans |-> WithNumber(spans[i], last[i][spans[i].rollout])]

\* handle_otlp_export: the wrong content type and a body that is not a
\* request are answered with 400, and an empty body is an empty request.
Answer(type, body, counter) ==
  IF type # "protobuf" \/ body.kind = "garbage" THEN [status |-> 400, spans |-> <<>>]
  ELSE [status |-> 200, spans |-> Issued(Parsed(body.request), counter)]

-----------------------------------------------------------------------------
(* trace_context. *)

\* A mutant: the processor goes on submitting next to the exporter.
SilencedNever(native) == FALSE

\* _enable_native_otlp_exporter silences the processor,
\* _disable_native_otlp_exporter lets it speak again.
Silenced(native) == native

\* With ids: the exporter gets the rollout (enable_store_otlp) if the store
\* has the route.  Nothing ever takes the ids away from it again.
OpenFor ==
  /\ context.pc = "closed" /\ context.number < MaxContexts
  /\ context' = [open |-> FALSE, pc |-> "attempt", number |-> context.number + 1]
  /\ silent' = Silenced(otlp)
  /\ exporter' = IF otlp THEN [exporter EXCEPT !.rollout = context.number + 1] ELSE exporter
  /\ ending' = Shaken
  /\ UNCHANGED <<otlp, current, buffer, submitted, arrived>>

PointAttempt ==
  /\ context.pc = "attempt"
  /\ exporter' = IF otlp THEN [exporter EXCEPT !.attempt = context.number] ELSE exporter
  /\ context' = [context EXCEPT !.pc = "enter"]
  /\ UNCHANGED <<otlp, silent, current, buffer, ending, submitted, arrived>>

\* _Ctx.__enter__
Enter ==
  /\ context.pc = "enter"
  /\ current' = IdsOf(context.number)
  /\ buffer' = {}
  /\ context' = [context EXCEPT !.open = TRUE, !.pc = "open"]
  /\ UNCHANGED <<otlp, silent, exporter, ending, submitted, arrived>>

\* Without ids: the processor collects and submits nothing.
OpenForNone ==
  /\ context.pc = "closed" /\ context.number < MaxContexts
  /\ context' = [open |-> FALSE, pc |-> "open", number |-> context.number + 1]
  /\ silent' = Silenced(FALSE)
  /\ buffer' = {}
  /\ ending' = Shaken
  /\ UNCHANGED <<otlp, current, exporter, submitted, arrived>>

\* __exit__: the buffer stays for get_last_trace.
Close ==
  /\ context.pc = "open"
  /\ context' = [context EXCEPT !.open = FALSE, !.pc = "closed"]
  /\ current' = NoIds
  /\ ending' = Shaken
  /\ UNCHANGED <<otlp, silent, exporter, buffer, submitted, arrived>>

-----------------------------------------------------------------------------
(* on_end of the two processors, in the thread that ends the span.  The    *)
(* reads of the ids are not under the lock their writes are under.         *)

EndSpan(t) ==
  /\ ending[t].pc = "open"
  /\ ending' = [ending EXCEPT ![t] =
       [@ EXCEPT !.pc = IF ~silent /\ current # NoIds THEN "read" ELSE "keep",
                 !.steady = context.open, !.in = current.rollout]]
  /\ UNCHANGED <<otlp, context, silent, current, exporter, buffer, submitted, arrived>>

\* self._store and self._rollout_id are evaluated; without a store that
\* raises, which is logged.
ReadRollout(t) ==
  /\ ending[t].pc = "read"
  /\ ending' = [ending EXCEPT ![t] =
       IF current = NoIds THEN [@ EXCEPT !.pc = "keep"]
       ELSE [@ EXCEPT !.pc = "submit", !.rollout = current.rollout]]
  /\ UNCHANGED <<otlp, context, silent, current, exporter, buffer, submitted, arrived>>

\* self._attempt_id is evaluated and add_otel_span goes to the otel-loop.
Submit(t) ==
  /\ ending[t].pc = "submit"
  /\ submitted' = submitted \cup {[span |-> t, rollout |-> ending[t].rollout, attempt |-> current.attempt]}
  /\ ending' = [ending EXCEPT ![t].pc = "wait"]
  /\ UNCHANGED <<otlp, context, silent, current, exporter, buffer, arrived>>

\* The store has a number for the span and adds it, or refuses ids that do
\* not belong together.
Counter(r) == Len(Only(arrived, {s \in Range(arrived) : s.rollout = r}))
Store(span, r, a, n) ==
  arrived' = IF r = a THEN Append(arrived, [span |-> span, rollout |-> r, attempt |-> a, number |-> n])
             ELSE arrived

RunCall(c) ==
  /\ c \in submitted
  /\ submitted' = submitted \ {c}
  /\ \/ Store(c.span, c.rollout, c.attempt, Counter(c.rollout) + 1)
     \/ UNCHANGED arrived       \* the store fails, which is logged
  /\ UNCHANGED <<otlp, context, silent, current, exporter, buffer, ending>>

\* The call is over, its 60 seconds are, or on_end runs on the loop itself,
\* from a finalizer, and does not wait.
Waited(t) ==
  /\ ending[t].pc = "wait"
  /\ ending' = [ending EXCEPT ![t].pc = "keep"]
  /\ UNCHANGED <<otlp, context, silent, current, exporter, buffer, submitted, arrived>>

Keep(t) ==
  /\ ending[t].pc = "keep"
  /\ buffer' = buffer \cup {t}
  /\ ending' = [ending EXCEPT ![t].pc = "export"]
  /\ UNCHANGED <<otlp, context, silent, current, exporter, submitted, arrived>>

\* SimpleSpanProcessor and LightningStoreOTLPExporter.export: the ids of the
\* exporter replace those of the span's resource.  Without ids the export is
\* bypassed.  The route numbers the span and adds it; the request may fail.
Export(t) ==
  /\ ending[t].pc = "export"
  /\ ending' = [ending EXCEPT ![t].pc = "done"]
  /\ IF exporter.rollout = NoId \/ exporter.attempt = NoId THEN UNCHANGED arrived
     ELSE LET unsent == [rollout |-> NoId, attempt |-> NoId, number |-> Absent]
              ids == [rollout |-> exporter.rollout, attempt |-> exporter.attempt, number |-> Absent]
              got == Answer("protobuf",
                       [kind |-> "request", request |-> << [ids |-> ids, spans |-> <<unsent>>] >>],
                       [r \in {exporter.rollout} |-> Counter(r)]).spans[1]
          IN \/ Store(t, got.rollout, got.attempt, got.number)
             \/ UNCHANGED arrived
  /\ UNCHANGED <<otlp, context, silent, current, exporter, buffer, submitted>>

TraceNext ==
  \/ OpenFor \/ PointAttempt \/ Enter \/ OpenForNone \/ Close
  \/ \E c \in submitted : RunCall(c)
  \/ \E t \in Threads : \/ EndSpan(t) \/ ReadRollout(t) \/ Submit(t) \/ Waited(t)
                        \/ Keep(t) \/ Export(t)

TraceSpec == TraceInit /\ [][TraceNext]_traced

\* A span that ends while the context of an attempt is open, all the way
\* through on_end, reaches that attempt at most once and no other attempt,
\* whichever of the two ways the store takes, and is in the local trace until
\* another context is opened.  tracer/otel.py, trace_context and on_end.
TracedOnce ==
  \A t \in Threads :
    ending[t].pc = "done" /\ ending[t].steady /\ ending[t].in # NoId =>
      /\ \A i \in DOMAIN arrived : arrived[i].span = t =>
           arrived[i].attempt = ending[t].in /\ \A j \in DOMAIN arrived : arrived[j].span = t => i = j
      /\ context.number = ending[t].in => t \in buffer

\* What a request is worth: the spans with ids are kept in order, a number
\* that came with a span stays, and the others are numbered on from the last
\* number of their rollout, without a gap and without a repetition.
RequestIsNumbered(request, counter) ==
  LET before == Parsed(request)
      after == Issued(before, counter)
      open(r, n) == {i \in 1..n : before[i].rollout = r /\ before[i].number = ToBeIssued}
  IN  /\ Len(after) = Len(before)
      /\ \A i \in DOMAIN before :
           after[i] = WithNumber(before[i],
                        counter[before[i].rollout] + Cardinality(open(before[i].rollout, i)))
=============================================================================
