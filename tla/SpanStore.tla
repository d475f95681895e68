------------------------------ MODULE SpanStore ------------------------------
(***************************************************************************)
(* Spans in an InMemoryLightningStore: the sequence numbers it gives out,  *)
(* the insertion of a batch with its fall-back to one span at a time, the  *)
(* memory the spans take, and the eviction of whole rollouts when that is  *)
(* too much.  add_span, add_many_spans (for one rollout and attempt) and   *)
(* add_otel_span are the same four sections: number, insert, heartbeat,    *)
(* account.  The heartbeat does not touch spans; it is where other threads *)
(* come in between, as between any two sections.                           *)
(***************************************************************************)
EXTENDS Integers, Sequences, FiniteSets, FiniteSetsExt, SequencesExt

CONSTANTS
  Rollouts,     \* rollouts known to the store, each with its attempt
  Unknown,      \* a rollout id the store does not know
  Start,        \* start_time of each rollout
  Spans,        \* primary keys of spans
  Home,         \* the rollout of each span
  Size,         \* its estimated size
  Adders,       \* threads that add spans
  Evict, Safe,  \* eviction and safe threshold, in bytes
  MaxNumber     \* bound on sequence numbers

ASSUME ThresholdAssumption ==
  /\ Safe \in Nat /\ Evict \in Nat /\ Safe < Evict     \* checked by __init__
  /\ Size \in [Spans -> Nat] /\ Start \in [Rollouts -> Nat]
  /\ Home \in [Spans -> Rollouts \cup {Unknown}]
  /\ MaxNumber \in Nat

VARIABLES
  threaded,   \* thread_safe=True: sections of different threads interleave
  counter,    \* span_sequence_ids of each rollout
  stored,     \* the spans collection
  bytes,      \* _span_bytes_by_rollout
  total,      \* _total_span_bytes
  evicted,    \* _evicted_rollout_span_sets
  calls,      \* records [pc, batch, done] of the adders
  \* history, read by properties only
  top,        \* largest number of a span that was inserted for each rollout
  confirmed,  \* spans the store said it had added
  unsaid      \* spans inserted by an insertion that then failed
spanVars == <<threaded, counter, stored, bytes, total, evicted, calls, top, confirmed, unsaid>>

NoCall == [pc |-> "idle", batch |-> <<>>, number |-> 0, done |-> <<>>]
Alone(a) == threaded \/ \A b \in Adders \ {a} : calls[b].pc = "idle"
Of(a) == Home[calls[a].batch[1]]
Larger(x, y) == IF x > y THEN x ELSE y

BytesOf(batch) == FoldSeq(LAMBDA x, sum : sum + Size[x], 0, batch)

Batches == {<<x>> : x \in Spans}
           \cup {b \in Spans \X Spans : Home[b[1]] = Home[b[2]]}

-----------------------------------------------------------------------------
(* Sequence numbers. *)

\* get_many_span_sequence_ids for n spans of one rollout: the numbers
\* counter[r] + 1 to counter[r] + n.
Issue(r, n) ==
  /\ counter[r] + n <= MaxNumber
  /\ counter' = [counter EXCEPT ![r] = @ + n]
  /\ UNCHANGED <<threaded, stored, bytes, total, evicted, calls, top, confirmed, unsaid>>

\* A mutant: the counter takes the number that came with the span.
CounterSet(r, n) == n

\* _sync_span_sequence_id.
CounterSync(r, n) == Larger(counter[r], n)

\* A call begins; the largest number of its batch is n, one the store gave
\* out or one of the client's own.
Begin(a, batch, n) ==
  /\ calls[a].pc = "idle" /\ Alone(a)
  /\ LET r == Home[batch[1]] IN
     IF r = Unknown THEN UNCHANGED counter
                    ELSE counter' = [counter EXCEPT ![r] = CounterSync(r, n)]
  /\ calls' = [calls EXCEPT ![a] = [pc |-> "check", batch |-> batch, number |-> n, done |-> <<>>]]
  /\ UNCHANGED <<threaded, stored, bytes, total, evicted, top, confirmed, unsaid>>

\* Rollout and attempt exist, or the call raises ValueError.
Check(a) ==
  /\ calls[a].pc = "check"
  /\ calls' = [calls EXCEPT ![a] = IF Of(a) = Unknown THEN NoCall ELSE [@ EXCEPT !.pc = "insert"]]
  /\ UNCHANGED <<threaded, counter, stored, bytes, total, evicted, top, confirmed, unsaid>>

-----------------------------------------------------------------------------
(* _insert_spans_with_fallback. *)

\* The first span that is there already ends the insertion of a batch; those
\* before it stay.  A batch that repeats a span is refused as a whole.
Inserted(batch) ==
  LET clash == {i \in DOMAIN batch : batch[i] \in stored}
  IN  CASE ~IsInjective(batch) -> <<>>
        [] IsInjective(batch) /\ clash = {} -> batch
        [] OTHER -> SubSeq(batch, 1, Min(clash) - 1)

Insert(a) ==
  /\ calls[a].pc = "insert"
  /\ LET batch == calls[a].batch
         new == Inserted(batch)
     IN  /\ stored' = stored \cup Range(new)
         /\ IF new = batch
            THEN /\ calls' = [calls EXCEPT ![a].pc = "account", ![a].done = batch]
                 /\ UNCHANGED unsaid
            ELSE /\ calls' = [calls EXCEPT ![a].pc = "single"]
                 /\ unsaid' = unsaid \cup Range(new)
         /\ top' = [top EXCEPT ![Of(a)] = IF new = <<>> THEN @ ELSE Larger(@, calls[a].number)]
  /\ UNCHANGED <<threaded, counter, bytes, total, evicted, confirmed>>

\* One span at a time; those that are there already are skipped.  With none
\* added the call ends here.
InsertSingle(a) ==
  /\ calls[a].pc = "single"
  /\ LET x == Head(calls[a].batch)
         rest == Tail(calls[a].batch)
         done == IF x \in stored THEN calls[a].done ELSE Append(calls[a].done, x)
     IN  /\ stored' = stored \cup {x}
         /\ calls' = [calls EXCEPT ![a] =
              CASE rest # <<>> -> [@ EXCEPT !.batch = rest, !.done = done]
                [] rest = <<>> /\ done # <<>> -> [@ EXCEPT !.pc = "account", !.done = done]
                [] OTHER -> NoCall]
         /\ top' = [top EXCEPT ![Of(a)] = IF x \in stored THEN @ ELSE Larger(@, calls[a].number)]
  /\ UNCHANGED <<threaded, counter, bytes, total, evicted, confirmed, unsaid>>

-----------------------------------------------------------------------------
(* _account_span_size and _maybe_evict_spans, under one lock. *)

Before(r) == {o \in Rollouts : Start[o] < Start[r]}

\* Rollouts from the oldest on, until what is left is safe.
Victims(b, t) ==
  IF t <= Evict THEN {}
  ELSE {r \in Rollouts : t - MapThenSumSet(LAMBDA o : b[o], Before(r)) > Safe}

\* A mutant: the rollout that is written to is not marked.
MarkedOthers(V, b, mine) == {r \in V : b[r] > 0} \ {mine}

\* A rollout is marked as evicted if it had bytes to its account.
Marked(V, b, mine) == {r \in V : b[r] > 0}

Account(a) ==
  /\ calls[a].pc = "account"
  /\ LET mine == Of(a)
         grown == [bytes EXCEPT ![mine] = @ + BytesOf(calls[a].done)]
         sum == total + BytesOf(calls[a].done)
         V == Victims(grown, sum)
     IN  /\ stored' = {x \in stored : Home[x] \notin V}
         /\ bytes' = [r \in Rollouts |-> IF r \in V THEN 0 ELSE grown[r]]
         /\ total' = Larger(sum - MapThenSumSet(LAMBDA r : grown[r], V), 0)
         /\ evicted' = evicted \cup Marked(V, grown, mine)
  /\ confirmed' = confirmed \cup Range(calls[a].done)
  /\ unsaid' = unsaid \cap stored'
  /\ calls' = [calls EXCEPT ![a] = NoCall]
  /\ UNCHANGED <<threaded, counter, top>>

-----------------------------------------------------------------------------
SpanInit ==
  /\ threaded \in BOOLEAN
  /\ counter = [r \in Rollouts |-> 0] /\ top = [r \in Rollouts |-> 0]
  /\ stored = {} /\ confirmed = {} /\ unsaid = {} /\ evicted = {}
  /\ bytes = [r \in Rollouts |-> 0] /\ total = 0
  /\ calls = [a \in Adders |-> NoCall]

SpanNext ==
  \/ \E r \in Rollouts, n \in 1..2 : Issue(r, n)
  \/ \E a \in Adders :
       \/ \E batch \in Batches, n \in 1..MaxNumber : Begin(a, batch, n)
       \/ Check(a) \/ Insert(a) \/ InsertSingle(a) \/ Account(a)

SpanSpec == SpanInit /\ [][SpanNext]_spanVars
-----------------------------------------------------------------------------
\* The store gives out no number that a span already has, or had before it was
\* evicted, be it one the client chose: a number given out is one more than the
\* counter, and the counter is never behind a span that was inserted.
\* store/collection_based.py, _sync_span_sequence_id.
NumbersAreNew == \A r \in Rollouts : counter[r] >= top[r]

\* What estimate_model_size makes of any span; a custom estimator may say 0.
SizesArePositive == \A x \in Spans : Size[x] \in Nat \ {0}

\* In one event loop: a span the store said it had added is there, or asking
\* for the spans of its rollout fails because they were evicted.
NoSilentLoss ==
  ~threaded => \A x \in confirmed : x \in stored \/ Home[x] \in evicted
=============================================================================
