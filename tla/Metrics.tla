------------------------------- MODULE Metrics -------------------------------
(***************************************************************************)
(* utils/metrics.py: a MultiMetricsBackend over a console backend, which   *)
(* keeps the events of a sliding window and logs all of them now and then, *)
(* and over a Prometheus backend, which counts.  Metrics are registered    *)
(* before they are used; calls interleave wherever one takes a lock.       *)
(*                                                                         *)
(* A definition is [kind, labels, buckets, level]; a metric's events are   *)
(* kept by the values of its labels.  An event is the time its caller read *)
(* from the clock.  Amounts and observed values are left out, and a        *)
(* percentile is a position among the sorted values.                       *)
(***************************************************************************)
EXTENDS Integers, Sequences, FiniteSets, SequencesExt, Functions, Selections

CONSTANTS
  Recorders,
  MetricNames, Normal,     \* metrics, and what Prometheus makes of a name
  Labels,            \* names of labels
  Offered,           \* of each name, the definitions it is registered with
  Window, Interval,  \* seconds; a Window beyond EndOfTime stands for none
  EndOfTime, MaxEvents

Definitions ==
  [kind : {"counter", "histogram"}, labels : Seq(Labels), buckets : {"none", "defaults", "others"}, level : Nat]
ASSUME MetricsAssumption ==
  /\ Window \in Nat /\ IsFiniteSet(Recorders)
  /\ \A n \in MetricNames : Offered[n] \subseteq Definitions

VARIABLES
  console, prometheus,  \* definitions by name, of the two backends
  normal,        \* the name that owns each normalized name
  timestamps,    \* console: by <<name, values of its labels>>, a sequence of times
  lastLog,       \* 0 is never
  counted,       \* Prometheus: by <<name, values of its labels>>, a number
  clock, recording,  \* recording: [at, name, key, now] of each caller
  refused,       \* history: names a registration was refused for
  written,       \* history: all times that went to each key, in their order
  newest         \* history: the latest time a call pruned with
metricsVars == <<console, prometheus, normal, timestamps, lastLog, counted, clock, recording,
                 refused, written, newest>>

NoDefinition == [kind |-> "none", labels |-> <<>>, buckets |-> "none", level |-> 0]
NoRecord == [at |-> "idle", name |-> "", key |-> <<>>, now |-> 0]

-----------------------------------------------------------------------------
(* The console backend. *)

\* A mutant: the first event of the window goes with those before it.
PruneFirst(times, now) ==
  LET fresh == {i \in DOMAIN times : times[i] >= now - Window}
  IN IF fresh = {} THEN <<>> ELSE SubSeq(times, Min(fresh) + 1, Len(times))

\* _prune_events: up to the first event of the window; times need not ascend,
\* so older ones may stay behind it.
Prune(times, now) ==
  LET fresh == {i \in DOMAIN times : times[i] >= now - Window}
  IN IF fresh = {} THEN <<>> ELSE SubSeq(times, Min(fresh), Len(times))

\* _snapshot_locked
Pruned(now) == [k \in DOMAIN timestamps |-> Prune(timestamps[k], now)]

\* _effective_group_level, without a level of the backend; at level 0 all
\* labels of a metric go together.
Level(name) == console[name].level

\* _truncate_labels_for_logging
GroupOf(key) == <<key[1], SubSeq(key[2], 1, Min({Level(key[1]), Len(key[2])}))>>

\* A mutant: one key of a group stands for all.
GroupsOne(snapshot) ==
  LET keys == {k \in DOMAIN snapshot : snapshot[k] # <<>>}
  IN [g \in {GroupOf(k) : k \in keys} |-> snapshot[CHOOSE k \in keys : GroupOf(k) = g]]

\* _group_counter_snapshots, _group_histogram_snapshots: the events of all keys
\* of a group, in order.
Groups(snapshot) ==
  LET keys == {k \in DOMAIN snapshot : snapshot[k] # <<>>}
      of(g) == SetToSeq({k \in keys : GroupOf(k) = g})
  IN [g \in {GroupOf(k) : k \in keys} |->
        SortSeq(FlattenSeq([i \in DOMAIN of(g) |-> snapshot[of(g)[i]]]), <=)]

-----------------------------------------------------------------------------
(* Registration. *)
Agrees(old, new) == old.kind = new.kind /\ old.labels = new.labels /\ old.buckets = new.buckets

\* ConsoleMetricsBackend.register_counter and register_histogram: the buckets
\* have defaults.
ConsoleForm(d) == IF d.kind = "histogram" /\ d.buckets = "none" THEN [d EXCEPT !.buckets = "defaults"] ELSE d
ConsoleTakes(name, d) == console[name] = NoDefinition \/ Agrees(console[name], ConsoleForm(d))

\* _register_prometheus_metric_name
NameFree(name) == normal[Normal[name]] \in {"", name}

\* PrometheusMetricsBackend.register_counter and register_histogram
PrometheusTakes(name, d) ==
  IF prometheus[name] # NoDefinition THEN Agrees(prometheus[name], d) ELSE NameFree(name)

\* MultiMetricsBackend: one after the other; the first that raises ends it.
Register(name, d) ==
  /\ \A c \in Recorders : recording[c] = NoRecord
  /\ DOMAIN written = {}
  /\ IF ConsoleTakes(name, d) /\ console[name] = NoDefinition
     THEN console' = [console EXCEPT ![name] = ConsoleForm(d)] ELSE UNCHANGED console
  /\ IF ConsoleTakes(name, d) /\ PrometheusTakes(name, d) /\ prometheus[name] = NoDefinition
     THEN prometheus' = [prometheus EXCEPT ![name] = d] /\ normal' = [normal EXCEPT ![Normal[name]] = name]
     ELSE UNCHANGED <<prometheus, normal>>
  /\ refused' = IF ConsoleTakes(name, d) /\ PrometheusTakes(name, d) THEN refused ELSE refused \cup {name}
  /\ UNCHANGED <<timestamps, lastLog, counted, clock, recording, written, newest>>

-----------------------------------------------------------------------------
(* inc_counter and observe_histogram. *)
Step(c, at) == recording' = [recording EXCEPT ![c] = IF at = "idle" THEN NoRecord ELSE [@ EXCEPT !.at = at]]

\* The values of the labels a metric was registered with, in their order;
\* labels it does not have are ignored (_validate_labels).
KeyOf(name, given) == <<name, [i \in DOMAIN console[name].labels |-> given[console[name].labels[i]]]>>

\* A call that names no metric of its kind, or gives too few labels, raises and
\* leaves nothing; any other has read the clock.
Record(c, name, kind, given) ==
  /\ recording[c] = NoRecord /\ SumFunction([k \in DOMAIN written |-> Len(written[k])]) < MaxEvents
  /\ IF console[name].kind = kind /\ Range(console[name].labels) \subseteq DOMAIN given
     THEN recording' = [recording EXCEPT ![c] = [at |-> "write", name |-> name, key |-> KeyOf(name, given), now |-> clock]]
     ELSE UNCHANGED recording
  /\ UNCHANGED <<console, prometheus, normal, timestamps, lastLog, counted, clock, refused, written, newest>>

At(f, k, none) == IF k \in DOMAIN f THEN f[k] ELSE none
Put(f, k, value) == [j \in DOMAIN f \cup {k} |-> IF j = k THEN value ELSE f[j]]
Later(t) == IF t > newest THEN t ELSE newest

\* Under _write_lock.
Write(c) ==
  LET key == recording[c].key
      now == recording[c].now
  IN /\ recording[c].at = "write"
     /\ timestamps' = Put(timestamps, key, Prune(Append(At(timestamps, key, <<>>), now), now))
     /\ written' = Put(written, key, Append(At(written, key, <<>>), now))
     /\ newest' = Later(now)
     /\ Step(c, "decide")
     /\ UNCHANGED <<console, prometheus, normal, lastLog, counted, clock, refused>>

\* Under _snapshot_lock: _should_log_locked.
Decide(c) ==
  /\ recording[c].at = "decide"
  /\ IF lastLog = 0 \/ recording[c].now - lastLog >= Interval
     THEN lastLog' = recording[c].now /\ Step(c, "log")
     ELSE UNCHANGED lastLog /\ Step(c, "forward")
  /\ UNCHANGED <<console, prometheus, normal, timestamps, counted, clock, refused, written, newest>>

\* Under _write_lock, and _log_snapshot behind it.
Log(c) ==
  /\ recording[c].at = "log"
  /\ timestamps' = Pruned(recording[c].now)
  /\ newest' = Later(recording[c].now)
  /\ Step(c, "forward")
  /\ UNCHANGED <<console, prometheus, normal, lastLog, counted, clock, refused, written>>

\* The Prometheus backend, which raises if it does not have the metric.
Forward(c) ==
  LET key == recording[c].key
  IN /\ recording[c].at = "forward"
     /\ IF prometheus[recording[c].name].kind = console[recording[c].name].kind
        THEN counted' = Put(counted, key, At(counted, key, 0) + 1)
        ELSE UNCHANGED counted
     /\ Step(c, "idle")
     /\ UNCHANGED <<console, prometheus, normal, timestamps, lastLog, clock, refused, written, newest>>

Tick ==
  /\ clock < EndOfTime /\ clock' = clock + 1
  /\ UNCHANGED <<console, prometheus, normal, timestamps, lastLog, counted, recording, refused, written, newest>>

-----------------------------------------------------------------------------
MetricsInit ==
  /\ console = [n \in MetricNames |-> NoDefinition] /\ prometheus = console
  /\ normal = [n \in Range(Normal) |-> ""]
  /\ timestamps = [k \in {} |-> <<>>] /\ counted = [k \in {} |-> 0]
  /\ lastLog = 0 /\ clock = 1 /\ newest = 1
  /\ recording = [c \in Recorders |-> NoRecord] /\ refused = {} /\ written = timestamps

MetricsNext ==
  \/ \E n \in MetricNames : \E d \in Offered[n] : Register(n, d)
  \/ \E c \in Recorders :
       \/ \E n \in MetricNames, k \in {"counter", "histogram"}, S \in SUBSET Labels :
            \E g \in [S -> {0, 1}] : Record(c, n, k, g)
       \/ Write(c) \/ Decide(c) \/ Log(c) \/ Forward(c)
  \/ Tick

MetricsSpec == MetricsInit /\ [][MetricsNext]_metricsVars

-----------------------------------------------------------------------------
Since(time) == {t \in Nat : t >= time}
InFlight(key) == Cardinality({c \in Recorders : recording[c].key = key /\ recording[c].at \in {"decide", "log", "forward"}})

\* However calls interleave and in whatever order they come to a lock: the
\* console has every event, in order, until it is older than the window of some
\* call; and Prometheus counts each call once that came back, for a metric both
\* backends accepted.  ConsoleMetricsBackend and MultiMetricsBackend.
NoEventLost ==
  \A k \in DOMAIN timestamps :
    /\ Only(timestamps[k], Since(newest - Window)) = Only(written[k], Since(newest - Window))
    /\ k[1] \notin refused => At(counted, k, 0) + InFlight(k) = Len(written[k])

\* A log shows each event of a metric that is kept, in one group.
\* ConsoleMetricsBackend._log_snapshot.
LogIsWhole ==
  \A n \in MetricNames :
    FoldFunction(+, 0, [g \in {h \in DOMAIN Groups(timestamps) : h[1] = n} |-> Len(Groups(timestamps)[g])])
    = FoldFunction(+, 0, [k \in {j \in DOMAIN timestamps : j[1] = n} |-> Len(timestamps[k])])
=============================================================================
