---------------------------- MODULE LegacyServer ----------------------------
(***************************************************************************)
(* Training over the task server (the daemon's mode v0): Trainer.fit_v0    *)
(* starts the workers and the algorithm, AgentLightningTrainer.fit takes   *)
(* turns of training and validation, AgentModeDaemon queues the rollouts   *)
(* of each at AgentLightningServer, LegacyAgentRunner workers claim them   *)
(* through AgentLightningClient, which swallows every failed request, call *)
(* the model through the daemon's proxy, and post what came out; the       *)
(* daemon collects until the batch is complete.  Each handler of the       *)
(* server runs as one step: its locks are never held over an await that    *)
(* suspends.                                                               *)
(***************************************************************************)
EXTENDS Integers, Sequences, FiniteSets, Selections

CONSTANTS
  TaskWorkers, \* worker processes
  RolloutN,    \* rollouts of each sample when training, train_rollout_n
  MaxSteps,    \* bound on total_training_steps and test_freq
  MaxTasks,    \* bound on the tasks queued
  MaxFaults    \* bound on lost requests and answers, dead and slow workers

ASSUME BatchAssumption ==
  RolloutN \in Nat \ {0} /\ MaxSteps \in Nat /\ MaxTasks \in Nat /\ MaxFaults \in Nat

VARIABLES
  plan,        \* the trainer's configuration: [before, only, freq, steps]
  turn,        \* what fit does: "before", "train", "after" or "over"
  step,        \* global_steps
  queue,       \* _task_queue, of task numbers
  processing,  \* _processing_tasks, in the order of the claims
  aged,        \* those claimed longer ago than task_timeout_seconds
  completed,   \* _completed_rollouts: records [task, reward, called]
  workers,     \* each at "off", "poll", "fetch", "work", "post" or "dead", with
               \* a task and whether the proxy had a model for its call
  addresses,   \* whether backend_llm_server_addresses has any
  training,    \* is_train
  batch,       \* the daemon's _task_id_to_original_sample
  done,        \* the daemon's _completed_rollouts_v0
  daemon,      \* "off", "idle", "waiting" or, after an exception, "failed"
  queued,      \* tasks queued so far
  faults
trainVars == <<plan, turn, step, queue, processing, aged, completed, workers, addresses, training,
               batch, done, daemon, queued, faults>>

Tasks == 1..MaxTasks
None == 0
Fault == faults < MaxFaults /\ faults' = faults + 1
Without(s, tasks) == Only(s, Range(s) \ tasks)

Worked == {workers[w].task : w \in {v \in TaskWorkers : workers[v].at \in {"fetch", "work", "post"}}}
Up == daemon \in {"idle", "waiting"}
AtTheServer == <<queue, processing, aged, completed>>
InTheTrainer == <<plan, turn, step, addresses, training, batch, done, daemon, queued>>

-----------------------------------------------------------------------------
(* Trainer.fit_v0. *)

Spawn ==
  /\ \A w \in TaskWorkers : workers[w].at = "off"
  /\ workers' = [w \in TaskWorkers |-> [at |-> "poll", task |-> None, called |-> FALSE]]
  /\ UNCHANGED <<AtTheServer, InTheTrainer, faults>>

\* The algorithm returned or raised: the workers are terminated, then killed.
Terminate ==
  /\ turn = "over" \/ daemon = "failed"
  /\ \E w \in TaskWorkers : workers[w].at \notin {"off", "dead"}
  /\ workers' = [w \in TaskWorkers |-> [at |-> "dead", task |-> None, called |-> FALSE]]
  /\ UNCHANGED <<AtTheServer, InTheTrainer, faults>>

-----------------------------------------------------------------------------
(* AgentLightningTrainer.fit and AgentModeDaemon. *)

\* Of every configuration: validation before training, only that, how often
\* between the steps.
Plans == {p \in [before : BOOLEAN, only : BOOLEAN, freq : 0..MaxSteps, steps : 1..MaxSteps] : p.only => p.before}
LastStep == step >= plan.steps

\* What fit does after a turn.
AfterTurn ==
  IF turn = "before" THEN IF plan.only THEN <<"over", step>> ELSE <<"train", step + 1>>
  ELSE IF turn = "train" /\ plan.freq > 0 /\ (LastStep \/ step % plan.freq = 0) THEN <<"after", step>>
  ELSE IF LastStep THEN <<"over", step>> ELSE <<"train", step + 1>>

Fails == daemon' = "failed" /\ UNCHANGED <<plan, turn, step, training, batch, done, queued>>

\* start: the server's thread, the wait for its event, the proxy's thread.
Start ==
  /\ daemon = "off" /\ \A w \in TaskWorkers : workers[w].at # "off"
  /\ \/ daemon' = "idle" /\ UNCHANGED <<plan, turn, step, training, batch, done, queued, faults>>
     \/ Fault /\ Fails
  /\ UNCHANGED <<AtTheServer, workers, addresses>>

\* set_up_data_and_server, of one sample: clears its own state, never the
\* server's queues, names the model's addresses, then publishes and queues;
\* not within its time it raises.
SetUp ==
  LET size == IF turn = "train" THEN RolloutN ELSE 1
  IN /\ daemon = "idle" /\ turn # "over"
     /\ \/ /\ queued + size \in Tasks
           /\ addresses' = TRUE /\ training' = (turn = "train")
           /\ batch' = (queued + 1)..(queued + size)
           /\ queue' = queue \o [i \in 1..size |-> queued + i]
           /\ queued' = queued + size
           /\ done' = {} /\ daemon' = "waiting"
           /\ UNCHANGED <<plan, turn, step, faults>>
        \/ Fault /\ Fails /\ UNCHANGED <<queue, addresses>>
     /\ UNCHANGED <<processing, aged, completed, workers>>

\* A mutant: results of unknown tasks count.
KnownAny(r) == TRUE

Known(r) == r.task \in batch

\* _async_run_until_finished: one round, which empties the server's results;
\* the first result of a task stands.
Collect ==
  /\ daemon = "waiting"
  /\ done' = done \cup {r \in completed : Known(r) /\ \A d \in done : d.task # r.task}
  /\ completed' = {}
  /\ UNCHANGED <<plan, turn, step, queue, processing, aged, workers, addresses, training, batch, daemon, queued, faults>>

\* get_train_data_batch or get_test_metrics, when the round's loop has ended:
\* asserts the mode and the number, and refuses a rollout without a reward
\* unless one is configured, a batch for training also when no rollout of it
\* has a triplet, as may be of any; then clear_data_and_server.
Read(mode) ==
  /\ daemon = "waiting" /\ Cardinality(done) >= Cardinality(batch)
  /\ \/ /\ training = mode /\ Cardinality(done) = Cardinality(batch)
        /\ turn' = AfterTurn[1] /\ step' = AfterTurn[2]
        /\ daemon' = "idle" /\ UNCHANGED <<plan, training, queued>>
        /\ addresses' = FALSE /\ batch' = {} /\ done' = {}
     \/ /\ training # mode \/ Cardinality(done) # Cardinality(batch) \/ mode \/ \E r \in done : ~r.reward
        /\ Fails /\ UNCHANGED addresses
  /\ UNCHANGED <<AtTheServer, workers, faults>>

\* The rest of a turn: _train_step, _validate.
TrainStep == turn = "train" /\ Read(TRUE)
Validate == turn \in {"before", "after"} /\ Read(FALSE)

-----------------------------------------------------------------------------
(* AgentLightningServer. *)

\* The timeout of a claim passes: under a worker that is slow, or nobody.
Age(t) ==
  /\ t \in Range(processing) \ aged /\ aged' = aged \cup {t}
  /\ IF t \in Worked THEN Fault ELSE UNCHANGED faults
  /\ UNCHANGED <<queue, processing, completed, workers, InTheTrainer>>

\* _check_and_requeue_stale_tasks, requeue_task.
Requeued(q, stale) == q \o stale

\* next_task: stale tasks first go to the tail of the queue.  The worker may
\* never see the answer, and polls again.
NextTask(w) ==
  LET stale == Only(processing, aged)
      ready == Requeued(queue, stale)
      kept == Without(processing, aged)
  IN /\ Up /\ workers[w].at = "poll" /\ aged' = {}
     /\ \/ /\ ready # <<>>
           /\ queue' = Tail(ready)
           /\ processing' = Append(Without(kept, {Head(ready)}), Head(ready))
           /\ \/ workers' = [workers EXCEPT ![w] = [at |-> "fetch", task |-> Head(ready), called |-> FALSE]] /\ UNCHANGED faults
              \/ Fault /\ UNCHANGED workers
        \/ /\ ready = <<>> /\ stale # <<>>
           /\ queue' = ready /\ processing' = kept /\ UNCHANGED <<workers, faults>>
     /\ UNCHANGED <<completed, InTheTrainer>>

\* post_rollout: whether or not the task was requeued meanwhile.
Store(result) ==
  /\ processing' = Without(processing, {result.task}) /\ aged' = aged \ {result.task}
  /\ completed' = {r \in completed : r.task # result.task} \cup {result}

-----------------------------------------------------------------------------
(* LegacyAgentRunner. *)

Goes(w, at) == workers' = [workers EXCEPT ![w].at = at]
Polls(w) == workers' = [workers EXCEPT ![w] = [at |-> "poll", task |-> None, called |-> FALSE]]

\* A request is lost, or there is nobody to answer it.
Lost == IF Up THEN Fault ELSE UNCHANGED faults

\* get_resources_by_id: every task was published with its resources, which
\* are never evicted; a failed fetch skips the task, which stays claimed.
Fetch(w) ==
  /\ workers[w].at = "fetch"
  /\ \/ Up /\ Goes(w, "work") /\ UNCHANGED faults
     \/ Lost /\ Polls(w)
  /\ UNCHANGED <<AtTheServer, InTheTrainer>>

\* _start_proxy_server_v0: the proxy answers 503 while it has no address.
Proxied == addresses

\* The agent calls the model through the proxy, and returns or raises.
RunAgent(w) ==
  /\ workers[w].at = "work"
  /\ workers' = [workers EXCEPT ![w] = [at |-> "post", task |-> @.task, called |-> Proxied]]
  /\ UNCHANGED <<AtTheServer, InTheTrainer, faults>>

\* A rollout is posted either way, with a reward of the agent's or of its last
\* triplet, or without one; a failed post is not repeated.
Post(w) ==
  /\ workers[w].at = "post" /\ Polls(w)
  /\ \/ /\ Up /\ UNCHANGED faults
        /\ \E reward \in BOOLEAN : Store([task |-> workers[w].task, reward |-> reward, called |-> workers[w].called])
     \/ Lost /\ UNCHANGED <<processing, aged, completed>>
  /\ UNCHANGED <<queue, InTheTrainer>>

Die(w) ==
  /\ Fault /\ workers[w].at \notin {"off", "dead"} /\ \E v \in TaskWorkers \ {w} : workers[v].at # "dead"
  /\ workers' = [workers EXCEPT ![w] = [at |-> "dead", task |-> None, called |-> FALSE]]
  /\ UNCHANGED <<AtTheServer, InTheTrainer>>

-----------------------------------------------------------------------------
TrainInit ==
  /\ plan \in Plans
  /\ turn = (IF plan.before THEN "before" ELSE "train") /\ step = (IF plan.before THEN 0 ELSE 1)
  /\ queue = <<>> /\ processing = <<>> /\ aged = {} /\ completed = {}
  /\ workers = [w \in TaskWorkers |-> [at |-> "off", task |-> None, called |-> FALSE]]
  /\ addresses = FALSE /\ training = TRUE
  /\ batch = {} /\ done = {} /\ daemon = "off" /\ queued = 0 /\ faults = 0

Run(w) == NextTask(w) \/ Fetch(w) \/ RunAgent(w) \/ Post(w)

TrainNext == Spawn \/ Terminate \/ Start \/ SetUp \/ Collect \/ TrainStep \/ Validate
        \/ (\E t \in Tasks : Age(t)) \/ \E w \in TaskWorkers : Run(w) \/ Die(w)

TrainSpec == TrainInit /\ [][TrainNext]_trainVars

-----------------------------------------------------------------------------
\* What a turn collects, and reads when it is complete, is a result for each of
\* its own tasks and none of an earlier turn, whose requeued tasks workers still
\* claim and finish, and none of a call made while the proxy had no model; a
\* turn of training is never read as one of validation.
\* verl/daemon.py, _async_run_until_finished, get_train_data_batch,
\* get_test_metrics; verl/trainer.py, _train_step and _validate.
BatchIsItsOwn ==
  /\ {d.task : d \in done} \subseteq batch /\ Cardinality(done) <= Cardinality(batch)
  /\ \A d \in done : d.called
  /\ daemon = "waiting" => training = (turn = "train")
=============================================================================
