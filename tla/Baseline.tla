------------------------------ MODULE Baseline ------------------------------
(***************************************************************************)
(* algorithm/fast.py: the Baseline algorithm sends its datasets through    *)
(* the rollout queue, epoch by epoch, and harvests every rollout in a task *)
(* of its own, which polls.  with_llm_proxy (algorithm/utils.py) wraps the *)
(* run, and the agents are functions wrapped by FunctionalLitAgent         *)
(* (litagent/decorator.py), which picks their resources.                   *)
(***************************************************************************)
EXTENDS Naturals, Sequences, FiniteSets, SequencesExt

CONSTANTS
  TrainSize, ValSize,   \* lengths of the datasets
  Epochs, MaxQueue,     \* n_epochs and max_queue_length
  MaxTries              \* attempts a rollout has

ASSUME BaselineAssumption == {TrainSize, ValSize, Epochs, MaxQueue} \subseteq Nat

VARIABLES
  pc,        \* where run() is
  proxy,     \* "none", "stopped" or "running"
  found,     \* how with_llm_proxy found it
  mine,      \* auto_started
  initial,   \* initial resources: a sequence of kinds of resources
  version,   \* resources_id of the update, 0 for None
  epoch, index,
  queue,     \* rollouts that wait, in the store
  rollouts,  \* sequence of [sample, epoch, mode, status, tries, version]
  tasks,     \* harvest tasks that run
  lost,      \* harvest tasks that raised
  handled,   \* times that _handle_rollout_finish was done for each rollout
  ran        \* the agents' calls that run: [rollout, attempt, llm]
runVars == <<pc, proxy, found, mine, initial, version, epoch, index, queue, rollouts, tasks, lost, handled, ran>>

Size == TrainSize + ValSize
Indices == 1..Size
Mode(i) == IF i <= TrainSize THEN "train" ELSE "val"
Over == {"succeeded", "failed", "cancelled"}

BaselineInit ==
  /\ pc = "begin" /\ proxy \in {"none", "stopped", "running"} /\ found = proxy /\ mine = FALSE
  /\ initial \in {<<>>, <<"proxy">>, <<"llm", "proxy">>, <<"prompt", "proxy">>} /\ version = 0
  /\ epoch = 1 /\ index = 1 /\ queue = <<>> /\ rollouts = <<>>
  /\ tasks = {} /\ lost = {} /\ handled = <<>> /\ ran = {}

-----------------------------------------------------------------------------
(* with_llm_proxy *)

StartProxy ==
  /\ pc = "begin"
  /\ mine' = (proxy = "stopped")
  /\ proxy' = IF proxy = "stopped" THEN "running" ELSE proxy
  /\ pc' = IF Size = 0 THEN "leave" ELSE "resources"
  /\ UNCHANGED <<found, initial, version, epoch, index, queue, rollouts, tasks, lost, handled, ran>>

\* start() raises: that is before the try, so nothing is stopped.
StartProxyFails ==
  /\ pc = "begin" /\ proxy = "stopped"
  /\ pc' = "raised"
  /\ UNCHANGED <<proxy, found, mine, initial, version, epoch, index, queue, rollouts, tasks, lost, handled, ran>>

Left == IF mine THEN "stopped" ELSE proxy

StopProxy ==
  /\ pc \in {"leave", "raise"}
  /\ proxy' = Left
  /\ pc' = IF pc = "leave" THEN "done" ELSE "raised"
  /\ UNCHANGED <<found, mine, initial, version, epoch, index, queue, rollouts, tasks, lost, handled, ran>>

\* stop() raises, with the proxy stopped or not.
StopProxyFails ==
  /\ pc \in {"leave", "raise"} /\ mine
  /\ proxy' \in {proxy, "stopped"}
  /\ pc' = "unstopped"
  /\ UNCHANGED <<found, mine, initial, version, epoch, index, queue, rollouts, tasks, lost, handled, ran>>

-----------------------------------------------------------------------------
(* run *)

UpdateResources ==
  /\ pc = "resources"
  /\ version' = IF initial = <<>> THEN 0 ELSE 1
  /\ pc' = IF Epochs = 0 THEN "leave" ELSE "look"
  /\ UNCHANGED <<proxy, found, mine, initial, epoch, index, queue, rollouts, tasks, lost, handled, ran>>

\* query_rollouts and enqueue_rollout are two calls to the store.
Look ==
  /\ pc = "look"
  /\ Len(queue) <= MaxQueue
  /\ pc' = "enqueue"
  /\ UNCHANGED <<proxy, found, mine, initial, version, epoch, index, queue, rollouts, tasks, lost, handled, ran>>

Enqueue ==
  /\ pc = "enqueue"
  /\ LET r == Len(rollouts) + 1 IN
     /\ rollouts' = Append(rollouts, [sample |-> index, epoch |-> epoch, mode |-> Mode(index),
                                      status |-> "queuing", tries |-> 0, version |-> version])
     /\ queue' = Append(queue, r)
     /\ tasks' = tasks \cup {r}
     /\ handled' = Append(handled, 0)
  /\ index' = IF index < Size THEN index + 1 ELSE 1
  /\ pc' = IF index < Size THEN "look" ELSE "gather"
  /\ UNCHANGED <<proxy, found, mine, initial, version, epoch, lost, ran>>

\* A call to the store fails: run() raises, and its harvest tasks go on.
Fails ==
  /\ pc \in {"resources", "look", "enqueue"} /\ (pc = "resources" => initial # <<>>)
  /\ pc' = "raise"
  /\ UNCHANGED <<proxy, found, mine, initial, version, epoch, index, queue, rollouts, tasks, lost, handled, ran>>

\* A mutant: the epoch ends with its last submission.
GatheredAtOnce == TRUE

Gathered == tasks = {}

Gather ==
  /\ pc = "gather" /\ Gathered /\ lost = {}
  /\ IF epoch < Epochs THEN epoch' = epoch + 1 /\ pc' = "look"
                       ELSE UNCHANGED epoch /\ pc' = "leave"
  /\ UNCHANGED <<proxy, found, mine, initial, version, index, queue, rollouts, tasks, lost, handled, ran>>

\* asyncio.gather raises what the first task raised; the others go on.
GatherFails ==
  /\ pc = "gather" /\ lost # {}
  /\ pc' = "raise"
  /\ UNCHANGED <<proxy, found, mine, initial, version, epoch, index, queue, rollouts, tasks, lost, handled, ran>>

\* One round of _harvest_rollout_spans that meets a finished rollout.
Harvest(r) ==
  /\ r \in tasks /\ rollouts[r].status \in Over
  /\ handled' = [handled EXCEPT ![r] = @ + 1]
  /\ tasks' = tasks \ {r}
  /\ UNCHANGED <<pc, proxy, found, mine, initial, version, epoch, index, queue, rollouts, lost, ran>>

\* A call to the store or to the adapter raises in it.
HarvestFails(r) ==
  /\ r \in tasks
  /\ tasks' = tasks \ {r} /\ lost' = lost \cup {r}
  /\ UNCHANGED <<pc, proxy, found, mine, initial, version, epoch, index, queue, rollouts, handled, ran>>

-----------------------------------------------------------------------------
(* The agents.  _get_llm_resource: the first LLM, and a ProxyLLM is one;   *)
(* _strip_proxy_helper writes rollout and attempt into the endpoint of a   *)
(* ProxyLLM.  Without an LLM the rollout raises.                           *)

LLMs(resources) == {i \in DOMAIN resources : resources[i] \in {"llm", "proxy"}}
NoLLM(resources) == LLMs(resources) = {}
FirstLLM(resources) == CHOOSE i \in LLMs(resources) : \A j \in LLMs(resources) : i <= j

\* with_attempted_rollout
Baked(r, attempt) == [rollout |-> r, attempt |-> attempt]
Plain == [rollout |-> 0, attempt |-> 0]
LlmOf(resources, r, attempt) ==
  IF resources[FirstLLM(resources)] = "proxy" THEN Baked(r, attempt) ELSE Plain

Claim ==
  /\ queue # <<>>
  /\ LET r == Head(queue)
         attempt == rollouts[r].tries + 1
     IN  /\ rollouts' = [rollouts EXCEPT ![r] = [@ EXCEPT !.status = "running", !.tries = attempt]]
         /\ ran' = IF NoLLM(initial) THEN ran
                   ELSE ran \cup {[rollout |-> r, attempt |-> attempt, llm |-> LlmOf(initial, r, attempt)]}
  /\ queue' = Tail(queue)
  /\ UNCHANGED <<pc, proxy, found, mine, initial, version, epoch, index, tasks, lost, handled>>

Agent(r) ==
  /\ rollouts[r].status = "running"
  /\ \E end \in {"succeeded", "failed"} :
       /\ NoLLM(initial) => end = "failed"
       /\ LET again == end = "failed" /\ rollouts[r].tries < MaxTries
              new == IF again THEN "requeuing" ELSE end
          IN  /\ rollouts' = [rollouts EXCEPT ![r].status = new]
              /\ queue' = IF again THEN Append(queue, r) ELSE queue
  /\ ran' = {c \in ran : c.rollout # r}
  /\ UNCHANGED <<pc, proxy, found, mine, initial, version, epoch, index, tasks, lost, handled>>

BaselineNext ==
  \/ StartProxy \/ StartProxyFails \/ StopProxy \/ StopProxyFails
  \/ UpdateResources \/ Look \/ Enqueue \/ Fails \/ Gather \/ GatherFails \/ Claim
  \/ \E r \in DOMAIN rollouts : Harvest(r) \/ HarvestFails(r) \/ Agent(r)

BaselineSpec == BaselineInit /\ [][BaselineNext]_runVars

-----------------------------------------------------------------------------
\* A run that ends has sent each sample through once per epoch and handled
\* each of those rollouts once, after it was over; no rollout of an epoch is
\* sent before those of the last one are handled; of the new ones no more wait
\* than the bound and one; the proxy is left as it was found, also when the
\* run or the start of the proxy raises (not when its stop does); and the
\* calls through the proxy name the attempt that makes them.
\* algorithm/fast.py, algorithm/utils.py, litagent/decorator.py.
BaselineIsWhole ==
  /\ pc = "done" /\ Size > 0 =>
       /\ \A e \in 1..Epochs, i \in Indices :
            Cardinality({r \in DOMAIN rollouts : rollouts[r].sample = i /\ rollouts[r].epoch = e}) = 1
       /\ \A r \in DOMAIN rollouts : handled[r] = 1
  /\ \A r, s \in DOMAIN rollouts :
       rollouts[r].epoch < rollouts[s].epoch => rollouts[r].status \in Over /\ handled[r] = 1
  /\ Cardinality({r \in DOMAIN rollouts : rollouts[r].status = "queuing"}) <= MaxQueue + 1
  /\ pc \in {"done", "raised"} => proxy = found
  /\ \A c \in ran : c.llm = Plain \/ (c.llm.rollout = c.rollout /\ c.llm.attempt = c.attempt)
=============================================================================
