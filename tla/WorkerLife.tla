----------------------------- MODULE WorkerLife -----------------------------
(***************************************************************************)
(* The life of a runner around LitAgentRunner.iter: a bundle of the        *)
(* Trainer, or run_context, initialises the runner and its worker, iter    *)
(* starts a loop that sends heartbeats, and whatever happens all of it is  *)
(* taken down again.  Bundles that are processes have a runner each;       *)
(* threads share the Trainer's only one.                                   *)
(***************************************************************************)
EXTENDS Naturals

CONSTANTS
  Workers,
  Nobody,      \* worker_id None, "Worker-Unknown"
  Zero,        \* the worker id of run_context
  MaxCancels   \* bound on the cancellations of a bundle

VARIABLES
  shared,     \* rigid: the bundles share the runner
  use,        \* rigid: "bundle", or "context" for run_context
  mode,       \* rigid: heartbeat_launch_mode, or "off" for an interval of 0
  runner,     \* of each runner: agent and store are set, and its worker_id
  place,
  ready,      \* of each bundle: 1, runner_initialized; 2, worker_initialized
  beat,       \* the heartbeat loop: "none", "waiting", "checked", "sending", "over"
  told,       \* its stop event
  name,       \* the worker id in the heartbeat it is sending, NoCall when it is not
  claim,      \* the worker id that the rollout at work was claimed with, or NoCall
  cancels,
  cut         \* history: a cancellation cut short the wait for the loop
rigid == <<shared, use, mode>>
life == <<rigid, runner, place, ready, beat, told, name, claim, cancels, cut>>

Mine(w) == IF shared THEN CHOOSE v \in Workers : TRUE ELSE w
Given(w) == IF use = "context" THEN Zero ELSE w
NoCall == "none"
Empty == [agent |-> FALSE, store |-> FALSE, id |-> Nobody]

LifeInit ==
  /\ shared \in BOOLEAN /\ use \in {"bundle", "context"} /\ (shared => use = "bundle")
  /\ mode \in {"asyncio", "thread", "off"}
  /\ runner = [w \in Workers |-> Empty]
  /\ ready = [w \in Workers |-> 0]
  /\ beat = [w \in Workers |-> "none"] /\ told = [w \in Workers |-> FALSE]
  /\ name = [w \in Workers |-> NoCall] /\ claim = [w \in Workers |-> NoCall]
  /\ cancels = [w \in Workers |-> 0] /\ cut = [w \in Workers |-> FALSE]
LifeStarts == LifeInit /\ place = [w \in Workers |-> "new"]

Reach(w, to) == place' = [place EXCEPT ![w] = to]
-----------------------------------------------------------------------------
(* The bundle. *)

\* init sets the agent and the hooks; the tracer's init may raise.
InitRunner(w) ==
  /\ place[w] = "new"
  /\ runner' = [runner EXCEPT ![Mine(w)].agent = TRUE]
  /\ \/ Reach(w, "worker") /\ ready' = [ready EXCEPT ![w] = 1]
     \/ Reach(w, "leaving") /\ UNCHANGED ready
  /\ UNCHANGED <<rigid, beat, told, name, claim, cancels, cut>>

InitWorker(w) ==
  /\ place[w] = "worker"
  /\ runner' = [runner EXCEPT ![Mine(w)].store = TRUE, ![Mine(w)].id = Given(w)]
  /\ \/ Reach(w, "start") /\ ready' = [ready EXCEPT ![w] = 2]
     \/ Reach(w, "leaving") /\ UNCHANGED ready
  /\ UNCHANGED <<rigid, beat, told, name, claim, cancels, cut>>

\* iter: get_store raises without a store; the loop is not started without a
\* worker id.
Iter(w) ==
  /\ place[w] = "start"
  /\ IF ~runner[Mine(w)].store THEN Reach(w, "leaving") /\ UNCHANGED beat
     ELSE /\ Reach(w, "iter")
          /\ beat' = [beat EXCEPT ![w] =
               IF mode = "off" \/ runner[Mine(w)].id = Nobody THEN "none" ELSE "waiting"]
  /\ UNCHANGED <<rigid, runner, ready, told, name, claim, cancels, cut>>

\* step: one rollout in a run_context, without heartbeats.
Step(w) ==
  /\ place[w] = "start" /\ use = "context"
  /\ claim' = [claim EXCEPT ![w] = runner[Mine(w)].id]
  /\ Reach(w, "step")
  /\ UNCHANGED <<rigid, runner, ready, beat, told, name, cancels, cut>>
Stepped(w) ==
  /\ place[w] = "step"
  /\ claim' = [claim EXCEPT ![w] = NoCall]
  /\ Reach(w, "leaving")
  /\ UNCHANGED <<rigid, runner, ready, beat, told, name, cancels, cut>>

\* dequeue_rollout, with the worker id of the moment.
Claim(w) ==
  /\ place[w] = "iter"
  /\ claim' = [claim EXCEPT ![w] = runner[Mine(w)].id]
  /\ Reach(w, "work")
  /\ UNCHANGED <<rigid, runner, ready, beat, told, name, cancels, cut>>

\* iter's finally: the loop is told to stop, and waited for.
Finish(w) ==
  IF beat[w] = "none" THEN Reach(w, "leaving") /\ UNCHANGED told
  ELSE Reach(w, "awaiting") /\ told' = [told EXCEPT ![w] = TRUE]

\* _step_impl; get_store and get_agent raise when they have been reset.
Work(w) ==
  /\ place[w] = "work"
  /\ IF runner[Mine(w)].store /\ runner[Mine(w)].agent THEN Reach(w, "iter") /\ UNCHANGED told
     ELSE Finish(w)
  /\ claim' = [claim EXCEPT ![w] = NoCall]
  /\ UNCHANGED <<rigid, runner, ready, beat, name, cancels, cut>>

\* The event is set, max_rollouts are done, or the store raises.
Done(w) ==
  /\ place[w] = "iter" /\ Finish(w)
  /\ UNCHANGED <<rigid, runner, ready, beat, name, claim, cancels, cut>>

\* A mutant: stop only sets the event.
StoppedAtOnce(w) == place[w] = "awaiting"

\* stop() returns when the task or the thread is over.
Stopped(w) == place[w] = "awaiting" /\ beat[w] = "over"
Leave(w) ==
  /\ Stopped(w) /\ Reach(w, "leaving")
  /\ UNCHANGED <<rigid, runner, ready, beat, told, name, claim, cancels, cut>>

\* A cancellation at an await.  stop() of a task passes it on to the task and
\* goes on; stop() of a thread raises it, and the thread goes on.
Cancel(w) ==
  /\ cancels[w] < MaxCancels /\ place[w] \in {"iter", "work", "awaiting"}
  /\ cancels' = [cancels EXCEPT ![w] = @ + 1]
  /\ IF place[w] # "awaiting" THEN Finish(w) /\ UNCHANGED <<beat, name, cut>>
     ELSE /\ Reach(w, "leaving") /\ UNCHANGED told
          /\ IF mode = "asyncio"
             THEN /\ beat' = [beat EXCEPT ![w] = "over"] /\ name' = [name EXCEPT ![w] = NoCall]
                  /\ UNCHANGED cut
             ELSE cut' = [cut EXCEPT ![w] = TRUE] /\ UNCHANGED <<beat, name>>
  /\ claim' = [claim EXCEPT ![w] = NoCall]
  /\ UNCHANGED <<rigid, runner, ready>>

\* teardown_worker and teardown, as far as the initialisation came; what they
\* raise is logged.
TeardownWorker(w) ==
  /\ place[w] = "leaving" /\ Reach(w, "closing")
  /\ runner' = IF ready[w] = 2 THEN [runner EXCEPT ![Mine(w)].id = Nobody] ELSE runner
  /\ UNCHANGED <<rigid, ready, beat, told, name, claim, cancels, cut>>
Teardown(w) ==
  /\ place[w] = "closing" /\ Reach(w, "over")
  /\ runner' = IF ready[w] >= 1 THEN [runner EXCEPT ![Mine(w)] = Empty] ELSE runner
  /\ UNCHANGED <<rigid, ready, beat, told, name, claim, cancels, cut>>

-----------------------------------------------------------------------------
(* The heartbeat loop. *)

\* The thread looks at its event, and then at the worker id; for a task that
\* is one step.
LoopChecks(w) ==
  /\ beat[w] = "waiting" /\ (told[w] \/ mode = "thread")
  /\ beat' = [beat EXCEPT ![w] = IF told[w] THEN "over" ELSE "checked"]
  /\ UNCHANGED <<rigid, runner, place, ready, told, name, claim, cancels, cut>>

Beat(w) ==
  /\ beat[w] = "checked" \/ (beat[w] = "waiting" /\ ~told[w] /\ mode = "asyncio")
  /\ beat' = [beat EXCEPT ![w] = "sending"]
  /\ name' = [name EXCEPT ![w] = runner[Mine(w)].id]
  /\ UNCHANGED <<rigid, runner, place, ready, told, claim, cancels, cut>>

\* The store has it, or update_worker raised, which is logged.
Sent(w) ==
  /\ beat[w] = "sending"
  /\ beat' = [beat EXCEPT ![w] = "waiting"]
  /\ name' = [name EXCEPT ![w] = NoCall]
  /\ UNCHANGED <<rigid, runner, place, ready, told, claim, cancels, cut>>

LifeNext ==
  \E w \in Workers :
    \/ InitRunner(w) \/ InitWorker(w) \/ Iter(w) \/ Step(w) \/ Stepped(w) \/ Claim(w) \/ Work(w) \/ Done(w)
    \/ Leave(w) \/ Cancel(w) \/ TeardownWorker(w) \/ Teardown(w)
    \/ LoopChecks(w) \/ Beat(w) \/ Sent(w)

LifeSpec == LifeStarts /\ [][LifeNext]_life

\* A worker with a runner of its own claims and beats under its own id, not
\* after its end, and leaves the runner empty; only a thread whose stop was
\* cancelled may send a last beat, which may be unknown.  Of a shared runner
\* it is only said that no store and no loop is left when all is over.
BeatsAreOwn ==
  /\ ~shared => \A w \in Workers :
       /\ claim[w] \in {NoCall, Given(w)}
       /\ name[w] \in {NoCall, Given(w)} \/ (cut[w] /\ name[w] = Nobody)
       /\ name[w] # NoCall /\ place[w] \in {"leaving", "closing", "over"} => cut[w]
  /\ \A w \in Workers : place[w] = "over" =>
       /\ beat[w] \in {"none", "over"} \/ cut[w]
       /\ ~shared /\ ready[w] >= 1 => runner[w] = Empty
  /\ (\A w \in Workers : place[w] = "over") =>
       \A w \in Workers : ~runner[w].store /\ runner[w].id = Nobody
=============================================================================
