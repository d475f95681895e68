------------------------------- MODULE Runner -------------------------------
(***************************************************************************)
(* LitAgentRunner.iter and _step_impl: a runner polls the store, fetches   *)
(* the resources of the rollout it got, runs the agent in a trace, and     *)
(* reports the attempt in a finally block.  A runner can be cancelled at   *)
(* every await: by the strategy, or by a SIGINT that asyncio.run turns     *)
(* into a cancellation.                                                    *)
(***************************************************************************)
EXTENDS Integers, FiniteSets

CONSTANTS
  Runners,
  Rollouts,      \* enqueued before the runners start
  NoRollout,
  MaxRollouts    \* max_rollouts of a runner; 0: unlimited

VARIABLES
  stop,       \* the ExecutionEvent
  served,     \* the store can be reached
  waiting,    \* the queue of the store
  attempt,    \* status of the attempt of each rollout
  pc,         \* of each runner: "loop", "claimed", "resources", "agent", "report",
              \* "ending", "over"
  job,        \* the rollout it works on
  failed,     \* has_exception
  count,      \* num_tasks_processed
  outcome,    \* how the runner's bundle ends: "ok", "cancelled", "crashed", "killed"
  cancelled,  \* bundles with a pending cancellation
  truth       \* history: what became of the agent's work on each rollout
rvars == <<waiting, attempt, pc, job, failed, count, truth>>

\* All but pc and outcome: those depend on who runs.
RunnerInit ==
  /\ stop = FALSE /\ served = TRUE /\ cancelled = {}
  /\ waiting = Rollouts
  /\ attempt = [r \in Rollouts |-> "none"]
  /\ truth = [r \in Rollouts |-> "none"]
  /\ job = [w \in Runners |-> NoRollout]
  /\ failed = [w \in Runners |-> FALSE]
  /\ count = [w \in Runners |-> 0]

Goto(w, where) == pc' = [pc EXCEPT ![w] = where]
Becomes(w, what) == truth' = [truth EXCEPT ![job[w]] = what]

Ending(w, how) == Goto(w, "ending") /\ outcome' = [outcome EXCEPT ![w] = how]

-----------------------------------------------------------------------------
(* iter. *)

Enough(w) == MaxRollouts > 0 /\ count[w] = MaxRollouts

\* The store takes a rollout from its queue and starts an attempt of it.
StartsAttempt(r) ==
  /\ served /\ r \in waiting
  /\ waiting' = waiting \ {r}
  /\ attempt' = [attempt EXCEPT ![r] = "preparing"]

\* The store has handled the call; its answer is not there yet.
Dequeue(w, r) ==
  /\ pc[w] = "loop" /\ ~stop /\ ~Enough(w)
  /\ StartsAttempt(r)
  /\ job' = [job EXCEPT ![w] = r] /\ failed' = [failed EXCEPT ![w] = FALSE]
  /\ Goto(w, "claimed")
  /\ UNCHANGED <<stop, served, count, outcome, cancelled, truth>>

Answered(w) ==
  /\ pc[w] = "claimed"
  /\ Goto(w, "resources")
  /\ UNCHANGED <<stop, served, waiting, attempt, job, failed, count, outcome, cancelled, truth>>

\* LightningStoreClient._dequeue_batch swallows every Exception and returns [],
\* though the server may have claimed.
AnswerLost(w) ==
  /\ pc[w] = "claimed"
  /\ Becomes(w, "unanswered")
  /\ Goto(w, "loop")
  /\ UNCHANGED <<stop, served, waiting, attempt, job, failed, count, outcome, cancelled>>

\* The server handles a call that its client has given up.
ClaimUnheard(r) ==
  /\ StartsAttempt(r)
  /\ truth' = [truth EXCEPT ![r] = "unanswered"]
  /\ UNCHANGED <<stop, served, pc, job, failed, count, outcome, cancelled>>

\* The event is set, or max_rollouts is reached: the loop ends.
LeaveLoop(w) ==
  /\ pc[w] = "loop" /\ (stop \/ Enough(w))
  /\ Ending(w, "ok")
  /\ UNCHANGED <<stop, served, waiting, attempt, job, failed, count, cancelled, truth>>

\* An exception outside _step_impl: the store raises from dequeue_rollout, or
\* get_resources_by_id raises.
LoopFails(w) ==
  /\ pc[w] \in {"loop", "claimed", "resources"}
  /\ Ending(w, "crashed")
  /\ truth' = IF pc[w] # "loop" THEN [truth EXCEPT ![job[w]] = "crashed"] ELSE truth
  /\ UNCHANGED <<stop, served, waiting, attempt, job, failed, count, cancelled>>

-----------------------------------------------------------------------------
(* _step_impl. *)

HasResources(w) ==
  /\ pc[w] = "resources" /\ served
  /\ Goto(w, "agent")
  /\ UNCHANGED <<stop, served, waiting, attempt, job, failed, count, outcome, cancelled, truth>>

\* No resources (or LightningStoreClient swallowed an error): skipped, and
\* the attempt is not reported.
NoResources(w) ==
  /\ pc[w] = "resources"
  /\ Becomes(w, "skipped")
  /\ Goto(w, "loop") /\ count' = [count EXCEPT ![w] = @ + 1]
  /\ UNCHANGED <<stop, served, waiting, attempt, job, failed, outcome, cancelled>>

AgentReturns(w) ==
  /\ pc[w] = "agent"
  /\ Becomes(w, "finished")
  /\ Goto(w, "report")
  /\ UNCHANGED <<stop, served, waiting, attempt, job, failed, count, outcome, cancelled>>

\* The agent, the tracer or _post_process_rollout_result raises an Exception.
\* (The hooks' exceptions stay in _trigger_hooks.)
AgentRaises(w) ==
  /\ pc[w] = "agent"
  /\ Becomes(w, "raised")
  /\ failed' = [failed EXCEPT ![w] = TRUE]
  /\ Goto(w, "report")
  /\ UNCHANGED <<stop, served, waiting, attempt, job, count, outcome, cancelled>>

\* Mutants: the report is in the else of the try; the flag is not looked at.
VerdictOfSuccess(w) == IF failed[w] THEN "preparing" ELSE "succeeded"

\* Spans of the attempt may have made it "running"; that is not told apart here.
Verdict(w) == IF failed[w] THEN "failed" ELSE "succeeded"

\* After the report of a cancelled step the CancelledError goes on.
AfterReport(w) ==
  IF truth'[job[w]] = "cancelled"
  THEN Ending(w, "cancelled") /\ count' = count
  ELSE Goto(w, "loop") /\ count' = [count EXCEPT ![w] = @ + 1] /\ outcome' = outcome

Report(w) ==
  /\ pc[w] = "report" /\ served
  /\ attempt' = [attempt EXCEPT ![job[w]] = Verdict(w)]
  /\ truth' = truth
  /\ AfterReport(w)
  /\ UNCHANGED <<stop, served, waiting, job, failed, cancelled>>

\* The call of update_attempt ends without an answer: it may have been handled.
MaybeReported(w) ==
  attempt' \in {attempt} \cup (IF served THEN {[attempt EXCEPT ![job[w]] = Verdict(w)]} ELSE {})

\* update_attempt raises: "Giving up the update".
GiveUp(w) ==
  /\ pc[w] = "report"
  /\ MaybeReported(w)
  /\ truth' = IF truth[job[w]] = "cancelled" THEN truth ELSE [truth EXCEPT ![job[w]] = "given up"]
  /\ AfterReport(w)
  /\ UNCHANGED <<stop, served, waiting, job, failed, cancelled>>

-----------------------------------------------------------------------------
(* Cancellation and the end. *)

\* The CancelledError is not an Exception: has_exception stays as it is.
CancelAgent(w) ==
  /\ w \in cancelled /\ pc[w] = "agent"
  /\ cancelled' = cancelled \ {w}
  /\ Becomes(w, "cancelled")
  /\ Goto(w, "report")
  /\ UNCHANGED <<stop, served, waiting, attempt, job, failed, count, outcome>>

CancelElsewhere(w) ==
  /\ w \in cancelled /\ pc[w] \in {"loop", "claimed", "resources", "report"}
  /\ cancelled' = cancelled \ {w}
  /\ Ending(w, "cancelled")
  /\ IF pc[w] = "report" THEN MaybeReported(w) ELSE attempt' = attempt
  /\ truth' = IF pc[w] = "loop" THEN truth ELSE [truth EXCEPT ![job[w]] = "cancelled"]
  /\ UNCHANGED <<stop, served, waiting, job, failed, count>>

Steps(w) ==
  \/ \E r \in Rollouts : Dequeue(w, r)
  \/ Answered(w) \/ LeaveLoop(w) \/ HasResources(w) \/ NoResources(w)
  \/ AgentReturns(w) \/ AgentRaises(w) \/ Report(w) \/ GiveUp(w)
  \/ CancelAgent(w) \/ CancelElsewhere(w)
=============================================================================
