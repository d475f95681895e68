---------------------------- MODULE MCExecution ----------------------------
(***************************************************************************)
(* Execution on a small instance, and what is checked of it.  A behaviour  *)
(* is about the strategies, or about the life of runners within their      *)
(* bundles: the other one is over from the start.                          *)
(***************************************************************************)
EXTENDS Execution, WorkerLife

\* The runners of a strategy are alike: it does not matter which one is deaf.
MCInit ==
  \/ /\ Init /\ deaf \subseteq {Algorithm, CHOOSE w \in Runners : TRUE}
     /\ LifeInit /\ place = [w \in Runners |-> "over"] /\ mode = "off" /\ ~shared /\ use = "bundle"
  \/ /\ LifeInit /\ place = [w \in Runners |-> "new"]
     /\ RunnerInit /\ strategy = [kind |-> "threads", main |-> "algorithm"] /\ deaf = {} /\ hardened = FALSE
     /\ pc = [w \in Runners |-> "over"] /\ outcome = [b \in Bundles |-> "ok"]
     /\ alg = "off" /\ main = "returned" /\ exceptions = {} /\ interrupts = 0 /\ raising = FALSE
Executing == Next /\ UNCHANGED life
Living == LifeNext /\ UNCHANGED vars
MCSpec == MCInit /\ [][Executing \/ Living]_<<vars, life>> /\ Fairness

AllStrategies ==
  [kind : {"threads", "processes"}, main : {"algorithm", "runner"}]
  \cup {[kind |-> "processes", main |-> "none"]}

\* Once the event is set, the algorithm crashes, or it is over and ran in the
\* main thread or process, execute comes to its end, deaf bundles or not.
\* Excepted are a ClientServer algorithm in the main process, which does not
\* hear of the event, and role "runner" with a deaf runner.
StopEnds ==
  /\ (stop /\ (Threads \/ strategy.main # "algorithm") /\ (strategy.main = "none" => deaf = {})) ~> Ended
  /\ (strategy.main = "algorithm" /\ alg = "over") ~> Ended
  /\ outcome[Algorithm] = "crashed" ~> Ended

\* What the comment in _step_impl's finally ("possibly timed out and
\* cancelled?", status failed) says: a cancelled rollout has not succeeded.
CancelledHasNotSucceeded ==
  \A r \in Rollouts : attempt[r] = "succeeded" => truth[r] # "cancelled"

\* What the docstring of ExecutionStrategy says: execute propagates a
\* KeyboardInterrupt.
PropagatesInterrupt == main = "returned" => ~Interrupted

\* What docs/deep-dive/birds-eye-view.md says of aborts: when the algorithm
\* exits normally, the runners are told to terminate; when a bundle fails, all
\* are, by force if need be.
AbortsEverything ==
  /\ (alg = "over" /\ outcome[Algorithm] = "ok") ~> Ended
  /\ (\E w \in Active : Over(w) /\ outcome[w] = "crashed") ~> Ended
=============================================================================
