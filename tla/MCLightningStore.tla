-------------------------- MODULE MCLightningStore --------------------------
(* LightningStore on small instances, and what is checked of it. *)
EXTENDS LightningStore

CONSTANTS r1, r2, w1, w2

TwoTries == [r \in Rollouts |-> IF r = r1 THEN 2 ELSE 1]
Retried == [r \in Rollouts |-> IF r = r1 THEN {"failed", "unresponsive"} ELSE {}]
Watched == [r \in Rollouts |-> IF r = r1 THEN {"unresponsive", "timeout"} ELSE {"timeout"}]

WorkerSymmetry == Permutations(Workers)

\* Every rollout comes to an end (all of these rollouts have a time limit),
\* unless a crash lost its way back to the queue, or a user said of one without an
\* attempt that it is being worked on: the watchdog finds it, logs an error and
\* passes it over.  (Users order MaxOrders statuses; one who never stops can
\* keep a rollout from its end.)
EventuallyFinished ==
  \A r \in Rollouts :
    rollouts[r] # "none" ~> \/ rollouts[r] \in Finished \/ lost # {}
                            \/ rollouts[r] \in Live /\ attempts[r] = <<>>

\* What the documentation says of a rollout's status, an aggregated view of
\* its latest attempt's: a running rollout has a running attempt.
RunningIsAlive ==
  \A r \in Rollouts : rollouts[r] = "running" => attempts[r][Latest(r)].status = "running"
=============================================================================
