-------------------------- MODULE RolloutLifecycle --------------------------
(***************************************************************************)
(* What a LightningStore promises of one rollout, with neither the queue,  *)
(* nor the workers, nor the sections an API call is made of: a rollout has *)
(* a status and a sequence of tries, and one step of a rollout is one of   *)
(* the transitions below.  Rollouts are independent of each other, and a   *)
(* watchdog scan may move several of them in one step.                     *)
(* LightningStore is shown to implement this specification.                *)
(***************************************************************************)
EXTENDS Integers, Sequences

CONSTANTS
  Rollouts,    \* the rollouts
  MaxTries,    \* RolloutConfig.max_attempts of each rollout
  RetryOn,     \* RolloutConfig.retry_condition of each rollout
  Limits       \* which of the two time limits each rollout configures

TimeLimits == {"timeout", "unresponsive"}

ASSUME ConfigAssumption ==
  /\ MaxTries \in [Rollouts -> Nat \ {0}]
  /\ RetryOn \in [Rollouts -> SUBSET (TimeLimits \cup {"failed"})]
  /\ Limits \in [Rollouts -> SUBSET TimeLimits]

Live == {"preparing", "running"}
Queuing == {"queuing", "requeuing"}
Finished == {"failed", "succeeded", "cancelled"}
AttemptStatus == Live \cup TimeLimits \cup {"failed", "succeeded"}
RolloutStatus == Live \cup Queuing \cup Finished

\* A mutant: an attempt too many.
StatusFromAttemptLate(r, k, s) ==
  IF s \in Live \cup {"succeeded"} THEN s
  ELSE IF s \in RetryOn[r] /\ k <= MaxTries[r] THEN "requeuing" ELSE "failed"

\* The status a rollout takes from its k-th attempt when that ends in, or
\* goes back to, s.
StatusFromAttempt(r, k, s) ==
  IF s \in Live \cup {"succeeded"} THEN s
  ELSE IF s \in RetryOn[r] /\ k < MaxTries[r] THEN "requeuing" ELSE "failed"

VARIABLES
  status,   \* status of each rollout, "none" while it is unknown to the store
  tries,    \* statuses of the attempts of each rollout, in order
  ordered   \* rollouts whose status was ordered, not come to
vars == <<status, tries, ordered>>

Init == status = [r \in Rollouts |-> "none"] /\ tries = [r \in Rollouts |-> <<>>] /\ ordered = {}

Stay(r) == status'[r] = status[r] /\ (r \in ordered' <=> r \in ordered)
Become(r, s) == status'[r] = s /\ r \notin ordered'
Keep(r) == tries'[r] = tries[r]
Begin(r) == Become(r, "preparing") /\ tries'[r] = Append(tries[r], "preparing")

Submit(r) == status[r] = "none" /\ Become(r, "queuing") /\ Keep(r)
Start(r) == status[r] = "none" /\ Begin(r)
Claim(r) == status[r] \in Queuing /\ Begin(r)
Retry(r) == status[r] # "none" /\ Begin(r)

\* A user may order any status at any time; the attempts do not move.
Order(r) == status[r] # "none" /\ status'[r] \in RolloutStatus /\ r \in ordered' /\ Keep(r)

\* A span: an attempt that waits or was given up for silent runs again, and
\* the rollout with it when the attempt is the last one and the rollout is
\* being prepared or retried.
Beat(r, k) ==
  LET woken == tries[r][k] \in {"preparing", "unresponsive"}
      moved == k = Len(tries[r]) /\ status[r] \in {"preparing", "requeuing"}
  IN  /\ tries'[r] = [tries[r] EXCEPT ![k] = IF woken THEN "running" ELSE @]
      /\ IF moved THEN Become(r, "running") ELSE Stay(r)

\* The outcome of an attempt, reported by its runner or found by the watchdog.
Settle(r, k, s) ==
  /\ s \in TimeLimits => k = Len(tries[r]) /\ status[r] \in Live /\ s \in Limits[r]
  /\ tries'[r] = [tries[r] EXCEPT ![k] = s]
  /\ IF k = Len(tries[r]) THEN Become(r, StatusFromAttempt(r, k, s)) ELSE Stay(r)

StepOf(r) ==
  \/ Submit(r) \/ Start(r) \/ Claim(r) \/ Retry(r) \/ Order(r)
  \/ \E k \in DOMAIN tries[r] :
       \/ Beat(r, k)
       \/ \E s \in TimeLimits \cup {"failed", "succeeded"} : Settle(r, k, s)

Same(r) == Stay(r) /\ Keep(r)

Next == \A r \in Rollouts : Same(r) \/ StepOf(r)

Spec == Init /\ [][Next]_vars
=============================================================================
