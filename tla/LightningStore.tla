--------------------------- MODULE LightningStore ---------------------------
(***************************************************************************)
(* The collection-based store of Agent Lightning: rollouts, their          *)
(* attempts, the rollout queue and the worker table, and the API calls     *)
(* that move them.  A call is a series of sections, each of which is       *)
(* atomic (a transaction in MongoDB, a lock in memory); between two of     *)
(* them other calls run.  What a call still has to do is in calls[p].      *)
(*                                                                         *)
(* The callers are the runners (one process per worker, one call at a      *)
(* time), the algorithm, and the watchdog: the scan that healthcheck_before*)
(* runs ahead of an API method.  Time is left out: the scan may find any   *)
(* running rollout past a limit that its configuration sets.  Spans arrive *)
(* from exporters of their own, for any attempt, at any time.              *)
(***************************************************************************)
EXTENDS Integers, Sequences, FiniteSets, SequencesExt

CONSTANTS
  Rollouts, MaxTries, RetryOn, Limits,   \* as in RolloutLifecycle
  Workers,       \* the runners' worker ids
  BatchSize,     \* limit of dequeue_many_rollouts; 1 is dequeue_rollout
  Nobody,        \* no attempt
  MaxOrders,     \* bound on the statuses and attempts a user orders
  MaxCrashes     \* bound on the calls cut short by a crash

ASSUME StoreAssumption ==
  /\ BatchSize \in Nat \ {0} /\ {MaxOrders, MaxCrashes} \subseteq Nat
  /\ IsFiniteSet(Rollouts)
  /\ MaxTries \in [Rollouts -> Nat \ {0}]
  /\ {"algorithm", "watchdog"} \cap Workers = {}

VARIABLES
  rollouts,   \* status of each rollout
  attempts,   \* attempts of each rollout: records [status, worker]
  queue,      \* rollout ids waiting to be claimed
  workers,    \* the worker table: records [status, current]
  calls,      \* what the call in progress of each process has still to do
  holding,    \* the attempts a runner was given and has not reported
  manual,     \* retries ordered by a user, for each rollout
  crashes,    \* calls cut short so far
  lost,       \* rollouts whose way back to the queue was cut
  orders,     \* statuses and attempts ordered so far
  ordered     \* rollouts whose status is the one that update_rollout gave them
vars == <<rollouts, attempts, queue, workers, calls, holding, manual, crashes, lost, orders, ordered>>

Life == INSTANCE RolloutLifecycle
  WITH status <- rollouts, ordered <- ordered,
       tries  <- [r \in Rollouts |-> [k \in DOMAIN attempts[r] |-> attempts[r][k].status]]

Live == Life!Live
Queuing == Life!Queuing
Finished == Life!Finished
TimeLimits == Life!TimeLimits
RolloutStatus == Life!RolloutStatus

Procs == Workers \cup {"algorithm", "watchdog"}

\* popped: ids taken from the queue and not looked at yet; requeue: rollouts
\* to put back in the queue; syncs: attempts to copy to the worker table; got:
\* the attempts the call will return.  The last three are lists in the code;
\* their order is that of a scan's query, which is any.
NoCall == [pc |-> "idle", popped |-> <<>>, requeue |-> {}, syncs |-> {}, got |-> {}]

Latest(r) == Len(attempts[r])
NewAttempt(w) == [status |-> "preparing", worker |-> w]
Mentions(c, r) == r \in Range(c.popped) \cup c.requeue

-----------------------------------------------------------------------------
(* What is left of a call after its transaction: _post_update_rollout puts *)
(* rollouts back in the queue, then _sync_workers_with_attempts.           *)

Then(c) ==
  CASE c.requeue # {} -> [c EXCEPT !.pc = "has"]
    [] c.requeue = {} /\ c.syncs # {} -> [c EXCEPT !.pc = "sync"]
    [] OTHER -> NoCall

\* A mutant: only a rollout that was running goes back to the queue.
AfterUpdateOfRunning(ids) ==
  Then([NoCall EXCEPT !.requeue = {r \in {id.r : id \in ids} :
                                     rollouts[r] = "running" /\ rollouts'[r] \in Queuing}])

\* What update_attempt leaves to do for the attempts in ids.
AfterUpdate(ids) ==
  LET Copy(id) == [id |-> id, status |-> attempts'[id.r][id.k].status,
                   worker |-> attempts'[id.r][id.k].worker]
  IN  Then([NoCall EXCEPT !.requeue = {r \in {id.r : id \in ids} :
                                         rollouts'[r] # rollouts[r] /\ rollouts'[r] \in Queuing},
                          !.syncs   = {Copy(id) : id \in ids}])

\* The filter of _post_update_rollout: a read of its own.
SkipQueued(p) ==
  /\ calls[p].pc = "has"
  /\ LET absent == calls[p].requeue \ Range(queue) IN
     calls' = [calls EXCEPT ![p] = IF absent # {}
                 THEN [@ EXCEPT !.pc = "enqueue", !.requeue = absent]
                 ELSE Then([@ EXCEPT !.requeue = {}])]
  /\ UNCHANGED <<rollouts, attempts, queue, workers, holding, manual, crashes, lost, orders, ordered>>

Requeue(p) ==
  /\ calls[p].pc = "enqueue"
  /\ \E order \in SetToSeqs(calls[p].requeue) : queue' = queue \o order
  /\ calls' = [calls EXCEPT ![p] = Then([@ EXCEPT !.requeue = {}])]
  /\ UNCHANGED <<rollouts, attempts, workers, holding, manual, crashes, lost, orders, ordered>>

\* _unlocked_sync_worker_with_attempt: the attempt is the copy the call made
\* of it, whatever the worker does by now.
WorkerFrom(copy) ==
  CASE copy.status \in {"succeeded", "failed"} -> [status |-> "idle", current |-> Nobody]
    [] copy.status \in TimeLimits -> [status |-> "unknown", current |-> Nobody]
    [] OTHER -> [status |-> "busy", current |-> copy.id]

SyncWorkers(p) ==
  /\ calls[p].pc = "sync"
  /\ LET touched == {c.worker : c \in calls[p].syncs} IN
     \E last \in [touched -> calls[p].syncs] :
       /\ \A w \in touched : last[w].worker = w
       /\ workers' = [w \in Workers |-> IF w \in touched THEN WorkerFrom(last[w]) ELSE workers[w]]
  /\ calls' = [calls EXCEPT ![p] = NoCall]
  /\ holding' = [w \in Workers |->
       IF w = p THEN holding[w] \cup calls[p].got ELSE holding[w]]
  /\ UNCHANGED <<rollouts, attempts, queue, manual, crashes, lost, orders, ordered>>

-----------------------------------------------------------------------------
(* The algorithm. *)

Submit(r) ==
  /\ rollouts[r] = "none"
  /\ queue' = Append(queue, r)
  /\ rollouts' = [rollouts EXCEPT ![r] = "queuing"] /\ ordered' = ordered \ {r}
  /\ UNCHANGED <<attempts, workers, calls, holding, manual, crashes, lost, orders>>

\* update_rollout(status=...), which takes any status in any status: only the
\* rollout changes; its attempts and its queue entry, if any, stay as they are.
UpdateRollout(r, s) ==
  /\ calls["algorithm"].pc = "idle" /\ rollouts[r] # "none"
  /\ orders < MaxOrders /\ orders' = orders + 1
  /\ manual' = IF s \in Queuing THEN [manual EXCEPT ![r] = @ + 1] ELSE manual
  /\ rollouts' = [rollouts EXCEPT ![r] = s] /\ ordered' = ordered \cup {r}
  /\ calls' = [calls EXCEPT !["algorithm"] =
                 Then([NoCall EXCEPT !.requeue = IF s \in Queuing THEN {r} ELSE {}])]
  /\ UNCHANGED <<attempts, queue, workers, holding, crashes, lost>>

-----------------------------------------------------------------------------
(* The runners. *)

Free(w) == calls[w].pc = "idle" /\ holding[w] = {}

\* A mutant: a further attempt leaves the status of its rollout to the span
\* or report that will come.
BeginAttemptQuietly(w, r) ==
  LET id == [r |-> r, k |-> Latest(r) + 1] IN
  /\ attempts' = [attempts EXCEPT ![r] = Append(@, NewAttempt(w))]
  /\ rollouts' = [rollouts EXCEPT ![r] = IF @ = "none" THEN "preparing" ELSE @]
  /\ calls' = [calls EXCEPT ![w] =
                 [AfterUpdate({id}) EXCEPT !.got = {id}]]
  /\ ordered' = ordered \ {r}
  /\ UNCHANGED <<queue, workers, holding, crashes, lost>>

\* A rollout that starts with its first attempt, or a further attempt for a
\* rollout: start_rollout (Runner.step) and start_attempt.  Neither looks at
\* max_attempts.
BeginAttempt(w, r) ==
  LET id == [r |-> r, k |-> Latest(r) + 1] IN
  /\ attempts' = [attempts EXCEPT ![r] = Append(@, NewAttempt(w))]
  /\ rollouts' = [rollouts EXCEPT ![r] = "preparing"]
  /\ calls' = [calls EXCEPT ![w] =
                 [AfterUpdate({id}) EXCEPT !.got = {id}]]
  /\ ordered' = ordered \ {r}
  /\ UNCHANGED <<queue, workers, holding, crashes, lost>>

StartRollout(w, r) ==
  /\ Free(w) /\ rollouts[r] = "none"
  /\ BeginAttempt(w, r) /\ UNCHANGED <<manual, orders>>

StartAttempt(w, r) ==
  /\ Free(w) /\ rollouts[r] # "none" /\ orders < MaxOrders
  /\ BeginAttempt(w, r) /\ manual' = [manual EXCEPT ![r] = @ + 1] /\ orders' = orders + 1

\* The pop of dequeue_rollout.  With nothing (more) to pop, the call ends
\* with the sync of the last attempt it got, or with _dequeue_mark_worker_idle.
Pop(w) ==
  /\ Free(w) \/ calls[w].pc = "pop"
  /\ LET c == calls[w]
         room == BatchSize - Cardinality(c.got)
         n == IF Len(queue) < room THEN Len(queue) ELSE room
     IN  /\ queue' = SubSeq(queue, n + 1, Len(queue))
         /\ calls' = [calls EXCEPT ![w] =
              CASE n > 0 -> [c EXCEPT !.pc = "popped", !.popped = SubSeq(queue, 1, n)]
                [] n = 0 /\ c.got # {} -> [c EXCEPT !.pc = "sync"]
                [] OTHER -> [c EXCEPT !.pc = "mark"]]
  /\ UNCHANGED <<rollouts, attempts, workers, holding, manual, crashes, lost, orders, ordered>>

\* _post_dequeue_rollouts, one transaction for all the ids popped.  The
\* rollouts are read first, so every entry of a queued rollout makes an attempt.
Claim(w) ==
  LET c == calls[w]
      valid == {i \in DOMAIN c.popped : rollouts[c.popped[i]] \in Queuing}
      Times(r) == Cardinality({i \in valid : c.popped[i] = r})
      got == c.got \cup UNION {{[r |-> r, k |-> Latest(r) + n] : n \in 1..Times(r)} : r \in Rollouts}
      Newest(r) == [id |-> [r |-> r, k |-> Latest(r) + Times(r)], status |-> "preparing", worker |-> w]
  IN
  /\ c.pc = "popped"
  /\ attempts' = [r \in Rollouts |->
                    attempts[r] \o [n \in 1..Times(r) |-> NewAttempt(w)]]
  /\ rollouts' = [r \in Rollouts |-> IF Times(r) > 0 THEN "preparing" ELSE rollouts[r]]
  /\ calls' = [calls EXCEPT ![w] =
       [c EXCEPT !.popped = <<>>, !.got = got,
                 !.pc = IF Cardinality(got) < BatchSize THEN "pop" ELSE "sync",
                 !.syncs = IF valid = {} THEN @
                           ELSE {Newest(c.popped[i]) : i \in {j \in valid : \A l \in valid : l <= j}}]]
  /\ ordered' = {r \in ordered : Times(r) = 0}
  /\ UNCHANGED <<queue, workers, holding, manual, crashes, lost, orders>>

\* _dequeue_mark_worker_idle: a read, then a write that does not touch the
\* worker's current assignment.  A worker seen idle gets only a timestamp.
MarkIdle(w) ==
  /\ \/ /\ calls[w].pc = "mark"
        /\ calls' = [calls EXCEPT ![w] =
                       IF workers[w].status = "idle" THEN NoCall ELSE [@ EXCEPT !.pc = "write"]]
        /\ UNCHANGED workers
     \/ /\ calls[w].pc = "write"
        /\ workers' = [workers EXCEPT ![w].status = "idle"]
        /\ calls' = [calls EXCEPT ![w] = NoCall]
  /\ UNCHANGED <<rollouts, attempts, queue, holding, manual, crashes, lost, orders, ordered>>

\* A mutant: every attempt decides the rollout's status.
UpdateAttemptsAll(U) ==
  /\ attempts' = [r \in Rollouts |->
       IF r \in DOMAIN U THEN [attempts[r] EXCEPT ![U[r].k].status = U[r].s] ELSE attempts[r]]
  /\ rollouts' = [r \in Rollouts |->
       IF r \in DOMAIN U THEN Life!StatusFromAttempt(r, U[r].k, U[r].s) ELSE rollouts[r]]
  /\ ordered' = ordered \ DOMAIN U

\* _unlocked_update_attempt_and_rollout on attempt U[r].k of each rollout r in
\* DOMAIN U: only the last attempt of a rollout decides the rollout's status.
UpdateAttempts(U) ==
  /\ attempts' = [r \in Rollouts |->
       IF r \in DOMAIN U THEN [attempts[r] EXCEPT ![U[r].k].status = U[r].s] ELSE attempts[r]]
  /\ rollouts' = [r \in Rollouts |->
       IF r \in DOMAIN U /\ U[r].k = Latest(r) THEN Life!StatusFromAttempt(r, U[r].k, U[r].s) ELSE rollouts[r]]
  /\ ordered' = {r \in ordered : ~(r \in DOMAIN U /\ U[r].k = Latest(r))}

Report(w, s) ==
  /\ calls[w].pc = "idle"
  /\ \E id \in holding[w] :
       /\ UpdateAttempts([r \in {id.r} |-> [k |-> id.k, s |-> s]])
       /\ holding' = [holding EXCEPT ![w] = @ \ {id}]
       /\ calls' = [calls EXCEPT ![w] = AfterUpdate({id})]
  /\ UNCHANGED <<queue, workers, manual, crashes, lost, orders>>

\* The runner gives up on an update that fails, or never gets to it.
GiveUp(w) ==
  /\ calls[w].pc = "idle"
  /\ \E id \in holding[w] : holding' = [holding EXCEPT ![w] = @ \ {id}]
  /\ UNCHANGED <<rollouts, attempts, queue, workers, calls, manual, crashes, lost, orders, ordered>>

\* A mutant: a span wakes its rollout whichever attempt it belongs to.
SpanOfAny(r, k) ==
  /\ attempts' = [attempts EXCEPT ![r][k].status =
                    IF @ \in {"preparing", "unresponsive"} THEN "running" ELSE @]
  /\ rollouts' = [rollouts EXCEPT ![r] =
       IF @ \in {"preparing", "requeuing"} THEN "running" ELSE @]
  /\ ordered' = IF rollouts' = rollouts THEN ordered ELSE ordered \ {r}
  /\ UNCHANGED <<queue, workers, calls, holding, manual, crashes, lost, orders>>

\* _on_attempt_heartbeat, run after a span has been inserted.
Span(r, k) ==
  /\ attempts' = [attempts EXCEPT ![r][k].status =
                    IF @ \in {"preparing", "unresponsive"} THEN "running" ELSE @]
  /\ rollouts' = [rollouts EXCEPT ![r] =
       IF k = Latest(r) /\ @ \in {"preparing", "requeuing"} THEN "running" ELSE @]
  /\ ordered' = IF rollouts' = rollouts THEN ordered ELSE ordered \ {r}
  /\ UNCHANGED <<queue, workers, calls, holding, manual, crashes, lost, orders>>

-----------------------------------------------------------------------------
(* The watchdog, and crashes. *)

\* _find_and_update_unhealthy_rollouts: one transaction over the rollouts it
\* finds past a limit, of which it takes the last attempt.
Scan(found) ==
  /\ calls["watchdog"].pc = "idle"
  /\ \E S \in [found -> TimeLimits] :
       /\ \A r \in found : rollouts[r] \in Live /\ Latest(r) > 0 /\ S[r] \in Limits[r]
       /\ UpdateAttempts([r \in found |-> [k |-> Latest(r), s |-> S[r]]])
  /\ calls' = [calls EXCEPT !["watchdog"] = AfterUpdate({[r |-> r, k |-> Latest(r)] : r \in found})]
  /\ UNCHANGED <<queue, workers, holding, manual, crashes, lost, orders>>

\* A mutant: only running rollouts are scanned.
UnhealthyRunning == {r \in Rollouts : rollouts[r] = "running" /\ Latest(r) > 0 /\ Limits[r] # {}}

Unhealthy == {r \in Rollouts : rollouts[r] \in Live /\ Latest(r) > 0 /\ Limits[r] # {}}
ScanAll == \E found \in SUBSET Unhealthy : found # {} /\ Scan(found)

\* The process dies, or the call is cancelled, between two sections.
Crash(p) ==
  /\ crashes < MaxCrashes
  /\ calls[p].pc # "idle" \/ (p \in Workers /\ holding[p] # {})
  /\ crashes' = crashes + 1
  /\ lost' = lost \cup {r \in Rollouts : Mentions(calls[p], r)}
  /\ calls' = [calls EXCEPT ![p] = NoCall]
  /\ holding' = [w \in Workers |-> IF w = p THEN {} ELSE holding[w]]
  /\ UNCHANGED <<rollouts, attempts, queue, workers, manual, orders, ordered>>

-----------------------------------------------------------------------------
Init ==
  /\ rollouts = [r \in Rollouts |-> "none"]
  /\ attempts = [r \in Rollouts |-> <<>>]
  /\ queue = <<>>
  /\ workers = [w \in Workers |-> [status |-> "unknown", current |-> Nobody]]
  /\ calls = [p \in Procs |-> NoCall]
  /\ holding = [w \in Workers |-> {}]
  /\ manual = [r \in Rollouts |-> 0]
  /\ crashes = 0 /\ lost = {} /\ orders = 0 /\ ordered = {}

Finish(p) == SkipQueued(p) \/ Requeue(p) \/ SyncWorkers(p)
Runner(w) == Pop(w) \/ Claim(w) \/ MarkIdle(w)
             \/ (\E s \in {"succeeded", "failed"} : Report(w, s)) \/ GiveUp(w)

Next ==
  \/ \E r \in Rollouts : Submit(r)
  \/ \E r \in Rollouts, s \in RolloutStatus : UpdateRollout(r, s)
  \/ \E w \in Workers, r \in Rollouts : StartRollout(w, r) \/ StartAttempt(w, r)
  \/ \E w \in Workers : Runner(w)
  \/ \E r \in Rollouts : \E k \in DOMAIN attempts[r] : Span(r, k)
  \/ ScanAll
  \/ \E p \in Procs : Finish(p) \/ Crash(p)

\* Once timeout_seconds have passed since an attempt began, every scan that
\* meets the attempt finds it timed out.
TimesOut(r) ==
  /\ ScanAll
  /\ rollouts'[r] # rollouts[r] /\ attempts'[r][Latest(r)].status = "timeout"

\* Calls run to their end, runners go on polling and agents come to an end
\* (or are given up), and scans go on.
Fairness ==
  /\ \A p \in Procs : WF_vars(Finish(p))
  /\ \A w \in Workers : WF_vars(Runner(w))
  /\ \A r \in Rollouts : SF_vars(TimesOut(r))

SafetySpec == Init /\ [][Next]_vars
Spec == SafetySpec /\ Fairness

-----------------------------------------------------------------------------
\* A rollout whose status says that it waits to be dequeued is in the queue,
\* or a call in progress is about to put it there (_post_update_rollout) or
\* has just taken it (dequeue_rollout), unless a crash cut that call.
QueuedIsCarried ==
  \A r \in Rollouts : rollouts[r] \in Queuing =>
    \/ r \in Range(queue)
    \/ \E p \in Procs : Mentions(calls[p], r)
    \/ r \in lost

\* A rollout never has more attempts than RolloutConfig.max_attempts and the
\* retries ordered by hand allow, whatever reports, scans, late spans and
\* repeated queue entries meet.  (dequeue_rollout, one rollout at a time.)
BudgetKept ==
  \A r \in Rollouts : Latest(r) <= MaxTries[r] + manual[r]

\* A rollout that has succeeded or failed, and was not told to by
\* update_rollout, has succeeded if and only if its last attempt has: no success
\* is made up, and none is turned into a failure.
SuccessIsEarned ==
  \A r \in Rollouts : rollouts[r] \in {"succeeded", "failed"} /\ r \notin ordered =>
    Latest(r) > 0 /\ (rollouts[r] = "succeeded" <=> attempts[r][Latest(r)].status = "succeeded")

\* What happens to an attempt that is not the last one of its rollout (a
\* report that comes after the retry has begun) leaves the rollout's status.
SupersededDecidesNothing ==
  [][\A r \in Rollouts : \A k \in 1..(Latest(r) - 1) :
       attempts'[r][k].status # attempts[r][k].status => rollouts'[r] = rollouts[r]]_vars

\* Every section of every call is one transition of the lifecycle of each
\* rollout, or leaves it alone.
IsLifecycle == Life!Spec

=============================================================================
