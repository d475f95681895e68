------------------------------ MODULE MongoWait ------------------------------
(***************************************************************************)
(* wait_for_rollouts of a MongoLightningStore.  Its processes share no     *)
(* event, so that the waiter polls: it asks for the rollouts it still      *)
(* misses, sleeps, and asks again until it has all or its time is over.    *)
(* Rollouts finish meanwhile, in any process; time passes at every step,   *)
(* so that a read may take long and a sleep last longer than asked for.    *)
(***************************************************************************)
EXTENDS Integers, Sequences, Selections

CONSTANTS
  Known,          \* rollouts of the store
  Asks,           \* lists of ids to wait for, unknown ones and doubles too
  Timeouts,       \* None is Never
  Never,
  Longest,        \* 10 seconds
  Margin, Nap,    \* 0.1 and 0.01 seconds
  MaxTime

ASSUME WaitAssumption ==
  /\ Never \in Int \ Nat /\ Timeouts \subseteq Nat \cup {Never}
  /\ {Longest, Margin, Nap} \subseteq Nat /\ Nap <= Longest
  /\ \A ids \in Asks : ids \in Seq(Range(ids))

VARIABLES
  finished,   \* of each known rollout the time it finished at, or Never
  asked, deadline,
  missing,    \* unfinished_rollout_ids
  found,      \* finished_rollouts
  at,         \* "idle", "poll", "rest", "sleep" or "done"
  asOf,       \* time of the last read
  rested,     \* time at which the last sleep began
  wake,       \* the time it was to end
  current,    \* current_time: when it did end
  now,
  result
waiting == <<finished, asked, deadline, missing, found, at, asOf, rested, wake, current, now, result>>

Over == {r \in Known : finished[r] # Never}
Least(m, n) == IF m < n THEN m ELSE n

-----------------------------------------------------------------------------
Ask(ids, timeout) ==
  /\ at = "idle" /\ at' = "poll"
  /\ asked' = ids /\ missing' = Range(ids) /\ found' = {}
  /\ deadline' = IF timeout = Never THEN Never ELSE now + timeout
  /\ UNCHANGED <<finished, asOf, rested, wake, current, now, result>>

\* A mutant: the sleep has one length.
RestAlways == Longest

\* Another look before the deadline, with time left for it.
Rest == IF deadline = Never THEN Longest
        ELSE LET left == Least(deadline - now - Margin, Longest)
             IN IF left > Nap THEN left ELSE Nap

\* In the order of the ids.
Return(have) == at' = "done" /\ result' = Only(asked, have)

Poll ==
  LET hits == missing \cap Over
  IN /\ at = "poll" /\ asOf' = now
     /\ found' = found \cup hits /\ missing' = missing \ hits
     /\ IF missing' = {} THEN Return(found') ELSE at' = "rest" /\ UNCHANGED result
     /\ UNCHANGED <<finished, asked, deadline, rested, wake, current, now>>

Sleep ==
  /\ at = "rest" /\ at' = "sleep"
  /\ rested' = now /\ wake' = now + Rest
  /\ UNCHANGED <<finished, asked, deadline, missing, found, asOf, current, now, result>>

WakeUp ==
  /\ at = "sleep" /\ now >= wake
  /\ current' = now
  /\ IF deadline # Never /\ now > deadline THEN Return(found) ELSE at' = "poll" /\ UNCHANGED result
  /\ UNCHANGED <<finished, asked, deadline, missing, found, asOf, rested, wake, now>>

Finish(r) ==
  /\ finished[r] = Never /\ finished' = [finished EXCEPT ![r] = now]
  /\ UNCHANGED <<asked, deadline, missing, found, at, asOf, rested, wake, current, now, result>>

TickOn ==
  /\ now < MaxTime /\ now' = now + 1
  /\ UNCHANGED <<finished, asked, deadline, missing, found, at, asOf, rested, wake, current, result>>

-----------------------------------------------------------------------------
WaitInit ==
  /\ finished = [r \in Known |-> Never] /\ asked = <<>> /\ deadline = Never
  /\ missing = {} /\ found = {} /\ at = "idle" /\ now = 0 /\ result = <<>>
  /\ asOf = 0 /\ rested = 0 /\ wake = 0 /\ current = 0

WaitNext ==
  \/ \E ids \in Asks, timeout \in Timeouts : Ask(ids, timeout)
  \/ Poll \/ Sleep \/ WakeUp \/ TickOn \/ \E r \in Known : Finish(r)

WaitSpec == WaitInit /\ [][WaitNext]_waiting

-----------------------------------------------------------------------------
\* How long before the end the last read may have been: what it took, what the
\* sleep lasted too long, and a nap; or a whole sleep, when the sleep ate up the
\* margin too.
Lag == (rested - asOf) + (current - wake) + (IF current - wake <= Margin THEN Nap ELSE Longest)

\* The answer has finished rollouts only, as often and in the order they were
\* asked for.  It has them all, or else the deadline is over, and it misses
\* none that finished before the deadline by more than the last round was late.
\* store/mongo.py, wait_for_rollouts.
NothingMissed ==
  at = "done" =>
    /\ result = Only(asked, Range(result))
    /\ Range(result) \subseteq Over
    /\ \/ Range(result) = Range(asked)
       \/ /\ deadline # Never /\ now > deadline
          /\ \A r \in Range(asked) \cap Over : finished[r] <= deadline - Lag => r \in Range(result)
=============================================================================
