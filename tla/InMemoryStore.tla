---------------------------- MODULE InMemoryStore ----------------------------
(***************************************************************************)
(* What InMemoryLightningStore keeps beside its collections: a cache of    *)
(* the rollouts that run, which the scan for unhealthy rollouts reads in   *)
(* place of their statuses, and an event per rollout that wakes up those   *)
(* who wait for it.  A call first moves rollouts, as RolloutLifecycle says *)
(* (the queue and the workers are LightningStore's matter), and tells the  *)
(* cache and the events in a section of its own, from the copy of the      *)
(* rollouts it made in the first.                                          *)
(*                                                                         *)
(* In one event loop the locks never make a call wait, so that a call is   *)
(* one step as far as others can see; with thread_safe=True the threads    *)
(* interleave between its sections.                                        *)
(***************************************************************************)
EXTENDS RolloutLifecycle, FiniteSets, TLC

CONSTANTS
  Callers,      \* threads that call the store
  Waiters,      \* calls of wait_for_rollout
  MaxEnds       \* bound on the attempts of a rollout

VARIABLES
  threaded,     \* thread_safe=True: calls of different threads overlap
  posts,        \* what each call has still to tell: a set of <<rollout, status>>
  running,      \* _running_rollout_ids
  events,       \* _completion_events: "absent", "clear" or "set"
  waits         \* records [pc, rollout, forever, answer]
store == <<status, tries, ordered>>
aux == <<posts, running, events>>
all == <<status, tries, ordered, threaded, posts, running, events, waits>>

Idle(c) == posts[c] = {}
Alone == threaded \/ \A c \in Callers : Idle(c)
NoWait == [pc |-> "idle", rollout |-> "nothing", forever |-> FALSE, answer |-> "nothing"]

\* Rollouts that _post_update_rollout will be called for: those whose status
\* the step set.  (A late report or span of a superseded attempt sets none.)
Told == {r \in Rollouts : status'[r] # status[r]}

\* What a transition may make of the attempts of r.
TriesOf(r) ==
  {tries[r], Append(tries[r], "preparing")}
    \cup {[tries[r] EXCEPT ![k] = s] : k \in DOMAIN tries[r], s \in {"running", "failed", "succeeded"}}

\* One section of an API call: transitions of the lifecycle, but not those of
\* the watchdog, which are Scan's.
Call(c) ==
  /\ Idle(c) /\ Alone
  /\ \E r \in Rollouts :
       /\ \E s \in RolloutStatus : status' = [status EXCEPT ![r] = s]
       /\ \E t \in TriesOf(r) : tries' = [tries EXCEPT ![r] = t]
       /\ ordered' \in {ordered \cup {r}, ordered \ {r}}
       /\ \/ Submit(r) \/ Start(r) \/ Claim(r) \/ Retry(r) \/ Order(r)
          \/ \E k \in DOMAIN tries[r] :
               Beat(r, k) \/ \E s \in {"failed", "succeeded"} : Settle(r, k, s)
       /\ Len(tries'[r]) <= MaxEnds
  /\ posts' = [posts EXCEPT ![c] = {<<r, status'[r]>> : r \in Told}]
  /\ UNCHANGED <<threaded, running, events, waits>>

\* The scan takes every rollout in the cache, whatever its status, and times
\* out its last attempt if that is past the limit.
Past(r) == r \in running /\ tries[r] # <<>> /\ Limits[r] # {}

Scan(c) ==
  /\ Idle(c) /\ Alone
  /\ \E R \in SUBSET {r \in Rollouts : Past(r)} : R # {} /\ \E S \in [R -> TimeLimits] :
       /\ \A r \in R : S[r] \in Limits[r]
       /\ tries' = [r \in Rollouts |->
            IF r \in R THEN [tries[r] EXCEPT ![Len(tries[r])] = S[r]] ELSE tries[r]]
       /\ status' = [r \in Rollouts |->
            IF r \in R THEN StatusFromAttempt(r, Len(tries[r]), S[r]) ELSE status[r]]
       /\ ordered' = ordered \ R
  /\ posts' = [posts EXCEPT ![c] = {<<r, status'[r]>> : r \in Told}]
  /\ UNCHANGED <<threaded, running, events, waits>>

\* Mutants: a rollout that goes back to the queue stays in the cache; an event
\* is set only if it was there before.
RunsOrRetries(p) == p[2] \in Live \cup Queuing
EventIfThere(r, s) ==
  IF events[r] = "clear" /\ s \in Finished THEN "set" ELSE
  IF events[r] = "absent" THEN "clear" ELSE events[r]

\* _post_update_rollout.  The event of a rollout is set once and for all.
Event(r, s) ==
  CASE s \in Finished -> "set"
    [] s \notin Finished /\ events[r] = "absent" -> "clear"
    [] OTHER -> events[r]

Runs(p) == p[2] \in Live

Post(c) ==
  /\ posts[c] # {}
  /\ running' = (running \ {p[1] : p \in {q \in posts[c] : ~Runs(q)}})
                  \cup {p[1] : p \in {q \in posts[c] : Runs(q)}}
  /\ events' = [r \in Rollouts |->
       IF \E p \in posts[c] : p[1] = r
       THEN Event(r, (CHOOSE p \in posts[c] : p[1] = r)[2]) ELSE events[r]]
  /\ posts' = [posts EXCEPT ![c] = {}]
  /\ UNCHANGED <<store, threaded, waits>>

-----------------------------------------------------------------------------
(* wait_for_rollout(r, timeout). *)

Answer(w, a) == waits' = [waits EXCEPT ![w].pc = "done", ![w].answer = a]

\* The first look at the rollout.
Wait(w, r, forever) ==
  /\ waits[w].pc = "idle" /\ Alone
  /\ waits' = [waits EXCEPT ![w] =
       [pc |-> IF status[r] \in Finished THEN "done" ELSE "look",
        rollout |-> r, forever |-> forever,
        answer |-> IF status[r] \in Finished THEN "rollout" ELSE "nothing"]]
  /\ UNCHANGED <<store, threaded, aux>>

\* No time to wait, or no event to wait for.
Look(w) ==
  /\ waits[w].pc = "look"
  /\ IF events[waits[w].rollout] = "absent"
     THEN Answer(w, "nothing")
     ELSE waits' = [waits EXCEPT ![w].pc = "wait"]
  /\ UNCHANGED <<store, threaded, aux>>

TimeUp(w) ==
  /\ waits[w].pc \in {"look", "wait"} /\ ~waits[w].forever
  /\ Answer(w, "nothing")
  /\ UNCHANGED <<store, threaded, aux>>

\* The event is set: the second look.
Wake(w) ==
  /\ waits[w].pc = "wait" /\ events[waits[w].rollout] = "set" /\ Alone
  /\ Answer(w, IF status[waits[w].rollout] \in Finished THEN "rollout" ELSE "nothing")
  /\ UNCHANGED <<store, threaded, aux>>

-----------------------------------------------------------------------------
InitStore ==
  /\ Init
  /\ threaded \in BOOLEAN
  /\ posts = [c \in Callers |-> {}]
  /\ running = {}
  /\ events = [r \in Rollouts |-> "absent"]
  /\ waits = [w \in Waiters |-> NoWait]

Awake(w) == Look(w) \/ Wake(w)

NextStore ==
  \/ \E c \in Callers : Call(c) \/ Scan(c) \/ Post(c)
  \/ \E w \in Waiters, r \in Rollouts, forever \in BOOLEAN : Wait(w, r, forever)
  \/ \E w \in Waiters : Awake(w) \/ TimeUp(w)

StoreSpec == InitStore /\ [][NextStore]_all

-----------------------------------------------------------------------------
\* In one event loop: between two calls the cache holds exactly the rollouts
\* that run, so that the scan meets all of them and no other.
CacheIsExact ==
  ~threaded /\ (\A c \in Callers : Idle(c)) =>
    running = {r \in Rollouts : status[r] \in Live}
=============================================================================
