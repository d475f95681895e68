--------------------------- MODULE MCInMemoryStore ---------------------------
(***************************************************************************)
(* InMemoryStore on a small instance, and what is checked of it; beside it *)
(* the wait of the other backend.  part says which one a behaviour is of.  *)
(***************************************************************************)
EXTENDS InMemoryStore, MongoWait

CONSTANTS r1, r2, c1, c2, w1

VARIABLE part

Lists == {<<>>, <<r2, r1>>, <<r1, r2, r1>>, <<r1, w1>>}
NoLimit == -1
SomeTimes == {0, 2, 6, NoLimit}

MCInit == InitStore /\ WaitInit /\ part \in {"memory", "mongo"} /\ (part = "mongo" => ~threaded)
InMemory == part = "memory" /\ NextStore /\ UNCHANGED <<waiting, part>>
InMongo == part = "mongo" /\ at # "done" /\ WaitNext /\ UNCHANGED <<all, part>>
\* A call ends.  A wait whose event is set gets its turn between the calls
\* of others: the event loop runs what is ready in order.
MCFair ==
  /\ \A c \in Callers : WF_all(part = "memory" /\ Post(c) /\ UNCHANGED <<waiting, part>>)
  /\ \A w \in Waiters : SF_all(part = "memory" /\ Awake(w) /\ UNCHANGED <<waiting, part>>)
MCSpec == MCInit /\ [][InMemory \/ InMongo]_<<all, waiting, part>> /\ MCFair

TwoTries == [r \in Rollouts |-> 2]
Retried == [r \in Rollouts |-> {"failed", "unresponsive"}]
Watched == [r \in Rollouts |-> TimeLimits]

\* Whoever waits for a rollout is not left waiting while it stays finished.
FinishedWakes ==
  \A w \in Waiters :
    []<>(waits[w].pc # "wait" \/ status[waits[w].rollout] \notin Finished)

\* What the base class promises of timeout=None: the wait lasts until the
\* rollout has finished.
WaitIsForever ==
  \A w \in Waiters :
    waits[w].pc = "done" /\ waits[w].forever => waits[w].answer = "rollout"
=============================================================================
