------------------------------- MODULE Queues -------------------------------
(***************************************************************************)
(* The rollout queue and the counter of span numbers in the two backends:  *)
(* DequeBasedQueue and DictBasedKeyValue, whose callers hold a lock, and   *)
(* MongoBasedQueue and MongoBasedKeyValue outside a transaction, where a   *)
(* dequeue of several items is a loop of find_one_and_update and the       *)
(* clients' loops interleave.                                              *)
(***************************************************************************)
EXTENDS Integers, Sequences, FiniteSets, SequencesExt, Selections

CONSTANTS
  Consumers,   \* callers that dequeue and count
  MaxItems,    \* bound on the items enqueued
  MaxLimit,    \* bound on the limit of a dequeue
  MaxCounts    \* bound on the calls of inc and chmax

ASSUME QueueAssumption == MaxItems \in Nat /\ MaxLimit \in Nat

VARIABLES
  backend,   \* "memory" or "mongo", for good
  items,     \* what is in the queue, in order: records [item, consumed]
  enqueued,  \* items enqueued so far; an item is its place in their order
  left,      \* of each running Mongo dequeue: items still to take
  taken,     \* of each caller: the items its dequeues returned, in order
  counter,   \* the value of a key; NoEntry if there is none
  numbers,   \* history: what inc and chmax returned since the last set or pop:
             \* records [op, value]
  counts     \* calls on the key so far (bound)
queueVars == <<backend, items, enqueued, left, taken, counter, numbers, counts>>

NoEntry == -1
Waiting == {i \in DOMAIN items : ~items[i].consumed}

\* peek, has and size.
Peek(limit) == LET unclaimed == Only(items, {e \in Range(items) : ~e.consumed})
               IN [i \in 1..(IF limit < Len(unclaimed) THEN limit ELSE Len(unclaimed)) |-> unclaimed[i].item]
Has(item) == \E i \in Waiting : items[i].item = item
Size == Cardinality(Waiting)

-----------------------------------------------------------------------------
Enqueue(n) ==
  /\ enqueued + n <= MaxItems /\ enqueued' = enqueued + n
  /\ items' = items \o [i \in 1..n |-> [item |-> enqueued + i, consumed |-> FALSE]]
  /\ UNCHANGED <<backend, left, taken, counter, numbers, counts>>

\* DequeBasedQueue.dequeue, whole: popleft up to limit times.
Popleft(c, limit) ==
  LET n == IF limit < Len(items) THEN limit ELSE Len(items)
  IN /\ backend = "memory"
     /\ items' = SubSeq(items, n + 1, Len(items))
     /\ taken' = [taken EXCEPT ![c] = @ \o [i \in 1..n |-> items[i].item]]
     /\ UNCHANGED <<backend, enqueued, left, counter, numbers, counts>>

\* MongoBasedQueue.dequeue: the loop begins.
Dequeue(c, limit) ==
  /\ backend = "mongo" /\ left[c] = 0
  /\ left' = [left EXCEPT ![c] = limit]
  /\ UNCHANGED <<backend, items, enqueued, taken, counter, numbers, counts>>


\* The first document not consumed becomes consumed.
Take(c) == items' = [items EXCEPT ![CHOOSE i \in Waiting : \A j \in Waiting : i <= j].consumed = TRUE]

\* find_one_and_update, once.
ClaimNext(c) ==
  /\ left[c] > 0
  /\ IF Waiting = {}
     THEN left' = [left EXCEPT ![c] = 0] /\ UNCHANGED <<items, taken>>
     ELSE /\ Take(c)
          /\ taken' = [taken EXCEPT ![c] = Append(@, items[CHOOSE i \in Waiting : \A j \in Waiting : i <= j].item)]
          /\ left' = [left EXCEPT ![c] = @ - 1]
  /\ UNCHANGED <<backend, enqueued, counter, numbers, counts>>

Change(value, history) ==
  /\ counts < MaxCounts /\ counts' = counts + 1
  /\ counter' = value /\ numbers' = history
  /\ UNCHANGED <<backend, items, enqueued, left, taken>>

Count(op, value) == Change(value, Append(numbers, [op |-> op, value |-> value]))

\* get
Get(default) == IF counter = NoEntry THEN default ELSE counter

\* inc: the amount, on top of what is there.
Inc(amount) == Count("inc", Get(0) + amount)

\* A mutant: the value is set.
ChmaxSet(value) == Count("chmax", value)

\* chmax: the larger of the two.
Chmax(value) == Count("chmax", IF value > Get(value) THEN value ELSE Get(value))

\* set and pop.
Set(value) == Change(value, <<>>)
Pop == Change(NoEntry, <<>>)

-----------------------------------------------------------------------------
QueueInit ==
  /\ backend \in {"memory", "mongo"} /\ items = <<>> /\ enqueued = 0
  /\ left = [c \in Consumers |-> 0] /\ taken = [c \in Consumers |-> <<>>]
  /\ counter = NoEntry /\ numbers = <<>> /\ counts = 0

QueueNext ==
  \/ \E n \in 1..2 : Enqueue(n)
  \/ \E c \in Consumers : ClaimNext(c) \/ \E limit \in 1..MaxLimit : Popleft(c, limit) \/ Dequeue(c, limit)
  \/ \E n \in 1..3 : Inc(1) \/ Chmax(n)
  \/ Set(0) \/ Pop

QueueSpec == QueueInit /\ [][QueueNext]_queueVars

-----------------------------------------------------------------------------
\* What no caller was given is there for has, peek and size, and what a caller
\* was given is not, however the loops of several dequeues interleave.
\* store/collection/memory.py, mongo.py.
AnswersAgree ==
  /\ \A item \in 1..enqueued : Has(item) <=> \A c \in Consumers : item \notin Range(taken[c])
  /\ Len(Peek(MaxItems)) = Size

\* Both backends do what the interface promises, one item of a Mongo dequeue
\* at a time.  store/collection/base.py, Queue and KeyValue.
Promised == INSTANCE QueueContract WITH
              Callers <- Consumers, waiting <- Peek(MaxItems), added <- enqueued,
              given <- taken, value <- counter, told <- numbers
IsQueue == Promised!Contract
=============================================================================
