---------------------------- MODULE QueueContract ----------------------------
(***************************************************************************)
(* What store/collection/base.py promises of a Queue, which "behaves like  *)
(* a deque", and of one key of a KeyValue, for any number of callers.  An  *)
(* item is its place in the order of all that are enqueued.                *)
(***************************************************************************)
EXTENDS Integers, Sequences

CONSTANTS Callers, NoEntry

VARIABLES
  waiting,   \* the queue
  added,     \* items enqueued so far
  given,     \* of each caller: the items it was given, in order
  value,     \* of the key; NoEntry if there is none
  told       \* what inc and chmax returned since the last set or pop
contractVars == <<waiting, added, given, value, told>>

Deque == UNCHANGED <<value, told>>
Dict == UNCHANGED <<waiting, added, given>>

\* enqueue: to the end.
Enqueue(n) ==
  /\ n > 0 /\ added' = added + n
  /\ waiting' = waiting \o [i \in 1..n |-> added + i]
  /\ UNCHANGED given /\ Deque

\* dequeue: from the front, what there is of the limit.
Dequeue(c, limit) ==
  LET n == IF limit < Len(waiting) THEN limit ELSE Len(waiting)
  IN /\ waiting' = SubSeq(waiting, n + 1, Len(waiting))
     /\ given' = [given EXCEPT ![c] = @ \o SubSeq(waiting, 1, n)]
     /\ UNCHANGED added /\ Deque

\* inc and chmax, which return the new value, set and pop.
Returns(op, v) == value' = v /\ told' = Append(told, [op |-> op, value |-> v]) /\ Dict
Inc(amount) == Returns("inc", (IF value = NoEntry THEN 0 ELSE value) + amount)
Chmax(v) == Returns("chmax", IF value = NoEntry \/ v > value THEN v ELSE value)
Set(v) == value' = v /\ told' = <<>> /\ Dict
Pop == value' = NoEntry /\ told' = <<>> /\ Dict

ContractInit == waiting = <<>> /\ added = 0 /\ given = [c \in Callers |-> <<>>] /\ value = NoEntry /\ told = <<>>

\* Items, limits and numbers are as large as anyone likes; a step is known by
\* what it leaves.
ContractNext ==
  \/ \E n \in 1..(added' - added) : Enqueue(n)
  \/ \E c \in Callers : \E limit \in 1..Len(waiting) : Dequeue(c, limit)
  \/ \E amount \in 1..(value' - value) \cup {value'} : Inc(amount)
  \/ \E v \in 0..value' : Chmax(v)
  \/ Set(value') \/ Pop

Contract == ContractInit /\ [][ContractNext]_contractVars
=============================================================================
