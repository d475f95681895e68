------------------------ MODULE LightningStoreProofs ------------------------
(***************************************************************************)
(* Proofs about LightningStore, for any rollouts, configurations, workers, *)
(* manual retries and crashes: types, what the queue still leads to, when  *)
(* a rollout has succeeded, the budget of attempts, and that the store     *)
(* implements RolloutLifecycle.  The last two are about dequeue_rollout,   *)
(* which takes one rollout at a time (BatchSize = 1).                      *)
(***************************************************************************)
EXTENDS LightningStore, FiniteSetTheorems, SequenceTheorems, TLAPS

CallStates == {"idle", "has", "enqueue", "sync", "pop", "popped", "mark", "write"}
AttemptIds == [r : Rollouts, k : Nat \ {0}]
AttemptRecords == [status : Life!AttemptStatus, worker : Workers]
Copies == [id : AttemptIds, status : Life!AttemptStatus, worker : Workers]
CallRecords == [pc : CallStates, popped : Seq(Rollouts), requeue : SUBSET Rollouts,
                syncs : SUBSET Copies, got : SUBSET AttemptIds]

TypeOK ==
  /\ rollouts \in [Rollouts -> Life!RolloutStatus \cup {"none"}]
  /\ attempts \in [Rollouts -> Seq(AttemptRecords)]
  /\ queue \in Seq(Rollouts)
  /\ workers \in [Workers -> [status : {"idle", "busy", "unknown"}, current : AttemptIds \cup {Nobody}]]
  /\ calls \in [Procs -> CallRecords]
  /\ holding \in [Workers -> SUBSET AttemptIds]
  /\ manual \in [Rollouts -> Nat]
  /\ crashes \in Nat
  /\ lost \in SUBSET Rollouts
  /\ orders \in Nat
  /\ ordered \in SUBSET Rollouts

\* A call that is over leaves nothing to do; what it has popped and what it
\* has to put back are there only in the sections that deal with them; it
\* asks for no more than it has room for.
CallInOrder(c) ==
  /\ c.pc = "idle" => c = NoCall
  /\ c.popped # <<>> => c.pc = "popped"
  /\ c.requeue # {} => c.pc \in {"has", "enqueue"}
  /\ IsFiniteSet(c.got)
  /\ c.pc = "pop" => Cardinality(c.got) < BatchSize
  /\ Len(c.popped) <= BatchSize

CallsInOrder == \A p \in Procs : CallInOrder(calls[p])

\* An attempt that somebody holds, or is about to be given, exists.
Exists(id) == id.k \in DOMAIN attempts[id.r]
HeldExist ==
  /\ \A w \in Workers : \A id \in holding[w] : Exists(id)
  /\ \A p \in Procs : \A id \in calls[p].got : Exists(id)

IInv == TypeOK /\ CallsInOrder /\ HeldExist /\ QueuedIsCarried /\ SuccessIsEarned

-----------------------------------------------------------------------------
(* The operators. *)

LEMMA StatusType ==
  ASSUME NEW r \in Rollouts, NEW k, NEW s \in Life!AttemptStatus
  PROVE  Life!StatusFromAttempt(r, k, s) \in Life!RolloutStatus
BY DEF Life!StatusFromAttempt, Life!AttemptStatus, Life!RolloutStatus, Life!Live, Life!Queuing, Life!Finished

\* Only an attempt that succeeds makes its rollout succeed.
LEMMA StatusSucceeds ==
  ASSUME NEW r \in Rollouts, NEW k, NEW s \in Life!AttemptStatus
  PROVE  Life!StatusFromAttempt(r, k, s) = "succeeded" <=> s = "succeeded"
BY DEF Life!StatusFromAttempt, Life!Live

LEMMA NoCallType == NoCall \in CallRecords /\ CallInOrder(NoCall)
<1>1. IsFiniteSet({}) /\ Cardinality({}) = 0
  BY FS_EmptySet
<1>2. NoCall \in CallRecords
  BY DEF NoCall, CallRecords, CallStates
<1>3. CallInOrder(NoCall)
  BY <1>1, StoreAssumption DEF NoCall, CallInOrder
<1> QED BY <1>2, <1>3

LEMMA NoCallMentions == \A r : ~Mentions(NoCall, r)
BY DEF NoCall, Mentions, Range

\* What is left of a call: its type, and what it still mentions.
LEMMA ThenLeaves ==
  ASSUME NEW c \in CallRecords, c.popped = <<>>, IsFiniteSet(c.got)
  PROVE  /\ Then(c) \in CallRecords
         /\ CallInOrder(Then(c))
         /\ Then(c).got \in {{}, c.got}
         /\ \A r : r \in c.requeue => Mentions(Then(c), r)
         /\ c.syncs # {} => Then(c).pc \in {"has", "sync"}
<1>1. CASE c.requeue # {}
  <2>1. Then(c) = [c EXCEPT !.pc = "has"]
    BY <1>1 DEF Then
  <2>2. Then(c) \in CallRecords /\ Then(c).got = c.got /\ Then(c).requeue = c.requeue
        /\ Then(c).popped = <<>> /\ Then(c).pc = "has"
    BY <2>1 DEF CallRecords, CallStates
  <2> QED BY <2>2, StoreAssumption DEF CallInOrder, Mentions
<1>2. CASE c.requeue = {} /\ c.syncs # {}
  <2>1. Then(c) = [c EXCEPT !.pc = "sync"]
    BY <1>2 DEF Then
  <2>2. Then(c) \in CallRecords /\ Then(c).got = c.got /\ Then(c).requeue = {}
        /\ Then(c).popped = <<>> /\ Then(c).pc = "sync"
    BY <2>1, <1>2 DEF CallRecords, CallStates
  <2> QED BY <1>2, <2>2, StoreAssumption DEF CallInOrder, Mentions
<1>3. CASE c.requeue = {} /\ c.syncs = {}
  <2>1. Then(c) = NoCall
    BY <1>3 DEF Then
  <2> QED BY <1>3, <2>1, NoCallType DEF NoCall
<1> QED BY <1>1, <1>2, <1>3

\* A list of a set's members holds all of them.
LEMMA OrderRange ==
  ASSUME NEW S \in SUBSET Rollouts, NEW order \in SetToSeqs(S)
  PROVE  order \in Seq(Rollouts) /\ Range(order) = S
<1>1. IsFiniteSet(S)
  BY StoreAssumption, FS_Subset
<1>2. Cardinality(S) \in Nat
  BY <1>1, FS_CardinalityType
<1> DEFINE n == Cardinality(S)
<1>3. order \in [1..n -> S] /\ \A i, j \in 1..n : i # j => order[i] # order[j]
  BY DEF SetToSeqs
<1>4. order \in Injection(1..n, S)
  BY <1>3 DEF Injection, IsInjective
<1>5. IsFiniteSet(1..n) /\ Cardinality(1..n) = n
  BY <1>2, FS_Interval
<1>6. order \in Surjection(1..n, S)
  BY <1>1, <1>4, <1>5, FS_Injection
<1>7. Range(order) = S
  BY <1>3, <1>6 DEF Surjection, Range
<1>8. order \in Seq(Rollouts)
  BY <1>2, <1>3
<1> QED BY <1>7, <1>8

LEMMA RestType ==
  ASSUME NEW B \in SUBSET Rollouts, NEW C \in SUBSET Copies
  PROVE  LET c == [NoCall EXCEPT !.requeue = B, !.syncs = C]
         IN  c \in CallRecords /\ c.popped = <<>> /\ c.got = {} /\ IsFiniteSet(c.got) /\ c.requeue = B /\ c.syncs = C
<1> DEFINE c == [NoCall EXCEPT !.requeue = B, !.syncs = C]
<1>1. NoCall \in CallRecords /\ NoCall.popped = <<>> /\ NoCall.got = {}
  BY NoCallType DEF NoCall
<1>2. c \in CallRecords /\ c.popped = NoCall.popped /\ c.requeue = B /\ c.syncs = C /\ c.got = NoCall.got
  BY <1>1 DEF CallRecords
<1>3. IsFiniteSet(c.got)
  BY <1>1, <1>2, FS_EmptySet
<1> QED BY <1>1, <1>2, <1>3

\* What an update of attempts leaves to do.
LEMMA AfterUpdateLeaves ==
  ASSUME NEW ids \in SUBSET AttemptIds,
         attempts' \in [Rollouts -> Seq(AttemptRecords)],
         \A id \in ids : id.k \in DOMAIN attempts'[id.r]
  PROVE  /\ AfterUpdate(ids) \in CallRecords
         /\ CallInOrder(AfterUpdate(ids))
         /\ AfterUpdate(ids).got = {}
         /\ \A id \in ids : rollouts'[id.r] # rollouts[id.r] /\ rollouts'[id.r] \in Queuing
                              => Mentions(AfterUpdate(ids), id.r)
         /\ ids # {} => AfterUpdate(ids).pc \in {"has", "sync"}
<1> DEFINE back == {r \in {id.r : id \in ids} : rollouts'[r] # rollouts[r] /\ rollouts'[r] \in Queuing}
           copies == {[id |-> id, status |-> attempts'[id.r][id.k].status,
                       worker |-> attempts'[id.r][id.k].worker] : id \in ids}
           c == [NoCall EXCEPT !.requeue = back, !.syncs = copies]
<1>1. AfterUpdate(ids) = Then(c)
  BY DEF AfterUpdate
<1>2. back \in SUBSET Rollouts
  BY DEF AttemptIds
<1>3. copies \in SUBSET Copies
  <2> SUFFICES ASSUME NEW id \in ids
               PROVE  attempts'[id.r][id.k] \in AttemptRecords
    BY DEF Copies, AttemptRecords
  <2> QED BY ElementOfSeq, LenProperties DEF AttemptIds
<1>4. ids # {} => copies # {}
  OBVIOUS
<1> HIDE DEF back, copies
<1>5. c \in CallRecords /\ c.popped = <<>> /\ c.got = {} /\ IsFiniteSet(c.got) /\ c.requeue = back /\ c.syncs = copies
  BY <1>2, <1>3, RestType
<1> HIDE DEF c
<1>6. /\ Then(c) \in CallRecords /\ CallInOrder(Then(c)) /\ Then(c).got \in {{}, c.got}
      /\ \A r : r \in c.requeue => Mentions(Then(c), r)
      /\ c.syncs # {} => Then(c).pc \in {"has", "sync"}
  BY <1>5, ThenLeaves
<1> QED BY <1>1, <1>4, <1>5, <1>6 DEF back

-----------------------------------------------------------------------------
(* What every action has to show: that the call it leaves is in order, and *)
(* that it lets go of no rollout that waits.                               *)

LEMMA OneCall ==
  ASSUME CallsInOrder, calls \in [Procs -> CallRecords],
         NEW p \in Procs, NEW c \in CallRecords, CallInOrder(c),
         calls' = [calls EXCEPT ![p] = c]
  PROVE  /\ calls' \in [Procs -> CallRecords]
         /\ CallsInOrder'
BY DEF CallsInOrder, CallInOrder

LEMMA CarriedOn ==
  ASSUME QueuedIsCarried, calls \in [Procs -> CallRecords],
         NEW p \in Procs, NEW c, calls' = [calls EXCEPT ![p] = c],
         lost \subseteq lost',
         \A r \in Rollouts : rollouts'[r] \in Queuing =>
           \/ Mentions(c, r) \/ r \in Range(queue')
           \/ /\ rollouts[r] \in Queuing
              /\ r \notin Range(queue)
              /\ ~Mentions(calls[p], r) \/ r \in lost'
  PROVE  QueuedIsCarried'
<1> SUFFICES ASSUME NEW r \in Rollouts, rollouts'[r] \in Queuing, ~Mentions(c, r),
                    r \notin Range(queue'), r \notin lost'
             PROVE  \E q \in Procs : Mentions(calls'[q], r)
  BY DEF QueuedIsCarried, Queuing, Life!Queuing
<1>1. rollouts[r] \in Queuing /\ r \notin Range(queue) /\ r \notin lost /\ ~Mentions(calls[p], r)
  OBVIOUS
<1>2. PICK q \in Procs : Mentions(calls[q], r)
  BY <1>1 DEF QueuedIsCarried
<1>3. q # p /\ calls'[q] = calls[q]
  BY <1>1, <1>2
<1> QED BY <1>2, <1>3

Earned(r) ==
  rollouts[r] \in {"succeeded", "failed"} /\ r \notin ordered =>
    Latest(r) > 0 /\ (rollouts[r] = "succeeded" <=> attempts[r][Latest(r)].status = "succeeded")

\* A rollout whose attempts stay is honest if its status stays, is not one of
\* the two, or was ordered.
LEMMA EarnedOn ==
  ASSUME SuccessIsEarned, NEW r \in Rollouts, attempts'[r] = attempts[r],
         \/ rollouts'[r] = rollouts[r] /\ (r \in ordered => r \in ordered')
         \/ rollouts'[r] \notin {"succeeded", "failed"}
         \/ r \in ordered'
  PROVE  Earned(r)'
BY DEF SuccessIsEarned, Earned, Latest

\* A call that is over mentions nothing.
LEMMA IdleMentionsNothing ==
  ASSUME CallsInOrder, NEW p \in Procs, calls[p].pc = "idle"
  PROVE  calls[p] = NoCall /\ \A r : ~Mentions(calls[p], r)
BY NoCallMentions DEF CallsInOrder, CallInOrder

-----------------------------------------------------------------------------
(* The rest of a call. *)

LEMMA SkipQueuedKeeps ==
  ASSUME IInv, NEW p \in Procs, SkipQueued(p)
  PROVE  IInv'
<1> DEFINE c == calls[p]
           absent == c.requeue \ Range(queue)
           rest == [c EXCEPT !.requeue = {}]
           d == IF absent # {} THEN [c EXCEPT !.pc = "enqueue", !.requeue = absent] ELSE Then(rest)
<1>1. c \in CallRecords /\ CallInOrder(c) /\ c.pc = "has" /\ calls' = [calls EXCEPT ![p] = d]
      /\ UNCHANGED <<rollouts, attempts, queue, workers, holding, manual, crashes, lost, orders, ordered>>
  BY DEF SkipQueued, IInv, TypeOK, CallsInOrder
<1>2. c.popped = <<>> /\ IsFiniteSet(c.got)
  BY <1>1 DEF CallInOrder
<1>3. d \in CallRecords /\ CallInOrder(d) /\ d.got \in {{}, c.got}
      /\ \A r : r \in absent => Mentions(d, r)
  <2>1. CASE absent # {}
    <3>1. d = [c EXCEPT !.pc = "enqueue", !.requeue = absent]
      BY <2>1
    <3>2. d \in CallRecords /\ d.got = c.got /\ d.pc = "enqueue" /\ d.requeue = absent /\ d.popped = <<>>
      <4>1. "enqueue" \in CallStates /\ absent \in SUBSET Rollouts
        BY <1>1 DEF CallRecords, CallStates
      <4> HIDE DEF d, absent
      <4> QED BY <1>1, <1>2, <3>1, <4>1 DEF CallRecords
    <3> QED BY <1>2, <3>2, StoreAssumption DEF CallInOrder, Mentions
  <2>2. CASE absent = {}
    <3>1. rest \in CallRecords /\ rest.popped = <<>> /\ rest.got = c.got
      BY <1>1, <1>2 DEF CallRecords, CallStates
    <3>2. d = Then(rest)
      BY <2>2
    <3> HIDE DEF rest, d
    <3> QED BY <1>2, <2>2, <3>1, <3>2, ThenLeaves
  <2> QED BY <2>1, <2>2
<1>4. \A r \in Rollouts : Mentions(c, r) => r \in absent \/ r \in Range(queue)
  BY <1>2 DEF Mentions, Range
<1> HIDE DEF c, d, absent
<1>5. TypeOK' /\ CallsInOrder'
  BY <1>1, <1>3, OneCall DEF IInv, TypeOK
<1>6. HeldExist'
  BY <1>1, <1>3 DEF IInv, HeldExist, Exists, TypeOK, c
<1>7. QueuedIsCarried'
  <2>1. \A r \in Rollouts : rollouts'[r] \in Queuing =>
          \/ Mentions(d, r) \/ r \in Range(queue')
          \/ rollouts[r] \in Queuing /\ r \notin Range(queue) /\ ~Mentions(calls[p], r)
    BY <1>1, <1>3, <1>4 DEF c
  <2> QED BY <1>1, <2>1, CarriedOn DEF IInv, TypeOK
<1>8. SuccessIsEarned'
  BY <1>1 DEF IInv, SuccessIsEarned, Latest
<1> QED BY <1>5, <1>6, <1>7, <1>8 DEF IInv

LEMMA RequeueKeeps ==
  ASSUME IInv, NEW p \in Procs, Requeue(p)
  PROVE  IInv'
<1> DEFINE c == calls[p]
           rest == [c EXCEPT !.requeue = {}]
<1>1. c \in CallRecords /\ CallInOrder(c) /\ c.pc = "enqueue" /\ calls' = [calls EXCEPT ![p] = Then(rest)]
      /\ UNCHANGED <<rollouts, attempts, workers, holding, manual, crashes, lost, orders, ordered>>
  BY DEF Requeue, IInv, TypeOK, CallsInOrder
<1>2. PICK order \in SetToSeqs(c.requeue) : queue' = queue \o order
  BY DEF Requeue
<1>3. c.popped = <<>> /\ IsFiniteSet(c.got) /\ c.requeue \in SUBSET Rollouts
  BY <1>1 DEF CallInOrder, CallRecords
<1>4. order \in Seq(Rollouts) /\ Range(order) = c.requeue
  BY <1>3, OrderRange
<1>5. queue \in Seq(Rollouts)
  BY DEF IInv, TypeOK
<1>6. queue' \in Seq(Rollouts) /\ Range(queue') = Range(queue) \cup c.requeue
  BY <1>2, <1>4, <1>5, ConcatProperties, RangeConcatenation
<1>7. rest \in CallRecords /\ rest.popped = <<>> /\ rest.got = c.got
  BY <1>1, <1>3 DEF CallRecords, CallStates
<1> HIDE DEF rest
<1>8. Then(rest) \in CallRecords /\ CallInOrder(Then(rest)) /\ Then(rest).got \in {{}, c.got}
  BY <1>3, <1>7, ThenLeaves
<1>9. \A r \in Rollouts : Mentions(c, r) => r \in Range(queue')
  BY <1>3, <1>6 DEF Mentions, Range
<1> HIDE DEF c
<1>10. TypeOK' /\ CallsInOrder'
  BY <1>1, <1>6, <1>8, OneCall DEF IInv, TypeOK
<1>11. HeldExist'
  BY <1>1, <1>8 DEF IInv, HeldExist, Exists, TypeOK, c
<1>12. QueuedIsCarried'
  <2>1. \A r \in Rollouts : rollouts'[r] \in Queuing =>
          \/ r \in Range(queue')
          \/ rollouts[r] \in Queuing /\ r \notin Range(queue) /\ ~Mentions(calls[p], r)
    BY <1>1, <1>6, <1>9 DEF c
  <2> QED BY <1>1, <2>1, CarriedOn DEF IInv, TypeOK
<1>13. SuccessIsEarned'
  BY <1>1 DEF IInv, SuccessIsEarned, Latest
<1> QED BY <1>10, <1>11, <1>12, <1>13 DEF IInv

LEMMA SyncWorkersKeeps ==
  ASSUME IInv, NEW p \in Procs, SyncWorkers(p)
  PROVE  IInv'
<1>1. /\ calls[p] \in CallRecords /\ CallInOrder(calls[p]) /\ calls[p].pc = "sync"
      /\ calls' = [calls EXCEPT ![p] = NoCall]
      /\ holding' = [w \in Workers |-> IF w = p THEN holding[w] \cup calls[p].got ELSE holding[w]]
      /\ UNCHANGED <<rollouts, attempts, queue, manual, crashes, lost, orders, ordered>>
  BY DEF SyncWorkers, IInv, TypeOK, CallsInOrder
<1>2. workers' \in [Workers -> [status : {"idle", "busy", "unknown"}, current : AttemptIds \cup {Nobody}]]
  <2> DEFINE touched == {c.worker : c \in calls[p].syncs}
  <2>1. PICK last \in [touched -> calls[p].syncs] :
          workers' = [w \in Workers |-> IF w \in touched THEN WorkerFrom(last[w]) ELSE workers[w]]
    BY DEF SyncWorkers
  <2>2. \A w \in touched : last[w] \in Copies
    BY <1>1 DEF CallRecords
  <2>3. \A w \in touched : WorkerFrom(last[w]) \in [status : {"idle", "busy", "unknown"}, current : AttemptIds \cup {Nobody}]
    BY <2>2 DEF WorkerFrom, Copies
  <2> QED BY <2>1, <2>3 DEF IInv, TypeOK
<1>3. holding' \in [Workers -> SUBSET AttemptIds]
  BY <1>1 DEF IInv, TypeOK, CallRecords
<1>4. TypeOK' /\ CallsInOrder'
  BY <1>1, <1>2, <1>3, NoCallType, OneCall DEF IInv, TypeOK
<1>5. HeldExist'
  <2>1. \A w \in Workers : \A id \in holding'[w] : id \in holding[w] \/ id \in calls[p].got
    BY <1>1
  <2>2. \A q \in Procs : \A id \in calls'[q].got : id \in calls[q].got
    BY <1>1 DEF IInv, TypeOK, NoCall
  <2> QED BY <1>1, <2>1, <2>2 DEF IInv, HeldExist, Exists
<1>6. QueuedIsCarried'
  <2>1. calls[p].popped = <<>> /\ calls[p].requeue = {}
    BY <1>1 DEF CallInOrder
  <2>2. \A r : ~Mentions(calls[p], r)
    BY <2>1 DEF Mentions, Range
  <2>3. \A r \in Rollouts : rollouts'[r] \in Queuing =>
          \/ r \in Range(queue')
          \/ rollouts[r] \in Queuing /\ r \notin Range(queue) /\ ~Mentions(calls[p], r)
    BY <1>1, <2>2
  <2> QED BY <1>1, <2>3, CarriedOn DEF IInv, TypeOK
<1>7. SuccessIsEarned'
  BY <1>1 DEF IInv, SuccessIsEarned, Latest
<1> QED BY <1>4, <1>5, <1>6, <1>7 DEF IInv

-----------------------------------------------------------------------------
(* The algorithm and the start of attempts. *)

LEMMA SubmitKeeps ==
  ASSUME IInv, NEW r \in Rollouts, Submit(r)
  PROVE  IInv'
<1>1. /\ rollouts[r] = "none" /\ queue' = Append(queue, r) /\ rollouts' = [rollouts EXCEPT ![r] = "queuing"]
      /\ ordered' = ordered \ {r}
      /\ UNCHANGED <<attempts, workers, calls, holding, manual, crashes, lost, orders>>
  BY DEF Submit
<1>2. queue' \in Seq(Rollouts) /\ Range(queue') = Range(queue) \cup {r}
  <2>1. queue \in Seq(Rollouts) /\ <<r>> \in Seq(Rollouts) /\ Range(<<r>>) = {r}
    BY DEF IInv, TypeOK, Range
  <2>2. queue' = queue \o <<r>>
    BY <1>1, <2>1, AppendIsConcat
  <2> QED BY <2>1, <2>2, ConcatProperties, RangeConcatenation
<1>3. TypeOK'
  BY <1>1, <1>2 DEF IInv, TypeOK, Life!RolloutStatus, Life!Queuing
<1>4. CallsInOrder' /\ HeldExist'
  BY <1>1 DEF IInv, CallsInOrder, HeldExist, Exists
<1>5. QueuedIsCarried'
  BY <1>1, <1>2 DEF IInv, TypeOK, QueuedIsCarried
<1>6. SuccessIsEarned'
  BY <1>1 DEF IInv, TypeOK, SuccessIsEarned, Latest
<1> QED BY <1>3, <1>4, <1>5, <1>6 DEF IInv

LEMMA UpdateRolloutKeeps ==
  ASSUME IInv, NEW r \in Rollouts, NEW s \in RolloutStatus, UpdateRollout(r, s)
  PROVE  IInv'
<1> DEFINE c == [NoCall EXCEPT !.requeue = IF s \in Queuing THEN {r} ELSE {}]
<1>1. /\ calls["algorithm"].pc = "idle" /\ rollouts' = [rollouts EXCEPT ![r] = s]
      /\ calls' = [calls EXCEPT !["algorithm"] = Then(c)]
      /\ manual' \in [Rollouts -> Nat]
      /\ orders' \in Nat /\ ordered' = ordered \cup {r}
      /\ UNCHANGED <<attempts, queue, workers, holding, crashes, lost>>
      /\ "algorithm" \in Procs
  BY DEF UpdateRollout, IInv, TypeOK, Procs
<1>2. c \in CallRecords /\ c.popped = <<>> /\ c.got = {} /\ IsFiniteSet(c.got) /\ (s \in Queuing => r \in c.requeue)
  <2>1. NoCall \in CallRecords /\ NoCall.popped = <<>> /\ NoCall.got = {}
    BY NoCallType DEF NoCall
  <2>2. c \in CallRecords /\ c.popped = NoCall.popped /\ c.got = NoCall.got /\ (s \in Queuing => r \in c.requeue)
    BY <2>1 DEF CallRecords
  <2> QED BY <2>1, <2>2, FS_EmptySet
<1> HIDE DEF c
<1>3. /\ Then(c) \in CallRecords /\ CallInOrder(Then(c)) /\ Then(c).got = {}
      /\ s \in Queuing => Mentions(Then(c), r)
  BY <1>2, ThenLeaves
<1>4. TypeOK' /\ CallsInOrder'
  BY <1>1, <1>3, OneCall DEF IInv, TypeOK, RolloutStatus
<1>5. HeldExist'
  BY <1>1, <1>3 DEF IInv, TypeOK, HeldExist, Exists
<1>6. QueuedIsCarried'
  <2>1. \A q \in Rollouts : rollouts'[q] \in Queuing =>
          \/ Mentions(Then(c), q)
          \/ rollouts[q] \in Queuing /\ ~Mentions(calls["algorithm"], q)
    BY <1>1, <1>3, IdleMentionsNothing DEF IInv, TypeOK
  <2> QED BY <1>1, <2>1, CarriedOn DEF IInv, TypeOK
<1>7. SuccessIsEarned'
  BY <1>1 DEF IInv, TypeOK, SuccessIsEarned, Latest
<1> QED BY <1>4, <1>5, <1>6, <1>7 DEF IInv

LEMMA BeginAttemptKeeps ==
  ASSUME IInv, NEW w \in Workers, NEW r \in Rollouts, Free(w), BeginAttempt(w, r),
         manual' \in [Rollouts -> Nat], orders' \in Nat
  PROVE  IInv'
<1> DEFINE id == [r |-> r, k |-> Latest(r) + 1]
           e == AfterUpdate({id})
           d == [e EXCEPT !.got = {id}]
<1>1. /\ calls[w].pc = "idle" /\ w \in Procs
      /\ attempts' = [attempts EXCEPT ![r] = Append(@, NewAttempt(w))]
      /\ rollouts' = [rollouts EXCEPT ![r] = "preparing"]
      /\ calls' = [calls EXCEPT ![w] = d]
      /\ ordered' = ordered \ {r}
      /\ UNCHANGED <<queue, workers, holding, crashes, lost>>
  BY DEF Free, BeginAttempt, Procs
<1>2. NewAttempt(w) \in AttemptRecords
  BY DEF NewAttempt, AttemptRecords, Life!AttemptStatus, Life!Live
<1>3. /\ attempts \in [Rollouts -> Seq(AttemptRecords)] /\ attempts' \in [Rollouts -> Seq(AttemptRecords)]
      /\ DOMAIN attempts'[r] = 1..(Latest(r) + 1) /\ DOMAIN attempts[r] = 1..Latest(r) /\ Latest(r) \in Nat
  BY <1>1, <1>2 DEF IInv, TypeOK, Latest
<1>4. id \in AttemptIds /\ id.k \in DOMAIN attempts'[id.r]
  BY <1>3 DEF AttemptIds
<1>5. e \in CallRecords /\ CallInOrder(e) /\ e.pc \in {"has", "sync"}
  <2>1. {id} \in SUBSET AttemptIds /\ {id} # {} /\ \A i \in {id} : i.k \in DOMAIN attempts'[i.r]
    BY <1>4
  <2> HIDE DEF id
  <2> QED BY <1>3, <2>1, AfterUpdateLeaves
<1>6. d \in CallRecords /\ CallInOrder(d) /\ d.got = {id}
  <2>1. d \in CallRecords /\ d.pc = e.pc /\ d.popped = e.popped /\ d.requeue = e.requeue /\ d.got = {id}
    BY <1>4, <1>5 DEF CallRecords
  <2> QED BY <1>5, <2>1, FS_Singleton DEF CallInOrder
<1>7. \A j : Exists(j) /\ j.r \in Rollouts => Exists(j)'
  BY <1>1, <1>3 DEF Exists
<1> HIDE DEF d, e, id
<1>8. TypeOK' /\ CallsInOrder'
  BY <1>1, <1>3, <1>6, OneCall DEF IInv, TypeOK, Life!RolloutStatus, Life!Live
<1>9. HeldExist'
  <2>1. \A v \in Workers : \A j \in holding'[v] : j \in AttemptIds /\ Exists(j)
    BY <1>1 DEF IInv, HeldExist, TypeOK
  <2>2. \A q \in Procs : \A j \in calls'[q].got : q # w => j \in AttemptIds /\ Exists(j)
    BY <1>1 DEF IInv, HeldExist, TypeOK, CallRecords
  <2>3. calls'[w].got = {id}
    BY <1>1, <1>6 DEF IInv, TypeOK
  <2>4. \A j \in AttemptIds : j.r \in Rollouts
    BY DEF AttemptIds
  <2> QED BY <1>4, <1>7, <2>1, <2>2, <2>3, <2>4 DEF HeldExist, Exists
<1>10. QueuedIsCarried'
  <2>1. \A q \in Rollouts : rollouts'[q] \in Queuing =>
          rollouts[q] \in Queuing /\ ~Mentions(calls[w], q)
    BY <1>1, IdleMentionsNothing DEF IInv, TypeOK, Queuing, Life!Queuing
  <2> QED BY <1>1, <2>1, CarriedOn DEF IInv, TypeOK
<1>11. SuccessIsEarned'
  BY <1>1 DEF IInv, TypeOK, SuccessIsEarned, Latest
<1> QED BY <1>8, <1>9, <1>10, <1>11 DEF IInv

-----------------------------------------------------------------------------
(* dequeue_rollout. *)

LEMMA PopKeeps ==
  ASSUME IInv, NEW w \in Workers, Pop(w)
  PROVE  IInv'
<1> DEFINE c == calls[w]
           room == BatchSize - Cardinality(c.got)
           n == IF Len(queue) < room THEN Len(queue) ELSE room
           d == CASE n > 0 -> [c EXCEPT !.pc = "popped", !.popped = SubSeq(queue, 1, n)]
                  [] n = 0 /\ c.got # {} -> [c EXCEPT !.pc = "sync"]
                  [] OTHER -> [c EXCEPT !.pc = "mark"]
<1>1. /\ Free(w) \/ c.pc = "pop"
      /\ w \in Procs /\ c \in CallRecords /\ CallInOrder(c) /\ queue \in Seq(Rollouts)
      /\ queue' = SubSeq(queue, n + 1, Len(queue)) /\ calls' = [calls EXCEPT ![w] = d]
      /\ UNCHANGED <<rollouts, attempts, workers, holding, manual, crashes, lost, orders, ordered>>
  BY DEF Pop, Procs, IInv, TypeOK, CallsInOrder
<1>2. c.popped = <<>> /\ c.requeue = {} /\ Cardinality(c.got) \in Nat /\ Cardinality(c.got) < BatchSize
  <2>1. CASE c.pc = "pop"
    BY <1>1, <2>1, FS_CardinalityType DEF CallInOrder
  <2>2. CASE Free(w)
    BY <1>1, <2>2, FS_EmptySet, StoreAssumption DEF Free, CallInOrder, NoCall
  <2> QED BY <1>1, <2>1, <2>2
<1>3. n \in 0..Len(queue) /\ n <= BatchSize /\ Len(queue) \in Nat
  BY <1>1, <1>2, StoreAssumption
<1>4. /\ queue' \in Seq(Rollouts) /\ SubSeq(queue, 1, n) \in Seq(Rollouts) /\ Len(SubSeq(queue, 1, n)) = n
      /\ Range(queue) = Range(SubSeq(queue, 1, n)) \cup Range(queue')
  <2>a. queue' = SubSeq(queue, n + 1, Len(queue)) /\ queue \in Seq(Rollouts)
    BY <1>1
  <2> HIDE DEF n
  <2>1. queue' \in Seq(Rollouts) /\ SubSeq(queue, 1, n) \in Seq(Rollouts) /\ Len(SubSeq(queue, 1, n)) = n
    BY <1>3, <2>a, SubSeqProperties, ElementOfSeq
  <2>2. SubSeq(queue, 1, n) \o queue' = SubSeq(queue, 1, Len(queue))
    <3>1. 1 \in 1..(Len(queue) + 1) /\ n \in (1 - 1)..Len(queue) /\ Len(queue) \in n..Len(queue)
      BY <1>3
    <3> QED BY <2>a, <3>1, ConcatAdjacentSubSeq
  <2>3. SubSeq(queue, 1, n) \o queue' = queue
    BY <2>a, <2>2, SubSeqFull
  <2>4. Range(SubSeq(queue, 1, n) \o queue') = Range(SubSeq(queue, 1, n)) \cup Range(queue')
    <3>f. PICK front : front = SubSeq(queue, 1, n)
      OBVIOUS
    <3>b. PICK back : back = queue'
      OBVIOUS
    <3>1. front \in Seq(Rollouts) /\ back \in Seq(Rollouts)
      BY <2>1, <3>f, <3>b
    <3>2. Range(front \o back) = Range(front) \cup Range(back)
      BY <3>1, RangeConcatenation
    <3> QED BY <3>f, <3>b, <3>2
  <2> QED BY <2>1, <2>3, <2>4
<1> HIDE DEF n
<1>5. /\ d \in CallRecords /\ CallInOrder(d) /\ d.got = c.got
      /\ \A r : r \in Range(SubSeq(queue, 1, n)) => Mentions(d, r)
  <2>1. CASE n > 0
    <3>1. d = [c EXCEPT !.pc = "popped", !.popped = SubSeq(queue, 1, n)]
      BY <2>1
    <3>2. /\ d \in CallRecords /\ d.pc = "popped" /\ d.popped = SubSeq(queue, 1, n) /\ d.got = c.got
          /\ d.requeue = {}
      BY <1>1, <1>2, <1>4, <3>1 DEF CallRecords, CallStates
    <3> HIDE DEF d
    <3> QED BY <1>1, <1>3, <1>4, <3>2, StoreAssumption DEF CallInOrder, Mentions
  <2>2. CASE n = 0
    <3>1. d \in {[c EXCEPT !.pc = "sync"], [c EXCEPT !.pc = "mark"]}
      BY <2>2
    <3>2. d \in CallRecords /\ d.pc \in {"sync", "mark"} /\ d.popped = <<>> /\ d.got = c.got /\ d.requeue = {}
      BY <1>1, <1>2, <3>1 DEF CallRecords, CallStates
    <3>3. Range(SubSeq(queue, 1, n)) = {}
      <4>1. SubSeq(queue, 1, n) = <<>>
        BY <2>2, SubSeqEmpty
      <4>2. Range(<<>>) = {}
        BY DEF Range
      <4> QED BY <4>1, <4>2
    <3> HIDE DEF d
    <3> QED BY <1>1, <3>2, <3>3, StoreAssumption DEF CallInOrder
  <2> QED BY <1>3, <2>1, <2>2
<1> HIDE DEF d
<1>6. TypeOK' /\ CallsInOrder'
  BY <1>1, <1>4, <1>5, OneCall DEF IInv, TypeOK
<1>7. HeldExist'
  BY <1>1, <1>5 DEF IInv, HeldExist, Exists, TypeOK
<1>8. QueuedIsCarried'
  <2>1. ~\E r : Mentions(c, r)
    BY <1>2 DEF Mentions, Range
  <2>2. \A r \in Rollouts : rollouts'[r] \in Queuing =>
          \/ Mentions(d, r) \/ r \in Range(queue')
          \/ rollouts[r] \in Queuing /\ r \notin Range(queue) /\ ~Mentions(calls[w], r)
    BY <1>1, <1>4, <1>5, <2>1
  <2> QED BY <1>1, <2>2, CarriedOn DEF IInv, TypeOK
<1>9. SuccessIsEarned'
  BY <1>1 DEF IInv, SuccessIsEarned, Latest
<1> QED BY <1>6, <1>7, <1>8, <1>9 DEF IInv

LEMMA MarkIdleKeeps ==
  ASSUME IInv, NEW w \in Workers, MarkIdle(w)
  PROVE  IInv'
<1>1. w \in Procs /\ calls[w] \in CallRecords /\ CallInOrder(calls[w]) /\ calls[w].pc \in {"mark", "write"}
      /\ UNCHANGED <<rollouts, attempts, queue, holding, manual, crashes, lost, orders, ordered>>
  BY DEF MarkIdle, Procs, IInv, TypeOK, CallsInOrder
<1>2. workers' \in [Workers -> [status : {"idle", "busy", "unknown"}, current : AttemptIds \cup {Nobody}]]
  <2>1. workers \in [Workers -> [status : {"idle", "busy", "unknown"}, current : AttemptIds \cup {Nobody}]]
    BY DEF IInv, TypeOK
  <2>2. workers' = workers \/ workers' = [workers EXCEPT ![w].status = "idle"]
    BY DEF MarkIdle
  <2> QED BY <2>1, <2>2
<1>3. PICK d \in {NoCall, [calls[w] EXCEPT !.pc = "write"]} : calls' = [calls EXCEPT ![w] = d]
  BY <1>1 DEF MarkIdle, IInv, TypeOK
<1>4. calls[w].popped = <<>> /\ calls[w].requeue = {}
  BY <1>1 DEF CallInOrder
<1>5. d \in CallRecords /\ CallInOrder(d) /\ d.got \subseteq calls[w].got
  <2>1. CASE d = NoCall
    BY <2>1, NoCallType DEF NoCall
  <2>2. CASE d = [calls[w] EXCEPT !.pc = "write"]
    <3>1. /\ d \in CallRecords /\ d.pc = "write" /\ d.popped = <<>> /\ d.requeue = {} /\ d.got = calls[w].got
      BY <1>1, <1>4, <2>2 DEF CallRecords, CallStates
    <3> QED BY <1>1, <3>1, StoreAssumption DEF CallInOrder
  <2> QED BY <2>1, <2>2
<1>6. TypeOK' /\ CallsInOrder'
  BY <1>1, <1>2, <1>3, <1>5, OneCall DEF IInv, TypeOK
<1>7. HeldExist'
  BY <1>1, <1>3, <1>5 DEF IInv, HeldExist, Exists, TypeOK
<1>8. QueuedIsCarried'
  <2>1. \A r \in Rollouts : rollouts'[r] \in Queuing =>
          \/ r \in Range(queue')
          \/ rollouts[r] \in Queuing /\ r \notin Range(queue) /\ ~Mentions(calls[w], r)
    BY <1>1, <1>4 DEF Mentions, Range
  <2> QED BY <1>1, <1>3, <2>1, CarriedOn DEF IInv, TypeOK
<1>9. SuccessIsEarned'
  BY <1>1 DEF IInv, SuccessIsEarned, Latest
<1> QED BY <1>6, <1>7, <1>8, <1>9 DEF IInv

-----------------------------------------------------------------------------
(* What happens to attempts, and crashes. *)

LEMMA GiveUpKeeps ==
  ASSUME IInv, NEW w \in Workers, GiveUp(w)
  PROVE  IInv'
<1>1. UNCHANGED <<rollouts, attempts, queue, workers, calls, manual, crashes, lost, orders, ordered>>
  BY DEF GiveUp
<1>2. holding' \in [Workers -> SUBSET AttemptIds] /\ \A v \in Workers : holding'[v] \subseteq holding[v]
  BY DEF GiveUp, IInv, TypeOK
<1>3. TypeOK' /\ CallsInOrder' /\ HeldExist'
  BY <1>1, <1>2 DEF IInv, TypeOK, CallsInOrder, HeldExist, Exists
<1>4. QueuedIsCarried' /\ SuccessIsEarned'
  BY <1>1 DEF IInv, QueuedIsCarried, SuccessIsEarned, Latest
<1> QED BY <1>3, <1>4 DEF IInv

LEMMA CrashKeeps ==
  ASSUME IInv, NEW p \in Procs, Crash(p)
  PROVE  IInv'
<1>1. /\ crashes' = crashes + 1 /\ lost' = lost \cup {r \in Rollouts : Mentions(calls[p], r)}
      /\ calls' = [calls EXCEPT ![p] = NoCall]
      /\ holding' = [w \in Workers |-> IF w = p THEN {} ELSE holding[w]]
      /\ UNCHANGED <<rollouts, attempts, queue, workers, manual, orders, ordered>>
  BY DEF Crash
<1>2. calls' \in [Procs -> CallRecords] /\ CallsInOrder'
  BY <1>1, NoCallType, OneCall DEF IInv, TypeOK
<1> DEFINE cut == {r \in Rollouts : Mentions(calls[p], r)}
<1>3. TypeOK'
  <2>1. cut \subseteq Rollouts
    OBVIOUS
  <2>2. lost' = lost \cup cut
    BY <1>1
  <2> HIDE DEF cut
  <2> QED BY <1>1, <1>2, <2>1, <2>2 DEF IInv, TypeOK
<1>6. HeldExist'
  BY <1>1 DEF IInv, TypeOK, HeldExist, Exists, NoCall
<1>4. QueuedIsCarried'
  <2>1. \A r \in Rollouts : rollouts'[r] \in Queuing =>
          \/ r \in Range(queue')
          \/ rollouts[r] \in Queuing /\ r \notin Range(queue) /\ (~Mentions(calls[p], r) \/ r \in lost')
    BY <1>1
  <2> QED BY <1>1, <2>1, CarriedOn DEF IInv, TypeOK
<1>5. SuccessIsEarned'
  BY <1>1 DEF IInv, SuccessIsEarned, Latest
<1> QED BY <1>2, <1>3, <1>4, <1>5, <1>6 DEF IInv

\* One attempt of a list takes another status.
LEMMA OneStatus ==
  ASSUME NEW a \in Seq(AttemptRecords), NEW k \in DOMAIN a, NEW s \in Life!AttemptStatus
  PROVE  LET b == [a EXCEPT ![k].status = s]
         IN  /\ b \in Seq(AttemptRecords) /\ DOMAIN b = DOMAIN a /\ Len(b) = Len(a)
             /\ \A j \in DOMAIN a : b[j].status = IF j = k THEN s ELSE a[j].status
<1> DEFINE x == [a[k] EXCEPT !.status = s]
           b == [a EXCEPT ![k].status = s]
<1>1. DOMAIN a = 1..Len(a) /\ a[k] \in AttemptRecords
  BY LenProperties, ElementOfSeq
<1>2. x \in AttemptRecords /\ x.status = s
  BY <1>1 DEF AttemptRecords
<1>3. b = [a EXCEPT ![k] = x]
  OBVIOUS
<1> HIDE DEF x
<1>4. b \in Seq(AttemptRecords) /\ Len(b) = Len(a) /\ \A j \in 1..Len(a) : b[j] = IF j = k THEN x ELSE a[j]
  BY <1>1, <1>2, <1>3, ExceptSeq
<1>5. DOMAIN b = 1..Len(b)
  BY <1>4, LenProperties
<1> QED BY <1>1, <1>2, <1>4, <1>5

\* A list may be replaced by one with the same places.
LEMMA SamePlaces ==
  ASSUME HeldExist, TypeOK, NEW G \in SUBSET AttemptIds,
         \A r \in Rollouts : DOMAIN attempts[r] \subseteq DOMAIN attempts'[r],
         \A w \in Workers : holding'[w] \subseteq holding[w],
         \A p \in Procs : calls'[p].got \subseteq calls[p].got \cup G,
         \A id \in G : Exists(id)'
  PROVE  HeldExist'
<1>1. \A id \in AttemptIds : Exists(id) => Exists(id)'
  BY DEF Exists, AttemptIds
<1>2. \A w \in Workers : \A id \in holding'[w] : id \in AttemptIds /\ Exists(id)
  BY DEF HeldExist, TypeOK
<1>3. \A p \in Procs : \A id \in calls'[p].got : id \in G \/ (id \in AttemptIds /\ Exists(id))
  BY DEF HeldExist, TypeOK, CallRecords
<1> QED BY <1>1, <1>2, <1>3 DEF HeldExist, Exists

LEMMA SpanKeeps ==
  ASSUME IInv, NEW r \in Rollouts, NEW k \in DOMAIN attempts[r], Span(r, k)
  PROVE  IInv'
<1> DEFINE s == IF attempts[r][k].status \in {"preparing", "unresponsive"} THEN "running" ELSE attempts[r][k].status
           b == [attempts[r] EXCEPT ![k].status = s]
<1>1. /\ attempts' = [attempts EXCEPT ![r] = b]
      /\ rollouts' = [rollouts EXCEPT ![r] =
           IF k = Latest(r) /\ @ \in {"preparing", "requeuing"} THEN "running" ELSE @]
      /\ ordered' = IF rollouts' = rollouts THEN ordered ELSE ordered \ {r}
      /\ UNCHANGED <<queue, workers, calls, holding, manual, crashes, lost, orders>>
  BY DEF Span
<1>2. attempts[r] \in Seq(AttemptRecords) /\ attempts[r][k] \in AttemptRecords
  BY LenProperties, ElementOfSeq DEF IInv, TypeOK
<1>3. s \in Life!AttemptStatus
  BY <1>2 DEF AttemptRecords, Life!AttemptStatus, Life!Live
<1> HIDE DEF s
<1>4. /\ b \in Seq(AttemptRecords) /\ DOMAIN b = DOMAIN attempts[r] /\ Len(b) = Len(attempts[r])
      /\ \A j \in DOMAIN attempts[r] : b[j].status = IF j = k THEN s ELSE attempts[r][j].status
  BY <1>2, <1>3, OneStatus
<1> HIDE DEF b
<1>5. \A q \in Rollouts : attempts'[q] = IF q = r THEN b ELSE attempts[q]
  BY <1>1 DEF IInv, TypeOK
<1>6. TypeOK'
  BY <1>1, <1>4 DEF IInv, TypeOK, Life!RolloutStatus, Life!Live
<1>7. CallsInOrder'
  BY <1>1 DEF IInv, CallsInOrder
<1>8. HeldExist'
  <2>1. \A q \in Rollouts : DOMAIN attempts[q] \subseteq DOMAIN attempts'[q]
    BY <1>4, <1>5
  <2>2. \A p \in Procs : calls'[p].got \subseteq calls[p].got \cup {}
    BY <1>1
  <2>3. \A w \in Workers : holding'[w] \subseteq holding[w]
    BY <1>1
  <2>4. {} \in SUBSET AttemptIds /\ \A id \in {} : Exists(id)'
    OBVIOUS
  <2>5. HeldExist /\ TypeOK
    BY DEF IInv
  <2> QED BY <2>1, <2>2, <2>3, <2>4, <2>5, SamePlaces
<1>9. QueuedIsCarried'
  BY <1>1 DEF IInv, TypeOK, QueuedIsCarried, Queuing, Life!Queuing
<1>10. SuccessIsEarned'
  <2>1. ASSUME NEW q \in Rollouts, q # r PROVE Earned(q)'
    BY <1>1, <1>5, <2>1, EarnedOn DEF IInv, TypeOK
  <2>2. Earned(r)'
    <3>1. SUFFICES ASSUME rollouts'[r] \in {"succeeded", "failed"}, r \notin ordered'
                   PROVE  Len(b) > 0 /\ (rollouts'[r] = "succeeded" <=> b[Len(b)].status = "succeeded")
      BY <1>1, <1>5 DEF Earned, Latest
    <3>2. rollouts'[r] = rollouts[r] /\ rollouts' = rollouts /\ r \notin ordered
      BY <1>1, <3>1 DEF IInv, TypeOK
    <3>3. Len(attempts[r]) > 0 /\ (rollouts[r] = "succeeded" <=> attempts[r][Len(attempts[r])].status = "succeeded")
      BY <3>1, <3>2 DEF IInv, SuccessIsEarned, Latest
    <3>4. Len(attempts[r]) \in DOMAIN attempts[r]
      BY <1>2, <3>3, LenProperties
    <3> QED BY <1>4, <3>2, <3>3, <3>4 DEF s
  <2> QED BY <2>1, <2>2 DEF SuccessIsEarned, Earned
<1> QED BY <1>6, <1>7, <1>8, <1>9, <1>10 DEF IInv

\* _unlocked_update_attempt_and_rollout, and what the call has left to do.
LEMMA UpdateAttemptsKeeps ==
  ASSUME IInv, NEW p \in Procs, calls[p].pc = "idle", NEW found \in SUBSET Rollouts,
         NEW U \in [found -> [k : Nat \ {0}, s : Life!AttemptStatus]],
         \A r \in found : U[r].k \in DOMAIN attempts[r],
         UpdateAttempts(U),
         calls' = [calls EXCEPT ![p] = AfterUpdate({[r |-> r, k |-> U[r].k] : r \in found})],
         holding' \in [Workers -> SUBSET AttemptIds],
         \A w \in Workers : holding'[w] \subseteq holding[w],
         UNCHANGED <<queue, workers, manual, crashes, lost, orders>>
  PROVE  IInv'
<1> DEFINE ids == {[r |-> r, k |-> U[r].k] : r \in found}
           b(r) == [attempts[r] EXCEPT ![U[r].k].status = U[r].s]
<1>1. /\ \A r \in Rollouts : attempts'[r] = IF r \in found THEN b(r) ELSE attempts[r]
      /\ \A r \in Rollouts : rollouts'[r] =
           IF r \in found /\ U[r].k = Latest(r) THEN Life!StatusFromAttempt(r, U[r].k, U[r].s) ELSE rollouts[r]
  BY DEF UpdateAttempts
<1>2. \A r \in found :
        /\ b(r) \in Seq(AttemptRecords) /\ DOMAIN b(r) = DOMAIN attempts[r] /\ Len(b(r)) = Len(attempts[r])
        /\ \A j \in DOMAIN attempts[r] : b(r)[j].status = IF j = U[r].k THEN U[r].s ELSE attempts[r][j].status
  BY OneStatus DEF IInv, TypeOK
<1> HIDE DEF b
<1>3. attempts' \in [Rollouts -> Seq(AttemptRecords)]
  BY <1>2 DEF UpdateAttempts, IInv, TypeOK, b
<1>4. rollouts' \in [Rollouts -> Life!RolloutStatus \cup {"none"}]
  <2>1. \A r \in found : Life!StatusFromAttempt(r, U[r].k, U[r].s) \in Life!RolloutStatus
    BY StatusType
  <2> QED BY <2>1 DEF UpdateAttempts, IInv, TypeOK
<1>5. ids \in SUBSET AttemptIds /\ \A id \in ids : id.k \in DOMAIN attempts'[id.r]
  BY <1>1, <1>2 DEF AttemptIds
<1>6. /\ AfterUpdate(ids) \in CallRecords /\ CallInOrder(AfterUpdate(ids)) /\ AfterUpdate(ids).got = {}
      /\ \A id \in ids : rollouts'[id.r] # rollouts[id.r] /\ rollouts'[id.r] \in Queuing
                           => Mentions(AfterUpdate(ids), id.r)
  BY <1>3, <1>5, AfterUpdateLeaves
<1>7. \A r \in found : rollouts'[r] # rollouts[r] /\ rollouts'[r] \in Queuing => Mentions(AfterUpdate(ids), r)
  <2> TAKE r \in found
  <2> DEFINE id == [r |-> r, k |-> U[r].k]
  <2>1. id \in ids /\ id.r = r
    OBVIOUS
  <2> HIDE DEF id, ids
  <2> QED BY <1>6, <2>1
<1> HIDE DEF ids
<1>8. calls' = [calls EXCEPT ![p] = AfterUpdate(ids)]
  BY DEF ids
<1>9. TypeOK' /\ CallsInOrder'
  <2>1. ordered' \in SUBSET Rollouts
    BY DEF UpdateAttempts, IInv, TypeOK
  <2> QED BY <2>1, <1>3, <1>4, <1>6, <1>8, OneCall DEF IInv, TypeOK
<1>10. HeldExist'
  BY <1>1, <1>2, <1>6, <1>8, SamePlaces DEF IInv, TypeOK
<1>11. QueuedIsCarried'
  <2>1. \A r \in Rollouts : rollouts'[r] \in Queuing =>
          Mentions(AfterUpdate(ids), r) \/ (rollouts[r] \in Queuing /\ ~Mentions(calls[p], r))
    BY <1>1, <1>7, IdleMentionsNothing DEF IInv
  <2> QED BY <1>8, <2>1, CarriedOn DEF IInv, TypeOK
<1>12. SuccessIsEarned'
  <2>0. ordered' = {r \in ordered : ~(r \in found /\ U[r].k = Latest(r))}
    BY DEF UpdateAttempts
  <2>1. ASSUME NEW r \in Rollouts, r \notin found PROVE Earned(r)'
    BY <1>1, <2>0, <2>1, EarnedOn DEF IInv
  <2>2. ASSUME NEW r \in found PROVE Earned(r)'
    <3>1. SUFFICES ASSUME rollouts'[r] \in {"succeeded", "failed"}, r \notin ordered'
                   PROVE  Len(b(r)) > 0 /\ (rollouts'[r] = "succeeded" <=> b(r)[Len(b(r))].status = "succeeded")
      BY <1>1 DEF Earned, Latest
    <3>2. attempts[r] \in Seq(AttemptRecords) /\ U[r].k \in DOMAIN attempts[r]
      BY DEF IInv, TypeOK
    <3>3. DOMAIN attempts[r] = 1..Len(attempts[r]) /\ Len(attempts[r]) \in Nat
      BY <3>2, LenProperties
    <3>4. CASE U[r].k = Latest(r)
      <4>1. rollouts'[r] = "succeeded" <=> U[r].s = "succeeded"
        BY <1>1, <3>4, StatusSucceeds
      <4> QED BY <1>2, <3>2, <3>3, <3>4, <4>1 DEF Latest
    <3>5. CASE U[r].k # Latest(r)
      <4>1. rollouts'[r] = rollouts[r] /\ r \notin ordered
        BY <1>1, <2>0, <3>1, <3>5
      <4>2. Len(attempts[r]) > 0 /\ (rollouts[r] = "succeeded" <=> attempts[r][Len(attempts[r])].status = "succeeded")
        BY <3>1, <4>1 DEF IInv, SuccessIsEarned, Latest
      <4> QED BY <1>2, <3>3, <3>5, <4>1, <4>2 DEF Latest
    <3> QED BY <3>4, <3>5
  <2> QED BY <2>1, <2>2 DEF SuccessIsEarned, Earned
<1> QED BY <1>9, <1>10, <1>11, <1>12 DEF IInv

LEMMA ReportKeeps ==
  ASSUME IInv, NEW w \in Workers, NEW s \in {"succeeded", "failed"}, Report(w, s)
  PROVE  IInv'
<1>1. PICK id \in holding[w] :
        /\ UpdateAttempts([r \in {id.r} |-> [k |-> id.k, s |-> s]])
        /\ holding' = [holding EXCEPT ![w] = @ \ {id}]
        /\ calls' = [calls EXCEPT ![w] = AfterUpdate({id})]
  BY DEF Report
<1> DEFINE found == {id.r}
           U == [r \in found |-> [k |-> id.k, s |-> s]]
<1>2. id \in AttemptIds /\ Exists(id) /\ w \in Procs /\ calls[w].pc = "idle"
      /\ UNCHANGED <<queue, workers, manual, crashes, lost, orders>>
  BY DEF IInv, TypeOK, HeldExist, Report, Procs
<1>3. found \in SUBSET Rollouts /\ U \in [found -> [k : Nat \ {0}, s : Life!AttemptStatus]]
      /\ \A r \in found : U[r].k \in DOMAIN attempts[r]
  BY <1>2 DEF AttemptIds, Exists, Life!AttemptStatus
<1>4. {[r |-> r, k |-> U[r].k] : r \in found} = {id}
  BY <1>2 DEF AttemptIds
<1>5. UpdateAttempts(U) /\ calls' = [calls EXCEPT ![w] = AfterUpdate({[r |-> r, k |-> U[r].k] : r \in found})]
  BY <1>1, <1>4
<1>6. holding' \in [Workers -> SUBSET AttemptIds] /\ \A v \in Workers : holding'[v] \subseteq holding[v]
  BY <1>1 DEF IInv, TypeOK
<1> HIDE DEF found, U
<1> QED BY <1>2, <1>3, <1>5, <1>6, UpdateAttemptsKeeps

LEMMA ScanAllKeeps ==
  ASSUME IInv, ScanAll
  PROVE  IInv'
<1>1. PICK found \in SUBSET Unhealthy : Scan(found)
  BY DEF ScanAll
<1>2. PICK S \in [found -> TimeLimits] :
        /\ \A r \in found : Latest(r) > 0
        /\ UpdateAttempts([r \in found |-> [k |-> Latest(r), s |-> S[r]]])
  BY <1>1 DEF Scan
<1> DEFINE U == [r \in found |-> [k |-> Latest(r), s |-> S[r]]]
<1>3. found \in SUBSET Rollouts /\ "watchdog" \in Procs /\ calls["watchdog"].pc = "idle"
      /\ UNCHANGED <<queue, workers, holding, manual, crashes, lost, orders>>
      /\ calls' = [calls EXCEPT !["watchdog"] = AfterUpdate({[r |-> r, k |-> Latest(r)] : r \in found})]
  BY <1>1 DEF Scan, Unhealthy, Procs
<1>4. \A r \in found : Latest(r) \in Nat \ {0} /\ Latest(r) \in DOMAIN attempts[r]
  BY <1>2, <1>3 DEF IInv, TypeOK, Latest
<1>5. U \in [found -> [k : Nat \ {0}, s : Life!AttemptStatus]] /\ \A r \in found : U[r].k \in DOMAIN attempts[r]
  BY <1>4 DEF Life!AttemptStatus, TimeLimits
<1>6. {[r |-> r, k |-> U[r].k] : r \in found} = {[r |-> r, k |-> Latest(r)] : r \in found}
  OBVIOUS
<1>7. UpdateAttempts(U) /\ calls' = [calls EXCEPT !["watchdog"] = AfterUpdate({[r |-> r, k |-> U[r].k] : r \in found})]
  BY <1>2, <1>3, <1>6
<1>8. holding' \in [Workers -> SUBSET AttemptIds] /\ \A v \in Workers : holding'[v] \subseteq holding[v]
  BY <1>3 DEF IInv, TypeOK
<1> HIDE DEF U
<1> QED BY <1>3, <1>5, <1>7, <1>8, UpdateAttemptsKeeps

-----------------------------------------------------------------------------
(* The claim of what a pop took. *)

\* The new attempts of one rollout, and how many there are.
ValidPlaces(c) == {i \in DOMAIN c.popped : rollouts[c.popped[i]] \in Queuing}
Places(c, r) == {i \in ValidPlaces(c) : c.popped[i] = r}
NewIds(c, r) == {[r |-> r, k |-> Latest(r) + n] : n \in 1..Cardinality(Places(c, r))}

LEMMA PlacesFinite ==
  ASSUME NEW c \in CallRecords, NEW r
  PROVE  /\ IsFiniteSet(Places(c, r)) /\ Cardinality(Places(c, r)) \in Nat
         /\ Cardinality(Places(c, r)) <= Len(c.popped)
         /\ Cardinality(Places(c, r)) = 0 <=> Places(c, r) = {}
<1>1. c.popped \in Seq(Rollouts)
  BY DEF CallRecords
<1>2. DOMAIN c.popped = 1..Len(c.popped) /\ Len(c.popped) \in Nat
  BY <1>1, LenProperties
<1>3. IsFiniteSet(1..Len(c.popped)) /\ Cardinality(1..Len(c.popped)) = Len(c.popped)
  BY <1>2, FS_Interval
<1>4. Places(c, r) \in SUBSET (1..Len(c.popped))
  BY <1>2 DEF Places, ValidPlaces
<1> QED BY <1>3, <1>4, FS_Subset, FS_CardinalityType, FS_EmptySet

LEMMA NewIdsFinite ==
  ASSUME NEW c \in CallRecords, TypeOK
  PROVE  /\ UNION {NewIds(c, r) : r \in Rollouts} \in SUBSET AttemptIds
         /\ IsFiniteSet(UNION {NewIds(c, r) : r \in Rollouts})
<1>1. \A r \in Rollouts : Latest(r) \in Nat /\ Cardinality(Places(c, r)) \in Nat
  BY PlacesFinite DEF TypeOK, Latest
<1>2. \A r \in Rollouts : IsFiniteSet(NewIds(c, r)) /\ NewIds(c, r) \subseteq AttemptIds
  <2> TAKE r \in Rollouts
  <2> DEFINE m == Cardinality(Places(c, r))
             f == [n \in 1..m |-> [r |-> r, k |-> Latest(r) + n]]
  <2>1. m \in Nat
    BY <1>1
  <2> HIDE DEF m
  <2>2. NewIds(c, r) = {[r |-> r, k |-> Latest(r) + n] : n \in 1..m}
    BY DEF NewIds, m
  <2>3. f \in Surjection(1..m, NewIds(c, r))
    BY <2>2 DEF Surjection
  <2>4. IsFiniteSet(1..m)
    BY <2>1, FS_Interval
  <2>5. IsFiniteSet(NewIds(c, r))
    BY <2>3, <2>4, FS_Surjection
  <2>6. NewIds(c, r) \subseteq AttemptIds
    BY <1>1, <2>1, <2>2 DEF AttemptIds
  <2> QED BY <2>5, <2>6
<1> DEFINE all == {NewIds(c, r) : r \in Rollouts}
           g == [r \in Rollouts |-> NewIds(c, r)]
<1>3. g \in Surjection(Rollouts, all)
  BY DEF Surjection
<1>4. IsFiniteSet(all)
  BY <1>3, StoreAssumption, FS_Surjection
<1>5. \A T \in all : IsFiniteSet(T) /\ T \subseteq AttemptIds
  BY <1>2
<1> HIDE DEF all
<1>6. IsFiniteSet(UNION all) /\ UNION all \in SUBSET AttemptIds
  BY <1>4, <1>5, FS_UNION
<1> QED BY <1>6 DEF all

LEMMA NewAttempts ==
  ASSUME NEW w \in Workers, NEW m \in Nat
  PROVE  LET t == [n \in 1..m |-> NewAttempt(w)]
         IN  t \in Seq(AttemptRecords) /\ Len(t) = m /\ (m = 0 => t = <<>>)
<1>1. NewAttempt(w) \in AttemptRecords
  BY DEF NewAttempt, AttemptRecords, Life!AttemptStatus, Life!Live
<1> QED BY <1>1

\* Claim, in these terms.
LEMMA ClaimSays ==
  ASSUME NEW w \in Workers, Claim(w)
  PROVE  LET c == calls[w]
             Times(r) == Cardinality(Places(c, r))
             got == c.got \cup UNION {NewIds(c, r) : r \in Rollouts}
             newest(r) == [id |-> [r |-> r, k |-> Latest(r) + Times(r)], status |-> "preparing", worker |-> w]
         IN  /\ c.pc = "popped"
             /\ attempts' = [r \in Rollouts |-> attempts[r] \o [n \in 1..Times(r) |-> NewAttempt(w)]]
             /\ rollouts' = [r \in Rollouts |-> IF Times(r) > 0 THEN "preparing" ELSE rollouts[r]]
             /\ \E last \in SUBSET ValidPlaces(c) :
                  calls' = [calls EXCEPT ![w] =
                    [c EXCEPT !.popped = <<>>, !.got = got,
                              !.pc = IF Cardinality(got) < BatchSize THEN "pop" ELSE "sync",
                              !.syncs = IF ValidPlaces(c) = {} THEN c.syncs
                                        ELSE {newest(c.popped[i]) : i \in last}]]
             /\ ordered' = {r \in ordered : Times(r) = 0}
             /\ UNCHANGED <<queue, workers, holding, manual, crashes, lost, orders>>
<1> DEFINE valid == ValidPlaces(calls[w])
           last == {j \in valid : \A l \in valid : l <= j}
<1>1. last \in SUBSET valid
  OBVIOUS
<1> QED BY <1>1 DEF Claim, Places, ValidPlaces, NewIds

LEMMA ClaimKeeps ==
  ASSUME IInv, NEW w \in Workers, Claim(w)
  PROVE  IInv'
<1> DEFINE c == calls[w]
           Times(r) == Cardinality(Places(c, r))
           new == UNION {NewIds(c, r) : r \in Rollouts}
           got == c.got \cup new
           newest(r) == [id |-> [r |-> r, k |-> Latest(r) + Times(r)], status |-> "preparing", worker |-> w]
<1>1. /\ c.pc = "popped" /\ w \in Procs /\ c \in CallRecords /\ CallInOrder(c)
      /\ attempts' = [r \in Rollouts |-> attempts[r] \o [n \in 1..Times(r) |-> NewAttempt(w)]]
      /\ rollouts' = [r \in Rollouts |-> IF Times(r) > 0 THEN "preparing" ELSE rollouts[r]]
      /\ ordered' = {r \in ordered : Times(r) = 0}
      /\ UNCHANGED <<queue, workers, holding, manual, crashes, lost, orders>>
  BY ClaimSays DEF IInv, TypeOK, CallsInOrder, Procs
<1>2. PICK last \in SUBSET ValidPlaces(c) :
        calls' = [calls EXCEPT ![w] =
          [c EXCEPT !.popped = <<>>, !.got = got,
                    !.pc = IF Cardinality(got) < BatchSize THEN "pop" ELSE "sync",
                    !.syncs = IF ValidPlaces(c) = {} THEN c.syncs ELSE {newest(c.popped[i]) : i \in last}]]
  BY ClaimSays
<1> DEFINE pc == IF Cardinality(got) < BatchSize THEN "pop" ELSE "sync"
           syncs == IF ValidPlaces(c) = {} THEN c.syncs ELSE {newest(c.popped[i]) : i \in last}
           d == [c EXCEPT !.popped = <<>>, !.got = got, !.pc = pc, !.syncs = syncs]
<1>3. calls' = [calls EXCEPT ![w] = d]
  BY <1>2
<1>4. \A r \in Rollouts : /\ Times(r) \in Nat /\ (Times(r) = 0 <=> Places(c, r) = {})
                          /\ attempts[r] \in Seq(AttemptRecords) /\ Latest(r) \in Nat
  BY <1>1, PlacesFinite DEF IInv, TypeOK, Latest
<1>5. new \in SUBSET AttemptIds /\ IsFiniteSet(new)
  BY <1>1, NewIdsFinite DEF IInv
<1>6. c.popped \in Seq(Rollouts) /\ c.requeue = {} /\ IsFiniteSet(c.got)
  BY <1>1 DEF CallRecords, CallInOrder
<1>7. \A i \in ValidPlaces(c) : c.popped[i] \in Rollouts /\ Times(c.popped[i]) > 0
  <2> TAKE i \in ValidPlaces(c)
  <2>1. c.popped[i] \in Rollouts
    BY <1>6, LenProperties, ElementOfSeq DEF ValidPlaces
  <2>2. i \in Places(c, c.popped[i])
    BY DEF Places
  <2> HIDE DEF c
  <2> QED BY <1>4, <2>1, <2>2
<1>8. syncs \in SUBSET Copies
  <2>1. \A i \in ValidPlaces(c) : newest(c.popped[i]) \in Copies
    BY <1>4, <1>7 DEF Copies, AttemptIds, Life!AttemptStatus, Life!Live
  <2>2. c.syncs \in SUBSET Copies
    BY <1>1 DEF CallRecords
  <2> HIDE DEF newest
  <2> QED BY <2>1, <2>2
<1>9. got \in SUBSET AttemptIds /\ IsFiniteSet(got)
  BY <1>1, <1>5, <1>6, FS_Union DEF CallRecords
<1>10. pc \in {"pop", "sync"} /\ (pc = "pop" => Cardinality(got) < BatchSize)
  OBVIOUS
<1>11. \A r \in Rollouts : /\ attempts'[r] \in Seq(AttemptRecords)
                           /\ DOMAIN attempts'[r] = 1..(Latest(r) + Times(r))
                           /\ Times(r) = 0 => attempts'[r] = attempts[r]
  <2> TAKE r \in Rollouts
  <2> DEFINE t == [n \in 1..Times(r) |-> NewAttempt(w)]
  <2>1. attempts'[r] = attempts[r] \o t
    BY <1>1
  <2> HIDE DEF Times
  <2>2. t \in Seq(AttemptRecords) /\ Len(t) = Times(r) /\ (Times(r) = 0 => t = <<>>)
    BY <1>4, NewAttempts
  <2> HIDE DEF t
  <2>3. attempts'[r] \in Seq(AttemptRecords) /\ Len(attempts'[r]) = Latest(r) + Times(r)
    <3>1. attempts[r] \in Seq(AttemptRecords) /\ Len(attempts[r]) = Latest(r)
      BY <1>4 DEF Latest
    <3>2. attempts[r] \o t \in Seq(AttemptRecords) /\ Len(attempts[r] \o t) = Len(attempts[r]) + Len(t)
      BY <2>2, <3>1, ConcatProperties
    <3> QED BY <2>1, <2>2, <3>1, <3>2
  <2>4. Times(r) = 0 => attempts'[r] = attempts[r]
    BY <1>4, <2>1, <2>2, ConcatEmptySeq
  <2>5. DOMAIN attempts'[r] = 1..Len(attempts'[r])
    BY <2>3, LenProperties
  <2> QED BY <2>3, <2>4, <2>5
<1> HIDE DEF c, Times, new, got, newest, syncs, pc
<1>12. d \in CallRecords /\ d.pc = pc /\ d.popped = <<>> /\ d.requeue = {} /\ d.got = got
  <2>1. pc \in CallStates
    BY <1>10 DEF CallStates
  <2>2. d \in CallRecords /\ d.pc = pc /\ d.popped = <<>> /\ d.requeue = c.requeue /\ d.got = got
    <3>1. c \in CallRecords /\ got \in SUBSET AttemptIds /\ syncs \in SUBSET Copies
      BY <1>1, <1>8, <1>9
    <3>2. <<>> \in Seq(Rollouts)
      OBVIOUS
    <3> QED BY <2>1, <3>1, <3>2 DEF CallRecords
  <2> QED BY <1>6, <2>2
<1> HIDE DEF d
<1>13. CallInOrder(d)
  BY <1>9, <1>10, <1>12, StoreAssumption DEF CallInOrder
<1>14. TypeOK' /\ CallsInOrder'
  <2>1. attempts' \in [Rollouts -> Seq(AttemptRecords)]
    BY <1>1, <1>11
  <2>2. rollouts' \in [Rollouts -> Life!RolloutStatus \cup {"none"}]
    BY <1>1 DEF IInv, TypeOK, Life!RolloutStatus, Life!Live
  <2>3. ordered' \in SUBSET Rollouts
    BY <1>1 DEF IInv, TypeOK
  <2> QED BY <1>1, <1>3, <1>12, <1>13, <2>1, <2>2, <2>3, OneCall DEF IInv, TypeOK
<1>15. HeldExist'
  <2>1. \A r \in Rollouts : DOMAIN attempts[r] \subseteq DOMAIN attempts'[r]
    BY <1>4, <1>11, LenProperties DEF Latest
  <2>2. \A p \in Procs : calls'[p].got \subseteq calls[p].got \cup new
    BY <1>3, <1>12 DEF IInv, TypeOK, c, got
  <2>3. \A v \in Workers : holding'[v] \subseteq holding[v]
    BY <1>1
  <2>4. \A id \in new : Exists(id)'
    BY <1>4, <1>11 DEF new, NewIds, Exists, Times
  <2> QED BY <1>5, <2>1, <2>2, <2>3, <2>4, SamePlaces DEF IInv
<1>16. QueuedIsCarried'
  <2>1. SUFFICES ASSUME NEW r \in Rollouts, rollouts'[r] \in Queuing
                 PROVE  rollouts[r] \in Queuing /\ ~Mentions(calls[w], r)
    BY <1>1, <1>3, CarriedOn DEF IInv, TypeOK
  <2>2. Times(r) = 0 /\ rollouts[r] \in Queuing
    BY <1>1, <1>4, <2>1 DEF Queuing, Life!Queuing
  <2>3. Places(c, r) = {}
    BY <1>4, <2>2
  <2>4. r \notin Range(c.popped)
    BY <2>2, <2>3 DEF Places, ValidPlaces, Range
  <2> QED BY <1>6, <2>2, <2>4 DEF Mentions, c
<1>17. SuccessIsEarned'
  <2> SUFFICES ASSUME NEW r \in Rollouts PROVE Earned(r)'
    BY DEF SuccessIsEarned, Earned
  <2>1. CASE Times(r) = 0
    BY <1>1, <1>4, <1>11, <2>1, EarnedOn DEF IInv
  <2>2. CASE Times(r) # 0
    <3>1. rollouts'[r] = "preparing"
      BY <1>1, <1>4, <2>2
    <3> QED BY <3>1 DEF Earned
  <2> QED BY <2>1, <2>2
<1> QED BY <1>14, <1>15, <1>16, <1>17 DEF IInv

-----------------------------------------------------------------------------
LEMMA InitHolds == Init => IInv
<1> SUFFICES ASSUME Init PROVE IInv
  OBVIOUS
<1>1. TypeOK
  BY NoCallType DEF Init, TypeOK
<1>2. CallsInOrder
  BY NoCallType DEF Init, CallsInOrder
<1>3. HeldExist
  BY DEF Init, HeldExist, NoCall
<1>4. QueuedIsCarried /\ SuccessIsEarned
  BY DEF Init, QueuedIsCarried, SuccessIsEarned, Queuing, Life!Queuing
<1> QED BY <1>1, <1>2, <1>3, <1>4 DEF IInv

LEMMA StepKeeps == IInv /\ [Next]_vars => IInv'
<1> SUFFICES ASSUME IInv, [Next]_vars PROVE IInv'
  OBVIOUS
<1>1. ASSUME NEW r \in Rollouts, Submit(r) PROVE IInv'
  BY <1>1, SubmitKeeps
<1>2. ASSUME NEW r \in Rollouts, NEW s \in RolloutStatus, UpdateRollout(r, s) PROVE IInv'
  BY <1>2, UpdateRolloutKeeps
<1>3. ASSUME NEW w \in Workers, NEW r \in Rollouts, StartRollout(w, r) \/ StartAttempt(w, r) PROVE IInv'
  <2>1. manual' \in [Rollouts -> Nat] /\ orders' \in Nat
    <3>1. manual \in [Rollouts -> Nat] /\ orders \in Nat
      BY DEF IInv, TypeOK
    <3>2. (manual' = manual \/ manual' = [manual EXCEPT ![r] = @ + 1]) /\ orders' \in {orders, orders + 1}
      BY <1>3 DEF StartRollout, StartAttempt
    <3> QED BY <3>1, <3>2
  <2> QED BY <1>3, <2>1, BeginAttemptKeeps DEF StartRollout, StartAttempt
<1>4. ASSUME NEW w \in Workers, Runner(w) PROVE IInv'
  BY <1>4, PopKeeps, ClaimKeeps, MarkIdleKeeps, ReportKeeps, GiveUpKeeps DEF Runner
<1>5. ASSUME NEW r \in Rollouts, NEW k \in DOMAIN attempts[r], Span(r, k) PROVE IInv'
  BY <1>5, SpanKeeps
<1>6. CASE ScanAll
  BY <1>6, ScanAllKeeps
<1>7. ASSUME NEW p \in Procs, Finish(p) \/ Crash(p) PROVE IInv'
  BY <1>7, SkipQueuedKeeps, RequeueKeeps, SyncWorkersKeeps, CrashKeeps DEF Finish
<1>8. CASE UNCHANGED vars
  BY <1>8 DEF vars, IInv, TypeOK, CallsInOrder, HeldExist, Exists, QueuedIsCarried, SuccessIsEarned, Latest
<1> QED BY <1>1, <1>2, <1>3, <1>4, <1>5, <1>6, <1>7, <1>8 DEF Next

LEMMA Invariance == SafetySpec => []IInv
BY InitHolds, StepKeeps, PTL DEF SafetySpec

\* Every variable of the store keeps its type, whatever the sections of the
\* calls, the scans, the spans and the crashes do in between.
THEOREM StoreTypes == SafetySpec => []TypeOK
BY Invariance, PTL DEF IInv

\* A rollout that waits to be dequeued is in the queue, or a call in progress
\* will put it there or has just taken it, unless a crash cut that call.
THEOREM QueuedCarried == Spec => []QueuedIsCarried
BY Invariance, PTL DEF IInv, Spec

\* A rollout that has succeeded or failed, and was not told to by
\* update_rollout, has succeeded if and only if its last attempt has.
THEOREM SuccessEarned == Spec => []SuccessIsEarned
BY Invariance, PTL DEF IInv, Spec

-----------------------------------------------------------------------------
(* What an action does to one rollout: nothing, a new attempt, or another  *)
(* status of one attempt.                                                  *)

Kept(r) == rollouts'[r] = rollouts[r] /\ (r \in ordered' <=> r \in ordered)
Untouched(r) == attempts'[r] = attempts[r] /\ manual'[r] >= manual[r]

Begun(r) == \E w \in Workers :
  /\ attempts'[r] = Append(attempts[r], NewAttempt(w)) /\ rollouts'[r] = "preparing" /\ r \notin ordered'
  /\ \/ rollouts[r] = "none" /\ manual'[r] = manual[r]
     \/ rollouts[r] # "none" /\ manual'[r] = manual[r] + 1

Claimed(r) == \E w \in Workers, m \in 1..BatchSize :
  /\ attempts'[r] = attempts[r] \o [n \in 1..m |-> NewAttempt(w)] /\ rollouts'[r] = "preparing" /\ r \notin ordered'
  /\ rollouts[r] \in Queuing /\ manual'[r] = manual[r]

Woken(r) == \E k \in DOMAIN attempts[r] :
  /\ attempts'[r] = [attempts[r] EXCEPT ![k].status =
                       IF @ \in {"preparing", "unresponsive"} THEN "running" ELSE @]
  /\ IF k = Latest(r) /\ rollouts[r] \in {"preparing", "requeuing"}
     THEN rollouts'[r] = "running" /\ r \notin ordered' ELSE Kept(r)
  /\ manual'[r] = manual[r]

Settled(r) == \E k \in DOMAIN attempts[r], s \in TimeLimits \cup {"failed", "succeeded"} :
  /\ s \in TimeLimits => k = Latest(r) /\ rollouts[r] \in Live /\ s \in Limits[r]
  /\ attempts'[r] = [attempts[r] EXCEPT ![k].status = s]
  /\ IF k = Latest(r) THEN rollouts'[r] = Life!StatusFromAttempt(r, k, s) /\ r \notin ordered' ELSE Kept(r)
  /\ manual'[r] = manual[r]

Submitted(r) == rollouts[r] = "none" /\ rollouts'[r] = "queuing" /\ Untouched(r) /\ r \notin ordered'

Ordered(r) ==
  /\ rollouts[r] # "none" /\ Untouched(r)
  /\ rollouts'[r] \in RolloutStatus /\ r \in ordered'
  /\ rollouts'[r] \in Queuing => manual'[r] = manual[r] + 1

MovesOn(r) ==
  \/ Untouched(r) /\ Kept(r)
  \/ Submitted(r) \/ Ordered(r) \/ Begun(r) \/ Claimed(r) \/ Woken(r) \/ Settled(r)

\* A report and a scan settle the attempts they name, and no other.
LEMMA SettledOrNot ==
  ASSUME TypeOK, NEW U, UpdateAttempts(U), manual' = manual,
         \A r \in DOMAIN U : r \in Rollouts =>
           /\ U[r].k \in DOMAIN attempts[r] /\ U[r].s \in TimeLimits \cup {"failed", "succeeded"}
           /\ U[r].s \in TimeLimits => U[r].k = Latest(r) /\ rollouts[r] \in Live /\ U[r].s \in Limits[r]
  PROVE  \A r \in Rollouts : MovesOn(r)
<1> TAKE r \in Rollouts
<1>1. CASE r \in DOMAIN U
  <2>1. Settled(r)
    BY <1>1 DEF UpdateAttempts, Settled, Kept
  <2> QED BY <2>1 DEF MovesOn
<1>2. CASE r \notin DOMAIN U
  BY <1>2 DEF UpdateAttempts, MovesOn, Untouched, Kept, TypeOK
<1> QED BY <1>1, <1>2

LEMMA ClaimMoves ==
  ASSUME IInv, NEW w \in Workers, Claim(w), NEW r \in Rollouts
  PROVE  MovesOn(r)
<1> DEFINE c == calls[w]
           times == Cardinality(Places(c, r))
           t == [n \in 1..times |-> NewAttempt(w)]
<1>1. /\ attempts'[r] = attempts[r] \o t
      /\ rollouts'[r] = IF times > 0 THEN "preparing" ELSE rollouts[r]
      /\ manual' = manual /\ ordered' = {q \in ordered : Cardinality(Places(c, q)) = 0}
  BY ClaimSays
<1>2. c \in CallRecords /\ Len(c.popped) <= BatchSize
  BY DEF IInv, TypeOK, CallsInOrder, CallInOrder, Procs
<1>3. times \in Nat /\ times <= BatchSize /\ (times = 0 <=> Places(c, r) = {})
  <2>1. c.popped \in Seq(Rollouts)
    BY <1>2 DEF CallRecords
  <2> QED BY <1>2, <2>1, PlacesFinite, StoreAssumption
<1>4. attempts[r] \in Seq(AttemptRecords) /\ NewAttempt(w) \in AttemptRecords /\ manual[r] \in Nat
  BY DEF IInv, TypeOK, NewAttempt, AttemptRecords, Life!AttemptStatus, Life!Live
<1>5. CASE times = 0
  <2>1. t = <<>>
    BY <1>5
  <2>2. attempts'[r] = attempts[r] /\ Kept(r)
    BY <1>1, <1>4, <1>5, <2>1, ConcatEmptySeq DEF Kept
  <2>3. manual'[r] >= manual[r]
    BY <1>1, <1>4
  <2> QED BY <2>2, <2>3 DEF MovesOn, Untouched
<1>6. CASE times > 0
  <2>1. rollouts[r] \in Queuing
    BY <1>3, <1>6 DEF Places, ValidPlaces
  <2>2. times \in 1..BatchSize
    BY <1>3, <1>6, StoreAssumption
  <2>3. r \notin ordered'
    BY <1>1, <1>6
  <2> HIDE DEF times
  <2> QED BY <1>1, <1>6, <2>1, <2>2, <2>3 DEF MovesOn, Claimed
<1> QED BY <1>3, <1>5, <1>6

LEMMA EveryStepMoves ==
  ASSUME IInv, [Next]_vars
  PROVE  \A r \in Rollouts : MovesOn(r)
<1>1. ASSUME UNCHANGED <<rollouts, attempts, manual, ordered>> PROVE \A r \in Rollouts : MovesOn(r)
  BY <1>1 DEF MovesOn, Untouched, Kept, IInv, TypeOK
<1>2. ASSUME NEW q \in Rollouts, Submit(q) PROVE \A r \in Rollouts : MovesOn(r)
  BY <1>2 DEF Submit, MovesOn, Submitted, Untouched, Kept, IInv, TypeOK
<1>3. ASSUME NEW q \in Rollouts, NEW s \in RolloutStatus, UpdateRollout(q, s)
      PROVE  \A r \in Rollouts : MovesOn(r)
  BY <1>3 DEF UpdateRollout, MovesOn, Ordered, Untouched, Kept, IInv, TypeOK
<1>4. ASSUME NEW w \in Workers, NEW q \in Rollouts, StartRollout(w, q) \/ StartAttempt(w, q)
      PROVE  \A r \in Rollouts : MovesOn(r)
  <2>1. Begun(q)
    BY <1>4 DEF StartRollout, StartAttempt, BeginAttempt, Begun, IInv, TypeOK
  <2>2. \A r \in Rollouts : r # q => Untouched(r) /\ Kept(r)
    BY <1>4 DEF StartRollout, StartAttempt, BeginAttempt, Untouched, Kept, IInv, TypeOK
  <2> QED BY <2>1, <2>2 DEF MovesOn
<1>5. ASSUME NEW w \in Workers, NEW s \in {"succeeded", "failed"}, Report(w, s)
      PROVE  \A r \in Rollouts : MovesOn(r)
  <2>1. PICK id \in holding[w] : UpdateAttempts([r \in {id.r} |-> [k |-> id.k, s |-> s]]) /\ manual' = manual
    BY <1>5 DEF Report
  <2>2. Exists(id) /\ s \notin TimeLimits
    BY DEF IInv, HeldExist, TimeLimits, Life!TimeLimits
  <2> DEFINE U == [r \in {id.r} |-> [k |-> id.k, s |-> s]]
  <2>3. UpdateAttempts(U)
    BY <2>1
  <2>4. \A r \in DOMAIN U : r = id.r /\ U[r].k = id.k /\ U[r].s = s
    OBVIOUS
  <2> HIDE DEF U
  <2> QED BY <2>1, <2>2, <2>3, <2>4, SettledOrNot DEF IInv, Exists
<1>6. ASSUME NEW q \in Rollouts, NEW k \in DOMAIN attempts[q], Span(q, k)
      PROVE  \A r \in Rollouts : MovesOn(r)
  <2>1. Woken(q)
    BY <1>6 DEF Span, Woken, Kept, IInv, TypeOK
  <2>2. \A r \in Rollouts : r # q => Untouched(r) /\ Kept(r)
    BY <1>6 DEF Span, Untouched, Kept, IInv, TypeOK
  <2> QED BY <2>1, <2>2 DEF MovesOn
<1>7. ASSUME ScanAll PROVE \A r \in Rollouts : MovesOn(r)
  <2>1. PICK found \in SUBSET Unhealthy : Scan(found)
    BY <1>7 DEF ScanAll
  <2>2. PICK S \in [found -> TimeLimits] :
          /\ \A r \in found : rollouts[r] \in Live /\ Latest(r) > 0 /\ S[r] \in Limits[r]
          /\ UpdateAttempts([r \in found |-> [k |-> Latest(r), s |-> S[r]]])
    BY <2>1 DEF Scan
  <2> DEFINE U == [r \in found |-> [k |-> Latest(r), s |-> S[r]]]
  <2>3. UpdateAttempts(U) /\ manual' = manual
    BY <2>1, <2>2 DEF Scan
  <2>4. \A r \in DOMAIN U : r \in found /\ r \in Rollouts /\ U[r].k = Latest(r) /\ U[r].s = S[r] /\ S[r] \in TimeLimits
    BY DEF Unhealthy
  <2> HIDE DEF U
  <2>5. \A r \in DOMAIN U : U[r].k \in DOMAIN attempts[r]
    BY <2>2, <2>4, LenProperties DEF IInv, TypeOK, Latest
  <2> QED BY <2>2, <2>3, <2>4, <2>5, SettledOrNot DEF IInv
<1>8. ASSUME NEW w \in Workers, Claim(w) PROVE \A r \in Rollouts : MovesOn(r)
  BY <1>8, ClaimMoves
<1>9. ASSUME NEW w \in Workers, Runner(w) PROVE \A r \in Rollouts : MovesOn(r)
  BY <1>1, <1>5, <1>8, <1>9 DEF Runner, Pop, MarkIdle, GiveUp
<1>10. ASSUME NEW p \in Procs, Finish(p) \/ Crash(p) PROVE \A r \in Rollouts : MovesOn(r)
  BY <1>1, <1>10 DEF Finish, SkipQueued, Requeue, SyncWorkers, Crash
<1> QED BY <1>1, <1>2, <1>3, <1>4, <1>6, <1>7, <1>9, <1>10 DEF Next, vars

-----------------------------------------------------------------------------
LEMMA LateChangesNothing ==
  ASSUME TypeOK, NEW r \in Rollouts, MovesOn(r), NEW k \in 1..(Latest(r) - 1),
         attempts'[r][k].status # attempts[r][k].status
  PROVE  rollouts'[r] = rollouts[r]
<1>1. attempts[r] \in Seq(AttemptRecords) /\ Latest(r) \in Nat /\ DOMAIN attempts[r] = 1..Latest(r)
      /\ k \in 1..Len(attempts[r]) /\ k # Latest(r) /\ k \in DOMAIN attempts[r]
  BY LenProperties DEF TypeOK, Latest
<1>2. attempts'[r] # attempts[r]
  OBVIOUS
<1>3. ASSUME NEW t \in Seq(AttemptRecords), attempts'[r] = attempts[r] \o t PROVE FALSE
  <2>1. k \in 1..Len(attempts[r]) + Len(t) /\ k <= Len(attempts[r])
    BY <1>1, <1>3, LenProperties
  <2>2. (attempts[r] \o t)[k] = attempts[r][k]
    BY <1>1, <1>3, <2>1, ConcatProperties
  <2> QED BY <1>3, <2>2
<1>4. \A w \in Workers : NewAttempt(w) \in AttemptRecords
  BY DEF NewAttempt, AttemptRecords, Life!AttemptStatus, Life!Live
<1>5. ~Begun(r)
  <2> SUFFICES ASSUME NEW w \in Workers, attempts'[r] = Append(attempts[r], NewAttempt(w)) PROVE FALSE
    BY DEF Begun
  <2> QED BY <1>1, <1>4, AppendProperties
<1>6. ~Claimed(r)
  <2> SUFFICES ASSUME NEW w \in Workers, NEW m \in 1..BatchSize,
                      attempts'[r] = attempts[r] \o [n \in 1..m |-> NewAttempt(w)]
               PROVE  FALSE
    BY DEF Claimed
  <2> DEFINE t == [n \in 1..m |-> NewAttempt(w)]
  <2>1. t \in Seq(AttemptRecords)
    BY <1>4, StoreAssumption
  <2>2. attempts'[r] = attempts[r] \o t
    OBVIOUS
  <2> HIDE DEF t
  <2> QED BY <1>3, <2>1, <2>2
<1>7. Woken(r) \/ Settled(r)
  BY <1>2, <1>5, <1>6 DEF MovesOn, Submitted, Ordered, Untouched
<1>8. ASSUME NEW j \in DOMAIN attempts[r], NEW s, attempts'[r] = [attempts[r] EXCEPT ![j].status = s]
      PROVE  j = k
  BY <1>1, <1>8
<1>9. CASE Woken(r)
  BY <1>1, <1>8, <1>9 DEF Woken, Kept
<1>10. CASE Settled(r)
  BY <1>1, <1>8, <1>10 DEF Settled, Kept
<1> QED BY <1>7, <1>9, <1>10

\* What becomes of an attempt that is not the last of its rollout (a report,
\* a span or a scan that comes after the retry began) leaves the rollout's
\* status: no step of the store changes both.
THEOREM LateOnesDecideNothing == Spec => SupersededDecidesNothing
<1>1. IInv /\ [Next]_vars =>
        [\A r \in Rollouts : \A k \in 1..(Latest(r) - 1) :
           attempts'[r][k].status # attempts[r][k].status => rollouts'[r] = rollouts[r]]_vars
  BY EveryStepMoves, LateChangesNothing DEF IInv
<1> QED BY <1>1, Invariance, PTL DEF Spec, SafetySpec, SupersededDecidesNothing

-----------------------------------------------------------------------------
(* dequeue_rollout: one rollout, so one attempt, at a time. *)

\* A rollout that waits has room for a further attempt; one the store does
\* not know has none.
Budgeted ==
  /\ BudgetKept
  /\ \A r \in Rollouts :
       /\ rollouts[r] \in Queuing => Latest(r) < MaxTries[r] + manual[r]
       /\ rollouts[r] = "none" => Latest(r) = 0

LEMMA BudgetOfOne ==
  ASSUME BatchSize = 1, TypeOK, TypeOK', Budgeted, NEW r \in Rollouts, MovesOn(r)
  PROVE  /\ Latest(r)' <= MaxTries[r] + manual'[r]
         /\ rollouts'[r] \in Queuing => Latest(r)' < MaxTries[r] + manual'[r]
         /\ rollouts'[r] = "none" => Latest(r)' = 0
<1>1. /\ attempts[r] \in Seq(AttemptRecords) /\ Latest(r) = Len(attempts[r]) /\ Latest(r) \in Nat
      /\ Latest(r)' = Len(attempts'[r]) /\ MaxTries[r] \in Nat \ {0} /\ manual[r] \in Nat /\ manual'[r] \in Nat
      /\ DOMAIN attempts[r] = 1..Latest(r)
  BY LenProperties, StoreAssumption DEF TypeOK, Latest
<1>2. /\ Latest(r) <= MaxTries[r] + manual[r]
      /\ rollouts[r] \in Queuing => Latest(r) < MaxTries[r] + manual[r]
      /\ rollouts[r] = "none" => Latest(r) = 0
  BY DEF Budgeted, BudgetKept
<1>3. CASE Untouched(r) /\ Kept(r)
  BY <1>1, <1>2, <1>3 DEF Untouched, Kept
<1>4. CASE Submitted(r)
  BY <1>1, <1>2, <1>4 DEF Submitted, Untouched
<1>5. CASE Ordered(r)
  BY <1>1, <1>2, <1>5 DEF Ordered, Untouched, RolloutStatus, Life!RolloutStatus, Life!Live, Queuing, Life!Queuing, Life!Finished
<1>6. CASE Begun(r)
  <2>1. PICK w \in Workers : attempts'[r] = Append(attempts[r], NewAttempt(w))
    BY <1>6 DEF Begun
  <2>2. Latest(r)' = Latest(r) + 1
    BY <1>1, <2>1
  <2> QED BY <1>1, <1>2, <1>6, <2>2 DEF Begun, Queuing, Life!Queuing
<1>7. CASE Claimed(r)
  <2>1. PICK w \in Workers : attempts'[r] = attempts[r] \o [n \in 1..1 |-> NewAttempt(w)]
    BY <1>7 DEF Claimed
  <2>2. Latest(r)' = Latest(r) + 1
    BY <1>1, <2>1, NewAttempts, ConcatProperties
  <2> QED BY <1>1, <1>2, <1>7, <2>2 DEF Claimed, Queuing, Life!Queuing
<1>8. CASE Woken(r)
  <2>1. Latest(r)' = Latest(r) /\ Latest(r) # 0
    BY <1>1, <1>8 DEF Woken
  <2>2. manual'[r] = manual[r] /\ rollouts'[r] \in {rollouts[r], "running"}
    BY <1>8 DEF Woken, Kept
  <2> QED BY <1>1, <1>2, <2>1, <2>2 DEF Queuing, Life!Queuing
<1>9. CASE Settled(r)
  <2>1. Latest(r)' = Latest(r) /\ Latest(r) # 0
    BY <1>1, <1>9 DEF Settled
  <2>2. PICK k \in DOMAIN attempts[r], s \in TimeLimits \cup {"failed", "succeeded"} :
          rollouts'[r] = IF k = Latest(r) THEN Life!StatusFromAttempt(r, k, s) ELSE rollouts[r]
    BY <1>9 DEF Settled, Kept
  <2>3. rollouts'[r] \in Queuing => rollouts[r] \in Queuing \/ Latest(r) < MaxTries[r]
    BY <2>2 DEF Life!StatusFromAttempt, Life!Live, Queuing, Life!Queuing
  <2>4. rollouts'[r] = "none" => rollouts[r] = "none"
    BY <2>2 DEF Life!StatusFromAttempt, Life!Live
  <2>5. manual'[r] = manual[r]
    BY <1>9 DEF Settled
  <2> QED BY <1>1, <1>2, <2>1, <2>3, <2>4, <2>5
<1> QED BY <1>3, <1>4, <1>5, <1>6, <1>7, <1>8, <1>9 DEF MovesOn

LEMMA BudgetInvariance == ASSUME BatchSize = 1 PROVE SafetySpec => []Budgeted
<1>1. Init => Budgeted
  BY StoreAssumption DEF Init, Budgeted, BudgetKept, Latest, Queuing, Life!Queuing
<1>2. IInv /\ IInv' /\ Budgeted /\ [Next]_vars => Budgeted'
  BY EveryStepMoves, BudgetOfOne DEF IInv, Budgeted, BudgetKept
<1> QED BY <1>1, <1>2, Invariance, PTL DEF SafetySpec

\* A rollout has no more attempts than max_attempts and the retries ordered
\* by hand allow, when runners dequeue one rollout at a time.
THEOREM BudgetHolds == ASSUME BatchSize = 1 PROVE Spec => []BudgetKept
BY BudgetInvariance, PTL DEF Spec, Budgeted

-----------------------------------------------------------------------------
(* The store implements RolloutLifecycle. *)

\* The statuses of a list of attempts: what the lifecycle sees of it.
Statuses(a) == [k \in DOMAIN a |-> a[k].status]

LEMMA AppendStatus ==
  ASSUME NEW a \in Seq(AttemptRecords), NEW w \in Workers
  PROVE  Statuses(Append(a, NewAttempt(w))) = Append(Statuses(a), "preparing")
<1> DEFINE x == NewAttempt(w)
           S == Life!AttemptStatus
<1>1. x \in AttemptRecords /\ x.status = "preparing" /\ "preparing" \in S
  BY DEF NewAttempt, AttemptRecords, Life!AttemptStatus, Life!Live
<1>2. DOMAIN a = 1..Len(a) /\ Len(a) \in Nat /\ \A k \in 1..Len(a) : a[k] \in AttemptRecords
  BY LenProperties, ElementOfSeq
<1> HIDE DEF x, S
<1>3. /\ Append(a, x) \in Seq(AttemptRecords) /\ DOMAIN Append(a, x) = 1..(Len(a) + 1)
      /\ \A k \in 1..Len(a) : Append(a, x)[k] = a[k]
      /\ Append(a, x)[Len(a) + 1] = x
  BY <1>1, AppendProperties, LenProperties
<1>4. \A k \in 1..Len(a) : a[k].status \in S
  BY <1>2 DEF AttemptRecords, S
<1>5. Statuses(a) \in Seq(S) /\ Len(Statuses(a)) = Len(a) /\ \A k \in 1..Len(a) : Statuses(a)[k] = a[k].status
  BY <1>2, <1>4 DEF Statuses
<1> DEFINE b == Append(Statuses(a), "preparing")
           c == Statuses(Append(a, x))
<1>6. /\ DOMAIN b = 1..(Len(a) + 1) /\ b \in Seq(S) /\ Len(b) = Len(a) + 1
      /\ \A k \in 1..Len(a) : b[k] = a[k].status
      /\ b[Len(a) + 1] = "preparing"
  BY <1>1, <1>5, AppendProperties, LenProperties
<1>7. /\ DOMAIN c = 1..(Len(a) + 1) /\ \A k \in 1..Len(a) : c[k] = a[k].status
      /\ c[Len(a) + 1] = "preparing"
  BY <1>1, <1>2, <1>3 DEF Statuses
<1>8. c \in Seq(S) /\ Len(c) = Len(a) + 1
  <2>1. \A k \in 1..(Len(a) + 1) : c[k] \in S
    BY <1>1, <1>2, <1>4, <1>7
  <2>2. c = [k \in 1..(Len(a) + 1) |-> Append(a, x)[k].status]
    BY <1>3 DEF Statuses
  <2>3. c \in [1..(Len(a) + 1) -> S]
    BY <1>7, <2>1, <2>2
  <2> QED BY <1>2, <2>3
<1>9. \A k \in 1..Len(b) : b[k] = c[k]
  BY <1>2, <1>6, <1>7
<1> HIDE DEF b, c
<1>10. b = c
  BY <1>6, <1>8, <1>9, SeqEqual
<1> QED BY <1>10 DEF b, c, x

\* The same change, of an attempt and of a status.
Turned(a, k, s) == [a EXCEPT ![k].status = s]
Put(f, k, s) == [f EXCEPT ![k] = s]

LEMMA SetStatus ==
  ASSUME NEW a \in Seq(AttemptRecords), NEW k \in DOMAIN a, NEW s
  PROVE  Statuses(Turned(a, k, s)) = Put(Statuses(a), k, s)
<1>1. a[k] \in AttemptRecords
  BY LenProperties, ElementOfSeq
<1>2. [a[k] EXCEPT !.status = s].status = s
  BY <1>1 DEF AttemptRecords
<1> QED BY <1>2 DEF Statuses, Turned, Put

LEMMA OneOfLifecycle ==
  ASSUME BatchSize = 1, TypeOK, NEW r \in Rollouts, MovesOn(r)
  PROVE  Life!Same(r) \/ Life!StepOf(r)
<1> DEFINE T == [q \in Rollouts |-> [k \in DOMAIN attempts[q] |-> attempts[q][k].status]]
<1>1. T[r] = Statuses(attempts[r]) /\ T'[r] = Statuses(attempts'[r])
      /\ attempts[r] \in Seq(AttemptRecords) /\ DOMAIN T[r] = DOMAIN attempts[r]
      /\ \A k \in DOMAIN attempts[r] : T[r][k] = attempts[r][k].status
  BY DEF Statuses, TypeOK
<1>2. Len(T[r]) = Latest(r)
  BY <1>1, LenProperties DEF Latest, Statuses
<1> HIDE DEF T
<1>3. CASE Untouched(r) /\ Kept(r)
  BY <1>1, <1>3 DEF Untouched, Kept, Life!Same, Life!Stay, Life!Keep, T
<1>4. CASE Submitted(r)
  BY <1>1, <1>4 DEF Submitted, Untouched, Life!StepOf, Life!Submit, Life!Become, Life!Keep, T
<1>5. CASE Ordered(r)
  BY <1>1, <1>5 DEF Ordered, Untouched, RolloutStatus, Life!StepOf, Life!Order, Life!Keep, T
<1>6. CASE Begun(r)
  <2>1. T'[r] = Append(T[r], "preparing") /\ rollouts'[r] = "preparing" /\ r \notin ordered'
    BY <1>1, <1>6, AppendStatus DEF Begun
  <2>2. Life!Start(r) \/ Life!Retry(r)
    BY <1>6, <2>1 DEF Begun, Life!Start, Life!Retry, Life!Begin, Life!Become, T
  <2> QED BY <2>2 DEF Life!StepOf
<1>7. CASE Claimed(r)
  <2>1. PICK w \in Workers : attempts'[r] = attempts[r] \o [n \in 1..1 |-> NewAttempt(w)]
    BY <1>7 DEF Claimed
  <2>2. [n \in 1..1 |-> NewAttempt(w)] = <<NewAttempt(w)>> /\ NewAttempt(w) \in AttemptRecords
    BY DEF NewAttempt, AttemptRecords, Life!AttemptStatus, Life!Live
  <2>3. attempts'[r] = Append(attempts[r], NewAttempt(w))
    BY <1>1, <2>1, <2>2, AppendIsConcat
  <2>4. T'[r] = Append(T[r], "preparing") /\ rollouts'[r] = "preparing" /\ r \notin ordered'
    BY <1>1, <1>7, <2>3, AppendStatus DEF Claimed
  <2>5. Life!Claim(r)
    BY <1>7, <2>4 DEF Claimed, Queuing, Life!Claim, Life!Begin, Life!Become, T
  <2> QED BY <2>5 DEF Life!StepOf
<1>8. CASE Woken(r)
  <2>1. PICK k \in DOMAIN attempts[r] :
          /\ attempts'[r] = [attempts[r] EXCEPT ![k].status =
                               IF @ \in {"preparing", "unresponsive"} THEN "running" ELSE @]
          /\ IF k = Latest(r) /\ rollouts[r] \in {"preparing", "requeuing"}
             THEN rollouts'[r] = "running" /\ r \notin ordered' ELSE Kept(r)
    BY <1>8 DEF Woken
  <2>2. T'[r] = [T[r] EXCEPT ![k] = IF T[r][k] \in {"preparing", "unresponsive"} THEN "running" ELSE T[r][k]]
    <3> DEFINE s == IF attempts[r][k].status \in {"preparing", "unresponsive"} THEN "running" ELSE attempts[r][k].status
    <3>1. attempts'[r] = Turned(attempts[r], k, s)
      BY <2>1 DEF Turned
    <3>2. s = IF T[r][k] \in {"preparing", "unresponsive"} THEN "running" ELSE T[r][k]
      BY <1>1
    <3> HIDE DEF s
    <3>3. T'[r] = Put(T[r], k, s)
      BY <1>1, <3>1, SetStatus
    <3> QED BY <3>2, <3>3 DEF Put
  <2>3. Life!Beat(r, k)
    BY <1>2, <2>1, <2>2 DEF Life!Beat, Life!Become, Life!Stay, Kept, T
  <2> QED BY <1>1, <2>3 DEF Life!StepOf, T
<1>9. CASE Settled(r)
  <2>1. PICK k \in DOMAIN attempts[r], s \in TimeLimits \cup {"failed", "succeeded"} :
          /\ s \in TimeLimits => k = Latest(r) /\ rollouts[r] \in Live /\ s \in Limits[r]
          /\ attempts'[r] = [attempts[r] EXCEPT ![k].status = s]
          /\ IF k = Latest(r) THEN rollouts'[r] = Life!StatusFromAttempt(r, k, s) /\ r \notin ordered'
             ELSE Kept(r)
    BY <1>9 DEF Settled
  <2>2. T'[r] = [T[r] EXCEPT ![k] = s]
    <3>1. attempts'[r] = Turned(attempts[r], k, s)
      BY <2>1 DEF Turned
    <3>2. T'[r] = Put(T[r], k, s)
      BY <1>1, <3>1, SetStatus
    <3> QED BY <3>2 DEF Put
  <2>3. Life!Settle(r, k, s)
    BY <1>2, <2>1, <2>2 DEF Life!Settle, Life!Become, Life!Stay, Kept, T, TimeLimits, Live
  <2> QED BY <1>1, <2>1, <2>3 DEF Life!StepOf, T, TimeLimits
<1> QED BY <1>3, <1>4, <1>5, <1>6, <1>7, <1>8, <1>9 DEF MovesOn

\* With one rollout at a time, the store implements RolloutLifecycle: every
\* section of every call, and every scan, makes one transition of the
\* lifecycle of each rollout it moves.
THEOREM Implements == ASSUME BatchSize = 1 PROVE Spec => IsLifecycle
<1>1. Init => Life!Init
  BY DEF Init, Life!Init
<1>2. IInv /\ [Next]_vars => [Life!Next]_(Life!vars)
  BY EveryStepMoves, OneOfLifecycle DEF IInv, Life!Next
<1> QED BY <1>1, <1>2, Invariance, PTL DEF Spec, SafetySpec, IsLifecycle, Life!Spec

=============================================================================
