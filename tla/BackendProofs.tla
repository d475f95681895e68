---------------------------- MODULE BackendProofs ----------------------------
(***************************************************************************)
(* Proofs about the two backends of the store, for any number of calls,    *)
(* threads and event loops.  InMemoryStore: in one event loop, what a call *)
(* has still to tell is all that the cache and the events do not know.     *)
(* MongoDB: the retries of with_transaction lose no update and apply none  *)
(* twice, the pool of clients and handles stays sound behind its two       *)
(* locks, and a wait that polls misses no rollout.  The queues and the     *)
(* counters of both implement what the interface promises of them.         *)
(* Metrics: whatever order calls come in, no event is lost or counted      *)
(* twice.                                                                  *)
(***************************************************************************)
EXTENDS InMemoryStore, MongoTransaction, MongoPool, MongoWait, Queues, Metrics,
        FiniteSetTheorems, SequenceTheorems, TLAPS

-----------------------------------------------------------------------------
(* InMemoryStore. *)

Statuses == RolloutStatus \cup {"none"}

StoreTypes ==
  /\ status \in [Rollouts -> Statuses]
  /\ posts \in [Callers -> SUBSET (Rollouts \X Statuses)]
  /\ running \subseteq Rollouts
  /\ DOMAIN events = Rollouts

\* r is not what a call has still to tell of.
Heard(r) == \A c \in Callers : \A p \in posts[c] : p[1] # r

\* One call at a time has something to tell, and it is how things are.
OneTells ==
  /\ \A c, d \in Callers : posts[c] # {} /\ posts[d] # {} => c = d
  /\ \A c \in Callers : \A p \in posts[c] : p[2] = status[p[1]]

CacheFollows == \A r \in Rollouts : Heard(r) => (r \in running <=> status[r] \in Live)

\* Between two calls the event of a finished rollout is set, so that who waits
\* for it is woken.
EventsFollow ==
  ~threaded => \A r \in Rollouts : Heard(r) /\ status[r] \in Finished => events[r] = "set"

CacheInv == StoreTypes /\ EventsFollow /\ (~threaded => OneTells /\ CacheFollows)

-----------------------------------------------------------------------------
LEMMA CacheStarts == InitStore => CacheInv
<1> SUFFICES ASSUME InitStore PROVE CacheInv
  OBVIOUS
<1>1. StoreTypes
  BY DEF InitStore, Init, StoreTypes, Statuses
<1>2. EventsFollow /\ OneTells /\ CacheFollows
  BY DEF InitStore, Init, EventsFollow, OneTells, CacheFollows, Finished, Live
<1> QED BY <1>1, <1>2 DEF CacheInv

\* A call, or the scan, moves rollouts and has to tell of those it moved.
LEMMA Moves ==
  ASSUME CacheInv, NEW c \in Callers, Idle(c), Alone, status' \in [Rollouts -> Statuses],
         posts' = [posts EXCEPT ![c] = {<<r, status'[r]>> : r \in Told}],
         UNCHANGED <<threaded, running, events>>
  PROVE CacheInv'
<1>1. StoreTypes'
  <2>1. {<<r, status'[r]>> : r \in Told} \in SUBSET (Rollouts \X Statuses)
    BY DEF Told
  <2> QED BY <2>1 DEF CacheInv, StoreTypes
<1>2. posts'[c] = {<<r, status'[r]>> : r \in Told} /\ \A d \in Callers : d # c => posts'[d] = posts[d]
  BY DEF CacheInv, StoreTypes
<1>3. ASSUME ~threaded PROVE OneTells' /\ CacheFollows' /\ EventsFollow'
  <2>1. \A d \in Callers : posts[d] = {}
    BY <1>3 DEF Alone, Idle
  <2>2. OneTells'
    BY <1>2, <2>1 DEF OneTells
  <2>3. \A r \in Rollouts : Heard(r)' => status'[r] = status[r]
    <3> SUFFICES ASSUME NEW r \in Rollouts, status'[r] # status[r] PROVE ~Heard(r)'
      OBVIOUS
    <3>1. <<r, status'[r]>> \in posts'[c] /\ <<r, status'[r]>>[1] = r
      BY <1>2 DEF Told
    <3> QED BY <3>1 DEF Heard
  <2>4. \A r \in Rollouts : Heard(r)
    BY <2>1 DEF Heard
  <2> QED BY <1>3, <2>2, <2>3, <2>4 DEF CacheInv, CacheFollows, EventsFollow
<1>4. threaded => EventsFollow'
  BY DEF EventsFollow
<1> QED BY <1>1, <1>3, <1>4 DEF CacheInv

LEMMA Tells ==
  ASSUME CacheInv, NEW c \in Callers, Post(c)
  PROVE CacheInv'
<1> DEFINE says(r) == \E p \in posts[c] : p[1] = r
           what(r) == (CHOOSE p \in posts[c] : p[1] = r)[2]
<1>1. /\ posts' = [posts EXCEPT ![c] = {}] /\ UNCHANGED <<status, threaded>>
      /\ events' = [r \in Rollouts |-> IF says(r) THEN Event(r, what(r)) ELSE events[r]]
      /\ posts[c] \subseteq Rollouts \X Statuses
  BY DEF Post, store, CacheInv, StoreTypes
<1>2. StoreTypes'
  <2>1. running' \subseteq Rollouts
    BY DEF Post, CacheInv, StoreTypes
  <2> QED BY <1>1, <2>1 DEF CacheInv, StoreTypes
<1>3. posts'[c] = {} /\ \A d \in Callers : d # c => posts'[d] = posts[d]
  BY <1>1 DEF CacheInv, StoreTypes
<1>4. ASSUME ~threaded PROVE OneTells' /\ CacheFollows' /\ EventsFollow'
  <2>1. OneTells /\ CacheFollows /\ EventsFollow /\ ~threaded'
    BY <1>1, <1>4 DEF CacheInv
  <2>2. OneTells'
    BY <1>1, <1>3, <2>1 DEF OneTells
  <2>3. \A r \in Rollouts : ~says(r) => Heard(r)
    BY <2>1 DEF OneTells, Heard, Post
  <2>4. \A r \in Rollouts : says(r) => what(r) = status[r]
    BY <2>1 DEF OneTells
  <2>5. \A r \in Rollouts : r \in running' <=> status[r] \in Live
    <3> SUFFICES ASSUME NEW r \in Rollouts PROVE r \in running' <=> status[r] \in Live
      OBVIOUS
    <3>1. CASE ~says(r)
      <4>1. r \in running' <=> r \in running
        BY <3>1 DEF Post
      <4> QED BY <2>1, <2>3, <3>1, <4>1 DEF CacheFollows
    <3>2. CASE says(r)
      <4>1. PICK p \in posts[c] : p[1] = r
        BY <3>2
      <4>2. \A q \in posts[c] : q[1] = r => q[2] = status[r]
        BY <2>1 DEF OneTells
      <4>3. CASE status[r] \in Live
        BY <4>1, <4>2, <4>3 DEF Post, Runs
      <4>4. CASE status[r] \notin Live
        <5>1. ~\E q \in posts[c] : Runs(q) /\ q[1] = r
          BY <4>2, <4>4 DEF Runs
        <5>2. p \in {q \in posts[c] : ~Runs(q)}
          BY <4>1, <4>2, <4>4 DEF Runs
        <5> QED BY <4>1, <4>4, <5>1, <5>2 DEF Post
      <4> QED BY <4>3, <4>4
    <3> QED BY <3>1, <3>2
  <2>6. CacheFollows'
    BY <1>1, <2>5 DEF CacheFollows
  <2>7. \A r \in Rollouts : status[r] \in Finished => events'[r] = "set"
    <3> SUFFICES ASSUME NEW r \in Rollouts, status[r] \in Finished PROVE events'[r] = "set"
      OBVIOUS
    <3>1. CASE says(r)
      BY <1>1, <2>4, <3>1 DEF Event
    <3>2. CASE ~says(r)
      BY <1>1, <1>4, <2>1, <2>3, <3>2 DEF EventsFollow
    <3> QED BY <3>1, <3>2
  <2>8. EventsFollow'
    BY <1>1, <2>7 DEF EventsFollow
  <2> QED BY <2>2, <2>6, <2>8
<1>5. threaded => EventsFollow'
  BY <1>1 DEF EventsFollow
<1> QED BY <1>1, <1>2, <1>4, <1>5 DEF CacheInv

LEMMA CacheSteps == CacheInv /\ [NextStore]_all => CacheInv'
<1> SUFFICES ASSUME CacheInv, [NextStore]_all PROVE CacheInv'
  OBVIOUS
<1>1. ASSUME NEW c \in Callers, Call(c) PROVE CacheInv'
  <2>1. status' \in [Rollouts -> Statuses]
    <3>1. PICK r \in Rollouts, s \in RolloutStatus : status' = [status EXCEPT ![r] = s]
      BY <1>1 DEF Call
    <3>2. s \in Statuses /\ status \in [Rollouts -> Statuses]
      BY DEF CacheInv, StoreTypes, Statuses
    <3> QED BY <3>1, <3>2
  <2> QED BY <1>1, <2>1, Moves DEF Call
<1>2. ASSUME NEW c \in Callers, Scan(c) PROVE CacheInv'
  <2>1. PICK R \in SUBSET Rollouts : \E S \in [R -> TimeLimits] :
          status' = [r \in Rollouts |->
            IF r \in R THEN StatusFromAttempt(r, Len(tries[r]), S[r]) ELSE status[r]]
    BY <1>2 DEF Scan
  <2>2. \A r \in Rollouts, s \in TimeLimits : \A k : StatusFromAttempt(r, k, s) \in Statuses
    BY DEF StatusFromAttempt, Statuses, RolloutStatus, TimeLimits, Live, Queuing, Finished
  <2>3. status' \in [Rollouts -> Statuses]
    <3>1. PICK S \in [R -> TimeLimits] : status' = [r \in Rollouts |->
            IF r \in R THEN StatusFromAttempt(r, Len(tries[r]), S[r]) ELSE status[r]]
      BY <2>1
    <3>2. \A r \in R : S[r] \in TimeLimits
      OBVIOUS
    <3>3. \A r \in Rollouts : status[r] \in Statuses
      BY DEF CacheInv, StoreTypes
    <3> QED BY <2>2, <3>1, <3>2, <3>3
  <2> QED BY <1>2, <2>3, Moves DEF Scan
<1>3. ASSUME NEW c \in Callers, Post(c) PROVE CacheInv'
  BY <1>3, Tells
<1>4. ASSUME UNCHANGED <<status, threaded, posts, running, events>> PROVE CacheInv'
  BY <1>4 DEF CacheInv, StoreTypes, OneTells, CacheFollows, EventsFollow, Heard
<1>5. CASE \E w \in Waiters : (\E r \in Rollouts, forever \in BOOLEAN : Wait(w, r, forever)) \/ Awake(w) \/ TimeUp(w)
  BY <1>4, <1>5 DEF Wait, Awake, Look, Wake, TimeUp, store, aux
<1>6. CASE UNCHANGED all
  BY <1>4, <1>6 DEF all
<1> QED BY <1>1, <1>2, <1>3, <1>5, <1>6 DEF NextStore

\* In one event loop, for any number of callers and rollouts: between two calls
\* the cache that the watchdog's scan reads holds the rollouts that run, and no
\* other.
THEOREM CacheExact == StoreSpec => []CacheIsExact
<1>1. CacheInv => CacheIsExact
  <2> SUFFICES ASSUME CacheInv, ~threaded, \A c \in Callers : posts[c] = {}
               PROVE running = {r \in Rollouts : status[r] \in Live}
    BY DEF CacheIsExact, Idle
  <2>1. \A r \in Rollouts : Heard(r)
    BY DEF Heard
  <2> QED BY <2>1 DEF CacheInv, CacheFollows, StoreTypes
<1>2. StoreSpec => []CacheInv
  BY CacheStarts, CacheSteps, PTL DEF StoreSpec
<1> QED BY <1>1, <1>2, PTL

\* In one event loop, between two calls, each finished rollout has its event
\* set: a waiter that looks finds it, however often the rollout was retried.
THEOREM FinishedAreTold == StoreSpec => []EventsFollow
<1>1. StoreSpec => []CacheInv
  BY CacheStarts, CacheSteps, PTL DEF StoreSpec
<1>2. CacheInv => EventsFollow
  BY DEF CacheInv
<1> QED BY <1>1, <1>2, PTL

-----------------------------------------------------------------------------
(* MongoTransaction. *)

Transactions == [state : {"none", "open", "committed", "aborted"}, snap : Nat, wrote : BOOLEAN]
Entries == [by : Clients, n : Nat]

TxnTypes ==
  /\ number \in Nat
  /\ txn \in [Clients -> Transactions]
  /\ pc \in [Clients -> {"idle", "callback", "commit", "jitter", "returned", "raised"}]
  /\ log \in Seq(Entries)

\* Where a call is tells what its transaction is: there is nothing to commit
\* but a transaction that has written, or that was committed already.
InStep(c) ==
  /\ pc[c] = "idle" => txn[c].state = "none"
  /\ pc[c] = "callback" => Open(c)
  /\ pc[c] \in {"commit", "jitter"} => txn[c].state \in {"open", "committed"}
  /\ pc[c] \in {"commit", "jitter"} /\ Open(c) => txn[c].wrote
  /\ pc[c] = "returned" => txn[c].state = "committed"

\* One open transaction at most has written, and what it read is still the
\* committed number.
Writes(c) == Open(c) /\ txn[c].wrote
OneWriter ==
  /\ \A c \in Clients : Writes(c) => txn[c].snap = number
  /\ \A c, d \in Clients : Writes(c) /\ Writes(d) => c = d

\* The log holds the committed transactions, one entry each.
LogInOrder ==
  /\ Len(log) = number
  /\ \A i \in DOMAIN log : log[i].n = i /\ txn[log[i].by].state = "committed"
  /\ \A i, j \in DOMAIN log : log[i].by = log[j].by => i = j
  /\ \A c \in Clients : txn[c].state = "committed" => \E i \in DOMAIN log : log[i].by = c

TxnInv == TxnTypes /\ (\A c \in Clients : InStep(c)) /\ OneWriter /\ LogInOrder

-----------------------------------------------------------------------------
LEMMA Authors ==
  ASSUME TxnTypes
  PROVE  /\ Len(log) \in Nat /\ DOMAIN log = 1..Len(log)
         /\ \A i \in DOMAIN log : log[i].by \in Clients
<1>1. Len(log) \in Nat /\ DOMAIN log = 1..Len(log) /\ \A i \in 1..Len(log) : log[i] \in Entries
  BY DEF TxnTypes
<1> QED BY <1>1 DEF Entries

\* A call goes on without committing: its transaction neither was nor becomes
\* committed, or stays as it is; if it has written by now, it is the only one.
LEMMA NotCommitting ==
  ASSUME TxnInv, NEW c \in Clients, NEW t \in Transactions,
         NEW x \in {"callback", "commit", "jitter", "returned", "raised"},
         txn' = [txn EXCEPT ![c] = t], pc' = [pc EXCEPT ![c] = x], number' = number, log' = log,
         t = txn[c] \/ (t.state # "committed" /\ txn[c].state # "committed"),
         t.state = "open" /\ t.wrote => t.snap = txn[c].snap /\ (Writes(c) \/ ~Conflict(c)),
         InStep(c)'
  PROVE  TxnInv'
<1> USE DEF TxnInv
<1>1. /\ txn'[c] = t /\ pc'[c] = x
      /\ \A d \in Clients : d # c => txn'[d] = txn[d] /\ pc'[d] = pc[d]
  BY DEF TxnTypes
<1>2. TxnTypes'
  BY DEF TxnTypes
<1>3. ASSUME NEW d \in Clients PROVE InStep(d)'
  BY <1>1 DEF InStep, Open
<1>4. OneWriter'
  BY <1>1 DEF OneWriter, Writes, Open, Conflict
<1>5. LogInOrder'
  <2>1. \A d \in Clients : txn'[d].state = "committed" <=> txn[d].state = "committed"
    BY <1>1
  <2>2. \A i \in DOMAIN log : log[i].by \in Clients
    BY Authors
  <2> QED BY <2>1, <2>2 DEF LogInOrder
<1> QED BY <1>2, <1>3, <1>4, <1>5

\* The server commits the transaction of c.
LEMMA Committing ==
  ASSUME TxnInv, NEW c \in Clients, pc[c] = "commit", Open(c),
         NEW x \in {"jitter", "returned", "raised"},
         Applied(c), pc' = [pc EXCEPT ![c] = x]
  PROVE  TxnInv'
<1> USE DEF TxnInv
<1> DEFINE entry == [by |-> c, n |-> txn[c].snap + 1]
<1>1. txn[c] \in Transactions /\ Writes(c) /\ txn[c].snap = number /\ number \in Nat
  BY DEF TxnTypes, InStep, OneWriter, Writes
<1>2. /\ number' = number + 1 /\ log' = Append(log, entry)
      /\ txn' = [txn EXCEPT ![c] = [txn[c] EXCEPT !.state = "committed"]]
  BY <1>1 DEF Applied
<1>3. [txn[c] EXCEPT !.state = "committed"] \in Transactions /\ entry \in Entries
      /\ entry.by = c /\ entry.n = number + 1
  BY <1>1 DEF Transactions, Entries
<1>4. /\ txn'[c].state = "committed" /\ pc'[c] = x
      /\ \A d \in Clients : d # c => txn'[d] = txn[d] /\ pc'[d] = pc[d]
  BY <1>1, <1>2 DEF TxnTypes, Transactions
<1> HIDE DEF entry
<1>5. TxnTypes'
  BY <1>2, <1>3 DEF TxnTypes
<1>6. ASSUME NEW d \in Clients PROVE InStep(d)'
  BY <1>4 DEF InStep, Open
<1>7. OneWriter'
  BY <1>1, <1>4 DEF OneWriter, Writes, Open
<1>8. LogInOrder'
  <2>1. /\ Len(log) = number /\ Len(log') = number + 1
        /\ DOMAIN log = 1..number /\ DOMAIN log' = 1..(number + 1)
        /\ log'[number + 1] = entry
        /\ \A i \in 1..number : log'[i] = log[i]
    BY <1>2, <1>3 DEF TxnTypes, LogInOrder
  <2>2. \A i \in 1..(number + 1) : i \in 1..number \/ i = number + 1
    BY <1>1
  <2>3. number + 1 \in 1..(number + 1) /\ \A i \in 1..number : i \in 1..(number + 1) /\ i # number + 1
    BY <1>1
  <2>4. \A i \in 1..number : log[i].n = i /\ log[i].by \in Clients /\ txn[log[i].by].state = "committed"
    BY <2>1, Authors DEF LogInOrder
  <2>5. \A i \in 1..number : log[i].by # c
    BY <2>4 DEF Open
  <2>6. \A i \in DOMAIN log' : log'[i].n = i /\ txn'[log'[i].by].state = "committed"
    BY <1>3, <1>4, <2>1, <2>2, <2>4, <2>5
  <2>7. \A i, j \in DOMAIN log' : log'[i].by = log'[j].by => i = j
    <3>1. \A i, j \in 1..number : log[i].by = log[j].by => i = j
      BY <2>1 DEF LogInOrder
    <3> QED BY <1>3, <2>1, <2>2, <2>5, <3>1
  <2>8. ASSUME NEW d \in Clients, txn'[d].state = "committed"
        PROVE  \E i \in DOMAIN log' : log'[i].by = d
    <3>1. CASE d = c
      BY <1>3, <2>1, <2>3, <3>1
    <3>2. CASE d # c
      <4>1. PICK i \in DOMAIN log : log[i].by = d
        BY <1>4, <2>8, <3>2 DEF LogInOrder
      <4> QED BY <2>1, <2>3, <4>1
    <3> QED BY <3>1, <3>2
  <2> QED BY <1>2, <2>1, <2>6, <2>7, <2>8 DEF LogInOrder
<1> QED BY <1>5, <1>6, <1>7, <1>8

LEMMA Restarting ==
  ASSUME TxnInv, NEW c \in Clients, Open(c), StartOver(c), UNCHANGED <<number, log>>
  PROVE  TxnInv'
<1>1. NoTxn \in Transactions /\ NoTxn.state = "none"
      /\ [state |-> "open", snap |-> number, wrote |-> FALSE] \in Transactions
  BY DEF NoTxn, Transactions, TxnInv, TxnTypes
<1>2. CASE c \in late
  <2>1. pc' = [pc EXCEPT ![c] = "raised"] /\ txn' = [txn EXCEPT ![c] = NoTxn]
    BY <1>2 DEF StartOver
  <2>2. InStep(c)'
    BY <2>1 DEF InStep, TxnInv, TxnTypes
  <2> QED BY <1>1, <2>1, <2>2, NotCommitting DEF Open
<1>3. CASE c \notin late
  <2> DEFINE t == [state |-> "open", snap |-> number, wrote |-> FALSE]
  <2>1. pc' = [pc EXCEPT ![c] = "callback"] /\ txn' = [txn EXCEPT ![c] = t]
    BY <1>3 DEF StartOver, BeginTxn
  <2>2. t \in Transactions /\ t.state = "open" /\ t.wrote = FALSE
    BY <1>1
  <2> HIDE DEF t
  <2>3. InStep(c)'
    BY <2>1, <2>2 DEF InStep, Open, TxnInv, TxnTypes
  <2> QED BY <2>1, <2>2, <2>3, NotCommitting DEF Open
<1> QED BY <1>2, <1>3

\* An answer to the commit that tells nothing: the server may have committed.
LEMMA CommitAnswered ==
  ASSUME TxnInv, NEW c \in Clients, pc[c] = "commit", NEW x \in {"jitter", "returned", "raised"},
         Applied(c) \/ (UNCHANGED <<number, log, txn>> /\ x # "returned"), pc' = [pc EXCEPT ![c] = x]
  PROVE  TxnInv'
<1>1. CASE Open(c) /\ Applied(c)
  BY <1>1, Committing
<1>2. CASE UNCHANGED <<number, log, txn>> /\ (x = "returned" => ~Open(c))
  <2>1. txn[c] \in Transactions /\ txn' = [txn EXCEPT ![c] = txn[c]] /\ InStep(c)
    BY <1>2 DEF TxnInv, TxnTypes
  <2>2. InStep(c)'
    BY <1>2, <2>1 DEF InStep, Open, TxnInv, TxnTypes
  <2>3. txn[c].state = "open" /\ txn[c].wrote => Writes(c)
    BY DEF Writes, Open
  <2>4. PICK t \in Transactions : t = txn[c]
    BY <2>1
  <2> QED BY <1>2, <2>1, <2>2, <2>3, <2>4, NotCommitting
<1> QED BY <1>1, <1>2 DEF Applied

LEMMA TxnSteps == TxnInv /\ [TxnNext]_txnVars => TxnInv'
<1> SUFFICES ASSUME TxnInv, [TxnNext]_txnVars PROVE TxnInv'
  OBVIOUS
<1> USE DEF TxnInv
<1>1. ASSUME NEW c \in Clients, StartTxn(c) PROVE TxnInv'
  <2> DEFINE t == [state |-> "open", snap |-> number, wrote |-> FALSE]
  <2>1. /\ pc' = [pc EXCEPT ![c] = "callback"] /\ txn' = [txn EXCEPT ![c] = t]
        /\ number' = number /\ log' = log /\ txn[c].state = "none"
    BY <1>1 DEF StartTxn, BeginTxn, InStep
  <2>2. t \in Transactions /\ t.state = "open" /\ t.wrote = FALSE
    BY DEF Transactions, TxnTypes
  <2> HIDE DEF t
  <2>3. InStep(c)'
    BY <2>1, <2>2 DEF InStep, Open, TxnTypes
  <2> QED BY <2>1, <2>2, <2>3, NotCommitting
<1>2. ASSUME NEW c \in Clients, CallbackWrites(c) PROVE TxnInv'
  <2>1. CASE Conflict(c)
    BY <1>2, <2>1, Restarting DEF CallbackWrites
  <2>2. CASE ~Conflict(c)
    <3> DEFINE t == [txn[c] EXCEPT !.wrote = TRUE]
    <3>1. /\ pc' = [pc EXCEPT ![c] = "commit"] /\ txn' = [txn EXCEPT ![c] = t]
          /\ number' = number /\ log' = log /\ txn[c].state = "open" /\ txn[c] \in Transactions
      BY <1>2, <2>2 DEF CallbackWrites, Open, TxnTypes
    <3>2. t \in Transactions /\ t.state = "open" /\ t.wrote = TRUE /\ t.snap = txn[c].snap
      BY <3>1 DEF Transactions
    <3> HIDE DEF t
    <3>3. InStep(c)'
      BY <3>1, <3>2 DEF InStep, Open, TxnTypes
    <3> QED BY <2>2, <3>1, <3>2, <3>3, NotCommitting
  <2> QED BY <2>1, <2>2
<1>3. ASSUME NEW c \in Clients, CallbackInterrupted(c) \/ CommitRefused(c) PROVE TxnInv'
  BY <1>3, Restarting DEF CallbackInterrupted, CommitRefused, InStep
<1>4. ASSUME NEW c \in Clients, CallbackRaises(c) PROVE TxnInv'
  <2>1. NoTxn \in Transactions /\ NoTxn.state = "none" /\ txn[c].state = "open"
    BY <1>4 DEF NoTxn, Transactions, CallbackRaises, InStep, Open
  <2>2. InStep(c)'
    BY <1>4, <2>1 DEF CallbackRaises, InStep, TxnTypes
  <2> QED BY <1>4, <2>1, <2>2, NotCommitting DEF CallbackRaises
<1>5. ASSUME NEW c \in Clients, Commit(c) \/ CommitUnknown(c) \/ CommitExpires(c) PROVE TxnInv'
  BY <1>5, CommitAnswered DEF Commit, CommitUnknown, CommitExpires, CommitAgain
<1>6. ASSUME NEW c \in Clients, Resume(c) PROVE TxnInv'
  <2>1. PICK t \in Transactions : t = txn[c] /\ txn' = [txn EXCEPT ![c] = t]
    BY <1>6 DEF TxnTypes, Resume
  <2>2. InStep(c)'
    BY <1>6 DEF Resume, InStep, Open, TxnTypes
  <2> QED BY <1>6, <2>1, <2>2, NotCommitting DEF Resume, Writes, Open
<1>7. ASSUME NEW c \in Clients, EndSession(c) PROVE TxnInv'
  <2> DEFINE t == [txn[c] EXCEPT !.state = "aborted"]
  <2>1. /\ t \in Transactions /\ t.state = "aborted" /\ txn[c].state = "open" /\ pc[c] = "raised"
        /\ txn' = [txn EXCEPT ![c] = t] /\ pc' = [pc EXCEPT ![c] = "raised"]
        /\ number' = number /\ log' = log
    BY <1>7 DEF TxnTypes, Transactions, EndSession, Open
  <2> HIDE DEF t
  <2>2. InStep(c)'
    BY <2>1 DEF InStep, TxnTypes
  <2> QED BY <2>1, <2>2, NotCommitting
<1>8. CASE (\E c \in Clients : TimeOver(c)) \/ UNCHANGED txnVars
  BY <1>8 DEF TimeOver, txnVars, TxnTypes, InStep, Open, OneWriter, Writes, LogInOrder
<1> QED BY <1>1, <1>2, <1>3, <1>4, <1>5, <1>6, <1>7, <1>8 DEF TxnNext, Works, Breaks

LEMMA TxnStarts == TxnInit => TxnInv
<1> SUFFICES ASSUME TxnInit PROVE TxnInv
  OBVIOUS
<1>1. /\ number = 0 /\ log = <<>> /\ txn = [c \in Clients |-> NoTxn] /\ pc = [c \in Clients |-> "idle"]
      /\ NoTxn \in Transactions /\ NoTxn.state = "none"
  BY DEF TxnInit, NoTxn, Transactions
<1>2. TxnTypes
  BY <1>1 DEF TxnTypes
<1>3. LogInOrder
  BY <1>1 DEF LogInOrder
<1> QED BY <1>1, <1>2, <1>3 DEF TxnInv, InStep, OneWriter, Writes, Open

\* Whatever the server answers and whenever the two minutes of a call are over:
\* the committed numbers follow each other without a gap or a double, a call
\* that returns has committed once, and none commits twice.
THEOREM UpdatesKept == TxnSpec => []NoLostUpdate
<1>1. TxnInv => NoLostUpdate
  <2> SUFFICES ASSUME TxnInv
               PROVE  /\ \A i \in DOMAIN log : log[i].n = i
                      /\ \A c \in Clients :
                           /\ pc[c] = "returned" => \E i \in DOMAIN log : Committed(c) = {i}
                           /\ \A i, j \in Committed(c) : i = j
    BY DEF NoLostUpdate
  <2>1. \A i \in DOMAIN log : log[i].n = i
    BY DEF TxnInv, LogInOrder
  <2>2. \A c \in Clients : \A i, j \in Committed(c) : i = j
    BY DEF TxnInv, LogInOrder, Committed
  <2>3. ASSUME NEW c \in Clients, pc[c] = "returned"
        PROVE  \E i \in DOMAIN log : Committed(c) = {i}
    <3>1. PICK i \in DOMAIN log : log[i].by = c
      BY <2>3 DEF TxnInv, InStep, LogInOrder
    <3>2. Committed(c) = {i}
      BY <2>2, <3>1 DEF Committed
    <3> QED BY <3>2
  <2> QED BY <2>1, <2>2, <2>3
<1> QED BY <1>1, TxnStarts, TxnSteps, PTL DEF TxnSpec

-----------------------------------------------------------------------------
(* MongoPool. *)

Loops == Range(LoopOf)
Kinds == Range(Names)
Places == {"rest", "ensure", "waitClient", "connect", "create", "index", "handle", "waitHandle",
           "waitHeld", "connectHeld", "keep", "waitClose", "waitBoth", "closing"}
Records == [at : Places, todo : Seq(Kinds), session : BOOLEAN, mine : SUBSET Kinds, with : Nat,
            got : SUBSET (Kinds \X Nat), closing : SUBSET Nat]

PoolTypes ==
  /\ client \in [Loops -> Nat] /\ handle \in [Loops -> [Kinds -> Nat]] /\ made \in Nat
  /\ locks \in [client : Tasks \cup {Nobody}, collection : Tasks \cup {Nobody}]
  /\ indexed \subseteq Kinds /\ flags \subseteq indexed
  /\ task \in [Tasks -> Records]

\* Where a call is tells which collection it is at, which locks it has, and
\* what they protect: who connects has found no client, and the client that is
\* to own a new handle is still its loop's.
Placed(t) ==
  /\ task[t].at \notin {"rest", "ensure", "waitClose", "waitBoth", "closing"} => task[t].todo # <<>>
  /\ task[t].at \in {"handle", "waitHandle", "waitHeld", "connectHeld", "keep"} => Now(t) \in indexed
  /\ task[t].at \in {"connect", "connectHeld", "waitBoth"} => locks.client = t
  /\ task[t].at \in {"waitHeld", "connectHeld", "keep"} => locks.collection = t
  /\ task[t].at \in {"connect", "connectHeld"} => client[Loop(t)] = 0
  /\ task[t].at = "keep" => client[Loop(t)] # 0 /\ task[t].with = client[Loop(t)]
  /\ task[t].at # "closing" => task[t].closing = {}
  /\ task[t].mine \subseteq indexed /\ \A h \in task[t].got : h[1] \in indexed

OwnHandles == \A l \in Loops, n \in Kinds : handle[l][n] \in {0, client[l]}
NoneLost == \A c \in 1..made : c \in Range(client) \cup Closing \cup shut

PInv == PoolTypes /\ (\A t \in Tasks : Placed(t)) /\ OwnHandles /\ NoneLost

-----------------------------------------------------------------------------
LEMMA Looped == ASSUME NEW t \in Tasks PROVE Loop(t) \in Loops
BY PoolAssumption DEF Loops, Loop

LEMMA Current ==
  ASSUME PoolTypes, NEW t \in Tasks, task[t].todo # <<>>
  PROVE  Now(t) \in Kinds /\ Tail(task[t].todo) \in Seq(Kinds)
<1>1. task[t].todo \in Seq(Kinds)
  BY DEF PoolTypes, Records
<1> QED BY <1>1 DEF Now

\* A step of t is one of no other call.
TaskMoves(t) == task' \in [Tasks -> Records] /\ \A u \in Tasks \ {t} : task'[u] = task[u]

\* It leaves every other call well placed, when it leaves alone what the locks
\* protect for that call.
LEMMA OthersStay ==
  ASSUME PInv, NEW t \in Tasks, TaskMoves(t), indexed \subseteq indexed',
         \A u \in Tasks \ {t} :
           /\ locks.client = u => locks'.client = u
           /\ locks.collection = u => locks'.collection = u
           /\ task[u].at \in {"connect", "connectHeld"} => client'[Loop(u)] = 0
           /\ task[u].at = "keep" => client'[Loop(u)] = client[Loop(u)],
         Placed(t)'
  PROVE  \A u \in Tasks : Placed(u)'
<1>1. ASSUME NEW u \in Tasks \ {t} PROVE Placed(u)'
  <2>1. task'[u] = task[u]
    BY DEF TaskMoves
  <2>2. Placed(u)
    BY DEF PInv
  <2>3. Now(u)' = Now(u) /\ Loop(u)' = Loop(u)
    BY <2>1 DEF Now, Loop
  <2> QED BY <2>1, <2>2, <2>3 DEF Placed
<1> QED BY <1>1

\* Most steps of a call change nothing but the place of the call and locks.
LEMMA OnlyTask ==
  ASSUME PInv, NEW t \in Tasks, TaskMoves(t), task'[t].closing = task[t].closing,
         UNCHANGED <<client, handle, made, shut, indexed, flags>>,
         locks' \in [client : Tasks \cup {Nobody}, collection : Tasks \cup {Nobody}],
         \A u \in Tasks \ {t} :
           (locks.client = u => locks'.client = u) /\ (locks.collection = u => locks'.collection = u),
         Placed(t)'
  PROVE  PInv'
<1>1. \A u \in Tasks : Placed(u)'
  <2>1. \A u \in Tasks \ {t} : task[u].at \in {"connect", "connectHeld"} => client'[Loop(u)] = 0
    BY DEF PInv, Placed
  <2> QED BY <2>1, OthersStay
<1>2. PoolTypes'
  BY DEF PInv, PoolTypes, TaskMoves
<1>3. OwnHandles'
  BY DEF PInv, OwnHandles
<1>4. NoneLost'
  <2>1. \A u \in Tasks : task'[u].closing = task[u].closing
    BY DEF TaskMoves
  <2>2. Closing' = Closing
    BY <2>1 DEF Closing
  <2> QED BY <2>2 DEF PInv, NoneLost
<1> QED BY <1>1, <1>2, <1>3, <1>4 DEF PInv

\* Facts about t that each step needs.
LEMMA Here ==
  ASSUME PInv, NEW t \in Tasks
  PROVE  /\ task[t] \in Records /\ Placed(t) /\ Loop(t) \in Loops /\ client[Loop(t)] \in Nat
         /\ task[t].todo # <<>> => Now(t) \in Kinds /\ Tail(task[t].todo) \in Seq(Kinds)
                                   /\ handle[Loop(t)][Now(t)] \in Nat
BY Looped, Current DEF PInv, PoolTypes

LEMMA Takes ==
  ASSUME PInv, NEW t \in Tasks, NEW rec \in Records, task' = [task EXCEPT ![t] = rec]
  PROVE  TaskMoves(t) /\ task'[t] = rec
BY DEF TaskMoves, PInv, PoolTypes

LEMMA AtRest == Resting \in Records /\ Resting.at = "rest" /\ Resting.closing = {} /\ Resting.mine = {} /\ Resting.got = {}
BY DEF Resting, Records, Places

LEMMA Rests ==
  ASSUME PInv, NEW t \in Tasks, task' = [task EXCEPT ![t] = Resting]
  PROVE  TaskMoves(t) /\ Placed(t)' /\ (task[t].at # "closing" => task'[t].closing = task[t].closing)
<1>1. TaskMoves(t) /\ task'[t] = Resting
  BY AtRest, Takes
<1> QED BY <1>1, AtRest, Here DEF Placed

LEMMA Calls ==
  ASSUME PInv, NEW t \in Tasks, NEW names \in Seq(Kinds), NEW session \in BOOLEAN, EnsureCall(t, names, session)
  PROVE  PInv'
<1> DEFINE rec == [at |-> "ensure", todo |-> names, session |-> session,
                   mine |-> IF session THEN flags ELSE {}, with |-> 0, got |-> {}, closing |-> {}]
<1>1. rec \in Records
  <2>1. (IF session THEN flags ELSE {}) \in SUBSET Kinds
    BY DEF PInv, PoolTypes
  <2> QED BY <2>1 DEF Records, Places
<1>2. TaskMoves(t) /\ task'[t] = rec
  BY <1>1, Takes DEF EnsureCall
<1>3. Placed(t)'
  BY <1>2 DEF Placed, PInv, PoolTypes, EnsureCall
<1>4. task[t].closing = {}
  BY Here DEF Placed, EnsureCall
<1> QED BY <1>2, <1>3, <1>4, OnlyTask DEF EnsureCall, PInv, PoolTypes

\* t goes to another place of the same call.
LEMMA Goes ==
  ASSUME PInv, NEW t \in Tasks, NEW place \in Places, To(t, place)
  PROVE  /\ TaskMoves(t) /\ task'[t].at = place /\ task'[t].with = task[t].with /\ task'[t].todo = task[t].todo
         /\ task'[t].mine = task[t].mine /\ task'[t].got = task[t].got /\ task'[t].closing = task[t].closing
         /\ Now(t)' = Now(t) /\ Loop(t)' = Loop(t)
<1> DEFINE rec == [at |-> place, todo |-> task[t].todo, session |-> task[t].session, mine |-> task[t].mine,
                   with |-> task[t].with, got |-> task[t].got, closing |-> task[t].closing]
<1>1. task[t] \in Records /\ task \in [Tasks -> Records]
  BY DEF PInv, PoolTypes
<1>2. rec \in Records
  BY <1>1 DEF Records
<1>3. task'[t] = rec
  BY <1>1 DEF To, Records
<1>4. TaskMoves(t)
  BY <1>1, <1>2, <1>3 DEF To, TaskMoves
<1> QED BY <1>3, <1>4 DEF Now, Loop

LEMMA FindsClient ==
  ASSUME PInv, NEW t \in Tasks, NEW hit \in Places, NEW wait \in Places, FindClient(t, hit, wait)
  PROVE  /\ TaskMoves(t) /\ task'[t].at = (IF client[Loop(t)] # 0 THEN hit ELSE wait)
         /\ task'[t].with = client[Loop(t)] /\ task'[t].todo = task[t].todo
         /\ task'[t].mine = task[t].mine /\ task'[t].got = task[t].got /\ task'[t].closing = task[t].closing
         /\ Now(t)' = Now(t) /\ Loop(t)' = Loop(t)
<1> DEFINE rec == [at |-> IF client[Loop(t)] # 0 THEN hit ELSE wait, todo |-> task[t].todo,
                   session |-> task[t].session, mine |-> task[t].mine, with |-> client[Loop(t)],
                   got |-> task[t].got, closing |-> task[t].closing]
<1>1. task[t] \in Records /\ client[Loop(t)] \in Nat /\ task \in [Tasks -> Records]
  BY Here DEF PInv, PoolTypes
<1>2. rec \in Records
  BY <1>1 DEF Records
<1>3. task'[t] = rec
  BY <1>1 DEF FindClient, Records
<1>4. TaskMoves(t)
  BY <1>1, <1>2, <1>3 DEF FindClient, TaskMoves
<1> QED BY <1>3, <1>4 DEF Now, Loop

\* The handle goes to the operation.
LEMMA Hands ==
  ASSUME PInv, NEW t \in Tasks, NEW c \in Nat, task[t].todo # <<>>, Now(t) \in indexed, Hand(t, c)
  PROVE  TaskMoves(t) /\ task'[t].closing = task[t].closing
         /\ (UNCHANGED indexed /\ task[t].at # "closing" => Placed(t)')
<1> DEFINE rec == [at |-> "ensure", todo |-> Tail(task[t].todo), session |-> task[t].session,
                   mine |-> task[t].mine, with |-> 0, got |-> task[t].got \cup {<<Now(t), c>>},
                   closing |-> task[t].closing]
<1>1. task[t] \in Records /\ Placed(t) /\ Now(t) \in Kinds /\ Tail(task[t].todo) \in Seq(Kinds)
  BY Here
<1>2. rec \in Records
  BY <1>1 DEF Records, Places
<1>3. task'[t] = rec
  BY <1>1 DEF Hand, PInv, PoolTypes, Records
<1>4. TaskMoves(t)
  BY <1>2, <1>3 DEF Hand, TaskMoves, PInv, PoolTypes
<1> QED BY <1>1, <1>3, <1>4 DEF Placed

LEMMA FindsHandle ==
  ASSUME PInv, NEW t \in Tasks, task[t].todo # <<>>, Now(t) \in indexed, FindHandle(t), task[t].at \in {"ensure", "handle"},
         UNCHANGED <<client, handle, made, shut, locks, exists, indexed, flags, calls>>
  PROVE  PInv'
<1>1. handle[Loop(t)][Now(t)] \in Nat
  BY Here
<1>2. CASE handle[Loop(t)][Now(t)] # 0
  BY <1>1, <1>2, Hands, OnlyTask DEF FindHandle, PInv, PoolTypes
<1>3. CASE handle[Loop(t)][Now(t)] = 0
  <2>1. To(t, "waitHandle") /\ "waitHandle" \in Places
    BY <1>3 DEF FindHandle, Places
  <2>2. Placed(t)'
    BY <2>1, Goes, Here DEF Placed
  <2> QED BY <2>1, <2>2, Goes, OnlyTask DEF PInv, PoolTypes
<1> QED BY <1>2, <1>3

LEMMA Ensures == ASSUME PInv, NEW t \in Tasks, Ensure(t) PROVE PInv'
<1>1. task[t].at = "ensure" /\ UNCHANGED <<client, handle, made, shut, locks, exists, indexed, flags, calls>>
  BY DEF Ensure
<1>2. task[t] \in Records /\ Placed(t)
  BY Here
<1>3. CASE task[t].todo = <<>>
  <2>1. task' = [task EXCEPT ![t] = Resting]
    BY <1>3 DEF Ensure
  <2> QED BY <1>1, <2>1, Rests, OnlyTask DEF PInv, PoolTypes
<1>4. CASE task[t].todo # <<>> /\ Now(t) \in Flags(t)
  <2>1. Now(t) \in indexed
    BY <1>2, <1>4 DEF Flags, Placed, PInv, PoolTypes
  <2>2. FindHandle(t)
    BY <1>4 DEF Ensure
  <2> QED BY <1>1, <1>4, <2>1, <2>2, FindsHandle
<1>5. CASE task[t].todo # <<>> /\ Now(t) \notin Flags(t)
  <2>1. FindClient(t, "create", "waitClient") /\ "create" \in Places /\ "waitClient" \in Places
    BY <1>5 DEF Ensure, Places
  <2>2. Placed(t)'
    BY <1>1, <1>2, <1>5, <2>1, FindsClient DEF Placed
  <2> QED BY <1>1, <2>1, <2>2, FindsClient, OnlyTask DEF PInv, PoolTypes
<1> QED BY <1>3, <1>4, <1>5

\* Under the client lock: a client that is missing is made by who has the lock.
LEMMA Locks ==
  ASSUME PInv, NEW t \in Tasks, NEW place, NEW hit, NEW connect, LockClient(t, place, hit, connect),
         \/ place = "waitClient" /\ hit = "create" /\ connect = "connect"
         \/ place = "waitHeld" /\ hit = "keep" /\ connect = "connectHeld"
  PROVE  PInv'
<1>1. /\ task[t].at = place /\ locks.client = Nobody /\ FindClient(t, hit, connect)
      /\ locks' = IF client[Loop(t)] = 0 THEN [locks EXCEPT !.client = t] ELSE locks
      /\ UNCHANGED <<client, handle, made, shut, exists, indexed, flags, calls>>
      /\ hit \in Places /\ connect \in Places
  BY DEF LockClient, Places
<1>2. task[t] \in Records /\ Placed(t)
  BY Here
<1>3. /\ locks' \in [client : Tasks \cup {Nobody}, collection : Tasks \cup {Nobody}]
      /\ locks'.collection = locks.collection /\ (client[Loop(t)] = 0 => locks'.client = t)
  BY <1>1 DEF PInv, PoolTypes
<1>4. \A u \in Tasks : locks.client # u
  BY <1>1, PoolAssumption
<1>5. Placed(t)'
  <2>1. /\ TaskMoves(t) /\ task'[t].at = (IF client[Loop(t)] # 0 THEN hit ELSE connect)
        /\ task'[t].with = client[Loop(t)] /\ task'[t].todo = task[t].todo
        /\ task'[t].mine = task[t].mine /\ task'[t].got = task[t].got /\ task'[t].closing = task[t].closing
        /\ Now(t)' = Now(t) /\ Loop(t)' = Loop(t)
    BY <1>1, FindsClient
  <2> QED BY <1>1, <1>2, <1>3, <2>1 DEF Placed
<1> QED BY <1>1, <1>3, <1>4, <1>5, FindsClient, OnlyTask

LEMMA Connects ==
  ASSUME PInv, NEW t \in Tasks, NEW place, NEW next, Connect(t, place, next),
         \/ place = "connect" /\ next = "create"
         \/ place = "connectHeld" /\ next = "keep"
  PROVE  PInv'
<1>1. /\ task[t].at = place /\ made' = made + 1 /\ client' = [client EXCEPT ![Loop(t)] = made']
      /\ locks' = [locks EXCEPT !.client = Nobody] /\ UNCHANGED <<handle, shut, exists, indexed, flags, calls>>
      /\ next \in Places
  BY DEF Connect, Places
<1>2. task[t] \in Records /\ Placed(t) /\ Loop(t) \in Loops /\ client[Loop(t)] = 0 /\ locks.client = t
  BY <1>1, Here DEF Placed
<1>3. made \in Nat /\ made' \in Nat /\ made' # 0 /\ client' \in [Loops -> Nat] /\ client'[Loop(t)] = made'
      /\ \A l \in Loops \ {Loop(t)} : client'[l] = client[l]
  BY <1>1, <1>2 DEF PInv, PoolTypes
<1>4. locks' \in [client : Tasks \cup {Nobody}, collection : Tasks \cup {Nobody}]
      /\ locks'.collection = locks.collection
  BY <1>1 DEF PInv, PoolTypes
<1> DEFINE rec == [at |-> next, todo |-> task[t].todo, session |-> task[t].session, mine |-> task[t].mine,
                   with |-> made', got |-> task[t].got, closing |-> task[t].closing]
<1>5. rec \in Records
  BY <1>1, <1>2, <1>3 DEF Records
<1>6. task'[t] = rec
  BY <1>2 DEF Connect, Records, PInv, PoolTypes
<1>7. TaskMoves(t)
  BY <1>5, <1>6 DEF TaskMoves, Connect, PInv, PoolTypes
<1>8. Placed(t)'
  <2>1. Now(t)' = Now(t) /\ Loop(t)' = Loop(t)
    BY <1>6 DEF Now, Loop
  <2> QED BY <1>1, <1>2, <1>3, <1>4, <1>6, <2>1 DEF Placed
<1>9. \A u \in Tasks : Placed(u)'
  <2>1. \A u \in Tasks \ {t} : locks.client # u
    BY <1>2
  <2>2. \A u \in Tasks \ {t} : task[u].at \notin {"connect", "connectHeld"}
    BY <2>1 DEF PInv, Placed
  <2>3. ASSUME NEW u \in Tasks \ {t}, task[u].at = "keep" PROVE client'[Loop(u)] = client[Loop(u)]
    <3>1. client[Loop(u)] # 0 /\ Loop(u) \in Loops
      BY <2>3, Looped DEF PInv, Placed
    <3> QED BY <1>2, <1>3, <3>1
  <2> QED BY <1>1, <1>4, <1>7, <1>8, <2>1, <2>2, <2>3, OthersStay
<1>10. OwnHandles'
  BY <1>1, <1>2, <1>3 DEF PInv, OwnHandles, PoolTypes
<1>11. NoneLost'
  <2>1. \A u \in Tasks : task'[u].closing = task[u].closing
    BY <1>6, <1>7 DEF TaskMoves
  <2>2. Closing' = Closing
    BY <2>1 DEF Closing
  <2>3. \A l \in Loops : client[l] # 0 => client'[l] = client[l]
    BY <1>2, <1>3
  <2>4. \A c \in 1..made : c \in Range(client) => c \in Range(client')
    BY <1>3, <2>3 DEF Range, PInv, PoolTypes
  <2>5. made' \in Range(client')
    BY <1>2, <1>3 DEF Range
  <2>6. ASSUME NEW c \in 1..made' PROVE c \in Range(client') \cup Closing' \cup shut'
    <3>1. c \in 1..made \/ c = made'
      BY <1>1, <1>3, <2>6
    <3>2. c \in 1..made => c \in Range(client) \cup Closing \cup shut
      BY DEF PInv, NoneLost
    <3> QED BY <1>1, <2>2, <2>4, <2>5, <3>1, <3>2
  <2> QED BY <2>6 DEF NoneLost
<1>12. PoolTypes'
  BY <1>1, <1>3, <1>4, <1>7 DEF PInv, PoolTypes, TaskMoves
<1> QED BY <1>9, <1>10, <1>11, <1>12 DEF PInv

LEMMA Creates == ASSUME PInv, NEW t \in Tasks, Create(t) PROVE PInv'
<1>1. /\ task[t].at = "create" /\ To(t, "index") /\ "index" \in Places
      /\ UNCHANGED <<client, handle, made, shut, locks, indexed, flags, calls>>
  BY DEF Create, AfterCreate, Places
<1>2. Placed(t)'
  BY <1>1, Goes, Here DEF Placed
<1> QED BY <1>1, <1>2, Goes, OnlyTask DEF PInv, PoolTypes

LEMMA Indexes == ASSUME PInv, NEW t \in Tasks, Index(t) PROVE PInv'
<1>1. /\ task[t].at = "index" /\ indexed' = indexed \cup {Now(t)}
      /\ UNCHANGED <<client, handle, made, shut, locks, exists, calls>>
  BY DEF Index
<1>2. task[t] \in Records /\ Placed(t) /\ Now(t) \in Kinds
  BY <1>1, Here DEF Placed
<1>3. /\ TaskMoves(t) /\ task'[t].at = "handle" /\ task'[t].todo = task[t].todo /\ task'[t].got = task[t].got
      /\ task'[t].mine \subseteq task[t].mine \cup {Now(t)} /\ task'[t].closing = task[t].closing
      /\ flags' \subseteq flags \cup {Now(t)}
  <2>1. CASE task[t].session
    <3> DEFINE rec == [at |-> "handle", todo |-> task[t].todo, session |-> task[t].session,
                       mine |-> task[t].mine \cup {Now(t)}, with |-> task[t].with, got |-> task[t].got,
                       closing |-> task[t].closing]
    <3>1. rec \in Records
      BY <1>2 DEF Records, Places
    <3>2. task'[t] = rec /\ UNCHANGED flags
      BY <1>2, <2>1 DEF Index, Records, PInv, PoolTypes
    <3>3. TaskMoves(t)
      BY <2>1, <3>1, <3>2 DEF TaskMoves, Index, PInv, PoolTypes
    <3> QED BY <3>2, <3>3
  <2>2. CASE ~task[t].session
    <3>1. To(t, "handle") /\ "handle" \in Places /\ flags' = flags \cup {Now(t)}
      BY <2>2 DEF Index, Places
    <3> QED BY <3>1, Goes
  <2> QED BY <2>1, <2>2
<1>4. Placed(t)'
  <2>1. Now(t)' = Now(t)
    BY <1>3 DEF Now
  <2> QED BY <1>1, <1>2, <1>3, <2>1 DEF Placed
<1>5. \A u \in Tasks : Placed(u)'
  <2>1. \A u \in Tasks \ {t} : task[u].at \in {"connect", "connectHeld"} => client'[Loop(u)] = 0
    BY <1>1 DEF PInv, Placed
  <2> QED BY <1>1, <1>3, <1>4, <2>1, OthersStay
<1>6. OwnHandles'
  BY <1>1 DEF PInv, OwnHandles
<1>7. NoneLost'
  <2>1. \A u \in Tasks : task'[u].closing = task[u].closing
    BY <1>3 DEF TaskMoves
  <2>2. Closing' = Closing
    BY <2>1 DEF Closing
  <2> QED BY <1>1, <2>2 DEF PInv, NoneLost
<1>8. PoolTypes'
  BY <1>1, <1>2, <1>3 DEF PInv, PoolTypes, TaskMoves
<1> QED BY <1>5, <1>6, <1>7, <1>8 DEF PInv

LEMMA GetsHandle == ASSUME PInv, NEW t \in Tasks, GetHandle(t) PROVE PInv'
<1>1. task[t].at = "handle" /\ task[t].todo # <<>> /\ Now(t) \in indexed
  BY Here DEF GetHandle, Placed
<1> QED BY <1>1, FindsHandle DEF GetHandle

LEMMA LocksHandle == ASSUME PInv, NEW t \in Tasks, LockHandle(t) PROVE PInv'
<1>1. /\ task[t].at = "waitHandle" /\ locks.collection = Nobody
      /\ UNCHANGED <<client, handle, made, shut, exists, indexed, flags, calls>>
  BY DEF LockHandle
<1>2. task[t] \in Records /\ Placed(t) /\ task[t].todo # <<>> /\ Now(t) \in indexed /\ handle[Loop(t)][Now(t)] \in Nat
  BY <1>1, Here DEF Placed
<1>3. CASE handle[Loop(t)][Now(t)] # 0
  <2>1. Hand(t, handle[Loop(t)][Now(t)]) /\ UNCHANGED locks
    BY <1>3 DEF LockHandle
  <2> QED BY <1>1, <1>2, <2>1, Hands, OnlyTask DEF PInv, PoolTypes
<1>4. CASE handle[Loop(t)][Now(t)] = 0
  <2>1. FindClient(t, "keep", "waitHeld") /\ locks' = [locks EXCEPT !.collection = t]
        /\ "keep" \in Places /\ "waitHeld" \in Places
    BY <1>4 DEF LockHandle, Places
  <2>2. /\ locks' \in [client : Tasks \cup {Nobody}, collection : Tasks \cup {Nobody}]
        /\ locks'.client = locks.client /\ locks'.collection = t
    BY <2>1 DEF PInv, PoolTypes
  <2>3. \A u \in Tasks : locks.collection # u
    BY <1>1, PoolAssumption
  <2>4. Placed(t)'
    BY <1>1, <1>2, <2>1, <2>2, FindsClient DEF Placed
  <2> QED BY <1>1, <2>1, <2>2, <2>3, <2>4, FindsClient, OnlyTask
<1> QED BY <1>3, <1>4

LEMMA KeepsHandle == ASSUME PInv, NEW t \in Tasks, KeepHandle(t) PROVE PInv'
<1>1. /\ task[t].at = "keep" /\ Hand(t, task[t].with) /\ locks' = [locks EXCEPT !.collection = Nobody]
      /\ handle' = [handle EXCEPT ![Loop(t)][Now(t)] = IF @ = 0 THEN task[t].with ELSE @]
      /\ UNCHANGED <<client, made, shut, exists, indexed, flags, calls>>
  BY DEF KeepHandle
<1>2. /\ task[t] \in Records /\ Placed(t) /\ task[t].todo # <<>> /\ Now(t) \in indexed /\ Now(t) \in Kinds
      /\ Loop(t) \in Loops /\ task[t].with = client[Loop(t)] /\ task[t].with \in Nat /\ locks.collection = t
  BY <1>1, Here DEF Placed
<1>3. TaskMoves(t) /\ task'[t].closing = task[t].closing /\ Placed(t)'
  BY <1>1, <1>2, Hands
<1>4. /\ locks' \in [client : Tasks \cup {Nobody}, collection : Tasks \cup {Nobody}]
      /\ locks'.client = locks.client
  BY <1>1 DEF PInv, PoolTypes
<1>5. \A u \in Tasks : Placed(u)'
  <2>1. \A u \in Tasks \ {t} : task[u].at \in {"connect", "connectHeld"} => client'[Loop(u)] = 0
    BY <1>1 DEF PInv, Placed
  <2> QED BY <1>1, <1>2, <1>3, <1>4, <2>1, OthersStay
<1>6. handle' \in [Loops -> [Kinds -> Nat]] /\ OwnHandles'
  <2>1. ASSUME NEW l \in Loops, NEW n \in Kinds PROVE handle'[l][n] \in {handle[l][n], client[l]}
    BY <1>1, <1>2 DEF PInv, PoolTypes
  <2>2. handle' \in [Loops -> [Kinds -> Nat]]
    BY <1>1, <1>2 DEF PInv, PoolTypes
  <2> QED BY <1>1, <2>1, <2>2 DEF PInv, OwnHandles
<1>7. NoneLost'
  <2>1. \A u \in Tasks : task'[u].closing = task[u].closing
    BY <1>3 DEF TaskMoves
  <2>2. Closing' = Closing
    BY <2>1 DEF Closing
  <2> QED BY <1>1, <2>2 DEF PInv, NoneLost
<1>8. PoolTypes'
  BY <1>1, <1>3, <1>4, <1>6 DEF PInv, PoolTypes, TaskMoves
<1> QED BY <1>5, <1>6, <1>7, <1>8 DEF PInv

LEMMA Freed ==
  ASSUME PInv, NEW t \in Tasks, locks' = Frees(t)
  PROVE  /\ locks' \in [client : Tasks \cup {Nobody}, collection : Tasks \cup {Nobody}]
         /\ \A u \in Tasks \ {t} :
              (locks.client = u => locks'.client = u) /\ (locks.collection = u => locks'.collection = u)
BY DEF Frees, PInv, PoolTypes

LEMMA Fails == ASSUME PInv, NEW t \in Tasks, RequestFails(t) PROVE PInv'
<1>1. task' = [task EXCEPT ![t] = Resting] /\ task[t].at # "closing" /\ locks' = Frees(t)
      /\ UNCHANGED <<client, handle, made, shut, exists, indexed, flags, calls>>
  BY DEF RequestFails
<1> QED BY <1>1, Rests, Freed, OnlyTask

LEMMA Closes == ASSUME PInv, NEW t \in Tasks, Close(t) \/ LockToClose(t) PROVE PInv'
<1>1. CASE Close(t)
  <2>1. /\ task[t].at = "rest" /\ To(t, "waitClose") /\ "waitClose" \in Places
        /\ UNCHANGED <<client, handle, made, shut, locks, exists, indexed, flags>>
    BY <1>1 DEF Close, Places
  <2>2. Placed(t)'
    BY <2>1, Goes, Here DEF Placed
  <2> QED BY <2>1, <2>2, Goes, OnlyTask DEF PInv, PoolTypes
<1>2. CASE LockToClose(t)
  <2>1. /\ task[t].at = "waitClose" /\ To(t, "waitBoth") /\ "waitBoth" \in Places
        /\ locks.client = Nobody /\ locks' = [locks EXCEPT !.client = t]
        /\ UNCHANGED <<client, handle, made, shut, exists, indexed, flags, calls>>
    BY <1>2 DEF LockToClose, SecondLock, Places
  <2>2. /\ locks' \in [client : Tasks \cup {Nobody}, collection : Tasks \cup {Nobody}]
        /\ locks'.client = t /\ locks'.collection = locks.collection
    BY <2>1 DEF PInv, PoolTypes
  <2>3. Placed(t)'
    BY <2>1, <2>2, Goes, Here DEF Placed
  <2>4. \A u \in Tasks : locks.client # u
    BY <2>1, PoolAssumption
  <2> QED BY <2>1, <2>2, <2>3, <2>4, Goes, OnlyTask
<1> QED BY <1>1, <1>2

LEMMA Clears == ASSUME PInv, NEW t \in Tasks, Clear(t) PROVE PInv'
<1>1. /\ task[t].at = "waitBoth" /\ locks.collection = Nobody /\ locks' = Frees(t)
      /\ UNCHANGED <<made, shut, exists, indexed, flags, calls>>
  <2>1. task[t].at # "clear"
    BY Here DEF Records, Places
  <2> QED BY <2>1 DEF Clear
<1>2. client' = [l \in Loops |-> 0] /\ handle' = [l \in Loops |-> [n \in Kinds |-> 0]]
  BY DEF Clear, PInv, PoolTypes, Kinds
<1>3. task[t] \in Records /\ Placed(t) /\ locks.client = t
  BY <1>1, Here DEF Placed
<1> DEFINE gone == Range(client) \ {0}
           rec == [at |-> "closing", todo |-> task[t].todo, session |-> task[t].session, mine |-> task[t].mine,
                   with |-> task[t].with, got |-> task[t].got, closing |-> gone]
<1>4. gone \in SUBSET Nat
  BY DEF Range, PInv, PoolTypes
<1>5. rec \in Records
  BY <1>3, <1>4 DEF Records, Places
<1>6. task'[t] = rec
  BY <1>3 DEF Clear, Records, PInv, PoolTypes
<1>7. TaskMoves(t)
  BY <1>5, <1>6 DEF TaskMoves, Clear, PInv, PoolTypes
<1>8. Placed(t)'
  BY <1>1, <1>3, <1>6 DEF Placed
<1>9. \A u \in Tasks : Placed(u)'
  <2>1. \A u \in Tasks \ {t} : locks.client # u
    BY <1>3
  <2>2. \A u \in Tasks : locks.collection # u
    BY <1>1, PoolAssumption
  <2>3. \A u \in Tasks \ {t} : task[u].at \notin {"connect", "connectHeld", "keep"}
    BY <2>1, <2>2 DEF PInv, Placed
  <2> QED BY <1>1, <1>7, <1>8, <2>1, <2>2, <2>3, OthersStay
<1>10. OwnHandles'
  BY <1>2 DEF OwnHandles
<1>11. NoneLost'
  <2>1. task[t].closing = {}
    BY <1>1, <1>3 DEF Placed
  <2>2. \A u \in Tasks : task[u].closing \subseteq task'[u].closing
    BY <1>7, <2>1 DEF TaskMoves
  <2>3. Closing \cup gone \subseteq Closing'
    BY <1>6, <2>2 DEF Closing
  <2>4. ASSUME NEW c \in 1..made PROVE c \in Closing' \cup shut'
    <3>1. c \in Range(client) \cup Closing \cup shut /\ c # 0
      BY DEF PInv, NoneLost, PoolTypes
    <3> QED BY <1>1, <2>3, <3>1
  <2> QED BY <1>1, <2>4 DEF NoneLost
<1>12. PoolTypes'
  BY <1>1, <1>2, <1>7, Freed DEF PInv, PoolTypes, TaskMoves
<1> QED BY <1>9, <1>10, <1>11, <1>12 DEF PInv

LEMMA ClosesOne == ASSUME PInv, NEW t \in Tasks, CloseOne(t) PROVE PInv'
<1>1. task[t].at = "closing" /\ UNCHANGED <<client, handle, made, locks, exists, indexed, flags, calls>>
  BY DEF CloseOne
<1>2. task[t] \in Records /\ Placed(t)
  BY Here
<1>3. CASE task[t].closing = {}
  <2>1. To(t, "rest") /\ "rest" \in Places /\ UNCHANGED shut
    BY <1>3 DEF CloseOne, Places
  <2>2. Placed(t)'
    BY <1>1, <1>2, <1>3, <2>1, Goes DEF Placed
  <2> QED BY <1>1, <2>1, <2>2, Goes, OnlyTask DEF PInv, PoolTypes
<1>4. CASE task[t].closing # {}
  <2>1. PICK c \in task[t].closing :
          shut' = shut \cup {c} /\ task' = [task EXCEPT ![t].closing = @ \ {c}]
    BY <1>4 DEF CloseOne
  <2> DEFINE rec == [at |-> "closing", todo |-> task[t].todo, session |-> task[t].session, mine |-> task[t].mine,
                     with |-> task[t].with, got |-> task[t].got, closing |-> task[t].closing \ {c}]
  <2>2. rec \in Records
    BY <1>2 DEF Records, Places
  <2>3. task'[t] = rec
    BY <1>1, <1>2, <2>1 DEF Records, PInv, PoolTypes
  <2>4. TaskMoves(t)
    BY <2>1, <2>2, <2>3 DEF TaskMoves, PInv, PoolTypes
  <2>5. Placed(t)'
    BY <1>1, <1>2, <2>3 DEF Placed
  <2>6. \A u \in Tasks : Placed(u)'
    <3>1. \A u \in Tasks \ {t} : task[u].at \in {"connect", "connectHeld"} => client'[Loop(u)] = 0
      BY <1>1 DEF PInv, Placed
    <3> QED BY <1>1, <2>4, <2>5, <3>1, OthersStay
  <2>7. NoneLost'
    <3>1. \A u \in Tasks : task[u].closing \subseteq task'[u].closing \cup {c}
      BY <2>3, <2>4 DEF TaskMoves
    <3>2. Closing \subseteq Closing' \cup {c}
      BY <3>1 DEF Closing
    <3> QED BY <1>1, <2>1, <3>2 DEF PInv, NoneLost
  <2>8. OwnHandles' /\ PoolTypes'
    BY <1>1, <2>4 DEF PInv, OwnHandles, PoolTypes, TaskMoves
  <2> QED BY <2>6, <2>7, <2>8 DEF PInv
<1> QED BY <1>3, <1>4

LEMMA PoolSteps == PInv /\ [PoolNext]_pool => PInv'
<1> SUFFICES ASSUME PInv, [PoolNext]_pool PROVE PInv'
  OBVIOUS
<1>1. CASE UNCHANGED pool
  <2>1. PoolTypes' /\ OwnHandles'
    BY <1>1 DEF pool, PInv, PoolTypes, OwnHandles
  <2>2. NoneLost'
    BY <1>1 DEF pool, PInv, NoneLost, Closing
  <2>3. \A t \in Tasks : Placed(t)'
    BY <1>1 DEF pool, PInv, Placed, Now, Loop
  <2> QED BY <2>1, <2>2, <2>3 DEF PInv
<1>2. ASSUME NEW t \in Tasks, PoolStep(t) PROVE PInv'
  <2>1. ASSUME NEW session \in BOOLEAN, EnsureCall(t, Names, session) \/ \E n \in Range(Names) : EnsureCall(t, <<n>>, session)
        PROVE  PInv'
    <3>1. Names \in Seq(Kinds) /\ \A n \in Range(Names) : <<n>> \in Seq(Kinds)
      BY PoolAssumption DEF Kinds
    <3>2. CASE EnsureCall(t, Names, session)
      BY <3>1, <3>2, Calls
    <3>3. ASSUME NEW n \in Range(Names), EnsureCall(t, <<n>>, session) PROVE PInv'
      <4>1. <<n>> \in Seq(Kinds)
        BY <3>1
      <4> QED BY <3>3, <4>1, Calls
    <3> QED BY <2>1, <3>2, <3>3
  <2>2. ASSUME LockClient(t, "waitClient", "create", "connect") \/ LockClient(t, "waitHeld", "keep", "connectHeld")
        PROVE  PInv'
    BY <2>2, Locks
  <2>3. ASSUME Connect(t, "connect", "create") \/ Connect(t, "connectHeld", "keep") PROVE PInv'
    BY <2>3, Connects
  <2>4. (\E session \in BOOLEAN : EnsureCall(t, Names, session) \/ \E n \in Range(Names) : EnsureCall(t, <<n>>, session)) => PInv'
    BY <2>1
  <2> QED BY <1>2, <2>2, <2>3, <2>4, Ensures, Creates, Indexes, GetsHandle, LocksHandle, KeepsHandle, Fails,
             Closes, Clears, ClosesOne DEF PoolStep
<1> QED BY <1>1, <1>2 DEF PoolNext

LEMMA PoolBegins == PoolInit => PInv
<1> SUFFICES ASSUME PoolInit PROVE PInv
  OBVIOUS
<1>1. client = [l \in Loops |-> 0] /\ handle = [l \in Loops |-> [n \in Kinds |-> 0]] /\ made = 0
      /\ locks = [client |-> Nobody, collection |-> Nobody] /\ indexed = {} /\ flags = {}
      /\ task = [t \in Tasks |-> Resting]
  BY DEF PoolInit, Loops, Kinds
<1>2. PoolTypes /\ OwnHandles
  BY <1>1, AtRest DEF PoolTypes, OwnHandles
<1>3. \A t \in Tasks : Placed(t)
  BY <1>1, AtRest DEF Placed
<1>4. NoneLost
  BY <1>1 DEF NoneLost
<1> QED BY <1>2, <1>3, <1>4 DEF PInv

\* Whatever calls, sessions, failed requests and closes interleave: a handle is
\* given only for a collection that has its unique index, the pool's handles
\* belong to the client their loop has now, and no client is lost.
THEOREM PoolSound == PoolSpec => []PoolIsSound
<1>1. PInv => PoolIsSound
  BY DEF PInv, Placed, OwnHandles, NoneLost, PoolIsSound, Loops, Kinds
<1> QED BY <1>1, PoolBegins, PoolSteps, PTL DEF PoolSpec

-----------------------------------------------------------------------------
(* MongoWait. *)

WaitTypes ==
  /\ {now, asOf, rested, wake, current} \subseteq Nat
  /\ deadline \in Nat \cup {Never}
  /\ DOMAIN finished = Known /\ \A r \in Known : finished[r] \in Nat \cup {Never}
  /\ at \in {"idle", "poll", "rest", "sleep", "done"}
  /\ asked \in Seq(Range(asked))

\* While it polls, the waiter misses what it was asked for and has not found,
\* and found only what is over.
Split == at \in {"poll", "rest", "sleep"} => missing \cup found = Range(asked) /\ found \subseteq Over

NotAhead == \A r \in Over : finished[r] <= now

\* What is missing after a read has finished after it.  The sleep ends within
\* the margin before the deadline, or after a nap.
ReadLast == at \in {"rest", "sleep"} => asOf <= now /\ \A r \in missing \cap Over : finished[r] >= asOf
Sleeps ==
  at = "sleep" =>
    /\ asOf <= rested /\ wake <= rested + Longest
    /\ deadline # Never => wake <= deadline - Margin \/ wake = rested + Nap

\* What the answer has not is over the deadline, or is unfinished.
GaveUp ==
  /\ deadline # Never /\ now > deadline /\ Lag \in Nat
  /\ \A r \in Range(asked) \cap Over : finished[r] <= deadline - Lag => r \in Range(result)
Answered ==
  at = "done" =>
    /\ result = Only(asked, Range(result)) /\ Range(result) \subseteq Over
    /\ Range(result) = Range(asked) \/ GaveUp

WaitInv == WaitTypes /\ Split /\ NotAhead /\ ReadLast /\ Sleeps /\ Answered

-----------------------------------------------------------------------------
LEMMA WaitStarts == WaitInit => WaitInv
<1> SUFFICES ASSUME WaitInit PROVE WaitInv
  OBVIOUS
<1>1. <<>> \in Seq(Range(<<>>)) /\ Never \notin Nat
  BY WaitAssumption
<1> QED BY <1>1 DEF WaitInit, WaitInv, WaitTypes, Split, NotAhead, ReadLast, Sleeps, Answered, Over

LEMMA Asking ==
  ASSUME WaitInv, NEW ids \in Asks, NEW timeout \in Timeouts, Ask(ids, timeout)
  PROVE  WaitInv'
<1>1. /\ at' = "poll" /\ asked' = ids /\ missing' = Range(ids) /\ found' = {}
      /\ UNCHANGED <<finished, asOf, rested, wake, current, now>>
      /\ deadline' = IF timeout = Never THEN Never ELSE now + timeout
  BY DEF Ask
<1>2. ids \in Seq(Range(ids)) /\ (timeout # Never => timeout \in Nat)
  BY WaitAssumption
<1>3. WaitTypes'
  BY <1>1, <1>2 DEF WaitInv, WaitTypes
<1>4. Split' /\ NotAhead' /\ ReadLast' /\ Sleeps' /\ Answered'
  BY <1>1 DEF WaitInv, Split, NotAhead, ReadLast, Sleeps, Answered, Over
<1> QED BY <1>3, <1>4 DEF WaitInv

LEMMA Answers ==
  ASSUME WaitInv, NEW have, Return(have), have \subseteq Range(asked)
  PROVE  result' = Only(asked, Range(result')) /\ Range(result') = have /\ at' = "done"
<1>1. result' = Only(asked, have) /\ at' = "done" /\ asked \in Seq(Range(asked))
  BY DEF Return, WaitInv, WaitTypes
<1>2. \A x : x \in Range(Only(asked, have)) <=> x \in Range(asked) /\ x \in have
  BY <1>1, OnlyProperties
<1>3. Range(result') = have
  BY <1>1, <1>2
<1> QED BY <1>1, <1>3

LEMMA RestIs ==
  ASSUME WaitInv
  PROVE  Rest \in Nat /\ Rest <= Longest /\ (deadline # Never => now + Rest <= deadline - Margin \/ Rest = Nap)
BY WaitAssumption DEF Rest, Least, WaitInv, WaitTypes

LEMMA Polling ==
  ASSUME WaitInv, Poll
  PROVE  WaitInv'
<1> DEFINE hits == missing \cap Over
<1>1. /\ at = "poll" /\ UNCHANGED <<finished, asked, deadline, rested, wake, current, now>> /\ Over' = Over
      /\ asOf' = now /\ found' = found \cup hits /\ missing' = missing \ hits
      /\ IF missing' = {} THEN Return(found') ELSE at' = "rest" /\ UNCHANGED result
  BY DEF Poll, Over
<1>2. WaitTypes /\ missing \cup found = Range(asked) /\ found \subseteq Over
  BY <1>1 DEF WaitInv, Split
<1>3. NotAhead'
  BY <1>1 DEF WaitInv, NotAhead
<1>4. missing' \cup found' = Range(asked) /\ found' \subseteq Over /\ missing' \cap Over = {}
  BY <1>1, <1>2
<1>5. CASE missing' = {}
  <2> PICK have : have = found'
    OBVIOUS
  <2>1. Return(have) /\ have = Range(asked)
    BY <1>1, <1>4, <1>5
  <2>2. result' = Only(asked, Range(result')) /\ Range(result') = have /\ at' = "done"
    BY <2>1, Answers
  <2>3. Answered'
    BY <1>1, <1>4, <2>1, <2>2 DEF Answered
  <2> QED BY <1>1, <1>2, <1>3, <2>2, <2>3 DEF WaitInv, WaitTypes, Split, ReadLast, Sleeps
<1>6. CASE missing' # {}
  <2>1. at' = "rest" /\ now \in Nat
    BY <1>1, <1>2, <1>6 DEF WaitTypes
  <2>2. WaitTypes' /\ Split' /\ ReadLast' /\ Sleeps' /\ Answered'
    BY <1>1, <1>2, <1>4, <2>1 DEF WaitTypes, Split, ReadLast, Sleeps, Answered
  <2> QED BY <1>3, <2>2 DEF WaitInv
<1> QED BY <1>5, <1>6

LEMMA Sleeping ==
  ASSUME WaitInv, Sleep
  PROVE  WaitInv'
<1>1. /\ at = "rest" /\ at' = "sleep" /\ rested' = now /\ wake' = now + Rest /\ Over' = Over
      /\ UNCHANGED <<finished, asked, deadline, missing, found, asOf, current, now, result>>
  BY DEF Sleep, Over
<1>2. now \in Nat /\ Rest \in Nat /\ Rest <= Longest /\ Nap \in Nat /\ Longest \in Nat
  BY RestIs, WaitAssumption DEF WaitInv, WaitTypes
<1>3. WaitTypes' /\ Split' /\ NotAhead' /\ ReadLast' /\ Answered'
  BY <1>1, <1>2 DEF WaitInv, WaitTypes, Split, NotAhead, ReadLast, Answered
<1>4. Sleeps'
  BY <1>1, <1>2, RestIs DEF WaitInv, ReadLast, Sleeps
<1> QED BY <1>3, <1>4 DEF WaitInv

LEMMA Waking ==
  ASSUME WaitInv, WakeUp
  PROVE  WaitInv'
<1>1. /\ at = "sleep" /\ now >= wake /\ current' = now /\ Over' = Over
      /\ UNCHANGED <<finished, asked, deadline, missing, found, asOf, rested, wake, now>>
      /\ IF deadline # Never /\ now > deadline THEN Return(found) ELSE at' = "poll" /\ UNCHANGED result
  BY DEF WakeUp, Over
<1>2. WaitTypes /\ missing \cup found = Range(asked) /\ found \subseteq Over
  BY <1>1 DEF WaitInv, Split
<1>3. NotAhead'
  BY <1>1 DEF WaitInv, NotAhead
<1>4. CASE deadline # Never /\ now > deadline
  <2>1. result' = Only(asked, Range(result')) /\ Range(result') = found /\ at' = "done"
    BY <1>1, <1>2, <1>4, Answers
  <2>2. /\ {now, asOf, rested, wake, deadline, Margin, Nap, Longest} \subseteq Nat /\ Nap <= Longest
        /\ asOf <= rested /\ wake <= rested + Longest /\ wake <= now /\ now > deadline
        /\ wake <= deadline - Margin \/ wake = rested + Nap
    BY <1>1, <1>2, <1>4, WaitAssumption DEF WaitInv, WaitTypes, Sleeps
  <2>3. /\ Lag' = (rested - asOf) + (now - wake) + (IF now - wake <= Margin THEN Nap ELSE Longest)
        /\ Lag' \in Nat
    BY <1>1, <2>2 DEF Lag
  <2>4. asOf > deadline - Lag'
    BY <2>2, <2>3
  <2>5. ASSUME NEW r \in Range(asked) \cap Over, finished[r] <= deadline - Lag' PROVE r \in found
    <3>1. CASE r \in missing
      <4>1. finished[r] >= asOf /\ finished[r] \in Nat
        BY <1>1, <1>2, <2>5, <3>1 DEF WaitInv, ReadLast, Over, WaitTypes
      <4> QED BY <2>2, <2>3, <2>4, <2>5, <4>1
    <3> QED BY <1>2, <3>1
  <2>6. Answered'
    BY <1>1, <1>2, <1>4, <2>1, <2>3, <2>5 DEF Answered, GaveUp
  <2> QED BY <1>1, <1>2, <1>3, <2>1, <2>6 DEF WaitInv, WaitTypes, Split, ReadLast, Sleeps
<1>5. CASE ~(deadline # Never /\ now > deadline)
  <2>1. at' = "poll"
    BY <1>1, <1>5
  <2> QED BY <1>1, <1>2, <1>3, <2>1 DEF WaitInv, WaitTypes, Split, ReadLast, Sleeps, Answered
<1> QED BY <1>4, <1>5

LEMMA Finishing ==
  ASSUME WaitInv, NEW r \in Known, Finish(r)
  PROVE  WaitInv'
<1>1. /\ finished' = [finished EXCEPT ![r] = now] /\ finished[r] = Never
      /\ UNCHANGED <<asked, deadline, missing, found, at, asOf, rested, wake, current, now, result>>
  BY DEF Finish
<1>2. now \in Nat /\ now # Never
  BY WaitAssumption DEF WaitInv, WaitTypes
<1>3. Over' = Over \cup {r} /\ finished'[r] = now /\ \A q \in Over : finished'[q] = finished[q]
  BY <1>1, <1>2 DEF Over, WaitInv, WaitTypes
<1>4. WaitTypes' /\ Split'
  BY <1>1, <1>2, <1>3 DEF WaitInv, WaitTypes, Split
<1>5. NotAhead'
  BY <1>1, <1>2, <1>3 DEF WaitInv, NotAhead
<1>6. ReadLast' /\ Sleeps'
  BY <1>1, <1>2, <1>3 DEF WaitInv, ReadLast, Sleeps
<1>7. Answered'
  <2> SUFFICES ASSUME at = "done" PROVE Answered'
    BY <1>1 DEF Answered
  <2>1. CASE Range(result) = Range(asked)
    BY <1>1, <1>3, <2>1 DEF WaitInv, Answered
  <2>2. CASE GaveUp
    <3>1. Lag' = Lag
      BY <1>1 DEF Lag
    <3>2. PICK lag \in Nat : lag = Lag
      BY <2>2 DEF GaveUp
    <3>3. deadline \in Nat /\ ~(now <= deadline - lag)
      BY <1>2, <2>2, <3>2 DEF WaitInv, WaitTypes, GaveUp
    <3>4. \A q \in Range(asked) \cap Over' : finished'[q] <= deadline - lag => q \in Range(result)
      BY <1>3, <2>2, <3>2, <3>3 DEF GaveUp
    <3>5. GaveUp'
      BY <1>1, <2>2, <3>1, <3>2, <3>4 DEF GaveUp
    <3> QED BY <1>1, <1>3, <3>5 DEF WaitInv, Answered
  <2> QED BY <2>1, <2>2 DEF WaitInv, Answered
<1> QED BY <1>4, <1>5, <1>6, <1>7 DEF WaitInv

LEMMA WaitSteps == WaitInv /\ [WaitNext]_waiting => WaitInv'
<1> SUFFICES ASSUME WaitInv, [WaitNext]_waiting PROVE WaitInv'
  OBVIOUS
<1>1. CASE TickOn
  <2>1. now' = now + 1 /\ Over' = Over /\ Lag' = Lag
        /\ UNCHANGED <<finished, asked, deadline, missing, found, at, asOf, rested, wake, current, result>>
    BY <1>1 DEF TickOn, Over, Lag
  <2>2. WaitTypes' /\ Split' /\ NotAhead'
    BY <2>1 DEF WaitInv, WaitTypes, Split, NotAhead, Over
  <2>3. ReadLast' /\ Sleeps'
    BY <2>1 DEF WaitInv, WaitTypes, ReadLast, Sleeps
  <2>4. Answered'
    BY <2>1 DEF WaitInv, WaitTypes, Answered, GaveUp
  <2> QED BY <2>2, <2>3, <2>4 DEF WaitInv
<1>2. CASE UNCHANGED waiting
  <2>1. Over' = Over /\ Lag' = Lag
    BY <1>2 DEF waiting, Over, Lag
  <2> QED BY <1>2, <2>1 DEF waiting, WaitInv, WaitTypes, Split, NotAhead, ReadLast, Sleeps, Answered, GaveUp
<1> QED BY <1>1, <1>2, Asking, Polling, Sleeping, Waking, Finishing DEF WaitNext

\* For any rollouts, lists of ids, deadlines, lengths of the sleep and delays:
\* the answer of a wait that polls has every rollout that was asked for and had
\* finished before the deadline by more than its last round was late, in the
\* order asked for.
THEOREM NoneMissed == WaitSpec => []NothingMissed
<1>1. WaitInv => NothingMissed
  BY DEF WaitInv, Answered, GaveUp, NothingMissed
<1> QED BY <1>1, WaitStarts, WaitSteps, PTL DEF WaitSpec

-----------------------------------------------------------------------------
(* The queue of rollouts.  What is consumed comes before what is not, and  *)
(* an item's place follows from the number that are not consumed.          *)

QueueEntries == [item : Nat, consumed : BOOLEAN]
NumberRecords == [op : {"inc", "chmax"}, value : Nat]

QueueTypes ==
  /\ backend \in {"memory", "mongo"} /\ enqueued \in 0..MaxItems
  /\ items \in Seq(QueueEntries) /\ Len(items) <= enqueued
  /\ left \in [Consumers -> Nat] /\ taken \in [Consumers -> Seq(Nat)]
  /\ counter \in Nat \cup {NoEntry} /\ numbers \in Seq(NumberRecords)

\* The queue holds the last items in their order, the last w of them not yet
\* consumed.
InOrder(w) ==
  \A i \in DOMAIN items : /\ items[i].item = enqueued - Len(items) + i
                          /\ items[i].consumed <=> i <= Len(items) - w

\* The others are those that callers were given.
TakenAre(w) == \A item : (\E c \in Consumers : item \in Range(taken[c])) <=> item \in 1..(enqueued - w)

OfMemory == backend = "memory" => InOrder(Len(items)) /\ \A c \in Consumers : left[c] = 0

QueueInv == QueueTypes /\ OfMemory /\ \E w \in 0..Len(items) : InOrder(w) /\ TakenAre(w)

\* The last w of e items.
Rear(w, e) == [j \in 1..w |-> e - w + j]

\* The next n items after the first m.
After(m, n) == [i \in 1..n |-> m + i]

-----------------------------------------------------------------------------
\* A list whose first k elements are left out.
Begins(s, S, k) == \A i \in 1..Len(s) : s[i] \in S <=> i > k

LEMMA OnlyRest ==
  ASSUME NEW T, NEW s \in Seq(T), NEW S, NEW k \in 0..Len(s), Begins(s, S, k)
  PROVE  /\ Only(s, S) \in Seq(T) /\ Len(Only(s, S)) = Len(s) - k
         /\ \A j \in 1..(Len(s) - k) : Only(s, S)[j] = s[k + j]
<1>n. PICK n \in Nat : n = Len(s)
  OBVIOUS
<1>s. DOMAIN s = 1..n /\ (\A i \in 1..n : s[i] \in T) /\ k \in Nat /\ k <= n
  BY <1>n
<1>a. \A i \in 1..n : s[i] \in S <=> i > k
  BY <1>n DEF Begins
<1>f. PICK f : Keeps(f, s, S, n) /\ Only(s, S) = f[n]
  BY <1>n, KeptIs
<1>k. /\ f[0] = <<>>
      /\ \A i \in 1..n : f[i] = IF s[i] \in S THEN Append(f[i - 1], s[i]) ELSE f[i - 1]
  BY <1>f, KeepsMeans
<1> DEFINE R(i) == [j \in 1..(i - k) |-> s[k + j]]
           Good == {i \in Nat : f[i] = R(i)}
<1>1. 0 \in Good
  <2>1. 1..(0 - k) = {}
    BY <1>s
  <2>2. R(0) = <<>>
    BY <2>1
  <2> QED BY <1>k, <2>2
<1>2. ASSUME NEW i \in 1..n, i - 1 \in Good
      PROVE  i \in Good
  <2>1. f[i - 1] = R(i - 1) /\ i \in Nat /\ i - 1 \in Nat
    BY <1>2
  <2>2. CASE i > k
    <3>1. f[i] = Append(R(i - 1), s[i])
      BY <1>k, <1>a, <2>1, <2>2
    <3>2. PICK m \in Nat : m = i - 1 - k
      BY <1>s, <2>2
    <3>3. R(i - 1) = [j \in 1..m |-> s[k + j]] /\ R(i) = [j \in 1..(m + 1) |-> s[k + j]] /\ s[i] = s[k + (m + 1)]
      BY <1>s, <3>2
    <3>4. \A j \in 1..(m + 1) : s[k + j] \in T
      BY <1>s, <3>2
    <3>5. Append([j \in 1..m |-> s[k + j]], s[k + (m + 1)]) = [j \in 1..(m + 1) |-> s[k + j]]
      <4> DEFINE g == [j \in 1..m |-> s[k + j]]
                 h == [j \in 1..(m + 1) |-> s[k + j]]
      <4>1. g \in Seq(T) /\ Len(g) = m /\ h \in Seq(T) /\ Len(h) = m + 1
        <5>1. g \in [1..m -> T] /\ h \in [1..(m + 1) -> T]
          <6>1. \A j \in 1..m : s[k + j] \in T
            BY <3>4
          <6> QED BY <3>4, <6>1
        <5>2. m + 1 \in Nat
          OBVIOUS
        <5> HIDE DEF g, h
        <5> QED BY <5>1, <5>2
      <4>2. \A j \in 1..m : g[j] = h[j]
        OBVIOUS
      <4>3. h[m + 1] = s[k + (m + 1)] /\ s[k + (m + 1)] \in T
        <5>1. m + 1 \in 1..(m + 1)
          BY <3>2
        <5> QED BY <3>4, <5>1
      <4> HIDE DEF g, h
      <4>4. Append(g, h[m + 1]) = h
        BY <4>1, <4>2, <4>3
      <4> QED BY <4>3, <4>4 DEF g, h
    <3> QED BY <2>1, <3>1, <3>3, <3>5
  <2>3. CASE i <= k
    <3>1. f[i] = R(i - 1)
      BY <1>k, <1>a, <2>1, <2>3
    <3>2. 1..(i - k) = {} /\ 1..(i - 1 - k) = {}
      BY <1>s, <2>1, <2>3
    <3>3. R(i) = R(i - 1)
      BY <3>2
    <3> QED BY <2>1, <3>1, <3>3
  <2> QED BY <1>s, <2>1, <2>2, <2>3
<1>3. n \in 0..n
  OBVIOUS
<1> HIDE DEF Good, R
<1>4. n \in Good
  BY <1>1, <1>2, <1>3, Induction
<1>5. Only(s, S) = R(n)
  BY <1>f, <1>4 DEF Good
<1>6. \A j \in 1..(n - k) : k + j \in 1..n
  BY <1>s
<1> QED BY <1>n, <1>s, <1>5, <1>6 DEF R

LEMMA PeekShows ==
  ASSUME QueueTypes, NEW w \in 0..Len(items), InOrder(w)
  PROVE  /\ Peek(MaxItems) = Rear(w, enqueued)
         /\ Waiting = {i \in DOMAIN items : i > Len(items) - w}
         /\ Size = w
<1>n. PICK n \in Nat : n = Len(items)
  BY DEF QueueTypes
<1>1. /\ items \in Seq(QueueEntries) /\ DOMAIN items = 1..n /\ w \in Nat /\ w <= n /\ n <= enqueued
      /\ enqueued \in Nat /\ MaxItems \in Nat /\ enqueued <= MaxItems
  BY <1>n, QueueAssumption DEF QueueTypes
<1>2. \A i \in 1..n : /\ items[i].item = enqueued - n + i
                      /\ items[i].consumed <=> i <= n - w
  BY <1>n, <1>1 DEF InOrder
<1> DEFINE S == {e \in Range(items) : ~e.consumed}
<1>3. \A i \in 1..n : items[i] \in S <=> i > n - w
  <2> TAKE i \in 1..n
  <2>1. items[i] \in Range(items)
    BY <1>1 DEF Range
  <2>2. items[i] \in S <=> ~items[i].consumed
    BY <2>1
  <2> QED BY <1>1, <1>2, <2>2
<1>4. n - w \in 0..n /\ n - (n - w) = w
  BY <1>1
<1> HIDE DEF S
<1>5. Len(Only(items, S)) = w /\ \A j \in 1..w : Only(items, S)[j] = items[(n - w) + j]
  <2> PICK k \in 0..Len(items) : k = n - w
    BY <1>n, <1>4
  <2>1. Len(items) - k = w
    BY <1>n, <1>4
  <2>2. PICK s \in Seq(QueueEntries) : s = items
    BY <1>1
  <2>u. PICK U : U = S
    OBVIOUS
  <2>3. Begins(s, U, k)
    BY <1>n, <1>3, <2>2, <2>u DEF Begins
  <2>4. k \in 0..Len(s)
    BY <2>2
  <2>5. Len(Only(s, U)) = Len(s) - k /\ \A j \in 1..(Len(s) - k) : Only(s, U)[j] = s[k + j]
    <3> HIDE <2>2, <2>u
    <3>1. \A r \in Seq(QueueEntries) : \A V : \A l \in 0..Len(r) : Begins(r, V, l) =>
            Len(Only(r, V)) = Len(r) - l /\ \A j \in 1..(Len(r) - l) : Only(r, V)[j] = r[l + j]
      BY OnlyRest, Zenon
    <3> QED BY <2>3, <2>4, <3>1
  <2> QED BY <2>1, <2>2, <2>u, <2>5
<1>6. Len(Only(items, S)) = w
  BY <1>5
<1>7. Peek(MaxItems) = [j \in 1..w |-> Only(items, S)[j].item]
  <2>1. Peek(MaxItems) = [j \in 1..(IF MaxItems < Len(Only(items, S)) THEN MaxItems ELSE Len(Only(items, S))) |-> Only(items, S)[j].item]
    BY DEF Peek, S
  <2>2. ~(MaxItems < w)
    BY <1>1
  <2> QED BY <1>6, <2>1, <2>2
<1>8. \A j \in 1..w : Only(items, S)[j].item = enqueued - w + j
  <2> TAKE j \in 1..w
  <2>1. (n - w) + j \in 1..n
    BY <1>1
  <2>2. Only(items, S)[j] = items[(n - w) + j]
    BY <1>5
  <2> QED BY <1>1, <1>2, <2>1, <2>2
<1>9. Peek(MaxItems) = Rear(w, enqueued)
  BY <1>7, <1>8 DEF Rear
<1>10. Waiting = {i \in DOMAIN items : i > n - w}
  BY <1>1, <1>2 DEF Waiting
<1>11. Waiting = ((n - w) + 1)..n
  BY <1>1, <1>10
<1>12. Size = w
  <2>1. (n - w) + 1 \in Int /\ n \in Int
    BY <1>1
  <2>2. Cardinality(((n - w) + 1)..n) = IF (n - w) + 1 > n THEN 0 ELSE n - ((n - w) + 1) + 1
    BY <2>1, FS_Interval
  <2> QED BY <1>1, <1>11, <2>2 DEF Size
<1> QED BY <1>n, <1>9, <1>10, <1>12

PeekFits == QueueTypes => \A w \in 0..Len(items) : InOrder(w) => Peek(MaxItems) = Rear(w, enqueued)

LEMMA PeekIs == PeekFits
BY PeekShows DEF PeekFits

LEMMA Starts == QueueInit => QueueInv
<1> SUFFICES ASSUME QueueInit PROVE QueueInv
  OBVIOUS
<1>1. items = <<>> /\ Len(items) = 0 /\ DOMAIN items = {} /\ enqueued = 0
  BY DEF QueueInit
<1>2. QueueTypes
  <2>1. <<>> \in Seq(QueueEntries) /\ <<>> \in Seq(Nat) /\ <<>> \in Seq(NumberRecords)
    OBVIOUS
  <2> QED BY <1>1, <2>1, QueueAssumption DEF QueueInit, QueueTypes
<1>3. InOrder(0) /\ OfMemory
  BY <1>1 DEF InOrder, OfMemory, QueueInit
<1>4. TakenAre(0)
  <2>1. \A c \in Consumers : \A item : item \notin Range(taken[c])
    BY DEF QueueInit, Range
  <2>2. 1..(enqueued - 0) = {}
    BY <1>1
  <2> QED BY <2>1, <2>2 DEF TakenAre
<1> QED BY <1>1, <1>2, <1>3, <1>4 DEF QueueInv

LEMMA RangeOfConcat ==
  ASSUME NEW T, NEW s \in Seq(T), NEW t \in Seq(T)
  PROVE  \A e : e \in Range(s \o t) <=> e \in Range(s) \/ e \in Range(t)
<1>n. PICK m \in Nat, n \in Nat : m = Len(s) /\ n = Len(t)
  OBVIOUS
<1>u. PICK u : u = s \o t
  OBVIOUS
<1>1. /\ DOMAIN s = 1..m /\ DOMAIN t = 1..n /\ DOMAIN u = 1..(m + n)
      /\ (\A i \in 1..m : u[i] = s[i]) /\ \A i \in 1..n : u[m + i] = t[i]
  BY <1>n, <1>u
<1>2. \A i \in 1..(m + n) : i \in 1..m \/ (i - m \in 1..n /\ i = m + (i - m))
  OBVIOUS
<1>3. \A e : e \in Range(u) => e \in Range(s) \/ e \in Range(t)
  <2> SUFFICES ASSUME NEW i \in 1..(m + n) PROVE u[i] \in Range(s) \/ u[i] \in Range(t)
    BY <1>1 DEF Range
  <2>1. CASE i \in 1..m
    BY <1>1, <2>1 DEF Range
  <2>2. CASE i - m \in 1..n
    <3>1. PICK j \in 1..n : i = m + j
      BY <1>2, <2>2
    <3> QED BY <1>1, <3>1 DEF Range
  <2> QED BY <1>2, <2>1, <2>2
<1>4. \A e : e \in Range(s) => e \in Range(u)
  <2> SUFFICES ASSUME NEW i \in 1..m PROVE s[i] \in Range(u)
    BY <1>1 DEF Range
  <2>1. i \in 1..(m + n)
    OBVIOUS
  <2> QED BY <1>1, <2>1 DEF Range
<1>5. \A e : e \in Range(t) => e \in Range(u)
  <2> SUFFICES ASSUME NEW i \in 1..n PROVE t[i] \in Range(u)
    BY <1>1 DEF Range
  <2>1. m + i \in 1..(m + n)
    OBVIOUS
  <2> QED BY <1>1, <2>1 DEF Range
<1> QED BY <1>u, <1>3, <1>4, <1>5

\* The last of more items, and of fewer.
LEMMA LastMore ==
  ASSUME NEW w \in Nat, NEW e \in Nat, w <= e, NEW n \in Nat
  PROVE  Rear(w + n, e + n) = Rear(w, e) \o After(e, n)
<1> DEFINE s == [j \in 1..w |-> e - w + j]
           t == [i \in 1..n |-> e + i]
           u == [j \in 1..(w + n) |-> (e + n) - (w + n) + j]
<1>1. /\ s \in Seq(Int) /\ Len(s) = w /\ t \in Seq(Int) /\ Len(t) = n
      /\ u \in Seq(Int) /\ Len(u) = w + n
  OBVIOUS
<1>2. \A j \in 1..(w + n) : u[j] = IF j <= w THEN s[j] ELSE t[j - w]
  OBVIOUS
<1> HIDE DEF s, t, u
<1>3. u = s \o t
  <2>1. u = [j \in 1..(w + n) |-> u[j]]
    BY <1>1
  <2>2. PICK v : v = s \o t
    OBVIOUS
  <2>3. /\ v \in Seq(Int) /\ Len(v) = Len(s) + Len(t)
        /\ \A j \in 1..(Len(s) + Len(t)) : v[j] = IF j <= Len(s) THEN s[j] ELSE t[j - Len(s)]
    BY <1>1, <2>2, ConcatProperties
  <2>4. v = [j \in 1..(w + n) |-> v[j]]
    BY <1>1, <2>3
  <2>5. \A j \in 1..(w + n) : v[j] = u[j]
    BY <1>1, <1>2, <2>3
  <2> QED BY <2>1, <2>2, <2>4, <2>5
<1> QED BY <1>3 DEF Rear, After, s, t, u

LEMMA LastFewer ==
  ASSUME NEW w \in Nat, NEW e \in Nat, w <= e, NEW n \in 0..w
  PROVE  /\ Len(Rear(w, e)) = w
         /\ SubSeq(Rear(w, e), n + 1, w) = Rear(w - n, e)
         /\ SubSeq(Rear(w, e), 1, n) = After(e - w, n)
<1> DEFINE s == [j \in 1..w |-> e - w + j]
<1>1. s \in Seq(Int) /\ Len(s) = w /\ n \in Nat
  OBVIOUS
<1>2. SubSeq(s, n + 1, w) = [j \in 1..(w - n) |-> s[n + j]]
  BY <1>1
<1>3. \A j \in 1..(w - n) : s[n + j] = e - (w - n) + j
  OBVIOUS
<1>4. SubSeq(s, n + 1, w) = [j \in 1..(w - n) |-> e - (w - n) + j]
  BY <1>2, <1>3
<1>5. SubSeq(s, 1, n) = [j \in 1..n |-> e - w + j]
  BY <1>1
<1> QED BY <1>1, <1>4, <1>5 DEF Rear, After

-----------------------------------------------------------------------------
\* A step of the queue, from w to v items that are not consumed.
From(w, v) == QueueTypes' /\ OfMemory' /\ InOrder(v)' /\ TakenAre(v)' /\ v \in 0..Len(items')

LEMMA Enqueues ==
  ASSUME QueueTypes, OfMemory, NEW w \in 0..Len(items), InOrder(w), TakenAre(w), NEW n \in 1..2, Enqueue(n)
  PROVE  From(w, w + n)
<1>l. PICK l \in Nat : l = Len(items)
  BY DEF QueueTypes
<1> DEFINE new == [i \in 1..n |-> [item |-> enqueued + i, consumed |-> FALSE]]
<1>1. /\ enqueued' = enqueued + n /\ enqueued' \in 0..MaxItems /\ items' = items \o new
      /\ UNCHANGED <<backend, left, taken, counter, numbers>>
      /\ enqueued \in Nat /\ w \in Nat /\ w <= l /\ l <= enqueued /\ items \in Seq(QueueEntries)
  BY <1>l, QueueAssumption DEF Enqueue, QueueTypes
<1>2. /\ new \in Seq(QueueEntries) /\ Len(new) = n
      /\ \A i \in 1..n : new[i].item = enqueued + i /\ new[i].consumed = FALSE
  BY <1>1 DEF QueueEntries
<1> HIDE DEF new
<1>3. /\ items' \in Seq(QueueEntries) /\ Len(items') = l + n
      /\ \A i \in 1..(l + n) : items'[i] = IF i <= l THEN items[i] ELSE new[i - l]
  BY <1>l, <1>1, <1>2, ConcatProperties
<1>4. QueueTypes'
  BY <1>1, <1>3 DEF QueueTypes
<1>5. \A v \in 0..l : InOrder(v) => InOrder(v + n)'
  <2> SUFFICES ASSUME NEW v \in 0..l, InOrder(v), NEW i \in 1..(l + n)
               PROVE  /\ items'[i].item = enqueued' - (l + n) + i
                      /\ items'[i].consumed <=> i <= (l + n) - (v + n)
    BY <1>3 DEF InOrder
  <2>1. CASE i <= l
    BY <1>l, <1>1, <1>3, <2>1 DEF InOrder
  <2>2. CASE i > l
    <3>1. PICK k \in 1..n : k = i - l /\ items'[i] = new[k]
      BY <1>3, <2>2
    <3>2. items'[i].item = enqueued + k /\ items'[i].consumed = FALSE
      BY <1>2, <3>1
    <3>3. enqueued + k = enqueued' - (l + n) + i
      BY <1>1, <3>1
    <3>4. ~(i <= (l + n) - (v + n))
      BY <2>2
    <3> QED BY <3>2, <3>3, <3>4
  <2> QED BY <2>1, <2>2
<1>6. InOrder(w + n)' /\ w + n \in 0..Len(items')
  BY <1>l, <1>1, <1>3, <1>5
<1>7. OfMemory'
  <2>1. backend = "memory" => InOrder(l + n)'
    BY <1>l, <1>5 DEF OfMemory
  <2> QED BY <1>1, <1>3, <2>1 DEF OfMemory
<1>8. TakenAre(w + n)'
  <2>1. enqueued' - (w + n) = enqueued - w
    BY <1>1
  <2> QED BY <1>1, <2>1 DEF TakenAre
<1> QED BY <1>4, <1>6, <1>7, <1>8 DEF From

LEMMA Pops ==
  ASSUME QueueTypes, OfMemory, NEW w \in 0..Len(items), InOrder(w), TakenAre(w),
         NEW c \in Consumers, NEW limit \in 1..MaxLimit, Popleft(c, limit)
  PROVE  \E n \in 0..w : /\ n <= limit /\ From(w, w - n) /\ UNCHANGED <<enqueued, counter, numbers>>
                         /\ taken' = [taken EXCEPT ![c] = @ \o After(enqueued - w, n)]
<1>l. PICK l \in Nat : l = Len(items)
  BY DEF QueueTypes
<1>n. PICK n \in Nat : n = IF limit < l THEN limit ELSE l
  BY <1>l, QueueAssumption
<1>1. /\ items' = SubSeq(items, n + 1, l) /\ backend = "memory"
      /\ taken' = [taken EXCEPT ![c] = @ \o [i \in 1..n |-> items[i].item]]
      /\ UNCHANGED <<backend, enqueued, left, counter, numbers>>
      /\ enqueued \in Nat /\ l <= enqueued /\ items \in Seq(QueueEntries) /\ n <= l /\ n <= limit
  BY <1>l, <1>n, QueueAssumption DEF Popleft, QueueTypes
<1>2. w = l
  <2>1. InOrder(l)
    BY <1>l, <1>1 DEF OfMemory
  <2>2. CASE w < l
    <3>1. 1 \in DOMAIN items /\ 1 <= l - w /\ ~(1 <= l - l)
      BY <1>l, <1>1, <2>2
    <3> QED BY <1>l, <2>1, <3>1 DEF InOrder
  <2> QED BY <1>l, <2>2
<1>3. \A i \in 1..l : items[i].item = enqueued - l + i /\ items[i].consumed = FALSE
  <2> TAKE i \in 1..l
  <2>1. items[i] \in QueueEntries /\ i \in DOMAIN items /\ ~(i <= l - l)
    BY <1>l, <1>1
  <2> QED BY <1>l, <1>2, <2>1 DEF InOrder, QueueEntries
<1>4. /\ items' \in Seq(QueueEntries) /\ Len(items') = l - n
      /\ \A i \in 1..(l - n) : items'[i] = items[n + i]
  BY <1>l, <1>1
<1>5. InOrder(l - n)'
  <2> SUFFICES ASSUME NEW i \in 1..(l - n)
               PROVE  /\ items'[i].item = enqueued' - (l - n) + i
                      /\ items'[i].consumed <=> i <= (l - n) - (l - n)
    BY <1>4 DEF InOrder
  <2>1. n + i \in 1..l
    BY <1>1
  <2> QED BY <1>1, <1>3, <1>4, <2>1
<1> DEFINE got == [i \in 1..n |-> enqueued - l + i]
<1>6. taken' = [taken EXCEPT ![c] = @ \o got]
  <2>1. \A i \in 1..n : items[i].item = enqueued - l + i
    BY <1>1, <1>3
  <2> QED BY <1>1, <2>1
<1>7. got \in Seq(Nat) /\ \A e : e \in Range(got) <=> e \in (enqueued - l + 1)..(enqueued - l + n)
  <2>1. got \in Seq(Nat)
    BY <1>1
  <2>2. ASSUME NEW e \in (enqueued - l + 1)..(enqueued - l + n)
        PROVE  e \in Range(got)
    <3>1. e - (enqueued - l) \in 1..n /\ got[e - (enqueued - l)] = e
      BY <1>1
    <3> QED BY <3>1 DEF Range
  <2>3. ASSUME NEW e \in Range(got)
        PROVE  e \in (enqueued - l + 1)..(enqueued - l + n)
    BY <1>1, <2>3 DEF Range
  <2> QED BY <2>1, <2>2, <2>3
<1> HIDE DEF got
<1>8. QueueTypes' /\ OfMemory'
  <2>1. taken' \in [Consumers -> Seq(Nat)]
    <3>1. PICK old \in [Consumers -> Seq(Nat)] : old = taken
      BY DEF QueueTypes
    <3>2. old[c] \o got \in Seq(Nat)
      BY <1>7
    <3> QED BY <1>6, <3>1, <3>2
  <2> QED BY <1>1, <1>4, <1>5, <2>1 DEF QueueTypes, OfMemory
<1>9. TakenAre(l - n)'
  <2>1. taken \in [Consumers -> Seq(Nat)] /\ taken'[c] = taken[c] \o got /\ \A d \in Consumers : d # c => taken'[d] = taken[d]
    BY <1>6 DEF QueueTypes
  <2>2. \A e : e \in Range(taken'[c]) <=> e \in Range(taken[c]) \/ e \in Range(got)
    BY <1>7, <2>1, RangeOfConcat
  <2>3. \A e : (\E d \in Consumers : e \in Range(taken'[d])) <=> (\E d \in Consumers : e \in Range(taken[d])) \/ e \in Range(got)
    BY <2>1, <2>2, Zenon
  <2>4. \A e : (\E d \in Consumers : e \in Range(taken[d])) <=> e \in 1..(enqueued - l)
    BY <1>2 DEF TakenAre
  <2>5. \A e : e \in 1..(enqueued - (l - n)) <=> e \in 1..(enqueued - l) \/ e \in (enqueued - l + 1)..(enqueued - l + n)
    BY <1>1
  <2>6. \A e : (\E d \in Consumers : e \in Range(taken'[d])) <=> e \in 1..(enqueued - (l - n))
    BY <1>7, <2>3, <2>4, <2>5, Zenon
  <2> QED BY <1>1, <2>6 DEF TakenAre
<1>10. n \in 0..w /\ l - n \in 0..Len(items') /\ w - n = l - n
  BY <1>1, <1>2, <1>4
<1> QED BY <1>1, <1>2, <1>5, <1>6, <1>8, <1>9, <1>10 DEF From, got, After

\* find_one_and_update: there is no document, or the first one is claimed.
LEMMA Claims ==
  ASSUME QueueTypes, OfMemory, NEW w \in 0..Len(items), InOrder(w), TakenAre(w),
         NEW c \in Consumers, ClaimNext(c)
  PROVE  \/ From(w, w) /\ UNCHANGED <<enqueued, taken, counter, numbers>>
         \/ /\ w > 0 /\ From(w, w - 1) /\ UNCHANGED <<enqueued, counter, numbers>>
            /\ taken' = [taken EXCEPT ![c] = Append(@, enqueued - w + 1)]
<1>l. PICK l \in Nat : l = Len(items)
  BY DEF QueueTypes
<1>1. /\ enqueued \in Nat /\ l <= enqueued /\ items \in Seq(QueueEntries) /\ w \in Nat /\ w <= l
      /\ left[c] > 0 /\ left[c] \in Nat /\ UNCHANGED <<backend, enqueued, counter, numbers>>
      /\ backend = "mongo" /\ DOMAIN items = 1..l
  BY <1>l DEF ClaimNext, QueueTypes, OfMemory
<1>2. Waiting = {i \in 1..l : i > l - w}
  BY <1>l, <1>1, PeekShows
<1>3. CASE Waiting = {}
  <2>1. left' = [left EXCEPT ![c] = 0] /\ UNCHANGED <<items, taken>>
    BY <1>3 DEF ClaimNext
  <2>2. QueueTypes'
    BY <1>1, <2>1 DEF QueueTypes
  <2>3. InOrder(w)' /\ TakenAre(w)' /\ OfMemory'
    BY <1>1, <2>1 DEF InOrder, TakenAre, OfMemory
  <2> QED BY <1>1, <2>1, <2>2, <2>3 DEF From
<1>4. CASE Waiting # {}
  <2> DEFINE f == CHOOSE i \in Waiting : \A j \in Waiting : i <= j
  <2>1. w > 0 /\ l - w + 1 \in Waiting /\ \A j \in Waiting : l - w + 1 <= j /\ j \in Nat
    BY <1>1, <1>2, <1>4
  <2>2. f \in Waiting /\ \A j \in Waiting : f <= j
    BY <2>1
  <2>3. f = l - w + 1
    BY <1>1, <2>1, <2>2
  <2>4. /\ items' = [items EXCEPT ![f].consumed = TRUE]
        /\ taken' = [taken EXCEPT ![c] = Append(@, items[f].item)]
        /\ left' = [left EXCEPT ![c] = @ - 1]
    BY <1>4 DEF ClaimNext, Take
  <2> HIDE DEF f
  <2>5. f \in 1..l /\ items[f] \in QueueEntries /\ items[f].item = enqueued - w + 1
    <3>1. f \in 1..l
      BY <1>2, <2>2
    <3>2. items[f].item = enqueued - l + f
      BY <1>l, <1>1, <3>1 DEF InOrder
    <3>3. enqueued - l + f = enqueued - w + 1
      BY <1>1, <2>3
    <3> QED BY <1>1, <3>1, <3>2, <3>3
  <2>6. /\ items' \in Seq(QueueEntries) /\ Len(items') = l
        /\ items'[f].item = items[f].item /\ items'[f].consumed = TRUE
        /\ \A i \in 1..l : i # f => items'[i] = items[i]
    <3>1. PICK e : e = [items[f] EXCEPT !.consumed = TRUE]
      OBVIOUS
    <3>2. e \in QueueEntries /\ e.item = items[f].item /\ e.consumed = TRUE
      BY <2>5, <3>1 DEF QueueEntries
    <3>3. items' = [items EXCEPT ![f] = e]
      BY <2>4, <3>1
    <3> QED BY <1>l, <1>1, <2>5, <3>2, <3>3
  <2>7. taken[c] \in Seq(Nat) /\ enqueued - w + 1 \in Nat
    BY <1>1 DEF QueueTypes
  <2>8. /\ taken' \in [Consumers -> Seq(Nat)] /\ taken'[c] = Append(taken[c], enqueued - w + 1)
        /\ \A d \in Consumers : d # c => taken'[d] = taken[d]
    BY <2>4, <2>5, <2>7 DEF QueueTypes
  <2>9. QueueTypes' /\ OfMemory'
    <3>1. left' \in [Consumers -> Nat]
      BY <1>1, <2>4 DEF QueueTypes
    <3> QED BY <1>l, <1>1, <2>6, <2>8, <3>1 DEF QueueTypes, OfMemory
  <2>10. InOrder(w - 1)'
    <3> SUFFICES ASSUME NEW i \in 1..l
                 PROVE  /\ items'[i].item = enqueued' - l + i
                        /\ items'[i].consumed <=> i <= l - (w - 1)
      BY <2>6 DEF InOrder
    <3>1. items[i].item = enqueued - l + i /\ (items[i].consumed <=> i <= l - w)
      BY <1>l, <1>1 DEF InOrder
    <3>2. CASE i = f
      BY <1>1, <2>3, <2>6, <3>1, <3>2
    <3>3. CASE i # f
      <4>1. items'[i] = items[i] /\ (i <= l - w <=> i <= l - (w - 1))
        BY <1>1, <2>3, <2>6, <3>3
      <4> QED BY <1>1, <3>1, <4>1
    <3> QED BY <3>2, <3>3
  <2>11. TakenAre(w - 1)'
    <3>1. \A e : e \in Range(taken'[c]) <=> e \in Range(taken[c]) \/ e = enqueued - w + 1
      BY <2>7, <2>8, RangeOfAppend
    <3>2. \A e : (\E d \in Consumers : e \in Range(taken'[d])) <=> (\E d \in Consumers : e \in Range(taken[d])) \/ e = enqueued - w + 1
      BY <2>8, <3>1, Zenon
    <3>3. \A e : (\E d \in Consumers : e \in Range(taken[d])) <=> e \in 1..(enqueued - w)
      BY DEF TakenAre
    <3>4. \A e : e \in 1..(enqueued - (w - 1)) <=> e \in 1..(enqueued - w) \/ e = enqueued - w + 1
      BY <1>1
    <3>5. \A e : (\E d \in Consumers : e \in Range(taken'[d])) <=> e \in 1..(enqueued - (w - 1))
      BY <3>2, <3>3, <3>4, Zenon
    <3> QED BY <1>1, <3>5 DEF TakenAre
  <2>12. w - 1 \in 0..Len(items')
    BY <1>1, <2>1, <2>6
  <2> QED BY <1>1, <2>1, <2>4, <2>5, <2>9, <2>10, <2>11, <2>12 DEF From
<1> QED BY <1>3, <1>4

\* What leaves the queue and what was taken from it alone.
LEMMA StaysSo ==
  ASSUME QueueTypes, OfMemory, NEW w \in 0..Len(items), InOrder(w), TakenAre(w),
         UNCHANGED <<backend, items, enqueued, taken>>,
         left' \in [Consumers -> Nat], backend = "memory" => left' = left,
         counter' \in Nat \cup {NoEntry}, numbers' \in Seq(NumberRecords)
  PROVE  From(w, w)
<1>1. QueueTypes'
  BY DEF QueueTypes
<1>2. InOrder(w)' /\ TakenAre(w)'
  BY DEF InOrder, TakenAre
<1>3. InOrder(Len(items))' <=> InOrder(Len(items))
  BY DEF InOrder
<1>4. OfMemory'
  BY <1>3 DEF OfMemory
<1> QED BY <1>1, <1>2, <1>4 DEF From

\* The four calls on the key, as the contract has them.
LEMMA Counts ==
  ASSUME QueueTypes, \/ Inc(1) \/ \E n \in 1..3 : Chmax(n) \/ Set(0) \/ Pop
  PROVE  /\ counter' \in Nat \cup {NoEntry} /\ numbers' \in Seq(NumberRecords)
         /\ UNCHANGED <<backend, items, enqueued, left, taken>>
         /\ Peek(MaxItems)' = Peek(MaxItems) => Promised!ContractNext
<1>1. counter \in Nat \cup {NoEntry} /\ numbers \in Seq(NumberRecords)
  BY DEF QueueTypes
<1>2. CASE Inc(1)
  <2>1. /\ counter' = (IF counter = NoEntry THEN 0 ELSE counter) + 1
        /\ numbers' = Append(numbers, [op |-> "inc", value |-> counter'])
        /\ UNCHANGED <<backend, items, enqueued, left, taken>>
    BY <1>2 DEF Inc, Count, Change, Get
  <2>2. counter' \in Nat /\ 1 \in 1..(counter' - counter) \cup {counter'}
    BY <1>1, <2>1 DEF NoEntry
  <2>3. numbers' \in Seq(NumberRecords)
    BY <1>1, <2>1, <2>2 DEF NumberRecords
  <2>4. Peek(MaxItems)' = Peek(MaxItems) => Promised!Inc(1)
    BY <2>1 DEF Promised!Inc, Promised!Returns, Promised!Dict
  <2> QED BY <2>1, <2>2, <2>3, <2>4 DEF Promised!ContractNext
<1>3. ASSUME NEW n \in 1..3, Chmax(n)
      PROVE  /\ counter' \in Nat \cup {NoEntry} /\ numbers' \in Seq(NumberRecords)
             /\ UNCHANGED <<backend, items, enqueued, left, taken>>
             /\ Peek(MaxItems)' = Peek(MaxItems) => Promised!ContractNext
  <2>1. /\ counter' = IF counter = NoEntry \/ n > counter THEN n ELSE counter
        /\ numbers' = Append(numbers, [op |-> "chmax", value |-> counter'])
        /\ UNCHANGED <<backend, items, enqueued, left, taken>>
    BY <1>1, <1>3 DEF Chmax, Count, Change, Get
  <2>2. counter' \in Nat /\ n \in 0..counter'
    BY <1>1, <2>1 DEF NoEntry
  <2>3. numbers' \in Seq(NumberRecords)
    BY <1>1, <2>1, <2>2 DEF NumberRecords
  <2>4. Peek(MaxItems)' = Peek(MaxItems) => Promised!Chmax(n)
    BY <2>1 DEF Promised!Chmax, Promised!Returns, Promised!Dict
  <2> QED BY <2>1, <2>2, <2>3, <2>4 DEF Promised!ContractNext
<1>4. CASE Set(0) \/ Pop
  <2>1. /\ counter' \in {0, NoEntry} /\ numbers' = <<>>
        /\ UNCHANGED <<backend, items, enqueued, left, taken>>
    BY <1>4 DEF Set, Pop, Change
  <2>2. <<>> \in Seq(NumberRecords)
    OBVIOUS
  <2>3. Peek(MaxItems)' = Peek(MaxItems) => Promised!Set(counter')
    BY <2>1 DEF Promised!Set, Promised!Dict
  <2> QED BY <2>1, <2>2, <2>3 DEF Promised!ContractNext
<1> QED BY <1>2, <1>3, <1>4

\* Every step of the queue is one of the contract, or none.
LEMMA QueueSteps == QueueInv /\ QueueNext => QueueInv' /\ [Promised!ContractNext]_(Promised!contractVars)
<1> SUFFICES ASSUME QueueInv, QueueNext
             PROVE  QueueInv' /\ [Promised!ContractNext]_(Promised!contractVars)
  OBVIOUS
<1>w. PICK w \in 0..Len(items) : InOrder(w) /\ TakenAre(w)
  BY DEF QueueInv
<1>1. QueueTypes /\ OfMemory
  BY DEF QueueInv
<1>2. w \in Nat /\ enqueued \in Nat /\ w <= enqueued /\ taken \in [Consumers -> Seq(Nat)]
  BY <1>1 DEF QueueTypes
<1>3. Peek(MaxItems) = Rear(w, enqueued)
  BY <1>w, <1>1, PeekShows
<1>4. ASSUME NEW v, From(w, v)
      PROVE  QueueInv' /\ Peek(MaxItems)' = Rear(v, enqueued')
  <2>1. v \in 0..Len(items') /\ QueueTypes' /\ OfMemory' /\ InOrder(v)' /\ TakenAre(v)'
    BY <1>4 DEF From
  <2>2. Peek(MaxItems)' = Rear(v, enqueued')
    <3>1. PeekFits'
      BY PeekIs, PTL
    <3> QED BY <2>1, <3>1 DEF PeekFits
  <2> QED BY <2>1, <2>2 DEF QueueInv
<1>5. ASSUME NEW n \in 1..2, Enqueue(n)
      PROVE  QueueInv' /\ Promised!ContractNext
  <2>1. From(w, w + n)
    BY <1>w, <1>1, <1>5, Enqueues
  <2>2. /\ enqueued' = enqueued + n /\ UNCHANGED <<taken, counter, numbers>>
        /\ n \in 1..(enqueued' - enqueued) /\ n \in Nat /\ n > 0
    BY <1>2, <1>5 DEF Enqueue
  <2>3. Rear(w + n, enqueued + n) = Rear(w, enqueued) \o After(enqueued, n)
    <3>1. PICK e \in Nat : e = enqueued
      BY <1>2
    <3> QED BY <1>2, <2>2, <3>1, LastMore
  <2>4. QueueInv' /\ Peek(MaxItems)' = Peek(MaxItems) \o After(enqueued, n)
    BY <1>3, <1>4, <2>1, <2>2, <2>3
  <2>5. Promised!Enqueue(n)
    BY <2>2, <2>4 DEF Promised!Enqueue, Promised!Deque, After
  <2> QED BY <2>2, <2>4, <2>5 DEF Promised!ContractNext
<1>6. ASSUME NEW c \in Consumers, NEW n \in 0..w, From(w, w - n),
             UNCHANGED <<enqueued, counter, numbers>>,
             taken' = [taken EXCEPT ![c] = @ \o After(enqueued - w, n)]
      PROVE  QueueInv' /\ [Promised!ContractNext]_(Promised!contractVars)
  <2>1. QueueInv' /\ Peek(MaxItems)' = Rear(w - n, enqueued)
    BY <1>4, <1>6
  <2>2. /\ Len(Peek(MaxItems)) = w
        /\ SubSeq(Peek(MaxItems), n + 1, w) = Rear(w - n, enqueued)
        /\ SubSeq(Peek(MaxItems), 1, n) = After(enqueued - w, n)
    <3>1. PICK e \in Nat : e = enqueued
      BY <1>2
    <3>2. w <= e
      BY <1>2, <3>1
    <3>3. /\ Len(Rear(w, e)) = w
          /\ SubSeq(Rear(w, e), n + 1, w) = Rear(w - n, e)
          /\ SubSeq(Rear(w, e), 1, n) = After(e - w, n)
      BY <1>2, <3>2, LastFewer
    <3> QED BY <1>3, <3>1, <3>3
  <2>3. CASE n = 0
    <3>1. taken[c] \o After(enqueued - w, n) = taken[c]
      <4>1. After(enqueued - w, n) = <<>> /\ taken[c] \in Seq(Nat)
        BY <1>2, <2>3 DEF After
      <4> QED BY <4>1, ConcatEmptySeq
    <3>2. taken' = taken
      BY <1>2, <1>6, <3>1
    <3>3. Peek(MaxItems)' = Peek(MaxItems)
      BY <1>2, <1>3, <2>1, <2>3
    <3> QED BY <1>6, <2>1, <3>2, <3>3 DEF Promised!contractVars
  <2>4. CASE n > 0
    <3>1. n \in 1..Len(Peek(MaxItems))
      BY <1>2, <2>2, <2>4
    <3>2. Promised!Dequeue(c, n)
      <4>1. (IF n < w THEN n ELSE w) = n
        BY <1>2
      <4> QED BY <1>6, <2>1, <2>2, <4>1 DEF Promised!Dequeue, Promised!Deque
    <3> QED BY <2>1, <3>1, <3>2 DEF Promised!ContractNext
  <2> QED BY <1>2, <2>3, <2>4
<1>7. ASSUME From(w, w), UNCHANGED <<enqueued, taken, counter, numbers>>
      PROVE  QueueInv' /\ [Promised!ContractNext]_(Promised!contractVars)
  <2>1. QueueInv' /\ Peek(MaxItems)' = Peek(MaxItems)
    BY <1>3, <1>4, <1>7
  <2> QED BY <1>7, <2>1 DEF Promised!contractVars
<1>8. ASSUME NEW c \in Consumers, ClaimNext(c)
      PROVE  QueueInv' /\ [Promised!ContractNext]_(Promised!contractVars)
  <2>1. CASE From(w, w) /\ UNCHANGED <<enqueued, taken, counter, numbers>>
    BY <1>7, <2>1
  <2>2. CASE /\ w > 0 /\ From(w, w - 1) /\ UNCHANGED <<enqueued, counter, numbers>>
             /\ taken' = [taken EXCEPT ![c] = Append(@, enqueued - w + 1)]
    <3>1. Append(taken[c], enqueued - w + 1) = taken[c] \o After(enqueued - w, 1)
      <4>1. taken[c] \in Seq(Nat) /\ enqueued - w + 1 \in Nat
        BY <1>2
      <4>2. After(enqueued - w, 1) = <<enqueued - w + 1>>
        BY <1>2 DEF After
      <4> QED BY <4>1, <4>2, AppendIsConcat
    <3>2. taken' = [taken EXCEPT ![c] = @ \o After(enqueued - w, 1)]
      BY <2>2, <3>1
    <3>3. 1 \in 0..w
      BY <1>2, <2>2
    <3> QED BY <1>6, <2>2, <3>2, <3>3
  <2> QED BY <1>w, <1>1, <1>8, <2>1, <2>2, Claims
<1>9. ASSUME NEW c \in Consumers, NEW limit \in 1..MaxLimit, Popleft(c, limit)
      PROVE  QueueInv' /\ [Promised!ContractNext]_(Promised!contractVars)
  BY <1>w, <1>1, <1>6, <1>9, Pops
<1>10. ASSUME NEW c \in Consumers, NEW limit \in 1..MaxLimit, Dequeue(c, limit)
       PROVE  QueueInv' /\ [Promised!ContractNext]_(Promised!contractVars)
  <2>1. /\ UNCHANGED <<backend, items, enqueued, taken, counter, numbers>> /\ backend # "memory"
        /\ left' \in [Consumers -> Nat]
    BY <1>1, <1>10, QueueAssumption DEF Dequeue, QueueTypes
  <2>2. counter' \in Nat \cup {NoEntry} /\ numbers' \in Seq(NumberRecords)
    BY <1>1, <2>1 DEF QueueTypes
  <2>3. From(w, w)
    BY <1>w, <1>1, <2>1, <2>2, StaysSo
  <2> QED BY <1>7, <2>1, <2>3
<1>11. ASSUME \/ Inc(1) \/ \E n \in 1..3 : Chmax(n) \/ Set(0) \/ Pop
       PROVE  QueueInv' /\ Promised!ContractNext
  <2>1. /\ counter' \in Nat \cup {NoEntry} /\ numbers' \in Seq(NumberRecords)
        /\ UNCHANGED <<backend, items, enqueued, left, taken>>
        /\ Peek(MaxItems)' = Peek(MaxItems) => Promised!ContractNext
    BY <1>1, <1>11, Counts
  <2>2. left' \in [Consumers -> Nat]
    BY <1>1, <2>1 DEF QueueTypes
  <2>3. From(w, w)
    BY <1>w, <1>1, <2>1, <2>2, StaysSo
  <2>4. QueueInv' /\ Peek(MaxItems)' = Peek(MaxItems)
    BY <1>3, <1>4, <2>1, <2>3
  <2> QED BY <2>1, <2>4
<1> QED BY <1>5, <1>8, <1>9, <1>10, <1>11 DEF QueueNext

\* The queue and the key of either backend implement the contract of
\* store/collection/base.py: every call, and every item of a dequeue that
\* interleaves with others, is one of its steps or none.
THEOREM QueueIsPromised == QueueSpec => IsQueue
<1>1. QueueInit => Promised!ContractInit
  <2> SUFFICES ASSUME QueueInit PROVE Promised!ContractInit
    OBVIOUS
  <2>1. QueueTypes /\ \E w \in 0..Len(items) : InOrder(w)
    BY Starts DEF QueueInv
  <2>2. items = <<>> /\ Len(items) = 0 /\ enqueued = 0
    BY DEF QueueInit
  <2>3. Peek(MaxItems) = Rear(0, 0)
    BY <2>1, <2>2, PeekIs DEF PeekFits
  <2>4. Rear(0, 0) = <<>>
    BY DEF Rear
  <2> QED BY <2>3, <2>4 DEF QueueInit, Promised!ContractInit
<1>2. QueueInv /\ UNCHANGED queueVars => QueueInv' /\ UNCHANGED Promised!contractVars
  <2> SUFFICES ASSUME QueueInv, UNCHANGED queueVars
               PROVE  QueueInv' /\ UNCHANGED Promised!contractVars
    OBVIOUS
  <2>1. UNCHANGED <<backend, items, enqueued, left, taken, counter, numbers>>
    BY DEF queueVars
  <2>2. QueueInv'
    BY <2>1 DEF QueueInv, QueueTypes, OfMemory, InOrder, TakenAre
  <2>3. Peek(MaxItems)' = Peek(MaxItems)
    BY <2>1 DEF Peek
  <2> QED BY <2>1, <2>2, <2>3 DEF Promised!contractVars
<1>3. QueueInv /\ [QueueNext]_queueVars => QueueInv' /\ [Promised!ContractNext]_(Promised!contractVars)
  BY <1>2, QueueSteps
<1> QED BY <1>1, <1>3, Starts, PTL DEF QueueSpec, IsQueue, Promised!Contract

\* What no caller was given is there for has, peek and size.
THEOREM QueueAnswers == QueueSpec => []AnswersAgree
<1>1. QueueInv => AnswersAgree
  <2> SUFFICES ASSUME QueueInv PROVE AnswersAgree
    OBVIOUS
  <2>w. PICK w \in 0..Len(items) : InOrder(w) /\ TakenAre(w)
    BY DEF QueueInv
  <2>1. QueueTypes /\ w \in Nat /\ enqueued \in Nat /\ Len(items) \in Nat /\ w <= Len(items) /\ Len(items) <= enqueued
    BY DEF QueueInv, QueueTypes
  <2>2. /\ Peek(MaxItems) = Rear(w, enqueued) /\ Size = w
        /\ Waiting = {i \in DOMAIN items : i > Len(items) - w}
    BY <2>w, <2>1, PeekShows
  <2>3. Len(Peek(MaxItems)) = Size
    <3>1. w \in 0..w /\ w <= enqueued
      BY <2>1
    <3> QED BY <2>1, <2>2, <3>1, LastFewer
  <2>4. ASSUME NEW item \in 1..enqueued
        PROVE  Has(item) <=> item > enqueued - w
    <3>1. DOMAIN items = 1..Len(items) /\ \A i \in DOMAIN items : items[i].item = enqueued - Len(items) + i
      BY <2>w, <2>1 DEF InOrder, QueueTypes
    <3>2. ASSUME item > enqueued - w
          PROVE  Has(item)
      <4> DEFINE i == item - (enqueued - Len(items))
      <4>1. i \in DOMAIN items /\ i > Len(items) - w
        BY <2>1, <3>1, <3>2
      <4>2. items[i].item = item
        BY <2>1, <3>1, <4>1
      <4> QED BY <2>2, <4>1, <4>2 DEF Has
    <3>3. ASSUME Has(item)
          PROVE  item > enqueued - w
      <4>1. PICK i \in DOMAIN items : i > Len(items) - w /\ items[i].item = item
        BY <2>2, <3>3 DEF Has
      <4> QED BY <2>1, <3>1, <4>1
    <3> QED BY <3>2, <3>3
  <2>5. ASSUME NEW item \in 1..enqueued
        PROVE  Has(item) <=> \A c \in Consumers : item \notin Range(taken[c])
    <3>1. (\E c \in Consumers : item \in Range(taken[c])) <=> item \in 1..(enqueued - w)
      BY <2>w DEF TakenAre
    <3>2. item \in 1..(enqueued - w) <=> ~(item > enqueued - w)
      BY <2>1
    <3> QED BY <2>4, <3>1, <3>2
  <2> QED BY <2>3, <2>5 DEF AnswersAgree
<1>2. QueueInv /\ UNCHANGED queueVars => QueueInv'
  BY DEF QueueInv, QueueTypes, OfMemory, InOrder, TakenAre, queueVars
<1>3. QueueInv /\ [QueueNext]_queueVars => QueueInv'
  BY <1>2, QueueSteps
<1> QED BY <1>1, <1>3, Starts, PTL DEF QueueSpec

-----------------------------------------------------------------------------
(* Metrics.  The events of the window are the same in what was written and *)
(* in what the console keeps, and what was written is what Prometheus has  *)
(* counted or a call is about to count.                                    *)

MetricKeys == MetricNames \X Seq({0, 1})
Recordings ==
  [at : {"idle", "write", "decide", "log", "forward"}, name : MetricNames \cup {""},
   key : MetricKeys \cup {<<>>}, now : Nat]
Passed(c) == recording[c].at \in {"decide", "log", "forward"}

MetricsTypes ==
  /\ clock \in Nat /\ newest \in Nat /\ recording \in [Recorders -> Recordings]
  /\ console \in [MetricNames -> Definitions \cup {NoDefinition}]
  /\ prometheus \in [MetricNames -> Definitions \cup {NoDefinition}]
  /\ DOMAIN timestamps = DOMAIN written /\ DOMAIN counted \subseteq DOMAIN written
  /\ \A k \in DOMAIN written : timestamps[k] \in Seq(Nat) /\ written[k] \in Seq(Nat)
  /\ \A k \in DOMAIN counted : counted[k] \in Nat

\* A call knows its metric, and past its write there are events under its key.
CallsKnown ==
  \A c \in Recorders :
    /\ recording[c].at # "idle" => recording[c].name \in MetricNames /\ recording[c].key[1] = recording[c].name
    /\ Passed(c) => recording[c].key \in DOMAIN written

\* What was never refused is the same in both backends.
SameKinds == \A n \in MetricNames \ refused : prometheus[n].kind = console[n].kind

\* The window of the console is that of the history.
WindowKept ==
  \A k \in DOMAIN written : Only(timestamps[k], Since(newest - Window)) = Only(written[k], Since(newest - Window))

CountsAdd == \A k \in DOMAIN written : k[1] \notin refused => At(counted, k, 0) + InFlight(k) = Len(written[k])

MetricsInv == MetricsTypes /\ CallsKnown /\ SameKinds /\ WindowKept /\ CountsAdd

-----------------------------------------------------------------------------
\* What is pruned is older than any later window.
LEMMA PruneKeeps ==
  ASSUME NEW s \in Seq(Nat), NEW moment \in Nat, NEW b \in Int, moment - Window <= b
  PROVE  Prune(s, moment) \in Seq(Nat) /\ Only(Prune(s, moment), Since(b)) = Only(s, Since(b))
<1> DEFINE fresh == {i \in DOMAIN s : s[i] >= moment - Window}
           S == Since(b)
<1>n. PICK n \in Nat : n = Len(s)
  OBVIOUS
<1>1. Window \in Nat /\ DOMAIN s = 1..n /\ \A i \in 1..n : s[i] \in Nat
  BY <1>n, MetricsAssumption
<1>2. \A i \in 1..n : i \notin fresh => s[i] \notin S
  BY <1>1 DEF Since
<1>3. CASE fresh = {}
  <2>1. Prune(s, moment) = <<>>
    BY <1>3 DEF Prune
  <2>2. Only(s, S) = <<>>
    <3>1. \A i \in 1..Len(s) : s[i] \notin S
      BY <1>n, <1>2, <1>3
    <3> HIDE DEF S
    <3> QED BY <3>1, OnlyNone
  <2>3. <<>> \in Seq(Nat) /\ Only(<<>>, S) = <<>>
    <3>1. <<>> \in Seq(Nat) /\ \A i \in 1..Len(<<>>) : <<>>[i] \notin S
      OBVIOUS
    <3> HIDE DEF S
    <3> QED BY <3>1, OnlyNone
  <2> QED BY <2>1, <2>2, <2>3
<1>4. CASE fresh # {}
  <2>1. fresh \in SUBSET Nat
    BY <1>1
  <2>2. Min(fresh) \in fresh /\ \A i \in fresh : Min(fresh) <= i
    <3> HIDE DEF fresh
    <3>1. \E i \in fresh : \A j \in fresh : i <= j
      BY <1>4, <2>1, LeastNumber
    <3> QED BY <3>1 DEF Min
  <2>k. PICK k \in 1..n : Min(fresh) = k /\ \A i \in fresh : k <= i
    <3>1. \A i \in fresh : i \in 1..n
      BY <1>1
    <3> HIDE DEF fresh
    <3> QED BY <2>2, <3>1
  <2>3. PICK m \in Nat : k = m + 1 /\ m < n
    OBVIOUS
  <2>4. \A i \in 1..m : i \in 1..n /\ i \notin fresh
    <3> HIDE DEF fresh
    <3> QED BY <2>k, <2>3
  <2>5. \A i \in 1..m : s[i] \notin S
    BY <1>2, <2>4
  <2>6. Prune(s, moment) = SubSeq(s, m + 1, Len(s))
    BY <1>4, <2>k, <2>3 DEF Prune
  <2> HIDE DEF S, fresh
  <2>7. m <= Len(s)
    BY <1>n, <2>3
  <2>8. SubSeq(s, m + 1, Len(s)) \in Seq(Nat) /\ Only(SubSeq(s, m + 1, Len(s)), S) = Only(s, S)
    BY <2>5, <2>7, OnlyDrops
  <2> QED BY <2>6, <2>8 DEF S
<1> QED BY <1>3, <1>4

LEMMA SinceLater ==
  ASSUME NEW s \in Seq(Nat), NEW t \in Seq(Nat), NEW a \in Int, NEW b \in Int, a <= b,
         Only(s, Since(a)) = Only(t, Since(a))
  PROVE  Only(s, Since(b)) = Only(t, Since(b))
<1>1. Since(a) \cap Since(b) = Since(b)
  BY DEF Since
<1>2. Only(Only(s, Since(a)), Since(b)) = Only(s, Since(a) \cap Since(b))
  BY OnlyTwice
<1>3. Only(Only(t, Since(a)), Since(b)) = Only(t, Since(a) \cap Since(b))
  BY OnlyTwice
<1> QED BY <1>1, <1>2, <1>3

LEMMA MetricsStarts == MetricsInit => MetricsInv
<1> SUFFICES ASSUME MetricsInit PROVE MetricsInv
  OBVIOUS
<1>1. /\ DOMAIN timestamps = {} /\ DOMAIN written = {} /\ DOMAIN counted = {}
      /\ clock = 1 /\ newest = 1 /\ recording = [c \in Recorders |-> NoRecord]
      /\ console = [n \in MetricNames |-> NoDefinition] /\ prometheus = console
  BY DEF MetricsInit
<1>2. NoRecord \in Recordings /\ NoRecord.at = "idle"
  BY DEF NoRecord, Recordings
<1>3. MetricsTypes
  BY <1>1, <1>2 DEF MetricsTypes
<1>4. CallsKnown /\ SameKinds /\ WindowKept /\ CountsAdd
  BY <1>1, <1>2 DEF CallsKnown, SameKinds, WindowKept, CountsAdd, Passed
<1> QED BY <1>3, <1>4 DEF MetricsInv

\* Registration.
LEMMA Registered ==
  ASSUME MetricsInv, NEW n \in MetricNames, NEW d \in Offered[n], Register(n, d)
  PROVE  MetricsInv'
<1>1. d \in Definitions
  BY MetricsAssumption
<1>2. UNCHANGED <<timestamps, counted, clock, recording, written, newest>>
  BY DEF Register
<1>3. ConsoleForm(d) \in Definitions /\ ConsoleForm(d).kind = d.kind
  BY <1>1 DEF ConsoleForm, Definitions
<1>4. d.kind # "none" /\ NoDefinition.kind = "none"
  BY <1>1 DEF Definitions, NoDefinition
<1>5. /\ console \in [MetricNames -> Definitions \cup {NoDefinition}]
      /\ prometheus \in [MetricNames -> Definitions \cup {NoDefinition}]
  BY DEF MetricsInv, MetricsTypes
<1>6. /\ console' \in [MetricNames -> Definitions \cup {NoDefinition}]
      /\ prometheus' \in [MetricNames -> Definitions \cup {NoDefinition}]
      /\ \A m \in MetricNames : m # n => console'[m] = console[m] /\ prometheus'[m] = prometheus[m]
      /\ refused \subseteq refused'
  BY <1>1, <1>3, <1>5 DEF Register
<1>7. MetricsTypes'
  BY <1>2, <1>6 DEF MetricsInv, MetricsTypes
<1>8. ASSUME n \notin refused'
      PROVE  prometheus'[n].kind = console'[n].kind
  <2>1. ConsoleTakes(n, d) /\ PrometheusTakes(n, d)
    BY <1>8 DEF Register
  <2>2. console'[n].kind = d.kind
    <3>1. CASE console[n] = NoDefinition
      BY <1>3, <1>5, <2>1, <3>1 DEF Register
    <3>2. CASE console[n] # NoDefinition
      BY <1>3, <2>1, <3>2 DEF Register, ConsoleTakes, Agrees
    <3> QED BY <3>1, <3>2
  <2>3. prometheus'[n].kind = d.kind
    <3>1. CASE prometheus[n] = NoDefinition
      BY <1>5, <2>1, <3>1 DEF Register
    <3>2. CASE prometheus[n] # NoDefinition
      BY <2>1, <3>2 DEF Register, PrometheusTakes, Agrees
    <3> QED BY <3>1, <3>2
  <2> QED BY <2>2, <2>3
<1>9. SameKinds'
  BY <1>6, <1>8 DEF MetricsInv, SameKinds
<1>10. CallsKnown' /\ WindowKept'
  BY <1>2 DEF MetricsInv, CallsKnown, WindowKept, Passed, Since
<1>11. CountsAdd'
  BY <1>2, <1>6 DEF MetricsInv, CountsAdd, InFlight, At
<1> QED BY <1>7, <1>9, <1>10, <1>11 DEF MetricsInv

\* How many calls have passed their write with a key.
LEMMA InFlightNow ==
  ASSUME NEW k
  PROVE  InFlight(k) = Cardinality({c \in Recorders : recording[c].key = k /\ Passed(c)}) /\ InFlight(k) \in Nat
<1>1. {c \in Recorders : recording[c].key = k /\ recording[c].at \in {"decide", "log", "forward"}}
      = {c \in Recorders : recording[c].key = k /\ Passed(c)}
  BY DEF Passed
<1> DEFINE F == {c \in Recorders : recording[c].key = k /\ Passed(c)}
<1>2. IsFiniteSet(F)
  BY FS_Subset, MetricsAssumption
<1>3. Cardinality(F) \in Nat
  BY <1>2, FS_CardinalityType
<1> QED BY <1>1, <1>3 DEF InFlight

\* A call that comes past its write, and one that ends.
LEMMA OneMoreInFlight ==
  ASSUME NEW S, IsFiniteSet(S), NEW c, c \notin S
  PROVE  Cardinality(S \cup {c}) = Cardinality(S) + 1 /\ Cardinality(S) \in Nat
BY FS_AddElement, FS_CardinalityType

LEMMA InFlightFollows ==
  ASSUME MetricsTypes, NEW c \in Recorders, NEW e \in Recordings,
         recording' = [recording EXCEPT ![c] = e]
  PROVE  /\ \A k : recording[c].key = k /\ e.key = k /\ (Passed(c)' <=> Passed(c)) => InFlight(k)' = InFlight(k)
         /\ \A k : recording[c].key = k /\ e.key = k /\ ~Passed(c) /\ Passed(c)' => InFlight(k)' = InFlight(k) + 1
         /\ \A k : recording[c].key = k /\ Passed(c) /\ ~Passed(c)' => InFlight(k)' = InFlight(k) - 1
         /\ \A k : (recording[c].key # k \/ ~Passed(c)) /\ (e.key # k \/ ~Passed(c)') => InFlight(k)' = InFlight(k)
<1> DEFINE F(k) == {d \in Recorders : recording[d].key = k /\ recording[d].at \in {"decide", "log", "forward"}}
           G(k) == {d \in Recorders : recording'[d].key = k /\ recording'[d].at \in {"decide", "log", "forward"}}
<1>1. \A k : InFlight(k) = Cardinality(F(k)) /\ InFlight(k)' = Cardinality(G(k))
  BY DEF InFlight
<1>2. \A k : IsFiniteSet(F(k)) /\ IsFiniteSet(G(k))
  BY FS_Subset, MetricsAssumption
<1>3. recording \in [Recorders -> Recordings] /\ recording'[c] = e /\ \A d \in Recorders : d # c => recording'[d] = recording[d]
  BY DEF MetricsTypes
<1>4. \A k : \A d : d # c => (d \in F(k) <=> d \in G(k))
  BY <1>3
<1>5. \A k : /\ c \in F(k) <=> recording[c].key = k /\ Passed(c)
             /\ c \in G(k) <=> e.key = k /\ Passed(c)'
  BY <1>3 DEF Passed
<1> HIDE DEF F, G
<1>6. ASSUME NEW k, c \in F(k) <=> c \in G(k)
      PROVE  InFlight(k)' = InFlight(k)
  <2>1. F(k) = G(k)
    BY <1>4, <1>6
  <2> QED BY <1>1, <2>1
<1>7. ASSUME NEW k, c \notin F(k), c \in G(k)
      PROVE  InFlight(k)' = InFlight(k) + 1
  <2>1. G(k) = F(k) \cup {c}
    BY <1>4, <1>7
  <2> QED BY <1>1, <1>2, <1>7, <2>1, OneMoreInFlight
<1>8. ASSUME NEW k, c \in F(k), c \notin G(k)
      PROVE  InFlight(k)' = InFlight(k) - 1
  <2>1. F(k) = G(k) \cup {c}
    BY <1>4, <1>8
  <2>2. Cardinality(F(k)) = Cardinality(G(k)) + 1 /\ Cardinality(G(k)) \in Nat
    BY <1>2, <1>8, <2>1, OneMoreInFlight
  <2> QED BY <1>1, <2>2
<1> QED BY <1>5, <1>6, <1>7, <1>8

\* The steps of a call that change nothing but the call itself.
LEMMA OnlyRecording ==
  ASSUME MetricsInv, NEW c \in Recorders, NEW e \in Recordings,
         recording' = [recording EXCEPT ![c] = e],
         UNCHANGED <<console, prometheus, timestamps, counted, refused, written, newest>>,
         clock' \in Nat,
         e.at # "idle" => e.name \in MetricNames /\ e.key[1] = e.name,
         \/ Passed(c) /\ e.at \in {"log", "forward"} /\ e.key = recording[c].key
         \/ ~Passed(c) /\ e.at = "write"
  PROVE  MetricsInv'
<1>1. /\ recording \in [Recorders -> Recordings] /\ recording' \in [Recorders -> Recordings] /\ recording'[c] = e
      /\ \A d \in Recorders : d # c => recording'[d] = recording[d]
  BY DEF MetricsInv, MetricsTypes
<1>2. MetricsTypes'
  BY <1>1 DEF MetricsInv, MetricsTypes
<1>3. CallsKnown'
  <2> SUFFICES ASSUME NEW d \in Recorders
               PROVE  /\ recording'[d].at # "idle" => recording'[d].name \in MetricNames /\ recording'[d].key[1] = recording'[d].name
                      /\ Passed(d)' => recording'[d].key \in DOMAIN written
    BY DEF CallsKnown
  <2>1. CASE d = c
    BY <1>1, <2>1 DEF MetricsInv, CallsKnown, Passed
  <2>2. CASE d # c
    BY <1>1, <2>2 DEF MetricsInv, CallsKnown, Passed
  <2> QED BY <2>1, <2>2
<1>4. SameKinds' /\ WindowKept'
  BY DEF MetricsInv, SameKinds, WindowKept, Since
<1>5. \A k : InFlight(k)' = InFlight(k)
  <2>1. Passed(c)' <=> e.at \in {"decide", "log", "forward"}
    BY <1>1 DEF Passed
  <2>2. MetricsTypes
    BY DEF MetricsInv
  <2>3. /\ \A k : recording[c].key = k /\ e.key = k /\ (Passed(c)' <=> Passed(c)) => InFlight(k)' = InFlight(k)
        /\ \A k : (recording[c].key # k \/ ~Passed(c)) /\ (e.key # k \/ ~Passed(c)') => InFlight(k)' = InFlight(k)
    BY <2>2, InFlightFollows
  <2> QED BY <2>1, <2>3
<1>6. CountsAdd'
  BY <1>5 DEF MetricsInv, CountsAdd, At
<1> QED BY <1>2, <1>3, <1>4, <1>6 DEF MetricsInv

LEMMA Recorded ==
  ASSUME MetricsInv, NEW c \in Recorders, NEW n \in MetricNames, NEW kind \in {"counter", "histogram"},
         NEW S \in SUBSET Labels, NEW g \in [S -> {0, 1}], Record(c, n, kind, g)
  PROVE  MetricsInv'
<1>1. UNCHANGED <<console, prometheus, timestamps, counted, clock, refused, written, newest>>
  BY DEF Record
<1>2. CASE UNCHANGED recording
  BY <1>1, <1>2 DEF MetricsInv, MetricsTypes, CallsKnown, SameKinds, WindowKept, CountsAdd, Passed, Since, InFlight, At
<1>3. CASE ~UNCHANGED recording
  <2> DEFINE e == [at |-> "write", name |-> n, key |-> KeyOf(n, g), now |-> clock]
  <2>1. /\ console[n].kind = kind /\ Range(console[n].labels) \subseteq S
        /\ recording' = [recording EXCEPT ![c] = e] /\ recording[c] = NoRecord
    BY <1>3 DEF Record
  <2>2. console[n] \in Definitions
    BY <2>1 DEF MetricsInv, MetricsTypes, NoDefinition
  <2>3. console[n].labels \in Seq(Labels)
    BY <2>2 DEF Definitions
  <2>4. KeyOf(n, g) \in MetricKeys /\ KeyOf(n, g)[1] = n
    <3>1. PICK l \in Seq(Labels) : l = console[n].labels
      BY <2>3
    <3>2. \A i \in 1..Len(l) : l[i] \in S
      BY <2>1, <3>1 DEF Range
    <3>3. [i \in DOMAIN l |-> g[l[i]]] \in Seq({0, 1})
      <4>1. DOMAIN l = 1..Len(l) /\ Len(l) \in Nat
        OBVIOUS
      <4>2. [i \in 1..Len(l) |-> g[l[i]]] \in [1..Len(l) -> {0, 1}]
        BY <3>2
      <4> QED BY <4>1, <4>2
    <3> QED BY <3>1, <3>3 DEF KeyOf, MetricKeys
  <2>5. e \in Recordings /\ e.at = "write" /\ e.name = n /\ e.key[1] = n
    BY <2>4 DEF Recordings, MetricsInv, MetricsTypes
  <2>6. ~Passed(c) /\ clock' \in Nat
    <3>1. recording[c].at = "idle"
      <4>1. NoRecord.at = "idle"
        BY DEF NoRecord
      <4> HIDE DEF e
      <4> QED BY <2>1, <4>1
    <3> QED BY <1>1, <3>1 DEF Passed, MetricsInv, MetricsTypes
  <2> HIDE DEF e
  <2> QED BY <1>1, <2>1, <2>5, <2>6, OnlyRecording
<1> QED BY <1>2, <1>3

LEMMA Decided ==
  ASSUME MetricsInv, NEW c \in Recorders, Decide(c)
  PROVE  MetricsInv'
<1>1. /\ UNCHANGED <<console, prometheus, timestamps, counted, clock, refused, written, newest>>
      /\ recording[c].at = "decide"
      /\ \E stage \in {"log", "forward"} : recording' = [recording EXCEPT ![c] = [recording[c] EXCEPT !.at = stage]]
  BY DEF Decide, Step
<1>2. PICK stage \in {"log", "forward"} : recording' = [recording EXCEPT ![c] = [recording[c] EXCEPT !.at = stage]]
  BY <1>1
<1>3. PICK e : e = [recording[c] EXCEPT !.at = stage]
  OBVIOUS
<1>4. recording[c] \in Recordings /\ clock \in Nat
  BY DEF MetricsInv, MetricsTypes
<1>5. e \in Recordings /\ e.at = stage /\ e.name = recording[c].name /\ e.key = recording[c].key
  BY <1>3, <1>4 DEF Recordings
<1>6. Passed(c) /\ recording[c].name \in MetricNames /\ recording[c].key[1] = recording[c].name
  BY <1>1 DEF MetricsInv, CallsKnown, Passed
<1> QED BY <1>1, <1>2, <1>3, <1>4, <1>5, <1>6, OnlyRecording

LEMMA Ticked ==
  ASSUME MetricsInv, Tick
  PROVE  MetricsInv'
<1>1. /\ UNCHANGED <<console, prometheus, timestamps, counted, recording, refused, written, newest>>
      /\ clock' \in Nat
  BY DEF Tick, MetricsInv, MetricsTypes
<1> QED BY <1>1 DEF MetricsInv, MetricsTypes, CallsKnown, SameKinds, WindowKept, CountsAdd, Passed, Since, InFlight, At

\* What a call goes on as.
LEMMA StepsTo ==
  ASSUME MetricsInv, NEW c \in Recorders, NEW stage \in {"decide", "forward"}, Step(c, stage), recording[c].at # "idle"
  PROVE  \E e \in Recordings : /\ recording' = [recording EXCEPT ![c] = e] /\ e.at = stage
                               /\ e.name = recording[c].name /\ e.key = recording[c].key
                               /\ e.name \in MetricNames /\ e.key[1] = e.name
<1>1. recording[c] \in Recordings
  BY DEF MetricsInv, MetricsTypes
<1>2. PICK e : e = [recording[c] EXCEPT !.at = stage]
  OBVIOUS
<1>3. e \in Recordings /\ e.at = stage /\ e.name = recording[c].name /\ e.key = recording[c].key
  BY <1>1, <1>2 DEF Recordings
<1>4. recording' = [recording EXCEPT ![c] = e]
  BY <1>2 DEF Step
<1>5. recording[c].name \in MetricNames /\ recording[c].key[1] = recording[c].name
  BY DEF MetricsInv, CallsKnown
<1> QED BY <1>3, <1>4, <1>5

\* The same for the calls, when the keys with events only become more.
LEMMA CallsStayKnown ==
  ASSUME MetricsInv, NEW c \in Recorders, NEW e \in Recordings,
         recording' = [recording EXCEPT ![c] = e],
         e.name \in MetricNames, e.key[1] = e.name, e.key \in DOMAIN written', DOMAIN written \subseteq DOMAIN written'
  PROVE  CallsKnown' /\ recording' \in [Recorders -> Recordings]
<1>1. /\ recording \in [Recorders -> Recordings] /\ recording' \in [Recorders -> Recordings] /\ recording'[c] = e
      /\ \A d \in Recorders : d # c => recording'[d] = recording[d]
  BY DEF MetricsInv, MetricsTypes
<1>2. SUFFICES ASSUME NEW d \in Recorders
               PROVE  /\ recording'[d].at # "idle" => recording'[d].name \in MetricNames /\ recording'[d].key[1] = recording'[d].name
                      /\ Passed(d)' => recording'[d].key \in DOMAIN written'
  BY <1>1 DEF CallsKnown
<1>3. CASE d = c
  BY <1>1, <1>3
<1>4. CASE d # c
  BY <1>1, <1>4 DEF MetricsInv, CallsKnown, Passed
<1> QED BY <1>3, <1>4

LEMMA Logged ==
  ASSUME MetricsInv, NEW c \in Recorders, Log(c)
  PROVE  MetricsInv'
<1>1. /\ recording[c].at = "log" /\ timestamps' = Pruned(recording[c].now) /\ newest' = Later(recording[c].now)
      /\ Step(c, "forward")
      /\ UNCHANGED <<console, prometheus, counted, clock, refused, written>>
  BY DEF Log
<1>2. PICK e \in Recordings : /\ recording' = [recording EXCEPT ![c] = e] /\ e.at = "forward"
                              /\ e.name = recording[c].name /\ e.key = recording[c].key
                              /\ e.name \in MetricNames /\ e.key[1] = e.name
  BY <1>1, StepsTo
<1>3. PICK moment \in Nat : moment = recording[c].now
  BY DEF MetricsInv, MetricsTypes, Recordings
<1>4. newest \in Nat /\ newest' \in Nat /\ moment <= newest' /\ newest <= newest' /\ Window \in Nat
  BY <1>1, <1>3, MetricsAssumption DEF Later, MetricsInv, MetricsTypes
<1>w. PICK w \in Nat : w = Window
  BY <1>4
<1>o. PICK old \in Nat, next \in Nat : old = newest /\ next = newest' /\ moment <= next /\ old <= next
  BY <1>4
<1>a. PICK a \in Int : a = old - w
  OBVIOUS
<1>b. PICK b \in Int : b = next - w
  OBVIOUS
<1>c. a <= b /\ moment - Window <= b /\ a = newest - Window /\ b = newest' - Window
  <2>o. old <= next /\ moment <= next
    BY <1>o
  <2>1. a <= b
    BY <2>o, <1>a, <1>b
  <2>2. moment - w <= b
    BY <2>o, <1>b
  <2>3. a = newest - Window
    BY <1>w, <1>o, <1>a
  <2>4. b = newest' - Window
    BY <1>w, <1>o, <1>b
  <2> QED BY <1>w, <2>1, <2>2, <2>3, <2>4
<1>5. Passed(c) /\ recording[c].key \in DOMAIN written
  BY <1>1 DEF MetricsInv, CallsKnown, Passed
<1>6. CallsKnown' /\ recording' \in [Recorders -> Recordings]
  BY <1>1, <1>2, <1>5, CallsStayKnown
<1>7. /\ DOMAIN timestamps' = DOMAIN written
      /\ \A k \in DOMAIN written : timestamps'[k] = Prune(timestamps[k], moment)
  BY <1>1, <1>3 DEF Pruned, MetricsInv, MetricsTypes
<1>8. \A k \in DOMAIN written : timestamps[k] \in Seq(Nat) /\ written[k] \in Seq(Nat)
  BY DEF MetricsInv, MetricsTypes
<1>9. \A k \in DOMAIN written :
        /\ timestamps'[k] \in Seq(Nat)
        /\ Only(timestamps'[k], Since(b)) = Only(timestamps[k], Since(b))
  <2>1. \A s \in Seq(Nat) : Prune(s, moment) \in Seq(Nat) /\ Only(Prune(s, moment), Since(b)) = Only(s, Since(b))
    BY <1>c, PruneKeeps
  <2> QED BY <1>7, <1>8, <2>1, Zenon
<1>10. MetricsTypes'
  BY <1>1, <1>4, <1>6, <1>7, <1>9 DEF MetricsInv, MetricsTypes
<1>11. WindowKept'
  <2> SUFFICES ASSUME NEW k \in DOMAIN written
               PROVE  Only(timestamps'[k], Since(b)) = Only(written[k], Since(b))
    BY <1>1, <1>c DEF WindowKept, Since
  <2>1. Only(timestamps[k], Since(a)) = Only(written[k], Since(a))
    BY <1>c DEF MetricsInv, WindowKept
  <2>2. timestamps[k] \in Seq(Nat) /\ written[k] \in Seq(Nat)
    BY <1>8
  <2>3. Only(timestamps[k], Since(b)) = Only(written[k], Since(b))
    BY <1>c, <2>1, <2>2, SinceLater
  <2> QED BY <1>9, <2>3
<1>12. SameKinds'
  BY <1>1 DEF MetricsInv, SameKinds
<1>13. \A k : InFlight(k)' = InFlight(k)
  <2>1. Passed(c)' <=> Passed(c)
    BY <1>2, <1>5 DEF Passed, MetricsInv, MetricsTypes
  <2>2. MetricsTypes
    BY DEF MetricsInv
  <2>3. /\ \A k : recording[c].key = k /\ e.key = k /\ (Passed(c)' <=> Passed(c)) => InFlight(k)' = InFlight(k)
        /\ \A k : (recording[c].key # k \/ ~Passed(c)) /\ (e.key # k \/ ~Passed(c)') => InFlight(k)' = InFlight(k)
    BY <1>2, <2>2, InFlightFollows
  <2> QED BY <1>2, <2>1, <2>3
<1>14. CountsAdd'
  BY <1>1, <1>13 DEF MetricsInv, CountsAdd, At
<1> QED BY <1>6, <1>10, <1>11, <1>12, <1>14 DEF MetricsInv

LEMMA Forwarded ==
  ASSUME MetricsInv, NEW c \in Recorders, Forward(c)
  PROVE  MetricsInv'
<1>k. PICK key : key = recording[c].key
  OBVIOUS
<1>1. /\ recording[c].at = "forward" /\ recording' = [recording EXCEPT ![c] = NoRecord]
      /\ UNCHANGED <<console, prometheus, timestamps, clock, refused, written, newest>>
      /\ IF prometheus[recording[c].name].kind = console[recording[c].name].kind
         THEN counted' = Put(counted, key, At(counted, key, 0) + 1)
         ELSE UNCHANGED counted
  BY <1>k DEF Forward, Step
<1>2. NoRecord \in Recordings /\ NoRecord.at = "idle"
  BY DEF NoRecord, Recordings
<1>3. /\ recording \in [Recorders -> Recordings] /\ recording' \in [Recorders -> Recordings] /\ recording'[c] = NoRecord
      /\ \A d \in Recorders : d # c => recording'[d] = recording[d]
  BY <1>1, <1>2 DEF MetricsInv, MetricsTypes
<1>4. Passed(c) /\ ~Passed(c)' /\ key \in DOMAIN written /\ recording[c].name \in MetricNames /\ key[1] = recording[c].name
  BY <1>1, <1>2, <1>3, <1>k DEF MetricsInv, CallsKnown, Passed
<1>5. /\ DOMAIN counted' \subseteq DOMAIN written /\ \A k \in DOMAIN counted' : counted'[k] \in Nat
      /\ \A k \in DOMAIN written : k # key => At(counted', k, 0) = At(counted, k, 0)
      /\ key[1] \notin refused => At(counted', key, 0) = At(counted, key, 0) + 1
      /\ At(counted, key, 0) \in Nat
  <2>1. /\ DOMAIN counted \subseteq DOMAIN written /\ \A k \in DOMAIN counted : counted[k] \in Nat
    BY DEF MetricsInv, MetricsTypes
  <2>2. At(counted, key, 0) \in Nat
    BY <2>1 DEF At
  <2>3. CASE prometheus[recording[c].name].kind = console[recording[c].name].kind
    <3>1. counted' = Put(counted, key, At(counted, key, 0) + 1)
      BY <1>1, <2>3
    <3>2. /\ DOMAIN counted' = DOMAIN counted \cup {key} /\ counted'[key] = At(counted, key, 0) + 1
          /\ \A k \in DOMAIN counted : k # key => counted'[k] = counted[k]
      BY <3>1 DEF Put
    <3> QED BY <1>4, <2>1, <2>2, <3>2 DEF At
  <2>4. CASE prometheus[recording[c].name].kind # console[recording[c].name].kind
    <3>1. key[1] \in refused
      BY <1>4, <2>4 DEF MetricsInv, SameKinds
    <3>2. counted' = counted
      BY <1>1, <2>4
    <3> QED BY <2>1, <2>2, <3>1, <3>2
  <2> QED BY <2>3, <2>4
<1>6. MetricsTypes'
  BY <1>1, <1>3, <1>5 DEF MetricsInv, MetricsTypes
<1>7. CallsKnown'
  <2> SUFFICES ASSUME NEW d \in Recorders
               PROVE  /\ recording'[d].at # "idle" => recording'[d].name \in MetricNames /\ recording'[d].key[1] = recording'[d].name
                      /\ Passed(d)' => recording'[d].key \in DOMAIN written
    BY <1>1 DEF CallsKnown
  <2>1. CASE d = c
    BY <1>2, <1>3, <1>4, <2>1
  <2>2. CASE d # c
    BY <1>3, <2>2 DEF MetricsInv, CallsKnown, Passed
  <2> QED BY <2>1, <2>2
<1>8. SameKinds' /\ WindowKept'
  BY <1>1 DEF MetricsInv, SameKinds, WindowKept, Since
<1>9. InFlight(key)' = InFlight(key) - 1 /\ \A k : k # key => InFlight(k)' = InFlight(k)
  <2>1. MetricsTypes
    BY DEF MetricsInv
  <2>2. /\ \A k : recording[c].key = k /\ Passed(c) /\ ~Passed(c)' => InFlight(k)' = InFlight(k) - 1
        /\ \A k : (recording[c].key # k \/ ~Passed(c)) /\ (NoRecord.key # k \/ ~Passed(c)') => InFlight(k)' = InFlight(k)
    BY <1>1, <1>2, <2>1, InFlightFollows
  <2>3. InFlight(key)' = InFlight(key) - 1
    BY <1>4, <1>k, <2>2, Zenon
  <2>4. \A k : k # key => InFlight(k)' = InFlight(k)
    BY <1>4, <1>k, <2>2
  <2> QED BY <2>3, <2>4
<1>10. CountsAdd'
  <2> SUFFICES ASSUME NEW k \in DOMAIN written, k[1] \notin refused
               PROVE  At(counted', k, 0) + InFlight(k)' = Len(written[k])
    BY <1>1 DEF CountsAdd
  <2>1. At(counted, k, 0) + InFlight(k) = Len(written[k])
    BY DEF MetricsInv, CountsAdd
  <2>2. CASE k = key
    <3>1. PICK n \in Nat : n = InFlight(key)
      BY InFlightNow
    <3>2. PICK m \in Nat : m = At(counted, key, 0)
      BY <1>5
    <3>3. At(counted', key, 0) = m + 1 /\ InFlight(key)' = n - 1
      BY <1>5, <1>9, <2>2, <3>1, <3>2
    <3>4. m + n = Len(written[key])
      BY <2>1, <2>2, <3>1, <3>2
    <3>5. At(counted', key, 0) + InFlight(key)' = Len(written[key])
      BY <3>3, <3>4
    <3> QED BY <2>2, <3>5, Zenon
  <2>3. CASE k # key
    BY <1>5, <1>9, <2>1, <2>3
  <2> QED BY <2>2, <2>3
<1> QED BY <1>6, <1>7, <1>8, <1>10 DEF MetricsInv

\* Appended to both, then pruned in one.
LEMMA AppendKeeps ==
  ASSUME NEW s \in Seq(Nat), NEW t \in Seq(Nat), NEW moment \in Nat, NEW b \in Int, moment - Window <= b,
         Only(s, Since(b)) = Only(t, Since(b))
  PROVE  /\ Prune(Append(s, moment), moment) \in Seq(Nat) /\ Append(t, moment) \in Seq(Nat)
         /\ Only(Prune(Append(s, moment), moment), Since(b)) = Only(Append(t, moment), Since(b))
<1>1. Append(s, moment) \in Seq(Nat) /\ Append(t, moment) \in Seq(Nat)
  OBVIOUS
<1>2. PICK u \in Seq(Nat) : u = Append(s, moment)
  BY <1>1
<1>3. Prune(u, moment) \in Seq(Nat) /\ Only(Prune(u, moment), Since(b)) = Only(u, Since(b))
  BY PruneKeeps
<1>4. Only(Append(s, moment), Since(b)) = Only(Append(t, moment), Since(b))
  <2>1. PICK T, S : T = Nat /\ S = Since(b)
    OBVIOUS
  <2>2. s \in Seq(T) /\ t \in Seq(T) /\ moment \in T /\ Only(s, S) = Only(t, S)
    BY <2>1
  <2>3. Only(Append(s, moment), S) = Only(Append(t, moment), S)
    BY <2>2, OnlyBothExtended
  <2> QED BY <2>1, <2>3
<1> QED BY <1>1, <1>2, <1>3, <1>4

\* Nothing is under way or counted for a key without events.
LEMMA NewKey ==
  ASSUME MetricsInv, NEW k, k \notin DOMAIN written
  PROVE  InFlight(k) = 0 /\ At(counted, k, 0) = 0
<1>1. {c \in Recorders : recording[c].key = k /\ Passed(c)} = {}
  BY DEF MetricsInv, CallsKnown
<1>2. InFlight(k) = 0
  <2>1. InFlight(k) = Cardinality({c \in Recorders : recording[c].key = k /\ Passed(c)})
    BY InFlightNow
  <2> QED BY <1>1, <2>1, FS_EmptySet
<1>3. At(counted, k, 0) = 0
  BY DEF MetricsInv, MetricsTypes, At
<1> QED BY <1>2, <1>3

LEMMA Wrote ==
  ASSUME MetricsInv, NEW c \in Recorders, Write(c)
  PROVE  MetricsInv'
<1>k. PICK key : key = recording[c].key
  OBVIOUS
<1>n. PICK moment \in Nat : moment = recording[c].now
  BY DEF MetricsInv, MetricsTypes, Recordings
<1>s. PICK s : s = At(timestamps, key, <<>>)
  OBVIOUS
<1>t. PICK t : t = At(written, key, <<>>)
  OBVIOUS
<1>1. /\ recording[c].at = "write" /\ newest' = Later(moment) /\ Step(c, "decide")
      /\ timestamps' = Put(timestamps, key, Prune(Append(s, moment), moment))
      /\ written' = Put(written, key, Append(t, moment))
      /\ UNCHANGED <<console, prometheus, counted, clock, refused>>
  BY <1>k, <1>n, <1>s, <1>t DEF Write
<1>2. PICK e \in Recordings : /\ recording' = [recording EXCEPT ![c] = e] /\ e.at = "decide"
                              /\ e.name = recording[c].name /\ e.key = recording[c].key
                              /\ e.name \in MetricNames /\ e.key[1] = e.name
  BY <1>1, StepsTo
<1>4. newest \in Nat /\ newest' \in Nat /\ moment <= newest' /\ newest <= newest' /\ Window \in Nat
  BY <1>1, MetricsAssumption DEF Later, MetricsInv, MetricsTypes
<1>c. PICK a \in Int : /\ a = newest - Window
                       /\ \E b \in Int : a <= b /\ moment - Window <= b /\ b = newest' - Window
  <2>w. PICK w \in Nat : w = Window
    BY <1>4
  <2>o. PICK old \in Nat, next \in Nat : old = newest /\ next = newest' /\ moment <= next /\ old <= next
    BY <1>4
  <2>1. old - w \in Int /\ next - w \in Int /\ old - w <= next - w /\ moment - w <= next - w
    <3>1. moment <= next /\ old <= next
      BY <2>o
    <3> QED BY <3>1
  <2>2. old - w = newest - Window /\ next - w = newest' - Window /\ moment - w = moment - Window
    BY <2>w, <2>o
  <2> QED BY <2>1, <2>2
<1>b. PICK b \in Int : a <= b /\ moment - Window <= b /\ b = newest' - Window
  BY <1>c
<1>5. /\ DOMAIN timestamps = DOMAIN written /\ DOMAIN counted \subseteq DOMAIN written
      /\ \A k \in DOMAIN written : timestamps[k] \in Seq(Nat) /\ written[k] \in Seq(Nat)
  BY DEF MetricsInv, MetricsTypes
<1>6. s \in Seq(Nat) /\ t \in Seq(Nat) /\ Only(s, Since(b)) = Only(t, Since(b))
  <2>1. CASE key \in DOMAIN written
    <3>1. s = timestamps[key] /\ t = written[key]
      BY <1>5, <1>s, <1>t, <2>1 DEF At
    <3>2. s \in Seq(Nat) /\ t \in Seq(Nat) /\ Only(s, Since(a)) = Only(t, Since(a))
      BY <1>5, <1>c, <2>1, <3>1 DEF MetricsInv, WindowKept
    <3> QED BY <1>b, <3>2, SinceLater
  <2>2. CASE key \notin DOMAIN written
    BY <1>5, <1>s, <1>t, <2>2 DEF At
  <2> QED BY <2>1, <2>2
<1>p. PICK u, v : u = Prune(Append(s, moment), moment) /\ v = Append(t, moment)
  OBVIOUS
<1>7. /\ u \in Seq(Nat) /\ v \in Seq(Nat) /\ Len(v) = Len(t) + 1
      /\ Only(u, Since(b)) = Only(v, Since(b))
  <2>1. /\ Prune(Append(s, moment), moment) \in Seq(Nat) /\ Append(t, moment) \in Seq(Nat)
        /\ Only(Prune(Append(s, moment), moment), Since(b)) = Only(Append(t, moment), Since(b))
    BY <1>6, <1>b, AppendKeeps
  <2>2. Len(Append(t, moment)) = Len(t) + 1
    BY <1>6
  <2> QED BY <1>p, <2>1, <2>2
<1>8. /\ DOMAIN timestamps' = DOMAIN written' /\ DOMAIN written' = DOMAIN written \cup {key}
      /\ timestamps'[key] = u /\ written'[key] = v
      /\ \A k \in DOMAIN written : k # key => timestamps'[k] = timestamps[k] /\ written'[k] = written[k]
  <2>1. timestamps' = Put(timestamps, key, u) /\ written' = Put(written, key, v)
    BY <1>1, <1>p
  <2>2. \A f, w : /\ DOMAIN Put(f, key, w) = DOMAIN f \cup {key} /\ Put(f, key, w)[key] = w
                  /\ \A j \in DOMAIN f : j # key => Put(f, key, w)[j] = f[j]
    BY DEF Put
  <2>3. /\ DOMAIN timestamps' = DOMAIN timestamps \cup {key} /\ timestamps'[key] = u
        /\ \A k \in DOMAIN timestamps : k # key => timestamps'[k] = timestamps[k]
    BY <2>1, <2>2, Zenon
  <2>4. /\ DOMAIN written' = DOMAIN written \cup {key} /\ written'[key] = v
        /\ \A k \in DOMAIN written : k # key => written'[k] = written[k]
    BY <2>1, <2>2, Zenon
  <2> QED BY <1>5, <2>3, <2>4
<1>9. CallsKnown' /\ recording' \in [Recorders -> Recordings]
  <2>1. e.key \in DOMAIN written' /\ DOMAIN written \subseteq DOMAIN written'
    BY <1>2, <1>8, <1>k
  <2> QED BY <1>2, <2>1, CallsStayKnown
<1>10. MetricsTypes'
  BY <1>1, <1>4, <1>5, <1>7, <1>8, <1>9 DEF MetricsInv, MetricsTypes
<1>11. WindowKept'
  <2> SUFFICES ASSUME NEW k \in DOMAIN written'
               PROVE  Only(timestamps'[k], Since(b)) = Only(written'[k], Since(b))
    BY <1>b DEF WindowKept, Since
  <2>1. CASE k = key
    BY <1>7, <1>8, <2>1
  <2>2. CASE k # key
    <3>1. k \in DOMAIN written /\ timestamps'[k] = timestamps[k] /\ written'[k] = written[k]
      BY <1>8, <2>2
    <3>2. Only(timestamps[k], Since(a)) = Only(written[k], Since(a))
      BY <1>c, <3>1 DEF MetricsInv, WindowKept
    <3>3. timestamps[k] \in Seq(Nat) /\ written[k] \in Seq(Nat)
      BY <1>5, <3>1
    <3>4. Only(timestamps[k], Since(b)) = Only(written[k], Since(b))
      BY <1>b, <3>2, <3>3, SinceLater
    <3> QED BY <3>1, <3>4
  <2> QED BY <2>1, <2>2
<1>12. SameKinds'
  BY <1>1 DEF MetricsInv, SameKinds
<1>13. InFlight(key)' = InFlight(key) + 1 /\ \A k : k # key => InFlight(k)' = InFlight(k)
  <2>1. ~Passed(c) /\ Passed(c)'
    BY <1>1, <1>2 DEF Passed, MetricsInv, MetricsTypes
  <2>2. MetricsTypes
    BY DEF MetricsInv
  <2>3. /\ \A k : recording[c].key = k /\ e.key = k /\ ~Passed(c) /\ Passed(c)' => InFlight(k)' = InFlight(k) + 1
        /\ \A k : (recording[c].key # k \/ ~Passed(c)) /\ (e.key # k \/ ~Passed(c)') => InFlight(k)' = InFlight(k)
    BY <1>2, <2>2, InFlightFollows
  <2>4. recording[c].key = key /\ e.key = key
    BY <1>2, <1>k
  <2>5. InFlight(key)' = InFlight(key) + 1
    BY <2>1, <2>3, <2>4, Zenon
  <2>6. \A k : k # key => InFlight(k)' = InFlight(k)
    BY <2>1, <2>3, <2>4, Zenon
  <2> QED BY <2>5, <2>6
<1>14. CountsAdd'
  <2> SUFFICES ASSUME NEW k \in DOMAIN written', k[1] \notin refused
               PROVE  At(counted, k, 0) + InFlight(k)' = Len(written'[k])
    BY <1>1 DEF CountsAdd
  <2>1. CASE k # key
    <3>1. k \in DOMAIN written /\ written'[k] = written[k]
      BY <1>8, <2>1
    <3> QED BY <1>13, <2>1, <3>1 DEF MetricsInv, CountsAdd
  <2>2. CASE k = key
    <3>1. At(counted, key, 0) + InFlight(key) = Len(t)
      <4>1. CASE key \in DOMAIN written
        BY <1>t, <2>2, <4>1 DEF At, MetricsInv, CountsAdd
      <4>2. CASE key \notin DOMAIN written
        <5>1. t = <<>>
          BY <1>t, <4>2 DEF At
        <5>2. InFlight(key) = 0 /\ At(counted, key, 0) = 0
          BY <4>2, NewKey
        <5> QED BY <5>1, <5>2
      <4> QED BY <4>1, <4>2
    <3>2. PICK m \in Nat, n \in Nat : m = At(counted, key, 0) /\ n = InFlight(key)
      <4>1. At(counted, key, 0) \in Nat
        BY DEF At, MetricsInv, MetricsTypes
      <4>2. InFlight(key) \in Nat
        BY InFlightNow
      <4> QED BY <4>1, <4>2
    <3>3. m + n = Len(t) /\ InFlight(key)' = n + 1 /\ Len(written'[key]) = Len(t) + 1
      BY <1>7, <1>8, <1>13, <3>1, <3>2
    <3>4. m + (n + 1) = Len(t) + 1
      <4>1. m + n = Len(t)
        BY <3>3
      <4> QED BY <4>1
    <3>5. At(counted, key, 0) + InFlight(key)' = Len(written'[key])
      BY <3>2, <3>3, <3>4
    <3> QED BY <2>2, <3>5, Zenon
  <2> QED BY <2>1, <2>2
<1> QED BY <1>9, <1>10, <1>11, <1>12, <1>14 DEF MetricsInv

LEMMA MetricsPreserved ==
  ASSUME MetricsInv, [MetricsNext]_metricsVars
  PROVE  MetricsInv'
<1>1. CASE \E n \in MetricNames : \E d \in Offered[n] : Register(n, d)
  BY <1>1, Registered
<1>2. ASSUME NEW c \in Recorders, NEW n \in MetricNames, NEW k \in {"counter", "histogram"}, NEW S \in SUBSET Labels,
             NEW g \in [S -> {0, 1}], Record(c, n, k, g)
      PROVE  MetricsInv'
  BY <1>2, Recorded
<1>3. CASE \E c \in Recorders : Write(c)
  BY <1>3, Wrote
<1>4. CASE \E c \in Recorders : Decide(c)
  BY <1>4, Decided
<1>5. CASE \E c \in Recorders : Log(c)
  BY <1>5, Logged
<1>6. CASE \E c \in Recorders : Forward(c)
  BY <1>6, Forwarded
<1>7. CASE Tick
  BY <1>7, Ticked
<1>8. CASE UNCHANGED metricsVars
  BY <1>8 DEF metricsVars, MetricsInv, MetricsTypes, CallsKnown, SameKinds, WindowKept, CountsAdd, Passed, Since, InFlight, At
<1> QED BY <1>1, <1>2, <1>3, <1>4, <1>5, <1>6, <1>7, <1>8 DEF MetricsNext

\* Of the events a call wrote, the console keeps those of the window in their
\* order, and Prometheus has counted, or a call is about to count, each one.
THEOREM EventsAreKept == MetricsSpec => []NoEventLost
<1>1. MetricsInit => MetricsInv
  BY MetricsStarts
<1>2. MetricsInv /\ [MetricsNext]_metricsVars => MetricsInv'
  BY MetricsPreserved
<1>3. MetricsInv => NoEventLost
  BY DEF MetricsInv, MetricsTypes, WindowKept, CountsAdd, NoEventLost
<1> QED BY <1>1, <1>2, <1>3, PTL DEF MetricsSpec
=============================================================================
