--------------------------- MODULE StoreHttpProofs ---------------------------
(***************************************************************************)
(* Proofs about StoreHttp, for any callers, retries, calls and faults: a   *)
(* rollout is claimed by one call and a call claims one rollout, and the   *)
(* numbers of spans are unique and follow the calls of each caller,        *)
(* however requests and answers are lost, repeated, delayed or reordered;  *)
(* about SpanStore: numbers are new, and no span is lost in silence; about *)
(* Operations: overlapping calls have spans of their own; and about        *)
(* Tracing: a span reaches its attempt once, and requests are numbered.    *)
(***************************************************************************)
EXTENDS StoreHttp, SpanStore, Operations, Tracing, FiniteSetTheorems, SequenceTheorems, TLAPS

Ops == {"enqueue", "dequeue", "number", "span", "read", "unknown", "null"}
Names == Callers \X Nat \X Nat
Values == Seq(Nat) \cup Names
Claims == [rollout : Names, by : Callers, n : Nat]
Numbered == [by : Callers, n : Nat, number : Nat]
Stores == [queue : Seq(Names), claims : SUBSET Claims, spans : SUBSET Numbered, counter : Nat]
Requests == [by : Callers, n : Nat, op : Ops, try : Nat, number : Nat]
Replies == [by : Callers, n : Nat, op : Ops, try : Nat, status : Nat, value : Values]
CallRecords == [kind : Kinds, op : Ops, n : Nat, try : Nat, number : Nat, value : Values,
                pc : {"idle", "waiting", "probing", "returned", "raised"}]

TypeOK ==
  /\ store \in Stores
  /\ requests \in SUBSET Requests
  /\ answers \in SUBSET Replies
  /\ call \in [Callers -> CallRecords]

Live(c) == call[c].pc \in {"waiting", "probing"}

\* A call in progress is of another process; a dequeue is not repeated; only
\* the second request of add_otel_span carries a number.
CallInOrder(c) ==
  /\ Live(c) => c \in Remote
  /\ Live(c) => call[c].op = First(call[c].kind) \/ (call[c].kind = "otel" /\ call[c].op = "span")
  /\ call[c].kind = "dequeue" => call[c].pc # "probing" /\ call[c].try = 0
  /\ call[c].op # "span" => call[c].number = 0
CallsInOrder == \A c \in Callers : CallInOrder(c)

-----------------------------------------------------------------------------
(* What claims need. *)

InQueue(t) == \E i \in DOMAIN store.queue : store.queue[i] = t
Gone(t) == \E x \in store.claims : x.rollout = t

\* A rollout is named by a request that some caller sent.
NameKnown(t) ==
  /\ t[2] <= call[t[1]].n
  /\ t[2] = call[t[1]].n => call[t[1]].op = "enqueue" /\ t[3] <= call[t[1]].try

RequestKnown(r) ==
  /\ r.n <= call[r.by].n
  /\ r.op = "enqueue" =>
       /\ r.number = 0 /\ NameKnown(<<r.by, r.n, r.try>>)
       /\ ~InQueue(<<r.by, r.n, r.try>>) /\ ~Gone(<<r.by, r.n, r.try>>)
  /\ r.op = "dequeue" =>
       /\ r.number = 0 /\ r.try = 0
       /\ \A x \in store.claims : ~(x.by = r.by /\ x.n = r.n)

ClaimsInOrder ==
  /\ \A t \in Names : InQueue(t) \/ Gone(t) => NameKnown(t)
  /\ \A t \in Names : ~(InQueue(t) /\ Gone(t))
  /\ \A i, j \in DOMAIN store.queue : store.queue[i] = store.queue[j] => i = j
  /\ \A x \in store.claims : x.n <= call[x.by].n
  /\ \A r \in requests : RequestKnown(r)

-----------------------------------------------------------------------------
(* What numbers need. *)

\* Call n of caller by has, or may still store, a span with number v.
Bears(by, n, v) ==
  \/ \E x \in store.spans : x.by = by /\ x.n = n /\ x.number = v
  \/ \E r \in requests : r.op = "span" /\ r.by = by /\ r.n = n /\ r.number = v
  \/ Live(by) /\ call[by].op = "span" /\ call[by].n = n /\ call[by].number = v

BearersKnown ==
  \A by \in Callers, n, v \in Nat : Bears(by, n, v) =>
    /\ v <= store.counter /\ n <= call[by].n
    /\ n = call[by].n /\ Live(by) => call[by].op = "span"

InTheirOrder(by, n, v, by2, n2, v2) ==
  /\ v = v2 <=> by = by2 /\ n = n2
  /\ by = by2 /\ n < n2 => v < v2

BearersInOrder ==
  \A by, by2 \in Callers, n, n2, v, v2 \in Nat :
    Bears(by, n, v) /\ Bears(by2, n2, v2) => InTheirOrder(by, n, v, by2, n2, v2)

\* A number on its way to a client is new, and above those of its older calls.
Fresh(m) ==
  /\ m.n <= call[m.by].n
  /\ m.status = 200 /\ m.value = <<m.value[1]>> /\ m.value[1] \in Nat /\ m.value[1] <= store.counter
  /\ \A by \in Callers, n, v \in Nat : Bears(by, n, v) =>
       v # m.value[1] /\ (by = m.by /\ n < m.n => v < m.value[1])

AnswersFresh ==
  /\ \A m \in answers : m.op = "number" => Fresh(m)
  /\ \A m, m2 \in answers : m.op = "number" /\ m2.op = "number" /\ m.value[1] = m2.value[1] => m = m2

IInv == TypeOK /\ CallsInOrder /\ ClaimsInOrder /\ ClaimsAreSingle
        /\ BearersKnown /\ BearersInOrder /\ AnswersFresh

-----------------------------------------------------------------------------
(* The store. *)

\* A span that is there already is not inserted again.
Stored(s, r) == \E x \in s.spans : x.by = r.by /\ x.n = r.n

\* What serving r does to s, where d is what Serve makes of them.
Effect(s, r, d) ==
  /\ d.store \in Stores /\ d.status \in Nat /\ d.value \in Values
  /\ r.op \notin {"enqueue", "dequeue"} => d.store.queue = s.queue
  /\ r.op # "dequeue" => d.store.claims = s.claims
  /\ r.op = "enqueue" => d.store.queue = Append(s.queue, <<r.by, r.n, r.try>>)
  /\ r.op = "dequeue" /\ s.queue = <<>> => d.store.queue = s.queue /\ d.store.claims = s.claims
  /\ r.op = "dequeue" /\ s.queue # <<>> =>
       /\ d.store.queue = Tail(s.queue)
       /\ d.store.claims = s.claims \cup {[rollout |-> Head(s.queue), by |-> r.by, n |-> r.n]}
  /\ r.op # "number" => d.store.counter = s.counter
  /\ r.op # "span" => d.store.spans = s.spans
  /\ r.op = "number" => d.store.counter = s.counter + 1 /\ d.status = 200 /\ d.value = <<s.counter + 1>>
  /\ r.op = "span" /\ ~Stored(s, r) =>
       d.store.spans = s.spans \cup {[by |-> r.by, n |-> r.n, number |-> r.number]}
  /\ r.op = "span" /\ Stored(s, r) => d.store.spans = s.spans

LEMMA Serves ==
  ASSUME NEW s \in Stores, NEW r \in Requests
  PROVE  Effect(s, r, Serve(s, r))
<1> DEFINE d == Serve(s, r)
<1> SUFFICES Effect(s, r, d)
  OBVIOUS
<1> USE DEF Effect
<1>1. /\ s.queue \in Seq(Names) /\ s.claims \in SUBSET Claims /\ s.spans \in SUBSET Numbered /\ s.counter \in Nat
      /\ s = [queue |-> s.queue, claims |-> s.claims, spans |-> s.spans, counter |-> s.counter]
      /\ <<r.by, r.n, r.try>> \in Names /\ r.by \in Callers /\ r.n \in Nat /\ r.number \in Nat
      /\ <<>> \in Values
  BY DEF Stores, Requests, Names, Values
<1>2. CASE r.op = "enqueue"
  <2>1. Append(s.queue, <<r.by, r.n, r.try>>) \in Seq(Names)
    BY <1>1
  <2>2. d = [store |-> [s EXCEPT !.queue = Append(@, <<r.by, r.n, r.try>>)], status |-> 201,
             value |-> <<r.by, r.n, r.try>>]
    BY <1>2 DEF Serve
  <2> HIDE DEF d
  <2>3. d.store = [queue |-> Append(s.queue, <<r.by, r.n, r.try>>), claims |-> s.claims,
                   spans |-> s.spans, counter |-> s.counter]
    BY <1>1, <2>2
  <2>4. d.status = 201 /\ d.value = <<r.by, r.n, r.try>>
    BY <2>2
  <2>5. d.store \in Stores
    BY <1>1, <2>1, <2>3 DEF Stores
  <2>6. d.status \in Nat /\ d.value \in Values
    BY <1>1, <2>4 DEF Values
  <2> QED BY <1>2, <2>3, <2>5, <2>6
<1>3. CASE r.op = "dequeue" /\ s.queue = <<>>
  <2>1. d = [store |-> s, status |-> 200, value |-> <<>>]
    BY <1>3 DEF Serve
  <2> HIDE DEF d
  <2> QED BY <1>1, <1>3, <2>1
<1>4. CASE r.op = "dequeue" /\ s.queue # <<>>
  <2> DEFINE claim == [rollout |-> Head(s.queue), by |-> r.by, n |-> r.n]
  <2>1. Tail(s.queue) \in Seq(Names) /\ Head(s.queue) \in Names
    BY <1>1, <1>4
  <2>2. claim \in Claims
    BY <1>1, <2>1 DEF Claims
  <2>3. d = [store |-> [s EXCEPT !.queue = Tail(@), !.claims = @ \cup {claim}], status |-> 200,
             value |-> Head(s.queue)]
    BY <1>4 DEF Serve
  <2> HIDE DEF d, claim
  <2>4. d.store = [queue |-> Tail(s.queue), claims |-> s.claims \cup {claim}, spans |-> s.spans,
                   counter |-> s.counter]
    BY <1>1, <2>3
  <2>5. d.store \in Stores
    BY <1>1, <2>1, <2>2, <2>4 DEF Stores
  <2>6. d.status = 200 /\ d.value = Head(s.queue)
    BY <2>3
  <2>7. d.status \in Nat /\ d.value \in Values
    BY <2>1, <2>6 DEF Values
  <2> QED BY <1>4, <2>4, <2>5, <2>7 DEF claim
<1>5. CASE r.op = "number"
  <2>1. <<s.counter + 1>> \in Values /\ s.counter + 1 \in Nat
    BY <1>1 DEF Values
  <2>2. d = [store |-> [s EXCEPT !.counter = s.counter + 1], status |-> 200,
             value |-> <<s.counter + 1>>]
    BY <1>5 DEF Serve, NextNumber
  <2> HIDE DEF d
  <2>3. d.store = [queue |-> s.queue, claims |-> s.claims, spans |-> s.spans,
                   counter |-> s.counter + 1]
    BY <1>1, <2>2
  <2>4. d.store \in Stores
    BY <1>1, <2>1, <2>3 DEF Stores
  <2> QED BY <1>5, <2>1, <2>2, <2>3, <2>4
<1>6. CASE r.op = "span"
  <2>1. [by |-> r.by, n |-> r.n, number |-> r.number] \in Numbered /\ <<r.number>> \in Values
    BY <1>1 DEF Numbered, Values
  <2>2. CASE Stored(s, r)
    <3>1. d = [store |-> s, status |-> 201, value |-> <<>>]
      BY <1>6, <2>2 DEF Serve, Stored
    <3> HIDE DEF d
    <3> QED BY <1>1, <1>6, <2>2, <3>1
  <2>3. CASE ~Stored(s, r)
    <3> DEFINE span == [by |-> r.by, n |-> r.n, number |-> r.number]
    <3>1. d = [store |-> [s EXCEPT !.spans = @ \cup {span}], status |-> 201, value |-> <<r.number>>]
      BY <1>6, <2>3 DEF Serve, Stored
    <3> HIDE DEF d
    <3>2. d.store = [queue |-> s.queue, claims |-> s.claims, spans |-> s.spans \cup {span},
                     counter |-> s.counter]
      BY <1>1, <3>1
    <3>3. d.store \in Stores /\ d.status \in Nat /\ d.value \in Values
      BY <1>1, <2>1, <3>1, <3>2 DEF Stores
    <3> QED BY <1>6, <2>3, <3>2, <3>3
  <2> QED BY <2>2, <2>3
<1>7. CASE r.op \in {"read", "unknown", "null"}
  <2>1. d.store = s /\ d.status \in Nat /\ d.value = <<>>
    BY <1>7 DEF Serve
  <2> HIDE DEF d
  <2> QED BY <1>1, <1>7, <2>1
<1> HIDE DEF d
<1> QED BY <1>2, <1>3, <1>4, <1>5, <1>6, <1>7 DEF Requests, Ops

-----------------------------------------------------------------------------
(* What calls do: a caller goes on to its next call, or on with this one. *)

Follows(b) ==
  /\ call'[b].n >= call[b].n
  /\ call'[b].n = call[b].n =>
       /\ call[b].op = "enqueue" => call'[b].op = "enqueue" /\ call'[b].try >= call[b].try
       /\ Live(b)' => Live(b) /\ (call[b].op = "span" => call'[b].op = "span")
CallsFollow == \A b \in Callers : Follows(b)

\* One caller's record changes, and follows.
LEMMA OneFollows ==
  ASSUME TypeOK, CallsInOrder, NEW c \in Callers, NEW rec \in CallRecords,
         call' = [call EXCEPT ![c] = rec],
         CallInOrder(c)', Follows(c)
  PROVE  call' \in [Callers -> CallRecords] /\ CallsInOrder' /\ CallsFollow
<1>1. /\ call' \in [Callers -> CallRecords]
      /\ \A b \in Callers : b # c => call'[b] = call[b]
  BY DEF TypeOK
<1>2. \A b \in Callers : call[b].n \in Nat /\ call[b].try \in Nat
  BY DEF TypeOK, CallRecords
<1>3. CallsInOrder'
  BY <1>1 DEF CallsInOrder, CallInOrder, Live
<1>4. CallsFollow
  BY <1>1, <1>2 DEF CallsFollow, Follows, Live
<1> QED BY <1>1, <1>3, <1>4

\* Nobody's record changes.
LEMMA NoneFollows ==
  ASSUME TypeOK, CallsInOrder, call' = call
  PROVE  call' \in [Callers -> CallRecords] /\ CallsInOrder' /\ CallsFollow
<1>1. \A b \in Callers : call[b].n \in Nat /\ call[b].try \in Nat
  BY DEF TypeOK, CallRecords
<1> QED BY <1>1 DEF TypeOK, CallsInOrder, CallInOrder, CallsFollow, Follows, Live

\* A name that is known stays known.
LEMMA NamesStay ==
  ASSUME TypeOK, call' \in [Callers -> CallRecords], CallsFollow,
         NEW t \in Names, NameKnown(t)
  PROVE  NameKnown(t)'
<1>1. t[1] \in Callers /\ t[2] \in Nat /\ t[3] \in Nat
  BY DEF Names
<1>2. /\ call[t[1]].n \in Nat /\ call[t[1]].try \in Nat
      /\ call'[t[1]].n \in Nat /\ call'[t[1]].try \in Nat
  BY <1>1 DEF TypeOK, CallRecords
<1>3. Follows(t[1])
  BY <1>1 DEF CallsFollow
<1> QED BY <1>1, <1>2, <1>3 DEF NameKnown, Follows

\* The claims stay in order while the store stays and what is sent is known.
LEMMA ClaimsStay ==
  ASSUME TypeOK, call' \in [Callers -> CallRecords], CallsFollow,
         ClaimsInOrder, ClaimsAreSingle,
         store'.queue = store.queue, store'.claims = store.claims,
         requests' \in SUBSET Requests,
         \A r \in requests' : r \in requests \/ RequestKnown(r)'
  PROVE  ClaimsInOrder' /\ ClaimsAreSingle'
<1>1. \A t : (InQueue(t)' <=> InQueue(t)) /\ (Gone(t)' <=> Gone(t))
  BY DEF InQueue, Gone
<1>2. \A t \in Names : NameKnown(t) => NameKnown(t)'
  BY NamesStay
<1>3. ASSUME NEW b \in Callers, NEW n \in Nat, n <= call[b].n
      PROVE  n <= call'[b].n
  BY <1>3 DEF CallsFollow, Follows, TypeOK, CallRecords
<1>4. ASSUME NEW r \in requests', r \in requests
      PROVE  RequestKnown(r)'
  <2>1. RequestKnown(r) /\ r \in Requests
    BY <1>4 DEF ClaimsInOrder, TypeOK
  <2>2. <<r.by, r.n, r.try>> \in Names /\ r.by \in Callers /\ r.n \in Nat
    BY <2>1 DEF Requests, Names
  <2>3. r.n <= call'[r.by].n
    BY <1>3, <2>1, <2>2 DEF RequestKnown
  <2> QED BY <1>1, <1>2, <2>1, <2>2, <2>3 DEF RequestKnown
<1>5. \A x \in store.claims : x.by \in Callers /\ x.n \in Nat
  BY DEF TypeOK, Stores, Claims
<1>6. \A x \in store'.claims : x.n <= call'[x.by].n
  BY <1>3, <1>5 DEF ClaimsInOrder
<1>7. \A t \in Names : InQueue(t)' \/ Gone(t)' => NameKnown(t)'
  BY <1>1, <1>2 DEF ClaimsInOrder
<1>8. \A t \in Names : ~(InQueue(t)' /\ Gone(t)')
  BY <1>1 DEF ClaimsInOrder
<1>9. \A r \in requests' : RequestKnown(r)'
  BY <1>4
<1>10. \A i, j \in DOMAIN store'.queue : store'.queue[i] = store'.queue[j] => i = j
  BY DEF ClaimsInOrder
<1>11. ClaimsAreSingle'
  BY DEF ClaimsAreSingle
<1> QED BY <1>6, <1>7, <1>8, <1>9, <1>10, <1>11 DEF ClaimsInOrder

\* What the store does for a request r that is known keeps them in order.
LEMMA ClaimsServed ==
  ASSUME TypeOK, call' \in [Callers -> CallRecords], CallsFollow,
         ClaimsInOrder, ClaimsAreSingle,
         NEW r \in Requests, NEW d, Effect(store, r, d),
         store'.queue = d.store.queue, store'.claims = d.store.claims,
         requests' \in SUBSET requests, r \notin requests',
         r.n <= call'[r.by].n,
         r.op = "enqueue" =>
           /\ r.number = 0 /\ NameKnown(<<r.by, r.n, r.try>>)'
           /\ ~InQueue(<<r.by, r.n, r.try>>) /\ ~Gone(<<r.by, r.n, r.try>>),
         r.op = "dequeue" =>
           /\ r.number = 0 /\ r.try = 0
           /\ \A x \in store.claims : ~(x.by = r.by /\ x.n = r.n)
  PROVE  ClaimsInOrder' /\ ClaimsAreSingle'
<1> DEFINE name == <<r.by, r.n, r.try>>
<1>1. /\ store.queue \in Seq(Names) /\ store.claims \in SUBSET Claims /\ requests \in SUBSET Requests
      /\ r.by \in Callers /\ r.n \in Nat /\ r.try \in Nat /\ name \in Names
      /\ r.op \in Ops
  BY DEF TypeOK, Stores, Requests, Names
<1>2. \A t \in Names : NameKnown(t) => NameKnown(t)'
  BY NamesStay
<1>3. ASSUME NEW b \in Callers, NEW n \in Nat, n <= call[b].n
      PROVE  n <= call'[b].n
  BY <1>3 DEF CallsFollow, Follows, TypeOK, CallRecords
<1>4. \A x \in store.claims : x.by \in Callers /\ x.n \in Nat /\ x.rollout \in Names
  BY <1>1 DEF Claims
<1>5. \A q \in requests' : RequestKnown(q) /\ q \in Requests /\ q # r
  BY <1>1 DEF ClaimsInOrder
<1>6. \A q \in requests' : q.n <= call'[q.by].n
  BY <1>3, <1>5 DEF RequestKnown, Requests
<1>7. CASE store'.queue = store.queue /\ store'.claims = store.claims
  <2>1. \A q \in requests' : q \in requests
    OBVIOUS
  <2>2. requests' \in SUBSET Requests
    BY <1>1
  <2> QED BY <1>7, <2>1, <2>2, ClaimsStay
<1>8. CASE r.op = "enqueue"
  <2>1. store'.queue = Append(store.queue, name) /\ store'.claims = store.claims
    BY <1>8 DEF Effect
  <2>2. ~InQueue(name) /\ ~Gone(name) /\ NameKnown(name)' /\ r.number = 0
    BY <1>8
  <2> HIDE DEF name
  <2>n. PICK n : n = Len(store.queue)
    OBVIOUS
  <2>3. /\ n \in Nat /\ DOMAIN store.queue = 1..n
        /\ DOMAIN store'.queue = 1..(n + 1) /\ store'.queue[n + 1] = name
        /\ \A i \in 1..n : store'.queue[i] = store.queue[i]
    BY <1>1, <2>1, <2>n
  <2>i. \A i : i \in 1..(n + 1) <=> i \in 1..n \/ i = n + 1
    BY <2>3
  <2>4. \A t : InQueue(t)' <=> InQueue(t) \/ t = name
    <3> SUFFICES ASSUME NEW t PROVE InQueue(t)' <=> InQueue(t) \/ t = name
      OBVIOUS
    <3>1. InQueue(t)' <=> \E i \in 1..(n + 1) : store'.queue[i] = t
      BY <2>3 DEF InQueue
    <3>2. InQueue(t) <=> \E i \in 1..n : store'.queue[i] = t
      BY <2>3 DEF InQueue
    <3>3. store'.queue[n + 1] = name
      BY <2>3
    <3> QED BY <2>i, <3>1, <3>2, <3>3, Zenon
  <2>5. \A t : Gone(t)' <=> Gone(t)
    BY <2>1 DEF Gone
  <2>6. \A t \in Names : InQueue(t)' \/ Gone(t)' => NameKnown(t)'
    BY <1>2, <2>2, <2>4, <2>5 DEF ClaimsInOrder
  <2>7. \A t \in Names : ~(InQueue(t)' /\ Gone(t)')
    BY <2>2, <2>4, <2>5 DEF ClaimsInOrder
  <2>8. \A i, j \in DOMAIN store'.queue : store'.queue[i] = store'.queue[j] => i = j
    <3>1. \A i \in DOMAIN store.queue : store.queue[i] # name
      BY <2>2 DEF InQueue
    <3>2. \A i, j \in DOMAIN store.queue : store.queue[i] = store.queue[j] => i = j
      BY DEF ClaimsInOrder
    <3> SUFFICES ASSUME NEW i \in 1..(n + 1), NEW j \in 1..(n + 1), store'.queue[i] = store'.queue[j]
                 PROVE  i = j
      BY <2>3
    <3>3. (i \in 1..n \/ i = n + 1) /\ (j \in 1..n \/ j = n + 1)
      BY <2>i
    <3>4. CASE i \in 1..n /\ j \in 1..n
      BY <2>3, <3>2, <3>4
    <3>5. CASE i \in 1..n /\ j = n + 1
      BY <2>3, <3>1, <3>5
    <3>6. CASE i = n + 1 /\ j \in 1..n
      BY <2>3, <3>1, <3>6
    <3> QED BY <3>3, <3>4, <3>5, <3>6
  <2>9. \A x \in store'.claims : x.n <= call'[x.by].n
    BY <1>3, <1>4, <2>1 DEF ClaimsInOrder
  <2>10. ASSUME NEW q \in requests' PROVE RequestKnown(q)'
    <3>1. RequestKnown(q) /\ q \in Requests /\ q # r
      BY <1>5
    <3>2. <<q.by, q.n, q.try>> \in Names
      BY <3>1 DEF Requests, Names
    <3>3. q.op = "enqueue" => <<q.by, q.n, q.try>> # name
      BY <1>8, <2>2, <3>1 DEF Requests, RequestKnown, name
    <3> QED BY <1>2, <1>6, <2>1, <2>4, <2>5, <3>1, <3>2, <3>3 DEF RequestKnown
  <2>11. ClaimsAreSingle'
    BY <2>1 DEF ClaimsAreSingle
  <2> QED BY <2>6, <2>7, <2>8, <2>9, <2>10, <2>11 DEF ClaimsInOrder
<1>9. CASE r.op = "dequeue" /\ store.queue # <<>>
  <2> DEFINE claim == [rollout |-> Head(store.queue), by |-> r.by, n |-> r.n]
  <2>1. store'.queue = Tail(store.queue) /\ store'.claims = store.claims \cup {claim}
    BY <1>9 DEF Effect
  <2>2. /\ \A x \in store.claims : ~(x.by = r.by /\ x.n = r.n)
        /\ r.number = 0 /\ r.try = 0
    BY <1>9
  <2>3. claim.rollout = Head(store.queue) /\ claim.by = r.by /\ claim.n = r.n
    OBVIOUS
  <2> HIDE DEF claim
  <2>4. /\ Len(store.queue) \in Nat /\ Len(store.queue) > 0
        /\ DOMAIN store.queue = 1..Len(store.queue)
        /\ DOMAIN store'.queue = 1..(Len(store.queue) - 1)
        /\ Head(store.queue) = store.queue[1] /\ Head(store.queue) \in Names
        /\ \A i \in 1..(Len(store.queue) - 1) : store'.queue[i] = store.queue[i + 1]
    BY <1>1, <1>9, <2>1
  <2>5. \A i, j \in DOMAIN store.queue : store.queue[i] = store.queue[j] => i = j
    BY DEF ClaimsInOrder
  <2>5a. ASSUME NEW i \in DOMAIN store'.queue
         PROVE  /\ i \in DOMAIN store.queue /\ i + 1 \in DOMAIN store.queue /\ 1 \in DOMAIN store.queue
                /\ i \in Int /\ i + 1 # 1 /\ store'.queue[i] = store.queue[i + 1]
    BY <2>4
  <2>6. ASSUME NEW t, InQueue(t)' PROVE InQueue(t) /\ t # Head(store.queue)
    <3>1. PICK i \in DOMAIN store'.queue : store'.queue[i] = t
      BY <2>6 DEF InQueue
    <3>2. store.queue[i + 1] = t /\ i + 1 \in DOMAIN store.queue /\ i + 1 # 1 /\ 1 \in DOMAIN store.queue
      BY <2>5a, <3>1
    <3>3. store.queue[i + 1] # store.queue[1]
      BY <2>5, <3>2
    <3> QED BY <2>4, <3>2, <3>3 DEF InQueue
  <2>7. InQueue(Head(store.queue)) /\ ~Gone(Head(store.queue))
    BY <2>4 DEF InQueue, ClaimsInOrder
  <2>8. \A t : Gone(t)' <=> Gone(t) \/ t = Head(store.queue)
    BY <2>1, <2>3 DEF Gone
  <2>9. \A t \in Names : InQueue(t)' \/ Gone(t)' => NameKnown(t)'
    BY <1>2, <2>6, <2>7, <2>8 DEF ClaimsInOrder
  <2>10. \A t \in Names : ~(InQueue(t)' /\ Gone(t)')
    BY <2>6, <2>8 DEF ClaimsInOrder
  <2>11. \A i, j \in DOMAIN store'.queue : store'.queue[i] = store'.queue[j] => i = j
    <3> SUFFICES ASSUME NEW i \in DOMAIN store'.queue, NEW j \in DOMAIN store'.queue,
                        store'.queue[i] = store'.queue[j]
                 PROVE  i = j
      OBVIOUS
    <3>1. store.queue[i + 1] = store.queue[j + 1]
      BY <2>5a
    <3>2. i + 1 = j + 1
      BY <2>5, <2>5a, <3>1
    <3> QED BY <2>5a, <3>2
  <2>12. \A x \in store'.claims : x.n <= call'[x.by].n
    BY <1>3, <1>4, <2>1, <2>3 DEF ClaimsInOrder
  <2>13. ASSUME NEW q \in requests' PROVE RequestKnown(q)'
    <3>1. RequestKnown(q) /\ q \in Requests /\ q # r
      BY <1>5
    <3>2. <<q.by, q.n, q.try>> \in Names
      BY <3>1 DEF Requests, Names
    <3>3. q.op = "dequeue" => ~(q.by = r.by /\ q.n = r.n)
      BY <1>9, <2>2, <3>1 DEF Requests, RequestKnown
    <3>4. q.op = "enqueue" => ~InQueue(<<q.by, q.n, q.try>>)' /\ ~Gone(<<q.by, q.n, q.try>>)'
      BY <2>6, <2>7, <2>8, <3>1 DEF RequestKnown
    <3>5. q.op = "dequeue" => \A x \in store'.claims : ~(x.by = q.by /\ x.n = q.n)
      BY <2>1, <2>3, <3>1, <3>3 DEF RequestKnown
    <3> QED BY <1>2, <1>6, <3>1, <3>2, <3>4, <3>5 DEF RequestKnown
  <2>14. ClaimsAreSingle'
    <3>1. \A x \in store.claims : x.rollout # claim.rollout /\ ~(x.by = claim.by /\ x.n = claim.n)
      BY <2>2, <2>3, <2>7 DEF Gone
    <3> QED BY <2>1, <3>1 DEF ClaimsAreSingle
  <2> QED BY <2>9, <2>10, <2>11, <2>12, <2>13, <2>14 DEF ClaimsInOrder
<1>10. CASE r.op = "dequeue" /\ store.queue = <<>>
  BY <1>7, <1>10 DEF Effect
<1>11. CASE r.op \notin {"enqueue", "dequeue"}
  BY <1>7, <1>11 DEF Effect
<1> QED BY <1>8, <1>9, <1>10, <1>11

-----------------------------------------------------------------------------
(* Numbers. *)

NumbersInOrder == BearersKnown /\ BearersInOrder /\ AnswersFresh

\* No new bearer, no new number on its way: the numbers stay in order.
LEMMA NumbersStay ==
  ASSUME TypeOK, TypeOK', CallsFollow, NumbersInOrder,
         store'.counter >= store.counter,
         \A by \in Callers, n, v \in Nat : Bears(by, n, v)' => Bears(by, n, v),
         \A m \in answers' : m.op = "number" => m \in answers
  PROVE  NumbersInOrder'
<1> USE DEF NumbersInOrder
<1>1. store.counter \in Nat /\ store'.counter \in Nat
  BY DEF TypeOK, Stores
<1>2. \A b \in Callers : call[b].n \in Nat /\ call'[b].n \in Nat /\ Follows(b)
  BY DEF TypeOK, CallRecords, CallsFollow
<1>3. BearersKnown'
  <2> SUFFICES ASSUME NEW by \in Callers, NEW n \in Nat, NEW v \in Nat, Bears(by, n, v)'
               PROVE  /\ v <= store'.counter /\ n <= call'[by].n
                      /\ n = call'[by].n /\ Live(by)' => call'[by].op = "span"
    BY DEF BearersKnown
  <2>1. /\ v <= store.counter /\ n <= call[by].n
        /\ n = call[by].n /\ Live(by) => call[by].op = "span"
    BY DEF BearersKnown
  <2> QED BY <1>1, <1>2, <2>1 DEF Follows
<1>4. BearersInOrder'
  BY DEF BearersInOrder
<1>5. ASSUME NEW m \in answers', m.op = "number" PROVE Fresh(m)'
  <2>1. m \in answers /\ Fresh(m) /\ m.by \in Callers /\ m.n \in Nat
    BY <1>5 DEF AnswersFresh, TypeOK, Replies
  <2>2. m.n <= call'[m.by].n
    BY <1>2, <2>1 DEF Fresh, Follows
  <2>3. m.value[1] <= store'.counter
    BY <1>1, <2>1 DEF Fresh
  <2> QED BY <2>1, <2>2, <2>3 DEF Fresh
<1>6. AnswersFresh'
  BY <1>5 DEF AnswersFresh
<1> QED BY <1>3, <1>4, <1>6

\* A caller's new number: above all its older ones, unlike any other, and no
\* answer with it is left.
Borne(c, k, w) ==
  /\ store'.counter >= store.counter /\ w <= store'.counter
  /\ k >= call[c].n /\ k = call'[c].n /\ (Live(c)' => call'[c].op = "span")
  /\ \A by \in Callers, n, v \in Nat :
       Bears(by, n, v)' => Bears(by, n, v) \/ (by = c /\ n = k /\ v = w)
  /\ \A by \in Callers, n, v \in Nat : Bears(by, n, v) => v # w /\ (by = c => n < k /\ v < w)
  /\ \A m \in answers' : m.op = "number" => m \in answers /\ m.value[1] # w

LEMMA NumberBorne ==
  ASSUME TypeOK, TypeOK', CallsFollow, NumbersInOrder,
         NEW c \in Callers, NEW k \in Nat, NEW w \in Nat, Borne(c, k, w)
  PROVE  NumbersInOrder'
<1> USE DEF NumbersInOrder, Borne
<1>1. store.counter \in Nat /\ store'.counter \in Nat
  BY DEF TypeOK, Stores
<1>2. \A b \in Callers : call[b].n \in Nat /\ call'[b].n \in Nat /\ Follows(b)
  BY DEF TypeOK, CallRecords, CallsFollow
<1>3. BearersKnown'
  <2> SUFFICES ASSUME NEW by \in Callers, NEW n \in Nat, NEW v \in Nat, Bears(by, n, v)'
               PROVE  /\ v <= store'.counter /\ n <= call'[by].n
                      /\ n = call'[by].n /\ Live(by)' => call'[by].op = "span"
    BY DEF BearersKnown
  <2>1. CASE Bears(by, n, v)
    <3>1. /\ v <= store.counter /\ n <= call[by].n
          /\ n = call[by].n /\ Live(by) => call[by].op = "span"
      BY <2>1 DEF BearersKnown
    <3> QED BY <1>1, <1>2, <3>1 DEF Follows
  <2>2. CASE by = c /\ n = k /\ v = w
    BY <1>1, <2>2
  <2> QED BY <2>1, <2>2
<1>4. BearersInOrder'
  <2> SUFFICES ASSUME NEW by \in Callers, NEW by2 \in Callers, NEW n \in Nat, NEW n2 \in Nat,
                      NEW v \in Nat, NEW v2 \in Nat, Bears(by, n, v)', Bears(by2, n2, v2)'
               PROVE  InTheirOrder(by, n, v, by2, n2, v2)
    BY DEF BearersInOrder
  <2>1. CASE Bears(by, n, v) /\ Bears(by2, n2, v2)
    BY <2>1 DEF BearersInOrder
  <2>2. CASE Bears(by, n, v) /\ by2 = c /\ n2 = k /\ v2 = w
    BY <2>2 DEF InTheirOrder
  <2>3. CASE Bears(by2, n2, v2) /\ by = c /\ n = k /\ v = w
    BY <2>3 DEF InTheirOrder
  <2>4. CASE by = c /\ n = k /\ v = w /\ by2 = c /\ n2 = k /\ v2 = w
    BY <2>4 DEF InTheirOrder
  <2> QED BY <2>1, <2>2, <2>3, <2>4
<1>5. ASSUME NEW m \in answers', m.op = "number" PROVE Fresh(m)'
  <2>1. m \in answers /\ m.value[1] # w /\ Fresh(m) /\ m.by \in Callers /\ m.n \in Nat
    BY <1>5 DEF AnswersFresh, TypeOK, Replies
  <2>2. m.n <= call'[m.by].n
    BY <1>2, <2>1 DEF Fresh, Follows
  <2>3. m.value[1] <= store'.counter
    BY <1>1, <2>1 DEF Fresh
  <2>4. ASSUME NEW by \in Callers, NEW n \in Nat, NEW v \in Nat, Bears(by, n, v)'
        PROVE  v # m.value[1] /\ (by = m.by /\ n < m.n => v < m.value[1])
    <3>1. CASE Bears(by, n, v)
      BY <2>1, <3>1 DEF Fresh
    <3>2. CASE by = c /\ n = k /\ v = w
      <4>1. m.n <= call[m.by].n
        BY <2>1 DEF Fresh
      <4>2. ~(by = m.by /\ n < m.n)
        BY <1>2, <2>1, <3>2, <4>1
      <4> QED BY <2>1, <3>2, <4>2
    <3> QED BY <2>4, <3>1, <3>2
  <2> QED BY <2>1, <2>2, <2>3, <2>4 DEF Fresh
<1>6. AnswersFresh'
  BY <1>5 DEF AnswersFresh
<1> QED BY <1>3, <1>4, <1>6

\* A number the store has just given out, on its way to the client.
LEMMA NumberGiven ==
  ASSUME TypeOK, TypeOK', CallsFollow, NumbersInOrder, call' = call,
         store'.counter = store.counter + 1,
         \A by \in Callers, n, v \in Nat : Bears(by, n, v)' => Bears(by, n, v),
         NEW a, answers' = answers \cup {a}, a.by \in Callers, a.n \in Nat, a.n <= call[a.by].n,
         a.status = 200, a.value = <<store.counter + 1>>
  PROVE  NumbersInOrder'
<1> USE DEF NumbersInOrder
<1> DEFINE w == store.counter + 1
<1>1. store.counter \in Nat /\ w \in Nat /\ store'.counter = w /\ a.value[1] = w /\ a.value = <<a.value[1]>>
  BY DEF TypeOK, Stores
<1> HIDE DEF w
<1>2. BearersKnown'
  <2>1. \A v \in Nat : v <= store.counter => v <= store'.counter
    BY <1>1
  <2> QED BY <2>1 DEF BearersKnown, Live
<1>3. BearersInOrder'
  <2> SUFFICES ASSUME NEW by \in Callers, NEW by2 \in Callers, NEW n \in Nat, NEW n2 \in Nat,
                      NEW v \in Nat, NEW v2 \in Nat, Bears(by, n, v)', Bears(by2, n2, v2)'
               PROVE  InTheirOrder(by, n, v, by2, n2, v2)
    BY DEF BearersInOrder
  <2>1. Bears(by, n, v) /\ Bears(by2, n2, v2)
    OBVIOUS
  <2> QED BY <2>1 DEF BearersInOrder
<1>4. \A by \in Callers, n, v \in Nat : Bears(by, n, v)' => v < w
  <2> SUFFICES ASSUME NEW by \in Callers, NEW n \in Nat, NEW v \in Nat, Bears(by, n, v)'
               PROVE  v < w
    OBVIOUS
  <2>1. v <= store.counter
    BY DEF BearersKnown
  <2> QED BY <1>1, <2>1 DEF w
<1>5. ASSUME NEW m \in answers, m.op = "number" PROVE Fresh(m)' /\ m.value[1] # w
  <2>1. Fresh(m)
    BY <1>5 DEF AnswersFresh
  <2>2. m.value[1] \in Nat /\ m.value[1] <= store.counter
    BY <2>1 DEF Fresh
  <2>3. m.value[1] <= store'.counter /\ m.value[1] # w
    BY <1>1, <2>2 DEF w
  <2> QED BY <2>1, <2>3 DEF Fresh
<1>6. Fresh(a)'
  <2>1. \A by \in Callers, n, v \in Nat : Bears(by, n, v)' => v # w /\ v < w
    BY <1>4
  <2>2. a.value[1] <= store'.counter /\ a.value[1] \in Nat
    BY <1>1
  <2> QED BY <1>1, <2>1, <2>2 DEF Fresh
<1>7. \A m, m2 \in answers' :
        m.op = "number" /\ m2.op = "number" /\ m.value[1] = m2.value[1] => m = m2
  BY <1>1, <1>5 DEF AnswersFresh
<1>8. AnswersFresh'
  BY <1>5, <1>6, <1>7 DEF AnswersFresh
<1> QED BY <1>2, <1>3, <1>8

-----------------------------------------------------------------------------
(* The actions. *)

\* What a step that keeps the store and the answers' numbers needs for Bears.
LEMMA BearsOn ==
  ASSUME TypeOK, store' = store, CallsFollow,
         \A r \in requests' : r.op = "span" => r \in requests,
         \A b \in Callers : Live(b)' /\ call'[b].op = "span" =>
           Live(b) /\ call[b].op = "span" /\ call'[b].n = call[b].n /\ call'[b].number = call[b].number
  PROVE  \A by \in Callers, n, v \in Nat : Bears(by, n, v)' => Bears(by, n, v)
<1> SUFFICES ASSUME NEW by \in Callers, NEW n \in Nat, NEW v \in Nat, Bears(by, n, v)'
             PROVE  Bears(by, n, v)
  OBVIOUS
<1>1. CASE \E x \in store'.spans : x.by = by /\ x.n = n /\ x.number = v
  BY <1>1 DEF Bears
<1>2. CASE \E r \in requests' : r.op = "span" /\ r.by = by /\ r.n = n /\ r.number = v
  BY <1>2 DEF Bears
<1>3. CASE Live(by)' /\ call'[by].op = "span" /\ call'[by].n = n /\ call'[by].number = v
  BY <1>3 DEF Bears
<1> QED BY <1>1, <1>2, <1>3 DEF Bears

LEMMA CallKeeps ==
  ASSUME IInv, NEW c \in Callers, NEW kind \in Kinds, Call(c, kind)
  PROVE  IInv'
<1> DEFINE new == [kind |-> kind, op |-> First(kind), n |-> call[c].n + 1, try |-> 0,
                   pc |-> "waiting", number |-> 0, value |-> <<>>]
           request == [by |-> c, n |-> new.n, op |-> new.op, try |-> new.try, number |-> new.number]
<1> USE DEF IInv
<1>1. /\ c \in Remote /\ call' = [call EXCEPT ![c] = new] /\ requests' = requests \cup {request}
      /\ store' = store /\ answers' = answers
  BY DEF Call, Sent
<1>2. call[c] \in CallRecords /\ call[c].n \in Nat
  BY DEF TypeOK, CallRecords
<1>3. First(kind) \in Ops /\ First(kind) # "span" /\ <<>> \in Values
  BY DEF First, Ops, Kinds, Values
<1>4. new \in CallRecords /\ request \in Requests
  BY <1>2, <1>3 DEF CallRecords, Requests
<1>5. /\ new.kind = kind /\ new.op = First(kind) /\ new.n = call[c].n + 1 /\ new.pc = "waiting"
      /\ new.number = 0 /\ new.try = 0
      /\ request.by = c /\ request.n = call[c].n + 1 /\ request.op = First(kind) /\ request.try = 0
      /\ request.number = 0
  OBVIOUS
<1> HIDE DEF new, request
<1>6. call'[c] = new
  BY <1>1 DEF TypeOK
<1>7. CallInOrder(c)' /\ Follows(c)
  BY <1>1, <1>2, <1>5, <1>6 DEF CallInOrder, Follows, Live
<1>8. call' \in [Callers -> CallRecords] /\ CallsInOrder' /\ CallsFollow
  BY <1>1, <1>4, <1>7, OneFollows
<1>9. TypeOK'
  BY <1>1, <1>4, <1>8 DEF TypeOK
<1>10. ASSUME NEW q \in Requests, q = request PROVE RequestKnown(q)'
  <2>1. PICK name : name = <<c, call[c].n + 1, 0>>
    OBVIOUS
  <2>2. name \in Names /\ name[1] = c /\ name[2] = call[c].n + 1 /\ name[3] = 0
    BY <1>2, <2>1 DEF Names
  <2>3. ~NameKnown(name)
    BY <1>2, <2>2 DEF NameKnown
  <2>4. ~InQueue(name) /\ ~Gone(name)
    BY <2>2, <2>3 DEF ClaimsInOrder
  <2>5. ~InQueue(name)' /\ ~Gone(name)'
    BY <1>1, <2>4 DEF InQueue, Gone
  <2>6. q.op = "enqueue" => NameKnown(name)'
    BY <1>2, <1>5, <1>6, <1>10, <2>2 DEF NameKnown
  <2>7. \A x \in store'.claims : ~(x.by = c /\ x.n = call[c].n + 1)
    BY <1>1, <1>2 DEF ClaimsInOrder, TypeOK, Stores, Claims
  <2>8. /\ q.by = c /\ q.n = call[c].n + 1 /\ q.try = 0 /\ q.number = 0
        /\ <<q.by, q.n, q.try>> = name
    BY <1>5, <1>10, <2>1
  <2>9. q.n <= call'[q.by].n
    BY <1>2, <1>5, <1>6, <2>8
  <2> QED BY <2>5, <2>6, <2>7, <2>8, <2>9 DEF RequestKnown
<1>11. ClaimsInOrder' /\ ClaimsAreSingle'
  <2>1. \A q \in requests' : q \in requests \/ RequestKnown(q)'
    BY <1>1, <1>4, <1>10
  <2>2. requests' \in SUBSET Requests /\ store'.queue = store.queue /\ store'.claims = store.claims
    BY <1>1, <1>9 DEF TypeOK
  <2> QED BY <1>8, <2>1, <2>2, ClaimsStay
<1>12. \A by \in Callers, n, v \in Nat : Bears(by, n, v)' => Bears(by, n, v)
  <2>1. \A r \in requests' : r.op = "span" => r \in requests
    BY <1>1, <1>3, <1>5
  <2>2. \A b \in Callers : Live(b)' /\ call'[b].op = "span" =>
           Live(b) /\ call[b].op = "span" /\ call'[b].n = call[b].n /\ call'[b].number = call[b].number
    BY <1>1, <1>3, <1>5, <1>6 DEF Live, TypeOK
  <2> QED BY <1>1, <1>8, <2>1, <2>2, BearsOn
<1>13. NumbersInOrder'
  <2>1. store'.counter >= store.counter /\ \A m \in answers' : m.op = "number" => m \in answers
    BY <1>1 DEF TypeOK, Stores
  <2>2. NumbersInOrder
    BY DEF NumbersInOrder
  <2> QED BY <1>8, <1>9, <1>12, <2>1, <2>2, NumbersStay
<1> QED BY <1>8, <1>9, <1>11, <1>13 DEF NumbersInOrder

\* A step that sends nothing, answers nothing and leaves the store alone.
LEMMA Quiet ==
  ASSUME IInv, call' \in [Callers -> CallRecords], CallsInOrder', CallsFollow, store' = store,
         requests' \in SUBSET requests, answers' \in SUBSET answers,
         \A b \in Callers : Live(b)' /\ call'[b].op = "span" =>
           Live(b) /\ call[b].op = "span" /\ call'[b].n = call[b].n /\ call'[b].number = call[b].number
  PROVE  IInv'
<1> USE DEF IInv
<1>1. TypeOK'
  BY DEF TypeOK
<1>2. ClaimsInOrder' /\ ClaimsAreSingle'
  <2>1. requests' \in SUBSET Requests /\ \A q \in requests' : q \in requests
    BY DEF TypeOK
  <2> QED BY <2>1, ClaimsStay
<1>3. \A by \in Callers, n, v \in Nat : Bears(by, n, v)' => Bears(by, n, v)
  <2>1. \A r \in requests' : r.op = "span" => r \in requests
    OBVIOUS
  <2> QED BY <2>1, BearsOn
<1>4. NumbersInOrder'
  <2>1. store'.counter >= store.counter /\ \A m \in answers' : m.op = "number" => m \in answers
    BY DEF TypeOK, Stores
  <2>2. NumbersInOrder
    BY DEF NumbersInOrder
  <2> QED BY <1>1, <1>3, <2>1, <2>2, NumbersStay
<1> QED BY <1>1, <1>2, <1>4 DEF NumbersInOrder

\* One caller's record goes on with the same call, and nothing is sent.
LEMMA QuietCall ==
  ASSUME IInv, NEW c \in Callers, Live(c), NEW rec \in CallRecords,
         call' = [call EXCEPT ![c] = rec], store' = store,
         requests' \in SUBSET requests, answers' \in SUBSET answers,
         rec.kind = call[c].kind, rec.op = call[c].op, rec.n = call[c].n, rec.try = call[c].try,
         \/ rec.pc \in {"returned", "raised"} /\ rec.number = 0
         \/ rec.pc = "probing" /\ rec.number = call[c].number /\ rec.kind # "dequeue"
  PROVE  IInv'
<1> USE DEF IInv
<1>1. call' \in [Callers -> CallRecords] /\ call'[c] = rec /\ \A b \in Callers : b # c => call'[b] = call[b]
  BY DEF TypeOK
<1>2. call[c].n \in Nat /\ call[c].try \in Nat /\ CallInOrder(c)
  BY DEF TypeOK, CallRecords, CallsInOrder
<1>3. CallInOrder(c)'
  BY <1>1, <1>2 DEF CallInOrder, Live
<1>4. Follows(c)
  BY <1>1, <1>2 DEF Follows, Live
<1>5. CallsInOrder' /\ CallsFollow
  BY <1>3, <1>4, OneFollows
<1>6. \A b \in Callers : Live(b)' /\ call'[b].op = "span" =>
           Live(b) /\ call[b].op = "span" /\ call'[b].n = call[b].n /\ call'[b].number = call[b].number
  BY <1>1 DEF Live
<1> QED BY <1>1, <1>5, <1>6, Quiet

\* A call record with another state, try or number is one still.
Turned(old, pc, try, number) == [old EXCEPT !.pc = pc, !.try = try, !.number = number]

IsTurned(old, pc, try, number, new) ==
  /\ new.pc = pc /\ new.try = try /\ new.number = number
  /\ new.kind = old.kind /\ new.op = old.op /\ new.n = old.n /\ new.value = old.value

LEMMA Rewritten ==
  ASSUME NEW old \in CallRecords, NEW pc \in {"idle", "waiting", "probing", "returned", "raised"},
         NEW try \in Nat, NEW number \in Nat
  PROVE  /\ Turned(old, pc, try, number) \in CallRecords
         /\ IsTurned(old, pc, try, number, Turned(old, pc, try, number))
<1>1. PICK a \in CallRecords : a = [old EXCEPT !.pc = pc]
  BY DEF CallRecords
<1>2. PICK b \in CallRecords : b = [a EXCEPT !.try = try]
  BY DEF CallRecords
<1>3. PICK d \in CallRecords : d = [b EXCEPT !.number = number]
  BY DEF CallRecords
<1>4. Turned(old, pc, try, number) = d
  BY <1>1, <1>2, <1>3 DEF Turned
<1>5. IsTurned(old, pc, old.try, old.number, a)
  BY <1>1 DEF CallRecords, IsTurned
<1>6. IsTurned(a, a.pc, try, a.number, b)
  BY <1>2 DEF CallRecords, IsTurned
<1>7. IsTurned(b, b.pc, b.try, number, d)
  BY <1>3 DEF CallRecords, IsTurned
<1> QED BY <1>3, <1>4, <1>5, <1>6, <1>7 DEF IsTurned

LEMMA Endings ==
  ASSUME IInv, NEW c \in Callers, Live(c)
  PROVE  /\ Ended(c) \in CallRecords /\ Broken(c) \in CallRecords
         /\ Ended(c).kind = call[c].kind /\ Ended(c).op = call[c].op /\ Ended(c).n = call[c].n
         /\ Ended(c).try = call[c].try /\ Ended(c).pc \in {"returned", "raised"} /\ Ended(c).number = 0
         /\ \/ Broken(c) = Ended(c)
            \/ Broken(c) = [call[c] EXCEPT !.pc = "probing"] /\ call[c].kind # "dequeue"
<1>1. PICK old \in CallRecords : old = call[c]
  BY DEF IInv, TypeOK
<1>2. PICK pc \in {"returned", "raised"} : Ended(c) = [old EXCEPT !.pc = pc, !.number = 0]
  BY <1>1 DEF Ended
<1>3. /\ Ended(c) \in CallRecords /\ Ended(c).kind = old.kind /\ Ended(c).op = old.op
      /\ Ended(c).n = old.n /\ Ended(c).try = old.try /\ Ended(c).pc = pc /\ Ended(c).number = 0
  <2>1. Ended(c) = Turned(old, pc, old.try, 0) /\ old.try \in Nat
    BY <1>2 DEF Turned, CallRecords
  <2>2. pc \in {"idle", "waiting", "probing", "returned", "raised"} /\ 0 \in Nat
    OBVIOUS
  <2>3. Ended(c) \in CallRecords /\ IsTurned(old, pc, old.try, 0, Ended(c))
    BY <2>1, <2>2, Rewritten
  <2> QED BY <2>3 DEF IsTurned
<1>4. [old EXCEPT !.pc = "probing"] \in CallRecords
  BY DEF CallRecords
<1>5. \/ Broken(c) = Ended(c)
      \/ Broken(c) = [old EXCEPT !.pc = "probing"] /\ old.kind # "dequeue"
  BY <1>1 DEF Broken, NeverRetried
<1> QED BY <1>1, <1>2, <1>3, <1>4, <1>5

LEMMA BrokenKeeps ==
  ASSUME IInv, NEW c \in Callers, Live(c), call' = [call EXCEPT ![c] = Broken(c)],
         store' = store, requests' = requests, answers' \in SUBSET answers
  PROVE  IInv'
<1>1. PICK rec : rec = Broken(c)
  OBVIOUS
<1>2. call[c] \in CallRecords
  BY DEF IInv, TypeOK
<1>3. CASE rec = Ended(c)
  <2>1. /\ rec \in CallRecords
        /\ rec.kind = call[c].kind /\ rec.op = call[c].op /\ rec.n = call[c].n /\ rec.try = call[c].try
        /\ rec.pc \in {"returned", "raised"} /\ rec.number = 0
    BY <1>3, Endings
  <2> QED BY <1>1, <2>1, QuietCall
<1>4. CASE rec = [call[c] EXCEPT !.pc = "probing"] /\ call[c].kind # "dequeue"
  <2>1. /\ rec \in CallRecords
        /\ rec.kind = call[c].kind /\ rec.op = call[c].op /\ rec.n = call[c].n /\ rec.try = call[c].try
        /\ rec.pc = "probing" /\ rec.number = call[c].number /\ rec.kind # "dequeue"
    BY <1>2, <1>4 DEF CallRecords
  <2> QED BY <1>1, <2>1, QuietCall
<1> QED BY <1>1, <1>3, <1>4, Endings

LEMMA EndedKeeps ==
  ASSUME IInv, NEW c \in Callers, Live(c), call' = [call EXCEPT ![c] = Ended(c)],
         store' = store, requests' \in SUBSET requests, answers' \in SUBSET answers
  PROVE  IInv'
<1>1. PICK rec : rec = Ended(c)
  OBVIOUS
<1>2. /\ rec \in CallRecords
      /\ rec.kind = call[c].kind /\ rec.op = call[c].op /\ rec.n = call[c].n /\ rec.try = call[c].try
      /\ rec.pc \in {"returned", "raised"} /\ rec.number = 0
  BY <1>1, Endings
<1> QED BY <1>1, <1>2, QuietCall

LEMMA HealthyKeeps ==
  ASSUME IInv, NEW c \in Callers, Healthy(c)
  PROVE  IInv'
<1> DEFINE again == Resent(c)
           request == [by |-> c, n |-> again.n, op |-> again.op, try |-> again.try, number |-> again.number]
<1>1. /\ call[c].pc = "probing" /\ store' = store /\ answers' = answers /\ Live(c)
  BY DEF Healthy, Live
<1>2. CASE call' = [call EXCEPT ![c] = Ended(c)] /\ requests' = requests
  BY <1>1, <1>2, EndedKeeps
<1>3. CASE call' = [call EXCEPT ![c] = again] /\ requests' = requests \cup {request}
  <2> USE DEF IInv
  <2>1. call[c] \in CallRecords /\ call[c].n \in Nat /\ call[c].try \in Nat /\ call[c].number \in Nat
        /\ call[c].op \in Ops
    BY DEF TypeOK, CallRecords
  <2>2. again \in CallRecords /\ request \in Requests
    <3>1. PICK old \in CallRecords : old = call[c]
      BY <2>1
    <3>2. again = [old EXCEPT !.pc = "waiting", !.try = old.try + 1]
      BY <3>1 DEF Resent
    <3> HIDE DEF again
    <3>3. again \in CallRecords
      <4>1. old.try + 1 \in Nat /\ old.number \in Nat
        BY DEF CallRecords
      <4>2. again = Turned(old, "waiting", old.try + 1, old.number)
        BY <3>2 DEF Turned, CallRecords
      <4> QED BY <4>1, <4>2, Rewritten
    <3>4. again.n \in Nat /\ again.op \in Ops /\ again.try \in Nat /\ again.number \in Nat
      BY <3>3 DEF CallRecords
    <3> QED BY <3>3, <3>4 DEF Requests
  <2>3. /\ again.kind = call[c].kind /\ again.op = call[c].op /\ again.n = call[c].n
        /\ again.pc = "waiting" /\ again.number = call[c].number /\ again.try = call[c].try + 1
        /\ request.by = c /\ request.n = call[c].n /\ request.op = call[c].op
        /\ request.try = call[c].try + 1 /\ request.number = call[c].number
    BY <2>1 DEF CallRecords, Resent
  <2> HIDE DEF again, request
  <2>4. call'[c] = again /\ \A b \in Callers : b # c => call'[b] = call[b]
    BY <1>3 DEF TypeOK
  <2>5. CallInOrder(c) /\ c \in Remote /\ call[c].kind # "dequeue" /\ call[c].op # "dequeue"
    <3>1. CallInOrder(c)
      BY DEF CallsInOrder
    <3> QED BY <1>1, <3>1 DEF CallInOrder, First
  <2>6. CallInOrder(c)' /\ Follows(c)
    BY <1>1, <2>1, <2>3, <2>4, <2>5 DEF CallInOrder, Follows, Live
  <2>7. call' \in [Callers -> CallRecords] /\ CallsInOrder' /\ CallsFollow
    BY <1>3, <2>2, <2>6, OneFollows
  <2>8. TypeOK'
    BY <1>1, <1>3, <2>2, <2>7 DEF TypeOK
  <2>9. ASSUME NEW q \in Requests, q = request PROVE RequestKnown(q)'
    <3>1. PICK name : name = <<c, call[c].n, call[c].try + 1>>
      OBVIOUS
    <3>2. name \in Names /\ name[1] = c /\ name[2] = call[c].n /\ name[3] = call[c].try + 1
      BY <2>1, <3>1 DEF Names
    <3>3. ~NameKnown(name)
      BY <2>1, <3>2 DEF NameKnown
    <3>4. ~InQueue(name) /\ ~Gone(name)
      BY <3>2, <3>3 DEF ClaimsInOrder
    <3>5. ~InQueue(name)' /\ ~Gone(name)'
      BY <1>1, <3>4 DEF InQueue, Gone
    <3>6. q.op = "enqueue" => NameKnown(name)' /\ q.number = 0
      BY <2>1, <2>3, <2>4, <2>5, <2>9, <3>2 DEF NameKnown, CallInOrder
    <3>7. /\ q.by = c /\ q.n = call[c].n /\ q.op # "dequeue"
          /\ <<q.by, q.n, q.try>> = name
      BY <2>3, <2>5, <2>9, <3>1
    <3>8. q.n <= call'[q.by].n
      BY <2>1, <2>3, <2>4, <3>7
    <3> QED BY <3>5, <3>6, <3>7, <3>8 DEF RequestKnown
  <2>10. ClaimsInOrder' /\ ClaimsAreSingle'
    <3>1. \A q \in requests' : q \in requests \/ RequestKnown(q)'
      BY <1>3, <2>2, <2>9
    <3>2. requests' \in SUBSET Requests /\ store'.queue = store.queue /\ store'.claims = store.claims
      BY <1>1, <2>8 DEF TypeOK
    <3> QED BY <2>7, <3>1, <3>2, ClaimsStay
  <2>11. \A by \in Callers, n, v \in Nat : Bears(by, n, v)' => Bears(by, n, v)
    BY <1>1, <1>3, <2>3, <2>4 DEF Bears, Live
  <2>12. NumbersInOrder'
    <3>1. store'.counter >= store.counter /\ \A m \in answers' : m.op = "number" => m \in answers
      BY <1>1 DEF TypeOK, Stores
    <3>2. NumbersInOrder
      BY DEF NumbersInOrder
    <3> QED BY <2>7, <2>8, <2>11, <3>1, <3>2, NumbersStay
  <2> QED BY <2>7, <2>8, <2>10, <2>12 DEF NumbersInOrder
<1> QED BY <1>2, <1>3 DEF Healthy, Sent

LEMMA AnsweredKeeps ==
  ASSUME IInv, NEW c \in Callers, NEW m \in answers, Answered(c, m)
  PROVE  IInv'
<1> DEFINE next == [call[c] EXCEPT !.op = "span", !.try = 0, !.number = m.value[1]]
           request == [by |-> c, n |-> next.n, op |-> next.op, try |-> next.try, number |-> next.number]
<1> USE DEF IInv
<1>1. /\ Waiting(c) /\ Live(c) /\ Mine(c, m) /\ answers' = answers \ {m} /\ store' = store
  BY DEF Answered, Waiting, Live
<1>2. PICK old \in CallRecords : old = call[c]
  BY DEF TypeOK
<1>3. m \in Replies /\ m.status \in Nat /\ m.value \in Values
  BY DEF TypeOK, Replies
<1>4. CASE m.status < 400 /\ m.op = "number"
  <2> DEFINE w == m.value[1]
  <2>1. call' = [call EXCEPT ![c] = next] /\ requests' = requests \cup {request}
    BY <1>4 DEF Answered, Sent
  <2>2. Fresh(m) /\ m.by = c /\ m.n = call[c].n /\ call[c].op = "number"
    BY <1>1, <1>4 DEF AnswersFresh, Mine
  <2>3. w \in Nat /\ w <= store.counter
    BY <2>2 DEF Fresh
  <2> HIDE DEF w
  <2>4. next \in CallRecords /\ next.kind = old.kind /\ next.op = "span" /\ next.n = old.n
        /\ next.try = 0 /\ next.number = w /\ next.pc = old.pc
    <3>1. PICK a \in CallRecords : a = [old EXCEPT !.op = "span"]
      BY DEF CallRecords, Ops
    <3>2. a.op = "span" /\ a.kind = old.kind /\ a.n = old.n /\ a.pc = old.pc
          /\ a.try \in Nat /\ a.number \in Nat /\ a.pc \in {"idle", "waiting", "probing", "returned", "raised"}
      BY <3>1 DEF CallRecords
    <3>3. next = Turned(a, a.pc, 0, w)
      BY <1>2, <3>1, <3>2 DEF Turned, CallRecords, w
    <3>4. Turned(a, a.pc, 0, w) \in CallRecords /\ IsTurned(a, a.pc, 0, w, Turned(a, a.pc, 0, w))
      BY <2>3, <3>2, Rewritten
    <3> HIDE DEF next
    <3> QED BY <3>2, <3>3, <3>4 DEF IsTurned
  <2>5. /\ request.by = c /\ request.n = call[c].n /\ request.op = "span" /\ request.number = w
        /\ request \in Requests /\ old.n \in Nat
    <3> HIDE DEF next
    <3> QED BY <1>2, <2>3, <2>4 DEF Requests, CallRecords, Ops
  <2> HIDE DEF next, request
  <2>6. call'[c] = next /\ \A b \in Callers : b # c => call'[b] = call[b]
    BY <2>1 DEF TypeOK
  <2>7. CallInOrder(c)' /\ Follows(c)
    <3>1. CallInOrder(c)
      BY DEF CallsInOrder
    <3>2. old.kind = "otel" /\ c \in Remote
      BY <1>1, <1>2, <2>2, <3>1 DEF CallInOrder, First, CallRecords, Kinds
    <3>3. Live(c)' <=> Live(c)
      BY <1>2, <2>4, <2>6 DEF Live
    <3> QED BY <1>1, <1>2, <2>2, <2>4, <2>5, <2>6, <3>2, <3>3 DEF CallInOrder, Follows
  <2>8. call' \in [Callers -> CallRecords] /\ CallsInOrder' /\ CallsFollow
    BY <2>1, <2>4, <2>7, OneFollows
  <2>9. TypeOK'
    BY <1>1, <2>1, <2>5, <2>8 DEF TypeOK
  <2>10. ClaimsInOrder' /\ ClaimsAreSingle'
    <3>1. ASSUME NEW q \in Requests, q = request PROVE RequestKnown(q)'
      BY <1>2, <2>4, <2>5, <2>6, <3>1 DEF RequestKnown
    <3>2. \A q \in requests' : q \in requests \/ RequestKnown(q)'
      BY <2>1, <2>5, <3>1
    <3>3. requests' \in SUBSET Requests /\ store'.queue = store.queue /\ store'.claims = store.claims
      BY <1>1, <2>9 DEF TypeOK
    <3> QED BY <2>8, <3>2, <3>3, ClaimsStay
  <2>11. NumbersInOrder'
    <3> DEFINE k == old.n
    <3>1. /\ k \in Nat /\ k >= call[c].n /\ k = call'[c].n /\ w <= store'.counter
          /\ call'[c].op = "span" /\ store'.counter >= store.counter
      BY <1>1, <1>2, <2>3, <2>4, <2>5, <2>6 DEF TypeOK, Stores
    <3>2. ASSUME NEW by \in Callers, NEW n \in Nat, NEW v \in Nat, Bears(by, n, v)'
          PROVE  Bears(by, n, v) \/ (by = c /\ n = k /\ v = w)
      BY <1>1, <1>2, <2>1, <2>4, <2>5, <2>6, <3>2 DEF Bears, Live
    <3>3. ASSUME NEW by \in Callers, NEW n \in Nat, NEW v \in Nat, Bears(by, n, v)
          PROVE  v # w /\ (by = c => n < k /\ v < w)
      <4>1. v # w /\ (by = c /\ n < k => v < w)
        BY <1>2, <2>2, <3>3 DEF Fresh, w
      <4>2. n <= call[by].n /\ (n = call[by].n /\ Live(by) => call[by].op = "span")
        BY <3>3 DEF BearersKnown
      <4>3. by = c => n < k
        BY <1>1, <1>2, <2>2, <3>1, <4>2
      <4> QED BY <4>1, <4>3
    <3>4. \A m2 \in answers' : m2.op = "number" => m2 \in answers /\ m2.value[1] # w
      BY <1>1, <1>4 DEF AnswersFresh, w
    <3>5. NumbersInOrder
      BY DEF NumbersInOrder
    <3> HIDE DEF k
    <3>6. TypeOK /\ TypeOK' /\ CallsFollow /\ w \in Nat /\ k \in Nat
      BY <2>3, <2>8, <2>9, <3>1
    <3>7. Borne(c, k, w)
      BY <3>1, <3>2, <3>3, <3>4 DEF Borne
    <3> QED BY <3>5, <3>6, <3>7, NumberBorne, Zenon
  <2> QED BY <2>8, <2>9, <2>10, <2>11 DEF NumbersInOrder
<1>5. CASE m.status < 400 /\ m.op # "number"
  <2> DEFINE rec == [old EXCEPT !.pc = "returned", !.value = m.value, !.number = 0]
  <2>1. call' = [call EXCEPT ![c] = rec] /\ requests' = requests
    <3>1. m.status < 400 /\ ~(m.status \in 400..499) /\ ~(m.status >= 500) /\ ~(m.status < 400 /\ m.op = "number")
      BY <1>3, <1>5
    <3> HIDE DEF next, request
    <3>2. requests' = requests /\ call' = [call EXCEPT ![c] =
            [call[c] EXCEPT !.pc = "returned", !.value = m.value, !.number = 0]]
      BY <3>1 DEF Answered
    <3> QED BY <1>2, <3>2
  <2>2. /\ rec \in CallRecords
        /\ rec.kind = old.kind /\ rec.op = old.op /\ rec.n = old.n /\ rec.try = old.try
        /\ rec.pc = "returned" /\ rec.number = 0
    <3>1. PICK a \in CallRecords : a = [old EXCEPT !.value = m.value]
      BY <1>3 DEF CallRecords
    <3>2. a.op = old.op /\ a.kind = old.kind /\ a.n = old.n /\ a.try = old.try /\ a.try \in Nat
      BY <3>1 DEF CallRecords
    <3>3. rec = Turned(a, "returned", a.try, 0)
      BY <3>1, <3>2 DEF Turned, CallRecords
    <3>4. rec \in CallRecords /\ IsTurned(a, "returned", a.try, 0, rec)
      BY <3>2, <3>3, Rewritten
    <3> HIDE DEF rec
    <3> QED BY <3>2, <3>4 DEF IsTurned
  <2> HIDE DEF rec
  <2> QED BY <1>1, <1>2, <2>1, <2>2, QuietCall
<1>6. CASE m.status >= 400
  <2>1. requests' = requests /\ (call' = [call EXCEPT ![c] = Ended(c)] \/ call' = [call EXCEPT ![c] = Broken(c)])
    <3>1. m.status \in 400..499 \/ m.status >= 500
      BY <1>3, <1>6
    <3>2. ~(m.status < 400) /\ (m.status >= 500 => m.status \notin 400..499)
      BY <1>3, <1>6
    <3> QED BY <3>1, <3>2 DEF Answered
  <2>2. answers' \in SUBSET answers /\ requests' \in SUBSET requests
    BY <1>1, <2>1
  <2> QED BY <1>1, <2>1, <2>2, EndedKeeps, BrokenKeeps
<1> QED BY <1>3, <1>4, <1>5, <1>6

LEMMA HandleKeeps ==
  ASSUME IInv, NEW r \in requests, Handle(r)
  PROVE  IInv'
<1> USE DEF IInv
<1>1. PICK d : d = Serve(store, r)
  OBVIOUS
<1>2. PICK a : a = [by |-> r.by, n |-> r.n, op |-> r.op, try |-> r.try,
                    status |-> d.status, value |-> d.value]
  OBVIOUS
<1>3. /\ store' = d.store /\ requests' = requests \ {r} /\ answers' = answers \cup {a}
      /\ call' = call
  BY <1>1, <1>2 DEF Handle
<1>4. store \in Stores /\ r \in Requests /\ r.by \in Callers /\ r.n \in Nat /\ RequestKnown(r)
  BY DEF TypeOK, Requests, ClaimsInOrder
<1>5. Effect(store, r, d)
  BY <1>1, <1>4, Serves
<1>6. /\ a \in Replies /\ a.by = r.by /\ a.n = r.n /\ a.op = r.op
      /\ a.status = d.status /\ a.value = d.value
  BY <1>2, <1>4, <1>5 DEF Effect, Replies, Requests
<1>7. call' \in [Callers -> CallRecords] /\ CallsInOrder' /\ CallsFollow
  BY <1>3, NoneFollows
<1>8. TypeOK'
  BY <1>3, <1>5, <1>6, <1>7 DEF TypeOK, Effect
<1>9. ClaimsInOrder' /\ ClaimsAreSingle'
  <2>1. store'.queue = d.store.queue /\ store'.claims = d.store.claims
        /\ requests' \in SUBSET requests /\ r \notin requests'
    BY <1>3
  <2>2. PICK name : name = <<r.by, r.n, r.try>>
    OBVIOUS
  <2>3. NameKnown(name) => NameKnown(name)'
    BY <1>3 DEF NameKnown
  <2>4. /\ r.n <= call'[r.by].n
        /\ r.op = "enqueue" =>
             /\ r.number = 0 /\ NameKnown(<<r.by, r.n, r.try>>)'
             /\ ~InQueue(<<r.by, r.n, r.try>>) /\ ~Gone(<<r.by, r.n, r.try>>)
        /\ r.op = "dequeue" =>
             /\ r.number = 0 /\ r.try = 0
             /\ \A x \in store.claims : ~(x.by = r.by /\ x.n = r.n)
    BY <1>3, <1>4, <2>2, <2>3 DEF RequestKnown
  <2> QED BY <1>4, <1>5, <1>7, <2>1, <2>4, ClaimsServed
<1>10. \A by \in Callers, n, v \in Nat : Bears(by, n, v)' => Bears(by, n, v)
  <2> SUFFICES ASSUME NEW by \in Callers, NEW n \in Nat, NEW v \in Nat, Bears(by, n, v)'
               PROVE  Bears(by, n, v)
    OBVIOUS
  <2>1. CASE \E x \in store'.spans : x.by = by /\ x.n = n /\ x.number = v
    <3>1. PICK x \in store'.spans : x.by = by /\ x.n = n /\ x.number = v
      BY <2>1
    <3>2. CASE x \in store.spans
      BY <3>1, <3>2 DEF Bears
    <3>3. CASE x \notin store.spans
      <4>1. r.op = "span" /\ x = [by |-> r.by, n |-> r.n, number |-> r.number]
        BY <1>3, <1>5, <3>1, <3>3 DEF Effect
      <4>2. r.by = by /\ r.n = n /\ r.number = v
        BY <3>1, <4>1
      <4> QED BY <4>1, <4>2 DEF Bears
    <3> QED BY <3>2, <3>3
  <2>2. CASE \E q \in requests' : q.op = "span" /\ q.by = by /\ q.n = n /\ q.number = v
    BY <1>3, <2>2 DEF Bears
  <2>3. CASE Live(by)' /\ call'[by].op = "span" /\ call'[by].n = n /\ call'[by].number = v
    BY <1>3, <2>3 DEF Bears, Live
  <2> QED BY <2>1, <2>2, <2>3 DEF Bears
<1>11. NumbersInOrder
  BY DEF NumbersInOrder
<1>12. NumbersInOrder'
  <2>1. CASE r.op = "number"
    <3>1. store'.counter = store.counter + 1 /\ a.status = 200 /\ a.value = <<store.counter + 1>>
      BY <1>3, <1>5, <1>6, <2>1 DEF Effect
    <3>2. a.by \in Callers /\ a.n \in Nat /\ a.n <= call[a.by].n
      BY <1>4, <1>6 DEF RequestKnown
    <3> QED BY <1>3, <1>7, <1>8, <1>10, <1>11, <3>1, <3>2, NumberGiven
  <2>2. CASE r.op # "number"
    <3>1. store'.counter >= store.counter /\ \A m \in answers' : m.op = "number" => m \in answers
      BY <1>3, <1>4, <1>5, <1>6, <2>2 DEF Effect, Stores
    <3> QED BY <1>7, <1>8, <1>10, <1>11, <3>1, NumbersStay
  <2> QED BY <2>1, <2>2
<1> QED BY <1>7, <1>8, <1>9, <1>12 DEF NumbersInOrder

LEMMA DirectKeeps ==
  ASSUME IInv, NEW c \in Callers, NEW kind \in Kinds, Direct(c, kind)
  PROVE  IInv'
<1> USE DEF IInv
<1>1. PICK k : k = call[c].n + 1
  OBVIOUS
<1>2. PICK r : r = [by |-> c, n |-> k, op |-> First(kind), try |-> 0, number |-> 0]
  OBVIOUS
<1>3. PICK one : one = Serve(store, r)
  OBVIOUS
<1>4. PICK r2 : r2 = [by |-> c, n |-> k, op |-> "span", try |-> 0, number |-> one.value[1]]
  OBVIOUS
<1>5. PICK two : two = Serve(one.store, r2)
  OBVIOUS
<1>6. PICK done : done = IF kind = "otel" THEN two ELSE one
  OBVIOUS
<1>7. PICK pc \in {"returned", "raised"} : pc = IF done.status < 400 THEN "returned" ELSE "raised"
  OBVIOUS
<1>8. PICK rec : rec = [kind |-> kind, op |-> First(kind), n |-> k, try |-> 0, number |-> 0,
                        pc |-> pc, value |-> done.value]
  OBVIOUS
<1>9. /\ store' = done.store /\ call' = [call EXCEPT ![c] = rec]
      /\ requests' = requests /\ answers' = answers /\ c \notin Remote
  BY <1>1, <1>2, <1>3, <1>4, <1>5, <1>6, <1>7, <1>8, HttpAssumption DEF Direct
<1>10. First(kind) \in Ops /\ First(kind) # "span" /\ (First(kind) = "number" <=> kind = "otel")
  BY DEF First, Ops, Kinds
<1>11. /\ call[c] \in CallRecords /\ call[c].n \in Nat /\ k \in Nat /\ k > call[c].n
       /\ store \in Stores /\ store.counter \in Nat
  BY <1>1 DEF TypeOK, CallRecords, Stores
<1>12. r \in Requests /\ r.by = c /\ r.n = k /\ r.op = First(kind) /\ r.try = 0 /\ r.number = 0
  BY <1>2, <1>10, <1>11 DEF Requests
<1>13. Effect(store, r, one)
  BY <1>3, <1>11, <1>12, Serves
<1>14. ASSUME kind = "otel"
       PROVE  /\ one.store \in Stores /\ one.value[1] = store.counter + 1 /\ one.store.counter = store.counter + 1
              /\ one.store.spans = store.spans
              /\ r2.op = "span" /\ r2.by = c /\ r2.n = k /\ r2.number = store.counter + 1
              /\ Effect(one.store, r2, two)
  <2>1. /\ one.store \in Stores /\ one.value = <<store.counter + 1>>
        /\ one.store.counter = store.counter + 1 /\ one.store.spans = store.spans
    BY <1>10, <1>12, <1>13, <1>14 DEF Effect
  <2>2. one.value[1] = store.counter + 1
    BY <2>1
  <2>3. r2 \in Requests
    BY <1>4, <1>11, <2>2 DEF Requests, Ops
  <2> QED BY <1>4, <1>5, <2>1, <2>2, <2>3, Serves
<1>15. /\ done.store \in Stores /\ done.value \in Values
       /\ kind # "otel" => done = one
       /\ kind = "otel" => done = two
  BY <1>6, <1>13, <1>14 DEF Effect
<1>16. /\ rec \in CallRecords /\ rec.kind = kind /\ rec.op = First(kind) /\ rec.n = k
       /\ rec.try = 0 /\ rec.number = 0 /\ rec.pc \in {"returned", "raised"}
  BY <1>7, <1>8, <1>10, <1>11, <1>15 DEF CallRecords
<1>17. call'[c] = rec /\ \A b \in Callers : b # c => call'[b] = call[b]
  BY <1>9 DEF TypeOK
<1>18. CallInOrder(c)' /\ Follows(c)
  BY <1>11, <1>16, <1>17 DEF CallInOrder, Follows, Live
<1>19. call' \in [Callers -> CallRecords] /\ CallsInOrder' /\ CallsFollow
  BY <1>9, <1>16, <1>18, OneFollows
<1>20. TypeOK'
  BY <1>9, <1>15, <1>19 DEF TypeOK
<1>21. ~Live(c)
  <2>1. CallInOrder(c)
    BY DEF CallsInOrder
  <2> QED BY <1>9, <2>1 DEF CallInOrder
<1>22. ClaimsInOrder' /\ ClaimsAreSingle'
  <2>1. CASE kind = "otel"
    <3>1. one.store.queue = store.queue /\ one.store.claims = store.claims
      BY <1>10, <1>12, <1>13, <2>1 DEF Effect
    <3>2. two.store.queue = one.store.queue /\ two.store.claims = one.store.claims
      BY <1>14, <2>1 DEF Effect
    <3>3. store'.queue = store.queue /\ store'.claims = store.claims
      BY <1>9, <1>15, <2>1, <3>1, <3>2
    <3>4. requests' \in SUBSET Requests /\ \A q \in requests' : q \in requests
      BY <1>9 DEF TypeOK
    <3> QED BY <1>19, <3>3, <3>4, ClaimsStay
  <2>2. CASE kind # "otel"
    <3>1. PICK name : name = <<c, k, 0>>
      OBVIOUS
    <3>2. name \in Names /\ name[1] = c /\ name[2] = k /\ name[3] = 0 /\ <<r.by, r.n, r.try>> = name
      BY <1>11, <1>12, <3>1 DEF Names
    <3>3. ~NameKnown(name)
      BY <1>11, <3>2 DEF NameKnown
    <3>4. ~InQueue(name) /\ ~Gone(name)
      BY <3>2, <3>3 DEF ClaimsInOrder
    <3>5. r.op = "enqueue" => NameKnown(name)'
      BY <1>11, <1>12, <1>16, <1>17, <3>2 DEF NameKnown
    <3>6. \A x \in store.claims : ~(x.by = r.by /\ x.n = r.n)
      BY <1>11, <1>12 DEF ClaimsInOrder, TypeOK, Stores, Claims
    <3>7. r \notin requests'
      <4>1. \A q \in requests : q.n <= call[q.by].n
        BY DEF ClaimsInOrder, RequestKnown
      <4> QED BY <1>9, <1>11, <1>12, <4>1
    <3>8. store'.queue = one.store.queue /\ store'.claims = one.store.claims
          /\ requests' \in SUBSET requests
      BY <1>9, <1>15, <2>2
    <3>9. /\ r.n <= call'[r.by].n
          /\ r.op = "enqueue" =>
               /\ r.number = 0 /\ NameKnown(<<r.by, r.n, r.try>>)'
               /\ ~InQueue(<<r.by, r.n, r.try>>) /\ ~Gone(<<r.by, r.n, r.try>>)
          /\ r.op = "dequeue" =>
               /\ r.number = 0 /\ r.try = 0
               /\ \A x \in store.claims : ~(x.by = r.by /\ x.n = r.n)
      BY <1>11, <1>12, <1>16, <1>17, <3>2, <3>4, <3>5, <3>6
    <3> QED BY <1>12, <1>13, <1>19, <3>7, <3>8, <3>9, ClaimsServed
  <2> QED BY <2>1, <2>2
<1>23. NumbersInOrder
  BY DEF NumbersInOrder
<1>24. NumbersInOrder'
  <2>1. CASE kind = "otel"
    <3>1. PICK w \in Nat : w = store.counter + 1
      BY <1>11
    <3>2. store'.counter = w /\ w > store.counter
      BY <1>9, <1>11, <1>14, <1>15, <2>1, <3>1 DEF Effect
    <3>3. \A x \in store'.spans : x \in store.spans \/ (x.by = c /\ x.n = k /\ x.number = w)
      <4>1. \/ store'.spans = store.spans
            \/ store'.spans = store.spans \cup {[by |-> c, n |-> k, number |-> w]}
        BY <1>9, <1>14, <1>15, <2>1, <3>1 DEF Effect
      <4> QED BY <4>1
    <3>4. ASSUME NEW by \in Callers, NEW n \in Nat, NEW v \in Nat, Bears(by, n, v)'
          PROVE  Bears(by, n, v) \/ (by = c /\ n = k /\ v = w)
      BY <1>9, <1>10, <1>16, <1>17, <3>3, <3>4 DEF Bears, Live
    <3>5. ASSUME NEW by \in Callers, NEW n \in Nat, NEW v \in Nat, Bears(by, n, v)
          PROVE  v # w /\ (by = c => n < k /\ v < w)
      <4>1. v <= store.counter /\ n <= call[by].n
        BY <3>5 DEF BearersKnown
      <4> QED BY <1>11, <3>2, <4>1
    <3>6. \A m \in answers' : m.op = "number" => m \in answers /\ m.value[1] # w
      BY <1>9, <1>11, <3>2 DEF AnswersFresh, Fresh
    <3>7. k >= call[c].n /\ k = call'[c].n /\ w <= store'.counter /\ store'.counter >= store.counter
          /\ ~Live(c)'
      BY <1>11, <1>16, <1>17, <3>2 DEF Live
    <3>8. k \in Nat /\ (Live(c)' => call'[c].op = "span")
      BY <1>11, <3>7
    <3>9. Borne(c, k, w)
      BY <3>4, <3>5, <3>6, <3>7, <3>8 DEF Borne
    <3> QED BY <1>19, <1>20, <1>23, <3>8, <3>9, NumberBorne, Zenon
  <2>2. CASE kind # "otel"
    <3>1. store'.spans = store.spans /\ store'.counter = store.counter
      BY <1>9, <1>10, <1>12, <1>13, <1>15, <2>2 DEF Effect
    <3>2. ASSUME NEW by \in Callers, NEW n \in Nat, NEW v \in Nat, Bears(by, n, v)'
          PROVE  Bears(by, n, v)
      BY <1>9, <1>16, <1>17, <3>1, <3>2 DEF Bears, Live
    <3>3. store'.counter >= store.counter /\ \A m \in answers' : m.op = "number" => m \in answers
      BY <1>9, <1>11, <3>1
    <3> QED BY <1>19, <1>20, <1>23, <3>2, <3>3, NumbersStay
  <2> QED BY <2>1, <2>2
<1> QED BY <1>19, <1>20, <1>22, <1>24 DEF NumbersInOrder

\* A step that leaves the store and the calls alone and may lose messages.
LEMMA LostKeeps ==
  ASSUME IInv, store' = store, call' = call, requests' \in SUBSET requests, answers' \in SUBSET answers
  PROVE  IInv'
<1>1. call' \in [Callers -> CallRecords] /\ CallsInOrder' /\ CallsFollow
  BY NoneFollows DEF IInv
<1>2. \A b \in Callers : Live(b)' /\ call'[b].op = "span" =>
        Live(b) /\ call[b].op = "span" /\ call'[b].n = call[b].n /\ call'[b].number = call[b].number
  BY DEF Live
<1> QED BY <1>1, <1>2, Quiet

-----------------------------------------------------------------------------
(* The theorems. *)

LEMMA Begins == Init => IInv
<1> SUFFICES ASSUME Init PROVE IInv
  OBVIOUS
<1>1. /\ store = [queue |-> <<>>, claims |-> {}, spans |-> {}, counter |-> 0]
      /\ requests = {} /\ answers = {}
      /\ call = [c \in Callers |-> [kind |-> "read", op |-> "read", n |-> 0, try |-> 0,
                                    pc |-> "idle", number |-> 0, value |-> <<>>]]
  BY DEF Init
<1>2. store \in Stores
  BY <1>1 DEF Stores
<1>3. call \in [Callers -> CallRecords]
  <2>1. <<>> \in Values
    BY DEF Values
  <2> QED BY <1>1, <2>1 DEF CallRecords, Kinds, Ops
<1>4. TypeOK
  BY <1>1, <1>2, <1>3 DEF TypeOK
<1>5. CallsInOrder
  BY <1>1 DEF CallsInOrder, CallInOrder, Live
<1>6. ClaimsInOrder
  BY <1>1 DEF ClaimsInOrder, InQueue, Gone
<1>7. ClaimsAreSingle
  BY <1>1 DEF ClaimsAreSingle
<1>8. \A by \in Callers, n, v \in Nat : ~Bears(by, n, v)
  BY <1>1 DEF Bears, Live
<1>9. BearersKnown /\ BearersInOrder /\ AnswersFresh
  BY <1>1, <1>8 DEF BearersKnown, BearersInOrder, AnswersFresh
<1> QED BY <1>4, <1>5, <1>6, <1>7, <1>9 DEF IInv

LEMMA Steps == IInv /\ [Next]_vars => IInv'
<1> SUFFICES ASSUME IInv, [Next]_vars PROVE IInv'
  OBVIOUS
<1>1. ASSUME NEW c \in Callers, NEW kind \in Kinds, Call(c, kind) PROVE IInv'
  BY <1>1, CallKeeps
<1>2. ASSUME NEW c \in Callers, NEW kind \in Kinds, Direct(c, kind) PROVE IInv'
  BY <1>2, DirectKeeps
<1>3. ASSUME NEW c \in Callers, NEW m \in answers, Answered(c, m) PROVE IInv'
  BY <1>3, AnsweredKeeps
<1>4. ASSUME NEW c \in Callers, Fails(c) PROVE IInv'
  <2>1. /\ Live(c) /\ call' = [call EXCEPT ![c] = Broken(c)]
        /\ store' = store /\ requests' = requests /\ answers' \in SUBSET answers
    BY <1>4 DEF Fails, Waiting, Live
  <2> QED BY <2>1, BrokenKeeps
<1>5. ASSUME NEW c \in Callers, Healthy(c) PROVE IInv'
  BY <1>5, HealthyKeeps
<1>6. ASSUME NEW c \in Callers, Unhealthy(c) PROVE IInv'
  <2>1. /\ Live(c) /\ call' = [call EXCEPT ![c] = Ended(c)]
        /\ store' = store /\ requests' \in SUBSET requests /\ answers' \in SUBSET answers
    BY <1>6 DEF Unhealthy, Live
  <2> QED BY <2>1, EndedKeeps
<1>7. ASSUME NEW r \in requests, Handle(r) PROVE IInv'
  BY <1>7, HandleKeeps
<1>8. ASSUME NEW m \in requests \cup answers, Lose(m) PROVE IInv'
  BY <1>8, LostKeeps DEF Lose
<1>9. CASE Outage \/ Restored \/ UNCHANGED vars
  BY <1>9, LostKeeps DEF Outage, Restored, vars
<1> QED BY <1>1, <1>2, <1>3, <1>4, <1>5, <1>6, <1>7, <1>8, <1>9 DEF Next, Goes

\* Requests, answers, calls and the store keep their types, and with them what
\* the protocol relies on: only other processes wait for answers, a dequeue is
\* never sent again, and only the second request of add_otel_span has a number.
THEOREM HttpTypes == Spec => [](TypeOK /\ CallsInOrder)
<1>1. IInv => TypeOK /\ CallsInOrder
  BY DEF IInv
<1> QED BY <1>1, Begins, Steps, PTL DEF Spec

\* However requests are lost, repeated or late, a dequeue call claims one
\* rollout at most, and a rollout is claimed by one call at most.
THEOREM ClaimsSingle == Spec => []ClaimsAreSingle
<1>1. IInv => ClaimsAreSingle
  BY DEF IInv
<1> QED BY <1>1, Begins, Steps, PTL DEF Spec

\* The numbers of stored spans are unique and follow the calls of each caller,
\* whatever gaps lost answers and retried calls leave.
THEOREM NumbersFollow == Spec => []NumbersFollowSpans
<1>1. IInv => NumbersFollowSpans
  <2> SUFFICES ASSUME IInv, NEW x \in store.spans, NEW y \in store.spans
               PROVE  /\ x.number = y.number => x = y
                      /\ x.by = y.by /\ x.n < y.n => x.number < y.number
    BY DEF NumbersFollowSpans
  <2>1. x \in Numbered /\ y \in Numbered
    BY DEF IInv, TypeOK, Stores
  <2>2. /\ x.by \in Callers /\ x.n \in Nat /\ x.number \in Nat
        /\ y.by \in Callers /\ y.n \in Nat /\ y.number \in Nat
        /\ x.by = y.by /\ x.n = y.n /\ x.number = y.number => x = y
    BY <2>1 DEF Numbered
  <2>3. Bears(x.by, x.n, x.number) /\ Bears(y.by, y.n, y.number)
    BY DEF Bears
  <2>4. InTheirOrder(x.by, x.n, x.number, y.by, y.n, y.number)
    BY <2>2, <2>3 DEF IInv, BearersInOrder
  <2> QED BY <2>2, <2>4 DEF InTheirOrder
<1> QED BY <1>1, Begins, Steps, PTL DEF Spec

-----------------------------------------------------------------------------
(* Spans in the store behind it: SpanStore, for any rollouts, spans, sizes  *)
(* and thresholds.                                                          *)

Sections == {"idle", "check", "insert", "single", "account"}
Adding == [pc : Sections, batch : Seq(Spans), number : Nat, done : Seq(Spans)]

SpanTypes ==
  /\ counter \in [Rollouts -> Nat] /\ top \in [Rollouts -> Nat]
  /\ stored \in SUBSET Spans /\ confirmed \in SUBSET Spans
  /\ bytes \in [Rollouts -> Nat] /\ evicted \in SUBSET Rollouts
  /\ calls \in [Adders -> Adding]

\* A call is about one rollout, and past the check the store knows it.
AddsToOne(c) ==
  c.pc # "idle" =>
    /\ Len(c.batch) \in 1..2
    /\ \A i \in DOMAIN c.batch : Home[c.batch[i]] = Home[c.batch[1]]
    /\ \A i \in DOMAIN c.done : Home[c.done[i]] = Home[c.batch[1]]
    /\ c.pc \in {"check", "insert"} => c.done = <<>>
    /\ c.pc = "single" => Len(c.done) + Len(c.batch) <= 2
    /\ c.pc = "account" => c.done # <<>> /\ Len(c.done) <= 2
    /\ c.pc # "check" => Home[c.batch[1]] # Unknown

\* The counter has caught up with the numbers of a call.
CaughtUp(c) == c.pc # "idle" /\ Home[c.batch[1]] # Unknown => counter[Home[c.batch[1]]] >= c.number

\* A span that was confirmed is there and on the account, or is marked.
Kept ==
  \A x \in confirmed : \/ x \in stored /\ Home[x] \in Rollouts /\ bytes[Home[x]] > 0
                       \/ Home[x] \in evicted

\* In one event loop one call is under way, and what it inserted is there.
InOneLoop ==
  /\ \A a, b \in Adders : calls[a].pc # "idle" /\ calls[b].pc # "idle" => a = b
  /\ \A a \in Adders : calls[a].pc \in {"single", "account"} => Range(calls[a].done) \subseteq stored
  /\ SizesArePositive => Kept

SpanInv ==
  /\ SpanTypes
  /\ \A a \in Adders : AddsToOne(calls[a]) /\ CaughtUp(calls[a])
  /\ NumbersAreNew
  /\ ~threaded => InOneLoop
-----------------------------------------------------------------------------
LEMMA BytesCount ==
  ASSUME NEW b \in Seq(Spans), b # <<>>, Len(b) <= 2
  PROVE  BytesOf(b) \in Nat /\ (SizesArePositive => BytesOf(b) > 0)
<1> DEFINE D == DOMAIN b
           Sums(g) == g = [s \in SUBSET D |-> IF s = {} THEN 0
                             ELSE LET i == CHOOSE e \in s : TRUE IN g[s \ {i}] + Size[b[i]]]
           sum == CHOOSE g : Sums(g)
           of(i) == Size[b[i]]
           known == [s \in SUBSET D |-> IF s = {} THEN 0 ELSE IF s = {1} THEN of(1)
                                        ELSE IF s = {2} THEN of(2) ELSE of(1) + of(2)]
<1>1. BytesOf(b) = sum[D]
  BY Zenon DEF BytesOf, FoldSeq, FoldFunction, FoldFunctionOnSet, MapThenFoldSet
<1>2. D = {1} \/ D = {1, 2}
  <2>1. D = 1..Len(b) /\ Len(b) \in Nat /\ Len(b) # 0
    OBVIOUS
  <2>2. Len(b) = 1 \/ Len(b) = 2
    BY <2>1
  <2> QED BY <2>1, <2>2
<1>3. \A i \in D : of(i) \in Nat /\ (SizesArePositive => of(i) > 0)
  BY ThresholdAssumption DEF SizesArePositive
<1>4. \A s \in SUBSET D : s = {} \/ s = {1} \/ s = {2} \/ s = {1, 2}
  BY <1>2
<1>5. \A s \in SUBSET D : s # {} => (CHOOSE e \in s : TRUE) \in s
  OBVIOUS
<1> HIDE DEF D, of
<1>6. Sums(known)
  <2>1. ASSUME NEW s \in SUBSET D, s # {}
        PROVE  LET i == CHOOSE e \in s : TRUE IN known[s] = known[s \ {i}] + Size[b[i]]
    <3> DEFINE i == CHOOSE e \in s : TRUE
    <3>1. i \in s BY <1>5, <2>1
    <3> HIDE DEF i
    <3>2. Size[b[i]] = of(i) BY DEF of
    <3>3. s \ {i} \in SUBSET D /\ i \in D BY <3>1
    <3>4. of(i) \in Nat BY <1>3, <3>3
    <3>5. CASE s = {1} 
      <4>1. i = 1 /\ s \ {i} = {} BY <3>1, <3>5
      <4> QED BY <4>1, <3>2, <3>3, <3>4, <3>5
    <3>6. CASE s = {2} 
      <4>1. i = 2 /\ s \ {i} = {} BY <3>1, <3>6
      <4> QED BY <4>1, <3>2, <3>3, <3>4, <3>6
    <3>7. CASE s = {1, 2}
      <4>1. of(1) \in Nat /\ of(2) \in Nat BY <1>3, <3>3, <3>7, <3>1
      <4>2. known[{1}] = of(1) /\ known[{2}] = of(2) /\ known[s] = of(1) + of(2)
        <5>1. {1} \in SUBSET D /\ {2} \in SUBSET D BY <3>7
        <5> QED BY <5>1, <3>7
      <4>3. (i = 1 /\ s \ {i} = {2}) \/ (i = 2 /\ s \ {i} = {1}) BY <3>1, <3>7
      <4>4. known[s] = known[s \ {i}] + of(i)
        <5>1. CASE i = 1 /\ s \ {i} = {2}
          <6>1. known[s \ {i}] = of(2) /\ of(i) = of(1) BY <4>2, <5>1, Zenon
          <6> HIDE DEF known
          <6> QED BY <6>1, <4>1, <4>2
        <5>2. CASE i = 2 /\ s \ {i} = {1}
          <6>1. known[s \ {i}] = of(1) /\ of(i) = of(2) BY <4>2, <5>2, Zenon
          <6> HIDE DEF known
          <6> QED BY <6>1, <4>1, <4>2
        <5> QED BY <4>3, <5>1, <5>2
      <4> HIDE DEF known
      <4> QED BY <4>4, <3>2 DEF i
    <3> QED BY <3>5, <3>6, <3>7, <2>1, <1>4 DEF i
  <2>2. known[{}] = 0 OBVIOUS
  <2> QED BY <2>1, <2>2
<1>7. Sums(sum)
  BY <1>6
<1>8. sum[{}] = 0
  BY <1>7
<1>9. \A s \in SUBSET D : s # {} => \E i \in s : sum[s] = sum[s \ {i}] + of(i)
  <2> SUFFICES ASSUME NEW s \in SUBSET D, s # {} PROVE \E i \in s : sum[s] = sum[s \ {i}] + of(i)
    OBVIOUS
  <2> DEFINE i == CHOOSE e \in s : TRUE
  <2>1. sum[s] = sum[s \ {i}] + Size[b[i]] BY <1>7
  <2>2. i \in s BY <1>5
  <2> QED BY <2>1, <2>2 DEF of
<1> HIDE DEF sum
<1>10. \A i \in D : sum[{i}] = of(i)
  <2> SUFFICES ASSUME NEW i \in D PROVE sum[{i}] = of(i)
    OBVIOUS
  <2>1. sum[{i}] = sum[{i} \ {i}] + of(i) BY <1>9
  <2>2. {i} \ {i} = {} OBVIOUS
  <2>3. sum[{i}] = 0 + of(i) BY <2>1, <2>2, <1>8, Zenon
  <2>4. of(i) \in Nat BY <1>3
  <2> HIDE DEF sum
  <2> QED BY <2>3, <2>4
<1>11. CASE D = {1}
  BY <1>1, <1>3, <1>10, <1>11
<1>12. CASE D = {1, 2}
  <2>1. PICK i \in D : sum[D] = sum[D \ {i}] + of(i) BY <1>9, <1>12
  <2>2. PICK j \in D : D \ {i} = {j} BY <1>12
  <2>3. sum[D] = of(j) + of(i) BY <1>10, <2>1, <2>2, Zenon
  <2>4. /\ of(i) \in Nat /\ of(j) \in Nat
        /\ SizesArePositive => of(i) > 0 /\ of(j) > 0 BY <1>3
  <2>5. of(j) + of(i) \in Nat /\ (SizesArePositive => of(j) + of(i) > 0) BY <2>4
  <2> QED BY <1>1, <2>3, <2>5
<1> QED BY <1>2, <1>11, <1>12

-----------------------------------------------------------------------------
\* The record of a call, by its fields.
Is(c, p, b, n, d) == c \in Adding /\ c.pc = p /\ c.batch = b /\ c.number = n /\ c.done = d

LEMMA OneOrTwo ==
  ASSUME NEW s, Len(s) \in 1..2
  PROVE  s # <<>> /\ Len(s) <= 2
<1>1. PICK k \in 1..2 : k = Len(s)
  OBVIOUS
<1>2. k # 0 /\ k <= 2
  OBVIOUS
<1>3. s = <<>> => Len(s) = 0
  OBVIOUS
<1> QED BY <1>1, <1>2, <1>3, Zenon

LEMMA Remade ==
  ASSUME NEW c \in Adding
  PROVE  /\ Is(NoCall, "idle", <<>>, 0, <<>>)
         /\ Is(c, c.pc, c.batch, c.number, c.done)
         /\ c.pc \in Sections /\ c.batch \in Seq(Spans) /\ c.number \in Nat /\ c.done \in Seq(Spans)
         /\ \A p \in Sections : Is([c EXCEPT !.pc = p], p, c.batch, c.number, c.done)
         /\ \A p \in Sections, d \in Seq(Spans) :
              Is([c EXCEPT !.pc = p, !.done = d], p, c.batch, c.number, d)
         /\ \A b, d \in Seq(Spans) :
              Is([c EXCEPT !.batch = b, !.done = d], c.pc, b, c.number, d)
<1>1. Is(NoCall, "idle", <<>>, 0, <<>>)
  BY DEF Is, Adding, Sections, NoCall
<1>2. /\ Is(c, c.pc, c.batch, c.number, c.done)
      /\ c.pc \in Sections /\ c.batch \in Seq(Spans) /\ c.number \in Nat /\ c.done \in Seq(Spans)
  BY DEF Is, Adding
<1>3. ASSUME NEW p \in Sections PROVE Is([c EXCEPT !.pc = p], p, c.batch, c.number, c.done)
  BY DEF Is, Adding
<1>4. ASSUME NEW p \in Sections, NEW d \in Seq(Spans)
      PROVE  Is([c EXCEPT !.pc = p, !.done = d], p, c.batch, c.number, d)
  BY DEF Is, Adding
<1>5. ASSUME NEW b \in Seq(Spans), NEW d \in Seq(Spans)
      PROVE  Is([c EXCEPT !.batch = b, !.done = d], c.pc, b, c.number, d)
  BY DEF Is, Adding
<1> QED BY <1>1, <1>2, <1>3, <1>4, <1>5

LEMMA CallKnown ==
  ASSUME SpanInv, NEW a \in Adders, calls[a].pc # "idle"
  PROVE  /\ calls[a] \in Adding /\ AddsToOne(calls[a]) /\ CaughtUp(calls[a])
         /\ calls[a].batch \in Seq(Spans) /\ calls[a].done \in Seq(Spans) /\ calls[a].number \in Nat
         /\ Len(calls[a].batch) \in 1..2 /\ calls[a].batch[1] \in Spans
         /\ Of(a) # Unknown => Of(a) \in Rollouts /\ counter[Of(a)] >= calls[a].number
<1>1. calls[a] \in Adding /\ AddsToOne(calls[a]) /\ CaughtUp(calls[a])
  BY DEF SpanInv, SpanTypes
<1>2. calls[a].batch \in Seq(Spans) /\ calls[a].done \in Seq(Spans) /\ calls[a].number \in Nat
      /\ Len(calls[a].batch) \in 1..2
  BY <1>1 DEF Adding, AddsToOne
<1>3. calls[a].batch[1] \in Spans
  BY <1>2
<1>4. Of(a) # Unknown => Of(a) \in Rollouts /\ counter[Of(a)] >= calls[a].number
  BY <1>1, <1>3, ThresholdAssumption DEF Of, CaughtUp
<1> QED BY <1>1, <1>2, <1>3, <1>4

\* A step of the call of a disturbs no other.
LEMMA OneCall ==
  ASSUME SpanInv, NEW a \in Adders, SpanTypes', threaded' = threaded,
         \A b \in Adders \ {a} : calls'[b] = calls[b],
         \A r \in Rollouts : counter'[r] >= counter[r] /\ counter'[r] >= top'[r],
         AddsToOne(calls'[a]), CaughtUp(calls[a])',
         ~threaded =>
           /\ \A b \in Adders \ {a} : calls[b].pc = "idle"
           /\ calls'[a].pc \in {"single", "account"} => Range(calls'[a].done) \subseteq stored'
           /\ SizesArePositive => Kept'
  PROVE  SpanInv'
<1>1. ASSUME NEW b \in Adders PROVE AddsToOne(calls'[b]) /\ CaughtUp(calls[b])'
  <2>1. CASE b = a BY <2>1
  <2>2. CASE b # a
    <3>1. AddsToOne(calls[b]) /\ CaughtUp(calls[b]) /\ calls'[b] = calls[b] BY <2>2 DEF SpanInv
    <3>2. calls[b] \in Adding /\ counter \in [Rollouts -> Nat] /\ counter' \in [Rollouts -> Nat]
      BY DEF SpanInv, SpanTypes
    <3>3. ASSUME calls[b].pc # "idle", Of(b) # Unknown
          PROVE  counter'[Of(b)] >= calls[b].number
      <4>1. Of(b) \in Rollouts /\ counter[Of(b)] >= calls[b].number /\ calls[b].number \in Nat
        BY <3>3, CallKnown
      <4>2. counter'[Of(b)] >= counter[Of(b)] /\ counter[Of(b)] \in Nat /\ counter'[Of(b)] \in Nat
        BY <4>1, <3>2
      <4> QED BY <4>1, <4>2
    <3>4. CaughtUp(calls[b])' BY <3>1, <3>3 DEF CaughtUp, Of
    <3> QED BY <3>1, <3>4
  <2> QED BY <2>1, <2>2
<1>2. ASSUME ~threaded' PROVE InOneLoop'
  <2>1. \A b \in Adders \ {a} : calls'[b].pc = "idle" BY <1>2
  <2> QED BY <1>2, <2>1 DEF InOneLoop
<1>3. AddsToOne(calls'[a]) /\ NumbersAreNew' BY DEF NumbersAreNew
<1>4. \A b \in Adders : AddsToOne(calls[b])' BY <1>1 DEF AddsToOne
<1> QED BY <1>1, <1>2, <1>3, <1>4 DEF SpanInv

LEMMA OthersIdle ==
  ASSUME SpanInv, NEW a \in Adders, calls[a].pc # "idle", ~threaded
  PROVE  \A b \in Adders \ {a} : calls[b].pc = "idle"
BY DEF SpanInv, InOneLoop

LEMMA BeginKeeps ==
  ASSUME SpanInv, NEW a \in Adders, NEW batch \in Batches, NEW n \in 1..MaxNumber,
         Begin(a, batch, n)
  PROVE  SpanInv'
<1> DEFINE r == Home[batch[1]]
           new == [pc |-> "check", batch |-> batch, number |-> n, done |-> <<>>]
<1>1. batch \in Seq(Spans) /\ Len(batch) \in 1..2 /\ DOMAIN batch = 1..Len(batch)
      /\ \A i \in DOMAIN batch : Home[batch[i]] = r
  <2>1. CASE \E x \in Spans : batch = <<x>>
    BY <2>1
  <2>2. ASSUME NEW x \in Spans, NEW y \in Spans, batch = <<x, y>>, Home[x] = Home[y]
        PROVE  /\ batch \in Seq(Spans) /\ Len(batch) \in 1..2 /\ DOMAIN batch = 1..Len(batch)
               /\ \A i \in DOMAIN batch : Home[batch[i]] = r
    BY <2>2
  <2>3. \/ \E x \in Spans : batch = <<x>>
        \/ \E x, y \in Spans : batch = <<x, y>> /\ Home[x] = Home[y]
    BY DEF Batches
  <2> QED BY <2>1, <2>2, <2>3
<1>2. n \in Nat /\ r \in Rollouts \cup {Unknown}
  BY <1>1, ThresholdAssumption
<1>3. new \in Adding
  BY <1>1, <1>2 DEF Adding, Sections
<1>4. calls' = [calls EXCEPT ![a] = new] /\ calls'[a] = new /\ calls' \in [Adders -> Adding]
      /\ \A b \in Adders \ {a} : calls'[b] = calls[b]
  BY <1>3 DEF Begin, SpanInv, SpanTypes
<1>5. /\ counter' \in [Rollouts -> Nat]
      /\ \A o \in Rollouts : counter'[o] >= counter[o]
      /\ r # Unknown => counter'[r] >= n
  <2>1. CASE r = Unknown BY <2>1 DEF Begin, SpanInv, SpanTypes
  <2>2. CASE r # Unknown
    <3>1. counter' = [counter EXCEPT ![r] = CounterSync(r, n)] /\ r \in Rollouts
      BY <2>2, <1>2 DEF Begin
    <3>2. counter \in [Rollouts -> Nat] BY DEF SpanInv, SpanTypes
    <3>3. CounterSync(r, n) \in Nat /\ CounterSync(r, n) >= counter[r] /\ CounterSync(r, n) >= n
      BY <3>1, <3>2, <1>2 DEF CounterSync, Larger
    <3> HIDE DEF r
    <3> QED BY <3>1, <3>2, <3>3
  <2> QED BY <2>1, <2>2
<1>6. threaded' = threaded /\ UNCHANGED <<stored, bytes, evicted, top, confirmed>>
      /\ calls[a].pc = "idle" /\ Alone(a)
  BY DEF Begin
<1>7. SpanTypes' BY <1>4, <1>5, <1>6 DEF SpanInv, SpanTypes
<1>8. AddsToOne(calls'[a]) BY <1>1, <1>4 DEF AddsToOne
<1>9. CaughtUp(calls[a])' BY <1>4, <1>5 DEF CaughtUp
<1>10. \A o \in Rollouts : counter'[o] >= counter[o] /\ counter'[o] >= top'[o]
  <2> SUFFICES ASSUME NEW o \in Rollouts PROVE counter'[o] >= top'[o] BY <1>5
  <2>1. counter[o] >= top[o] /\ counter'[o] >= counter[o] /\ top'[o] = top[o]
    BY <1>5, <1>6 DEF SpanInv, NumbersAreNew
  <2>2. counter[o] \in Nat /\ top[o] \in Nat /\ counter'[o] \in Nat BY <1>5 DEF SpanInv, SpanTypes
  <2> QED BY <2>1, <2>2
<1>11. ASSUME ~threaded
       PROVE  /\ \A b \in Adders \ {a} : calls[b].pc = "idle"
              /\ calls'[a].pc \notin {"single", "account"}
              /\ SizesArePositive => Kept'
  BY <1>4, <1>6, <1>11 DEF Alone, SpanInv, InOneLoop, Kept
<1> QED BY <1>4, <1>6, <1>7, <1>8, <1>9, <1>10, <1>11, OneCall

\* Counters that stay, or grow, and spans that stay leave the rest of the
\* invariant as it is.
LEMMA IssueKeeps ==
  ASSUME SpanInv, NEW r \in Rollouts, NEW n \in 1..2, Issue(r, n)
  PROVE  SpanInv'
<1>1. UNCHANGED <<threaded, stored, bytes, evicted, calls, top, confirmed>>
      /\ counter' = [counter EXCEPT ![r] = @ + n]
  BY DEF Issue
<1>2. counter \in [Rollouts -> Nat] /\ top \in [Rollouts -> Nat] /\ calls \in [Adders -> Adding]
  BY DEF SpanInv, SpanTypes
<1>3. counter' \in [Rollouts -> Nat] /\ \A o \in Rollouts : counter'[o] >= counter[o]
  BY <1>1, <1>2
<1>4. SpanTypes' BY <1>1, <1>3 DEF SpanInv, SpanTypes
<1>5. ASSUME NEW a \in Adders PROVE AddsToOne(calls[a])' /\ CaughtUp(calls[a])'
  <2>1. AddsToOne(calls[a]) /\ CaughtUp(calls[a]) BY DEF SpanInv
  <2>2. ASSUME calls[a].pc # "idle", Of(a) # Unknown
        PROVE  counter'[Of(a)] >= calls[a].number
    <3>1. Of(a) \in Rollouts /\ counter[Of(a)] >= calls[a].number /\ calls[a].number \in Nat
      BY <2>2, CallKnown
    <3>2. counter'[Of(a)] >= counter[Of(a)] /\ counter[Of(a)] \in Nat /\ counter'[Of(a)] \in Nat
      BY <3>1, <1>2, <1>3
    <3> QED BY <3>1, <3>2
  <2> QED BY <1>1, <2>1, <2>2 DEF AddsToOne, CaughtUp, Of
<1>6. NumbersAreNew' BY <1>1, <1>2, <1>3 DEF SpanInv, NumbersAreNew
<1>7. ~threaded' => InOneLoop' BY <1>1 DEF SpanInv, InOneLoop, Kept
<1> QED BY <1>4, <1>5, <1>6, <1>7 DEF SpanInv

LEMMA CheckKeeps ==
  ASSUME SpanInv, NEW a \in Adders, Check(a)
  PROVE  SpanInv'
<1> DEFINE old == calls[a]
<1>1. old.pc = "check" /\ UNCHANGED <<threaded, counter, stored, bytes, evicted, top, confirmed>>
      /\ calls' = [calls EXCEPT ![a] = IF Of(a) = Unknown THEN NoCall ELSE [old EXCEPT !.pc = "insert"]]
  BY DEF Check
<1>2. old \in Adding /\ AddsToOne(old) /\ CaughtUp(old) /\ calls \in [Adders -> Adding]
      /\ counter \in [Rollouts -> Nat] /\ top \in [Rollouts -> Nat]
  BY DEF SpanInv, SpanTypes
<1>3. /\ calls'[a] = IF Of(a) = Unknown THEN NoCall ELSE [old EXCEPT !.pc = "insert"]
      /\ \A b \in Adders \ {a} : calls'[b] = calls[b]
  BY <1>1, <1>2
<1>4. \/ Is(calls'[a], "idle", <<>>, 0, <<>>)
      \/ Of(a) # Unknown /\ Is(calls'[a], "insert", old.batch, old.number, old.done)
  <2>1. /\ Is(NoCall, "idle", <<>>, 0, <<>>)
        /\ Is([old EXCEPT !.pc = "insert"], "insert", old.batch, old.number, old.done)
    <3>1. "insert" \in Sections
      BY DEF Sections
    <3> QED BY <1>2, <3>1, Remade
  <2> QED BY <1>3, <2>1
<1>5. AddsToOne(calls'[a])
  <2>1. CASE Is(calls'[a], "idle", <<>>, 0, <<>>)
    BY <2>1 DEF AddsToOne, Is
  <2>2. CASE Of(a) # Unknown /\ Is(calls'[a], "insert", old.batch, old.number, old.done)
    BY <1>1, <1>2, <2>2 DEF AddsToOne, Is, Of
  <2> QED BY <1>4, <2>1, <2>2
<1>6. CaughtUp(calls[a])'
  BY <1>1, <1>2, <1>4 DEF CaughtUp, Is
<1>7. SpanTypes'
  BY <1>1, <1>2, <1>4 DEF SpanInv, SpanTypes, Is
<1>8. \A o \in Rollouts : counter'[o] >= counter[o] /\ counter'[o] >= top'[o]
  BY <1>1, <1>2 DEF SpanInv, NumbersAreNew
<1>9. calls'[a].pc \notin {"single", "account"}
  BY <1>4 DEF Is
<1>10. ~threaded => /\ \A b \in Adders \ {a} : calls[b].pc = "idle"
                    /\ SizesArePositive => Kept'
  BY <1>1, OthersIdle DEF SpanInv, InOneLoop, Kept
<1> QED BY <1>1, <1>3, <1>5, <1>6, <1>7, <1>8, <1>9, <1>10, OneCall

\* The largest number inserted for a rollout is one the counter has caught up
\* with, that of the call at work.
LEMMA TopFollows ==
  ASSUME SpanInv, NEW a \in Adders, Of(a) # Unknown, calls[a].pc # "idle", counter' = counter,
         \/ top' = top
         \/ top' = [top EXCEPT ![Of(a)] = Larger(@, calls[a].number)]
  PROVE  /\ top' \in [Rollouts -> Nat]
         /\ \A o \in Rollouts : counter'[o] >= counter[o] /\ counter'[o] >= top'[o]
<1>1. counter \in [Rollouts -> Nat] /\ top \in [Rollouts -> Nat]
      /\ \A o \in Rollouts : counter[o] >= top[o]
  BY DEF SpanInv, SpanTypes, NumbersAreNew
<1>2. Of(a) \in Rollouts /\ counter[Of(a)] >= calls[a].number /\ calls[a].number \in Nat
  BY CallKnown
<1>3. Larger(top[Of(a)], calls[a].number) \in Nat /\ counter[Of(a)] >= Larger(top[Of(a)], calls[a].number)
  BY <1>1, <1>2 DEF Larger
<1> QED BY <1>1, <1>2, <1>3

\* A span that is confirmed stays, or stays evicted.
LEMMA ConfirmedStay ==
  ASSUME SizesArePositive, SpanInv, ~threaded, stored \subseteq stored', UNCHANGED <<bytes, evicted, confirmed>>
  PROVE  Kept'
BY DEF SpanInv, InOneLoop, Kept

LEMMA InsertKeeps ==
  ASSUME SpanInv, NEW a \in Adders, Insert(a)
  PROVE  SpanInv'
<1> DEFINE old == calls[a]
           new == Inserted(old.batch)
<1>1. /\ old.pc = "insert" /\ UNCHANGED <<threaded, counter, bytes, evicted, confirmed>>
      /\ stored' = stored \cup Range(new)
      /\ \/ new = old.batch /\ calls' = [calls EXCEPT ![a].pc = "account", ![a].done = old.batch]
         \/ calls' = [calls EXCEPT ![a].pc = "single"]
      /\ \/ top' = [top EXCEPT ![Of(a)] = Larger(@, old.number)]
         \/ top' = [top EXCEPT ![Of(a)] = @]
  BY DEF Insert
<1>2. /\ old \in Adding /\ AddsToOne(old) /\ CaughtUp(old) /\ calls \in [Adders -> Adding]
      /\ old.batch \in Seq(Spans) /\ Len(old.batch) \in 1..2 /\ old.done = <<>> /\ Of(a) # Unknown
      /\ top \in [Rollouts -> Nat] /\ stored \in SUBSET Spans
  BY <1>1, CallKnown DEF SpanInv, SpanTypes, AddsToOne, Of
<1>3. /\ \/ new = old.batch /\ Is(calls'[a], "account", old.batch, old.number, old.batch)
         \/ Is(calls'[a], "single", old.batch, old.number, <<>>)
      /\ \A b \in Adders \ {a} : calls'[b] = calls[b]
      /\ calls' \in [Adders -> Adding]
  <2>1. CASE new = old.batch /\ calls' = [calls EXCEPT ![a].pc = "account", ![a].done = old.batch]
    <3>1. calls' = [calls EXCEPT ![a] = [old EXCEPT !.pc = "account", !.done = old.batch]] BY <2>1, <1>2
    <3>2. Is([old EXCEPT !.pc = "account", !.done = old.batch], "account", old.batch, old.number, old.batch)
      BY <1>2, Remade DEF Sections
    <3> QED BY <2>1, <3>1, <3>2, <1>2 DEF Is
  <2>2. CASE calls' = [calls EXCEPT ![a].pc = "single"]
    <3>1. calls' = [calls EXCEPT ![a] = [old EXCEPT !.pc = "single"]] BY <2>2, <1>2
    <3>2. Is([old EXCEPT !.pc = "single"], "single", old.batch, old.number, <<>>)
      BY <1>2, Remade DEF Sections
    <3> QED BY <3>1, <3>2, <1>2 DEF Is
  <2> QED BY <1>1, <2>1, <2>2
<1>4. AddsToOne(calls'[a])
  <2>1. /\ Home[old.batch[1]] # Unknown /\ Len(<<>>) = 0 /\ DOMAIN <<>> = {}
        /\ \A i \in DOMAIN old.batch : Home[old.batch[i]] = Home[old.batch[1]]
    <3>1. Home[old.batch[1]] # Unknown
      BY <1>1, <1>2 DEF AddsToOne
    <3>2. \A i \in DOMAIN old.batch : Home[old.batch[i]] = Home[old.batch[1]]
      BY <1>1, <1>2 DEF AddsToOne
    <3>3. Len(<<>>) = 0 /\ DOMAIN <<>> = {}
      OBVIOUS
    <3> QED BY <3>1, <3>2, <3>3
  <2>2. CASE Is(calls'[a], "account", old.batch, old.number, old.batch)
    <3>1. old.batch # <<>> /\ Len(old.batch) <= 2
      <4>1. Len(old.batch) \in 1..2
        BY <1>2
      <4> QED BY <4>1, OneOrTwo
    <3> QED BY <2>1, <2>2, <3>1, <1>2 DEF AddsToOne, Is
  <2>3. CASE Is(calls'[a], "single", old.batch, old.number, <<>>)
    <3>1. Len(<<>>) + Len(old.batch) <= 2 BY <2>1, <1>2
    <3> QED BY <2>1, <2>3, <3>1, <1>2 DEF AddsToOne, Is
  <2> QED BY <1>3, <2>2, <2>3
<1>5. CaughtUp(calls[a])'
  BY <1>1, <1>2, <1>3 DEF CaughtUp, Is
<1>6. Range(new) \subseteq Spans
  <2> DEFINE clash == {i \in DOMAIN old.batch : old.batch[i] \in stored}
  <2>1. new = <<>> \/ new = old.batch \/ (clash # {} /\ new = SubSeq(old.batch, 1, Min(clash) - 1))
    BY DEF Inserted
  <2>2. \A i \in DOMAIN new : new[i] \in Spans
    <3>1. CASE new = <<>> BY <3>1
    <3>2. CASE new = old.batch BY <3>2, <1>2
    <3>3. CASE clash # {} /\ new = SubSeq(old.batch, 1, Min(clash) - 1)
      <4>1. clash \subseteq 1..2 BY <1>2
      <4>2. \E m \in clash : \A n \in clash : m <= n BY <4>1, <3>3
      <4>3. Min(clash) \in clash BY <4>2 DEF Min
      <4>4. Min(clash) - 1 \in 0..Len(old.batch) BY <4>1, <4>3, <1>2
      <4> HIDE DEF clash
      <4> QED BY <3>3, <4>4, <1>2
    <3> QED BY <2>1, <3>1, <3>2, <3>3
  <2> QED BY <2>2 DEF Range
<1>7. top' \in [Rollouts -> Nat]
      /\ \A o \in Rollouts : counter'[o] >= counter[o] /\ counter'[o] >= top'[o]
  BY <1>1, <1>2, TopFollows
<1>8. SpanTypes'
  BY <1>1, <1>2, <1>3, <1>6, <1>7 DEF SpanInv, SpanTypes
<1>9. calls'[a].pc \in {"single", "account"} => Range(calls'[a].done) \subseteq stored'
  BY <1>1, <1>3 DEF Range, Is
<1>10. ~threaded => /\ \A b \in Adders \ {a} : calls[b].pc = "idle"
                    /\ SizesArePositive => Kept'
  BY <1>1, OthersIdle, ConfirmedStay
<1> QED BY <1>1, <1>3, <1>4, <1>5, <1>7, <1>8, <1>9, <1>10, OneCall

\* Lengths: of what is done, was done, was to do and is left to do.
LEMMA OneMore ==
  ASSUME NEW done \in Nat, NEW was \in Nat, NEW batch \in Nat, NEW rest \in Nat,
         rest = batch - 1, done <= was + 1, was + batch <= 2
  PROVE  done + rest <= 2
OBVIOUS

LEMMA InsertSingleKeeps ==
  ASSUME SpanInv, NEW a \in Adders, InsertSingle(a)
  PROVE  SpanInv'
<1> DEFINE old == calls[a]
           x == Head(old.batch)
           rest == Tail(old.batch)
           done == IF x \in stored THEN old.done ELSE Append(old.done, x)
<1>1. /\ old.pc = "single" /\ UNCHANGED <<threaded, counter, bytes, evicted, confirmed>>
      /\ stored' = stored \cup {x}
      /\ calls' = [calls EXCEPT ![a] =
              CASE rest # <<>> -> [old EXCEPT !.batch = rest, !.done = done]
                [] rest = <<>> /\ done # <<>> -> [old EXCEPT !.pc = "account", !.done = done]
                [] OTHER -> NoCall]
      /\ \/ top' = [top EXCEPT ![Of(a)] = Larger(@, old.number)]
         \/ top' = [top EXCEPT ![Of(a)] = @]
  BY DEF InsertSingle
<1>2. /\ old \in Adding /\ AddsToOne(old) /\ CaughtUp(old) /\ calls \in [Adders -> Adding]
      /\ old.batch \in Seq(Spans) /\ Len(old.batch) \in 1..2 /\ Of(a) # Unknown
      /\ old.done \in Seq(Spans) /\ Len(old.done) + Len(old.batch) <= 2
      /\ top \in [Rollouts -> Nat] /\ stored \in SUBSET Spans
  BY <1>1, CallKnown DEF SpanInv, SpanTypes, AddsToOne, Of
<1>3. /\ x \in Spans /\ x = old.batch[1] /\ rest \in Seq(Spans) /\ Len(rest) = Len(old.batch) - 1
      /\ \A i \in DOMAIN rest : rest[i] = old.batch[i + 1] /\ i + 1 \in DOMAIN old.batch
      /\ rest # <<>> => Len(rest) = 1 /\ 1 \in DOMAIN rest
  <2>1. old.batch # <<>> /\ x \in Spans /\ x = old.batch[1]
    BY <1>2
  <2>2. rest \in Seq(Spans) /\ Len(rest) = Len(old.batch) - 1
    BY <1>2, <2>1
  <2>3. \A i \in DOMAIN rest : rest[i] = old.batch[i + 1] /\ i + 1 \in DOMAIN old.batch
    BY <1>2, <2>1, <2>2
  <2> HIDE DEF rest
  <2>4. rest # <<>> => Len(rest) = 1 /\ 1 \in DOMAIN rest
    BY <1>2, <2>2
  <2> QED BY <2>1, <2>2, <2>3, <2>4
<1>4. /\ done \in Seq(Spans) /\ Len(done) <= Len(old.done) + 1
      /\ \A i \in DOMAIN done : Home[done[i]] = Home[old.batch[1]]
      /\ done # <<>> => Len(done) >= 1
  <2>1. PICK was \in Seq(Spans) : was = old.done
    BY <1>2
  <2>h. PICK home, new, now : home = Home[old.batch[1]] /\ new = x /\ now = done
    OBVIOUS
  <2>2. \A i \in DOMAIN was : Home[was[i]] = home
    BY <1>1, <1>2, <2>1, <2>h DEF AddsToOne
  <2>3. new \in Spans /\ Home[new] = home
    BY <1>3, <2>h
  <2>4. now = IF new \in stored THEN was ELSE Append(was, new)
    BY <2>1, <2>h
  <2> HIDE DEF x, done, old
  <2>5. /\ now \in Seq(Spans) /\ Len(now) <= Len(was) + 1
        /\ \A i \in DOMAIN now : Home[now[i]] = home
        /\ now # <<>> => Len(now) >= 1
    <3>1. CASE new \in stored
      BY <2>2, <2>4, <3>1
    <3>2. CASE new \notin stored
      <4>1. now = Append(was, new)
        BY <2>4, <3>2
      <4>2. /\ DOMAIN now = 1..(Len(was) + 1) /\ Len(now) = Len(was) + 1
            /\ \A i \in 1..(Len(was) + 1) : now[i] = IF i \in DOMAIN was THEN was[i] ELSE new
        BY <2>3, <4>1
      <4>3. now \in Seq(Spans)
        BY <2>3, <4>1
      <4>4. \A i \in DOMAIN now : Home[now[i]] = home
        BY <2>2, <2>3, <4>2
      <4> QED BY <4>2, <4>3, <4>4
    <3> QED BY <3>1, <3>2
  <2> QED BY <2>1, <2>h, <2>5
<1>5. Range(old.done) \subseteq stored => Range(done) \subseteq stored'
  BY <1>1, <1>2, <1>3 DEF Range
<1> HIDE DEF done, rest
<1>6. /\ \/ rest # <<>> /\ Is(calls'[a], "single", rest, old.number, done)
         \/ rest = <<>> /\ done # <<>> /\ Is(calls'[a], "account", old.batch, old.number, done)
         \/ Is(calls'[a], "idle", <<>>, 0, <<>>)
      /\ \A b \in Adders \ {a} : calls'[b] = calls[b]
      /\ calls' \in [Adders -> Adding]
  <2>1. calls'[a] = CASE rest # <<>> -> [old EXCEPT !.batch = rest, !.done = done]
                      [] rest = <<>> /\ done # <<>> -> [old EXCEPT !.pc = "account", !.done = done]
                      [] OTHER -> NoCall
    BY <1>1, <1>2
  <2>2. /\ Is([old EXCEPT !.batch = rest, !.done = done], "single", rest, old.number, done)
        /\ Is([old EXCEPT !.pc = "account", !.done = done], "account", old.batch, old.number, done)
        /\ Is(NoCall, "idle", <<>>, 0, <<>>)
    <3>1. old \in Adding /\ old.pc = "single" /\ rest \in Seq(Spans) /\ done \in Seq(Spans) /\ "account" \in Sections
      BY <1>1, <1>2, <1>3, <1>4 DEF Sections
    <3> QED BY <3>1, Remade
  <2>3. \/ rest # <<>> /\ Is(calls'[a], "single", rest, old.number, done)
        \/ rest = <<>> /\ done # <<>> /\ Is(calls'[a], "account", old.batch, old.number, done)
        \/ Is(calls'[a], "idle", <<>>, 0, <<>>)
    BY <2>1, <2>2
  <2>4. calls'[a] \in Adding
    BY <2>3 DEF Is
  <2> QED BY <2>3, <2>4, <1>1, <1>2
<1>7. AddsToOne(calls'[a])
  <2>1. CASE rest # <<>> /\ Is(calls'[a], "single", rest, old.number, done)
    <3>1. Home[rest[1]] = Home[old.batch[1]] /\ \A i \in DOMAIN rest : Home[rest[i]] = Home[old.batch[1]]
      BY <2>1, <1>1, <1>2, <1>3 DEF AddsToOne
    <3>2. Len(rest) = 1 /\ Len(done) \in Nat /\ Len(done) + Len(rest) <= 2
      <4>1. Len(done) \in Nat /\ Len(old.done) \in Nat /\ Len(old.batch) \in Nat /\ Len(rest) = 1
        <5>1. Len(done) \in Nat
          BY <1>4, LenProperties
        <5>2. Len(old.done) \in Nat /\ Len(old.batch) \in Nat
          BY <1>2, LenProperties
        <5>3. Len(rest) = 1
          BY <2>1, <1>3
        <5> QED BY <5>1, <5>2, <5>3
      <4>2. Len(done) <= Len(old.done) + 1 BY <1>4
      <4>3. Len(rest) = Len(old.batch) - 1 BY <1>3
      <4>4. Len(old.done) + Len(old.batch) <= 2 BY <1>2
      <4> QED BY <4>1, <4>2, <4>3, <4>4, OneMore
    <3> QED BY <2>1, <3>1, <3>2, <1>2, <1>3, <1>4 DEF AddsToOne, Is, Of
  <2>2. CASE rest = <<>> /\ done # <<>> /\ Is(calls'[a], "account", old.batch, old.number, done)
    <3>1. Len(done) <= 2
      <4>1. Len(done) \in Nat /\ Len(old.done) \in Nat /\ Len(old.batch) \in Nat /\ Len(rest) \in Nat
        BY <1>2, <1>3, <1>4
      <4>2. Len(done) <= Len(old.done) + 1 BY <2>2, <1>4
      <4>3. Len(rest) = Len(old.batch) - 1 BY <1>3
      <4>4. Len(old.done) + Len(old.batch) <= 2 BY <1>2
      <4>5. Len(done) + Len(rest) <= 2 BY <4>1, <4>2, <4>3, <4>4, OneMore
      <4>6. Len(rest) = 0 BY <2>2
      <4> QED BY <4>1, <4>5, <4>6
    <3> QED BY <2>2, <3>1, <1>1, <1>2, <1>4 DEF AddsToOne, Is, Of
  <2>3. CASE Is(calls'[a], "idle", <<>>, 0, <<>>) BY <2>3 DEF AddsToOne, Is
  <2> QED BY <1>6, <2>1, <2>2, <2>3
<1>8. CaughtUp(calls[a])'
  <2>1. rest # <<>> => Home[rest[1]] = Home[old.batch[1]]
    BY <1>1, <1>2, <1>3 DEF AddsToOne
  <2> QED BY <2>1, <1>1, <1>2, <1>6 DEF CaughtUp, Is
<1>9. top' \in [Rollouts -> Nat]
      /\ \A o \in Rollouts : counter'[o] >= counter[o] /\ counter'[o] >= top'[o]
  BY <1>1, <1>2, TopFollows
<1>10. SpanTypes'
  BY <1>1, <1>3, <1>6, <1>9 DEF SpanInv, SpanTypes
<1>11. ~threaded => Range(old.done) \subseteq stored
  BY <1>1 DEF SpanInv, InOneLoop
<1>12. ~threaded /\ calls'[a].pc \in {"single", "account"} => Range(calls'[a].done) \subseteq stored'
  BY <1>5, <1>6, <1>11 DEF Is
<1>13. ~threaded => /\ \A b \in Adders \ {a} : calls[b].pc = "idle"
                    /\ SizesArePositive => Kept'
  BY <1>1, OthersIdle, ConfirmedStay
<1> QED BY <1>1, <1>6, <1>7, <1>8, <1>9, <1>10, <1>12, <1>13, OneCall

LEMMA AccountKeeps ==
  ASSUME SpanInv, NEW a \in Adders, Account(a)
  PROVE  SpanInv'
<1> DEFINE old == calls[a]
           mine == Of(a)
           size == BytesOf(old.done)
           grown == [bytes EXCEPT ![mine] = @ + size]
           V == Victims(grown, total + size)
<1>1. /\ old.pc = "account" /\ UNCHANGED <<threaded, counter, top>>
      /\ stored' = {x \in stored : Home[x] \notin V}
      /\ bytes' = [r \in Rollouts |-> IF r \in V THEN 0 ELSE grown[r]]
      /\ evicted' = evicted \cup Marked(V, grown, mine)
      /\ confirmed' = confirmed \cup Range(old.done)
      /\ calls' = [calls EXCEPT ![a] = NoCall]
  BY DEF Account
<1>2. /\ old \in Adding /\ AddsToOne(old) /\ mine \in Rollouts
      /\ old.done \in Seq(Spans) /\ old.done # <<>> /\ Len(old.done) <= 2
      /\ \A i \in DOMAIN old.done : Home[old.done[i]] = mine
  BY <1>1, CallKnown DEF AddsToOne, Of
<1>3. /\ calls \in [Adders -> Adding] /\ bytes \in [Rollouts -> Nat] /\ evicted \in SUBSET Rollouts
      /\ confirmed \in SUBSET Spans /\ stored \in SUBSET Spans
  BY DEF SpanInv, SpanTypes
<1>4. size \in Nat /\ (SizesArePositive => size > 0)
  BY <1>2, BytesCount
<1>5. V \subseteq Rollouts /\ Marked(V, grown, mine) = {r \in V : grown[r] > 0}
  BY DEF Victims, Marked
<1>6. Range(old.done) \subseteq Spans /\ \A x \in Range(old.done) : Home[x] = mine
  BY <1>2 DEF Range
<1> HIDE DEF size, V
<1>7. /\ grown \in [Rollouts -> Nat] /\ (SizesArePositive => grown[mine] > 0)
      /\ \A r \in Rollouts : grown[r] >= bytes[r]
  BY <1>2, <1>3, <1>4
<1> HIDE DEF mine, grown
<1>8. calls'[a] = NoCall /\ (\A b \in Adders \ {a} : calls'[b] = calls[b]) /\ calls' \in [Adders -> Adding]
  <2>1. calls'[a] = NoCall /\ \A b \in Adders \ {a} : calls'[b] = calls[b]
    BY <1>1, <1>3
  <2>2. NoCall \in Adding
    BY <1>2, Remade DEF Is
  <2> QED BY <1>1, <1>3, <2>1, <2>2
<1>9. bytes' \in [Rollouts -> Nat] /\ evicted' \in SUBSET Rollouts
      /\ confirmed' \in SUBSET Spans /\ stored' \in SUBSET Spans
  BY <1>1, <1>3, <1>5, <1>6, <1>7
<1>10. SpanTypes' BY <1>1, <1>8, <1>9 DEF SpanInv, SpanTypes
<1>11. AddsToOne(calls'[a]) /\ CaughtUp(calls[a])' /\ calls'[a].pc = "idle"
  BY <1>8 DEF AddsToOne, CaughtUp, NoCall
<1>12. \A o \in Rollouts : counter'[o] >= counter[o] /\ counter'[o] >= top'[o]
  BY <1>1 DEF SpanInv, SpanTypes, NumbersAreNew
<1>13. ASSUME ~threaded, SizesArePositive, NEW x \in confirmed'
       PROVE  \/ x \in stored' /\ Home[x] \in Rollouts /\ bytes'[Home[x]] > 0
              \/ Home[x] \in evicted'
  <2>1. \/ x \in stored /\ Home[x] \in Rollouts /\ grown[Home[x]] > 0
        \/ Home[x] \in evicted
    <3>1. CASE x \in confirmed
      <4>1. CASE Home[x] \in evicted BY <4>1
      <4>2. CASE x \in stored /\ Home[x] \in Rollouts /\ bytes[Home[x]] > 0
        <5>1. grown[Home[x]] >= bytes[Home[x]] /\ grown[Home[x]] \in Nat /\ bytes[Home[x]] \in Nat
          BY <4>2, <1>3, <1>7
        <5> QED BY <4>2, <5>1
      <4> QED BY <1>13, <3>1, <4>1, <4>2 DEF SpanInv, InOneLoop, Kept
    <3>2. CASE x \in Range(old.done)
      <4>1. x \in stored BY <1>1, <1>13, <3>2 DEF SpanInv, InOneLoop
      <4> QED BY <4>1, <3>2, <1>2, <1>6, <1>7, <1>13
    <3> QED BY <1>1, <3>1, <3>2
  <2>2. CASE Home[x] \in evicted BY <2>2, <1>1
  <2>3. CASE x \in stored /\ Home[x] \in Rollouts /\ grown[Home[x]] > 0
    <3>1. CASE Home[x] \in V BY <2>3, <3>1, <1>1, <1>5
    <3>2. CASE Home[x] \notin V BY <2>3, <3>2, <1>1
    <3> QED BY <3>1, <3>2
  <2> QED BY <2>1, <2>2, <2>3
<1>14. ~threaded /\ SizesArePositive => Kept'
  BY <1>13 DEF Kept
<1> QED BY <1>1, <1>8, <1>10, <1>11, <1>12, <1>14, OthersIdle, OneCall

LEMMA SpansBegin == SpanInit => SpanInv
<1> SUFFICES ASSUME SpanInit PROVE SpanInv OBVIOUS
<1>1. NoCall \in Adding BY DEF Adding, Sections, NoCall
<1>2. SpanTypes BY <1>1 DEF SpanInit, SpanTypes
<1>3. \A a \in Adders : AddsToOne(calls[a]) /\ CaughtUp(calls[a])
  BY DEF SpanInit, AddsToOne, CaughtUp, NoCall
<1>4. NumbersAreNew BY DEF SpanInit, NumbersAreNew
<1>5. InOneLoop BY DEF SpanInit, InOneLoop, NoCall, Kept
<1> QED BY <1>2, <1>3, <1>4, <1>5 DEF SpanInv

LEMMA SpanSteps == SpanInv /\ [SpanNext]_spanVars => SpanInv'
<1> SUFFICES ASSUME SpanInv, [SpanNext]_spanVars PROVE SpanInv' OBVIOUS
<1>1. CASE \E r \in Rollouts, n \in 1..2 : Issue(r, n) BY <1>1, IssueKeeps
<1>2. ASSUME NEW a \in Adders, NEW batch \in Batches, NEW n \in 1..MaxNumber, Begin(a, batch, n)
      PROVE  SpanInv'
  BY <1>2, BeginKeeps
<1>3. CASE \E a \in Adders : Check(a) BY <1>3, CheckKeeps
<1>4. CASE \E a \in Adders : Insert(a) BY <1>4, InsertKeeps
<1>5. CASE \E a \in Adders : InsertSingle(a) BY <1>5, InsertSingleKeeps
<1>6. CASE \E a \in Adders : Account(a) BY <1>6, AccountKeeps
<1>7. CASE UNCHANGED spanVars
  BY <1>7 DEF spanVars, SpanInv, SpanTypes, AddsToOne, CaughtUp, NumbersAreNew, InOneLoop, Kept
<1> QED BY <1>1, <1>2, <1>3, <1>4, <1>5, <1>6, <1>7 DEF SpanNext

\* The sequence number of a new span is above those of all spans of its
\* rollout, whoever adds them in whatever batches, and whichever numbers they
\* bring: _sync_span_sequence_id keeps up before they are inserted.
THEOREM NewNumbers == SpanSpec => []NumbersAreNew
<1>1. SpanInv => NumbersAreNew BY DEF SpanInv
<1> QED BY SpansBegin, SpanSteps, <1>1, PTL DEF SpanSpec

\* With one event loop, and sizes as estimate_model_size gives them, a span
\* that the store confirmed is there or its rollout is marked as evicted,
\* whatever the thresholds, the sizes and the order of the rollouts.
THEOREM NoneLostSilently ==
  ASSUME SizesArePositive
  PROVE  SpanSpec => []NoSilentLoss
<1>1. SpanInv => NoSilentLoss BY DEF SpanInv, InOneLoop, NoSilentLoss, Kept
<1> QED BY SpansBegin, SpanSteps, <1>1, PTL DEF SpanSpec

-----------------------------------------------------------------------------
(* Operations. *)

MadeSpans ==
  [task : Tasks, number : Nat, parent : Nat \cup {NoSpan}, input : Nat, output : Nat,
   error : BOOLEAN, events : Nat, sent : BOOLEAN, ended : BOOLEAN]
Frames == [form : Forms, span : Nat \ {0}, number : Nat]

OperationTypes ==
  /\ made \in Seq(MadeSpans) /\ propagate \in BOOLEAN
  /\ entered \in [Tasks -> Seq(Frames)] /\ begun \in [Tasks -> Nat]

\* The i-th call that t is in: its span is open, and lies in that of the call
\* around it.
FrameFits(t, i) ==
  LET span == made[entered[t][i].span] IN
  /\ entered[t][i].span \in DOMAIN made
  /\ span.task = t /\ span.number = entered[t][i].number
  /\ ~span.ended /\ span.number <= begun[t]
  /\ span.parent = IF i = 1 THEN NoSpan ELSE entered[t][i - 1].span
Stacked(t) ==
  /\ \A i \in DOMAIN entered[t] : FrameFits(t, i)
  /\ \A i, j \in DOMAIN entered[t] : i < j => entered[t][i].number < entered[t][j].number

\* A span that is open is that of a call that some task is in; its parent is
\* open as long.
InParent(x) ==
  /\ x.parent \in DOMAIN made
  /\ made[x.parent].task = x.task /\ made[x.parent].number < x.number
  /\ made[x.parent].ended => x.ended
Told(x) ==
  /\ x.number <= begun[x.task]
  /\ x.sent => x.ended
  /\ x.ended /\ propagate => x.sent
  /\ x.input \in {NoValue, x.number} /\ x.output \in {NoValue, x.number}
  /\ ~(x.error /\ x.events = 0)
OwnSpan(s) ==
  /\ Told(made[s])
  /\ ~made[s].ended => \E i \in DOMAIN entered[made[s].task] : entered[made[s].task][i].span = s
  /\ made[s].parent # NoSpan => InParent(made[s])

OperationInv ==
  OperationTypes /\ (\A t \in Tasks : Stacked(t)) /\ (\A s \in DOMAIN made : OwnSpan(s))

LEMMA OperationsBegin == OperationInit => OperationInv
<1> SUFFICES ASSUME OperationInit PROVE OperationInv
  OBVIOUS
<1>1. made = <<>> /\ DOMAIN made = {} /\ \A t \in Tasks : entered[t] = <<>> /\ DOMAIN entered[t] = {}
  BY DEF OperationInit
<1>2. OperationTypes
  BY <1>1 DEF OperationInit, OperationTypes
<1> QED BY <1>1, <1>2 DEF OperationInv, Stacked

\* The last call of a task that is in one, and its span.
LEMMA LastFrame ==
  ASSUME OperationInv, NEW t \in Tasks, entered[t] # <<>>
  PROVE  /\ Len(entered[t]) \in Nat \ {0} /\ DOMAIN entered[t] = 1..Len(entered[t])
         /\ \A i \in DOMAIN entered[t] : entered[t][i] \in Frames
         /\ Last(entered[t]) = entered[t][Len(entered[t])] /\ Len(entered[t]) \in DOMAIN entered[t]
         /\ Target(t) \in DOMAIN made /\ made[Target(t)] \in MadeSpans
         /\ made[Target(t)].task = t /\ made[Target(t)].number = Last(entered[t]).number
         /\ made[Target(t)].ended = FALSE
<1>1. entered[t] \in Seq(Frames)
  BY DEF OperationInv, OperationTypes
<1>2. Len(entered[t]) \in Nat \ {0} /\ DOMAIN entered[t] = 1..Len(entered[t])
      /\ \A i \in 1..Len(entered[t]) : entered[t][i] \in Frames
  BY <1>1, LenProperties, ElementOfSeq
<1>3. FrameFits(t, Len(entered[t])) /\ Last(entered[t]) = entered[t][Len(entered[t])]
  BY <1>2 DEF OperationInv, Stacked, Last
<1>4. Target(t) \in DOMAIN made /\ made[Target(t)].task = t /\ ~made[Target(t)].ended
      /\ made[Target(t)].number = Last(entered[t]).number
  BY <1>3 DEF FrameFits, Target
<1>5. made[Target(t)] \in MadeSpans
  BY <1>4, LenProperties, ElementOfSeq DEF OperationInv, OperationTypes
<1> QED BY <1>2, <1>3, <1>4, <1>5 DEF MadeSpans

\* Spans apart: two calls that are not over have two spans.
LEMMA FramesApart ==
  ASSUME OperationInv, NEW t \in Tasks, NEW i \in DOMAIN entered[t],
         NEW u \in Tasks, NEW j \in DOMAIN entered[u], entered[t][i].span = entered[u][j].span
  PROVE  t = u /\ i = j
<1>1. FrameFits(t, i) /\ FrameFits(u, j)
  BY DEF OperationInv, Stacked
<1>2. t = u /\ entered[t][i].number = entered[u][j].number
  BY <1>1 DEF FrameFits
<1>3. j \in DOMAIN entered[t] /\ i \in Nat /\ j \in Nat /\ entered[t][i].number \in Nat
  <2>1. entered[t] \in Seq(Frames)
    BY DEF OperationInv, OperationTypes
  <2>2. DOMAIN entered[t] = 1..Len(entered[t]) /\ Len(entered[t]) \in Nat /\ entered[t][i] \in Frames
    BY <2>1, LenProperties, ElementOfSeq
  <2> QED BY <1>2, <2>2 DEF Frames
<1>4. Stacked(t)
  BY DEF OperationInv
<1>5. ~(i < j) /\ ~(j < i)
  BY <1>2, <1>3, <1>4 DEF Stacked
<1> QED BY <1>2, <1>3, <1>5

LEMMA CallBeginKeeps ==
  ASSUME OperationInv, NEW t \in Tasks, NEW form \in Forms, BeginCall(t, form)
  PROVE  OperationInv'
<1>n. PICK n : n = Len(made)
  OBVIOUS
<1>m. PICK m : m = Len(entered[t])
  OBVIOUS
<1>k. PICK k : k = begun[t] + 1
  OBVIOUS
<1>x. PICK x : x = [task |-> t, number |-> k, parent |-> Current(t),
                    input |-> IF form = "decorated" THEN k ELSE NoValue,
                    output |-> NoValue, error |-> FALSE, events |-> 0, sent |-> FALSE, ended |-> FALSE]
  OBVIOUS
<1>c. PICK c : c = [form |-> form, span |-> n + 1, number |-> k]
  OBVIOUS
<1>1. made \in Seq(MadeSpans) /\ n \in Nat /\ DOMAIN made = 1..n
      /\ entered[t] \in Seq(Frames) /\ m \in Nat /\ DOMAIN entered[t] = 1..m
      /\ \A u \in Tasks : begun[u] \in Nat
  BY <1>n, <1>m, LenProperties DEF OperationInv, OperationTypes
<1>2. k \in Nat /\ begun'[t] = k /\ begun' \in [Tasks -> Nat] /\ \A u \in Tasks : u # t => begun'[u] = begun[u]
  BY <1>1, <1>k DEF BeginCall, OperationInv, OperationTypes
<1>3. Current(t) = IF m = 0 THEN NoSpan ELSE entered[t][m].span
  BY <1>1, <1>m DEF Current, Last
<1>4. m # 0 => /\ entered[t][m].span \in DOMAIN made /\ Current(t) # NoSpan /\ Current(t) \in Nat
               /\ made[Current(t)].task = t /\ made[Current(t)].number < k /\ ~made[Current(t)].ended
  <2> SUFFICES ASSUME m # 0
               PROVE  /\ entered[t][m].span \in DOMAIN made /\ Current(t) # NoSpan /\ Current(t) \in Nat
                      /\ made[Current(t)].task = t /\ made[Current(t)].number < k /\ ~made[Current(t)].ended
    OBVIOUS
  <2>1. m \in DOMAIN entered[t] /\ Current(t) = entered[t][m].span
    BY <1>1, <1>3
  <2>2. FrameFits(t, m) /\ entered[t][m] \in Frames
    BY <1>1, <2>1, ElementOfSeq DEF OperationInv, Stacked
  <2>3. made[Current(t)].number <= begun[t] /\ made[Current(t)].number \in Nat
    BY <2>1, <2>2 DEF FrameFits, Frames
  <2> QED BY <1>1, <1>k, <2>1, <2>2, <2>3, SpanAssumption DEF FrameFits, Frames
<1>5. x \in MadeSpans /\ c \in Frames
  BY <1>1, <1>2, <1>3, <1>4, <1>x, <1>c DEF MadeSpans, Frames, NoValue
<1>6. made' = Append(made, x) /\ entered' = [entered EXCEPT ![t] = Append(@, c)] /\ propagate' = propagate
  BY <1>n, <1>k, <1>x, <1>c DEF BeginCall
<1>7. /\ x.task = t /\ x.number = k /\ x.parent = Current(t) /\ ~x.ended /\ ~x.sent /\ ~x.error
      /\ x.input \in {NoValue, k} /\ x.output = NoValue
      /\ c.span = n + 1 /\ c.number = k
  BY <1>x, <1>c
<1>8. /\ made' \in Seq(MadeSpans) /\ DOMAIN made' = 1..(n + 1) /\ made'[n + 1] = x
      /\ \A s \in 1..n : made'[s] = made[s]
  BY <1>1, <1>5, <1>6, AppendProperties, LenProperties, <1>n
<1>9. /\ entered'[t] \in Seq(Frames) /\ DOMAIN entered'[t] = 1..(m + 1) /\ entered'[t][m + 1] = c
      /\ \A i \in 1..m : entered'[t][i] = entered[t][i]
      /\ \A u \in Tasks : u # t => entered'[u] = entered[u]
      /\ entered' \in [Tasks -> Seq(Frames)]
  <2>1. entered'[t] = Append(entered[t], c) /\ \A u \in Tasks : u # t => entered'[u] = entered[u]
    BY <1>6 DEF OperationInv, OperationTypes
  <2>2. /\ entered'[t] \in Seq(Frames) /\ DOMAIN entered'[t] = 1..(m + 1) /\ entered'[t][m + 1] = c
        /\ \A i \in 1..m : entered'[t][i] = entered[t][i]
    BY <1>1, <1>5, <2>1, AppendProperties, LenProperties, <1>m
  <2> QED BY <1>6, <2>1, <2>2 DEF OperationInv, OperationTypes
<1>10. OperationTypes'
  BY <1>2, <1>6, <1>8, <1>9 DEF OperationTypes, OperationInv
<1>11. \A u \in Tasks : begun'[u] >= begun[u] /\ DOMAIN entered[u] \subseteq DOMAIN entered'[u]
         /\ \A i \in DOMAIN entered[u] : entered'[u][i] = entered[u][i] /\ i \in Nat \ {0}
  <2> SUFFICES ASSUME NEW u \in Tasks
               PROVE  begun'[u] >= begun[u] /\ DOMAIN entered[u] \subseteq DOMAIN entered'[u]
                      /\ \A i \in DOMAIN entered[u] : entered'[u][i] = entered[u][i] /\ i \in Nat \ {0}
    OBVIOUS
  <2>1. begun'[u] >= begun[u]
    BY <1>1, <1>2, <1>k
  <2>2. \A i \in DOMAIN entered[u] : i \in Nat \ {0}
    <3>1. DOMAIN entered[u] = 1..Len(entered[u])
      BY LenProperties DEF OperationInv, OperationTypes
    <3> QED BY <3>1
  <2>3. CASE u = t
    <3>1. \A i \in 1..m : i \in 1..(m + 1)
      BY <1>1
    <3> QED BY <1>1, <1>9, <2>1, <2>2, <2>3, <3>1
  <2>4. CASE u # t
    <3>1. entered'[u] = entered[u]
      BY <1>9, <2>4
    <3> QED BY <2>1, <2>2, <3>1
  <2> QED BY <2>3, <2>4
<1>12. \A u \in Tasks : Stacked(u)'
  <2> SUFFICES ASSUME NEW u \in Tasks PROVE Stacked(u)'
    OBVIOUS
  <2>1. ASSUME NEW i \in DOMAIN entered[u] PROVE FrameFits(u, i)' /\ entered[u][i].number \in Nat /\ entered[u][i].number <= begun[u]
    <3>1. FrameFits(u, i) /\ entered[u][i] \in Frames /\ i \in Nat
      BY LenProperties, ElementOfSeq DEF OperationInv, OperationTypes, Stacked
    <3>2. i # 1 => i - 1 \in DOMAIN entered[u]
      <4>1. DOMAIN entered[u] = 1..Len(entered[u]) /\ Len(entered[u]) \in Nat
        BY LenProperties DEF OperationInv, OperationTypes
      <4> QED BY <4>1
    <3>3. entered'[u][i] = entered[u][i] /\ (i # 1 => entered'[u][i - 1] = entered[u][i - 1])
      BY <1>11, <3>2
    <3>4. entered[u][i].span \in 1..n /\ made'[entered[u][i].span] = made[entered[u][i].span]
      BY <1>1, <1>8, <3>1 DEF FrameFits
    <3>5. entered[u][i].number \in Nat /\ entered[u][i].number <= begun[u] /\ entered[u][i].number <= begun'[u]
      BY <1>1, <1>2, <1>11, <3>1 DEF FrameFits, Frames
    <3>6. entered[u][i].span \in DOMAIN made'
      BY <1>1, <1>8, <3>4
    <3> QED BY <3>1, <3>3, <3>4, <3>5, <3>6 DEF FrameFits
  <2>2. CASE u # t
    BY <1>9, <2>1, <2>2 DEF Stacked, OperationInv
  <2>3. CASE u = t
    <3>1. FrameFits(t, m + 1)'
      <4>1. PICK j : j = m + 1
        OBVIOUS
      <4>2. made'[c.span] = x /\ c.span \in DOMAIN made' /\ entered'[t][j] = c
        BY <1>1, <1>7, <1>8, <1>9, <4>1
      <4>3. made'[c.span].task = t /\ made'[c.span].number = c.number
            /\ ~made'[c.span].ended /\ made'[c.span].number <= begun'[t]
        BY <1>2, <1>7, <4>2
      <4>4. made'[c.span].parent = IF j = 1 THEN NoSpan ELSE entered'[t][j - 1].span
        BY <1>1, <1>3, <1>7, <1>9, <4>1, <4>2
      <4>5. FrameFits(t, j)'
        BY <4>2, <4>3, <4>4 DEF FrameFits
      <4> QED BY <4>1, <4>5
    <3>2. \A i \in 1..(m + 1) : FrameFits(t, i)'
      BY <1>1, <2>1, <2>3, <3>1
    <3>3. ASSUME NEW i \in 1..(m + 1), NEW j \in 1..(m + 1), i < j
          PROVE  entered'[t][i].number < entered'[t][j].number
      <4>1. i \in 1..m /\ i \in DOMAIN entered[t]
        BY <1>1, <3>3
      <4>2. CASE j \in 1..m
        BY <1>1, <1>9, <3>3, <4>1, <4>2 DEF OperationInv, Stacked
      <4>3. CASE j = m + 1
        <5>1. entered[t][i].number \in Nat /\ entered[t][i].number <= begun[t]
          BY <2>1, <2>3, <4>1
        <5>2. entered'[t][i].number = entered[t][i].number /\ entered'[t][j].number = k
          BY <1>7, <1>9, <4>1, <4>3
        <5> QED BY <1>1, <1>k, <5>1, <5>2
      <4> QED BY <1>1, <4>2, <4>3
    <3> QED BY <1>9, <2>3, <3>2, <3>3 DEF Stacked
  <2> QED BY <2>2, <2>3
<1>13. \A s \in DOMAIN made' : OwnSpan(s)'
  <2>1. ASSUME NEW s \in 1..n PROVE OwnSpan(s)'
    <3>1. OwnSpan(s) /\ made'[s] = made[s] /\ made[s] \in MadeSpans
      BY <1>1, <1>8, ElementOfSeq DEF OperationInv
    <3>2. made[s].task \in Tasks /\ made[s].number \in Nat
      BY <3>1 DEF MadeSpans
    <3>3. Told(made[s])'
      BY <1>1, <1>2, <1>6, <1>8, <1>11, <3>1, <3>2 DEF OwnSpan, Told
    <3>4. ~made[s].ended => \E i \in DOMAIN entered'[made[s].task] : entered'[made[s].task][i].span = s
      BY <1>11, <3>1, <3>2 DEF OwnSpan
    <3>5. made[s].parent # NoSpan => InParent(made[s])'
      BY <1>1, <1>8, <3>1 DEF OwnSpan, InParent
    <3> QED BY <3>1, <3>3, <3>4, <3>5 DEF OwnSpan
  <2>2. OwnSpan(n + 1)'
    <3>1. Told(x)'
      BY <1>2, <1>7 DEF Told
    <3>2. \E i \in DOMAIN entered'[t] : entered'[t][i].span = n + 1
      BY <1>1, <1>7, <1>9
    <3>3. x.parent # NoSpan => InParent(x)'
      <4> SUFFICES ASSUME x.parent # NoSpan PROVE InParent(x)'
        OBVIOUS
      <4>1. m # 0
        BY <1>3, <1>7
      <4>2. Current(t) \in 1..n /\ made'[Current(t)] = made[Current(t)] /\ Current(t) \in DOMAIN made'
        BY <1>1, <1>3, <1>4, <1>8, <4>1
      <4> QED BY <1>4, <1>7, <4>1, <4>2 DEF InParent
    <3> QED BY <1>7, <1>8, <3>1, <3>2, <3>3 DEF OwnSpan
  <2> QED BY <1>1, <1>8, <2>1, <2>2
<1> QED BY <1>10, <1>12, <1>13 DEF OperationInv

LEMMA MadeTypes ==
  ASSUME OperationInv, NEW s \in DOMAIN made
  PROVE  made[s] \in MadeSpans /\ made[s].ended \in BOOLEAN /\ made[s].task \in Tasks /\ s \in Nat \ {0}
<1>1. made \in Seq(MadeSpans)
  BY DEF OperationInv, OperationTypes
<1>2. made[s] \in MadeSpans /\ s \in Nat \ {0}
  BY <1>1
<1> QED BY <1>2 DEF MadeSpans

\* What the call that t is in may be told of, and its span as that leaves it.
OfCall(t, x) ==
  /\ x \in MadeSpans /\ x.task = t
  /\ x.number = made[Target(t)].number /\ x.parent = made[Target(t)].parent
  /\ x.input \in {NoValue, x.number} /\ x.output \in {NoValue, x.number}
  /\ ~(x.error /\ x.events = 0)

LEMMA TargetIsOfCall ==
  ASSUME OperationInv, NEW t \in Tasks, entered[t] # <<>>
  PROVE  OfCall(t, made[Target(t)]) /\ ~made[Target(t)].ended /\ ~made[Target(t)].sent
BY LastFrame DEF OfCall, OperationInv, OwnSpan, Told

\* Only the span of that call is written.
LEMMA Written ==
  ASSUME OperationInv, NEW t \in Tasks, entered[t] # <<>>, NEW x, OfCall(t, x), Record(Target(t), x)
  PROVE  /\ made' \in Seq(MadeSpans) /\ DOMAIN made' = DOMAIN made /\ made'[Target(t)] = x
         /\ \A s \in DOMAIN made : s # Target(t) => made'[s] = made[s]
         /\ \A s \in DOMAIN made :
              /\ made'[s].task = made[s].task /\ made'[s].number = made[s].number
              /\ made'[s].parent = made[s].parent
<1>1. Target(t) \in DOMAIN made /\ made[Target(t)].ended = FALSE /\ made[Target(t)].task = t
  BY LastFrame
<1>2. made \in Seq(MadeSpans) /\ x \in MadeSpans /\ made' = [made EXCEPT ![Target(t)] = x]
  BY <1>1 DEF Record, OfCall, OperationInv, OperationTypes
<1>3. made' \in Seq(MadeSpans) /\ DOMAIN made' = DOMAIN made /\ made'[Target(t)] = x
      /\ \A s \in DOMAIN made : s # Target(t) => made'[s] = made[s]
  BY <1>1, <1>2, ExceptSeq
<1> QED BY <1>1, <1>3 DEF OfCall

\* A block records its input or output.
LEMMA TellingKeeps ==
  ASSUME OperationInv, NEW t \in Tasks, entered[t] # <<>>, NEW x, OfCall(t, x), ~x.ended, ~x.sent,
         Record(Target(t), x), UNCHANGED <<propagate, op, entered, begun>>
  PROVE  OperationInv'
<1>1. /\ made' \in Seq(MadeSpans) /\ DOMAIN made' = DOMAIN made /\ made'[Target(t)] = x
      /\ \A s \in DOMAIN made : s # Target(t) => made'[s] = made[s]
      /\ \A s \in DOMAIN made : /\ made'[s].task = made[s].task /\ made'[s].number = made[s].number
                             /\ made'[s].parent = made[s].parent
  BY Written
<1>2. OperationTypes'
  BY <1>1 DEF OperationInv, OperationTypes
<1>3. \A s \in DOMAIN made : made'[s].ended <=> made[s].ended
  BY <1>1, LastFrame
<1>4. \A u \in Tasks : Stacked(u)'
  BY <1>1, <1>3 DEF OperationInv, Stacked, FrameFits
<1>5. ASSUME NEW s \in DOMAIN made' PROVE OwnSpan(s)'
  <2>1. PICK y : y = made'[s]
    OBVIOUS
  <2>2. OwnSpan(s) /\ s \in DOMAIN made
    BY <1>1 DEF OperationInv
  <2>3. Told(y)'
    <3>1. CASE s = Target(t)
      BY <1>1, <2>1, <2>2, <3>1 DEF OfCall, Told, OwnSpan
    <3>2. CASE s # Target(t)
      BY <1>1, <2>1, <2>2, <3>2 DEF Told, OwnSpan
    <3> QED BY <3>1, <3>2
  <2>4. ~y.ended => \E i \in DOMAIN entered'[y.task] : entered'[y.task][i].span = s
    BY <1>1, <1>3, <2>1, <2>2 DEF OwnSpan
  <2>5. y.parent # NoSpan => InParent(y)'
    BY <1>1, <1>3, <2>1, <2>2 DEF OwnSpan, InParent
  <2> QED BY <2>1, <2>3, <2>4, <2>5 DEF OwnSpan
<1> QED BY <1>2, <1>4, <1>5 DEF OperationInv

\* A call is over: the spans of the calls within it had ended, for none is
\* above it among those of its task.
LEMMA EndKeeps ==
  ASSUME OperationInv, NEW t \in Tasks, NEW x, OfCall(t, x), EndCall(t, x)
  PROVE  OperationInv'
<1>f. entered[t] # <<>> /\ UNCHANGED <<propagate, op, begun>>
  BY DEF EndCall
<1>m. PICK m : m = Len(entered[t])
  OBVIOUS
<1>q. PICK q : q = Target(t)
  OBVIOUS
<1>y. PICK y : y = [x EXCEPT !.sent = IsSent(Last(entered[t]).form), !.ended = TRUE]
  OBVIOUS
<1>1. /\ m \in Nat \ {0} /\ DOMAIN entered[t] = 1..m /\ m \in DOMAIN entered[t] /\ entered[t][m].span = q
      /\ Last(entered[t]) = entered[t][m] /\ Last(entered[t]).form \in Forms /\ entered[t] \in Seq(Frames)
      /\ q \in DOMAIN made /\ made[q].task = t /\ ~made[q].ended
  <2>1. entered[t][m] \in Frames /\ entered[t] \in Seq(Frames)
    BY <1>f, <1>m, LastFrame DEF OperationInv, OperationTypes
  <2> QED BY <1>f, <1>m, <1>q, <2>1, LastFrame DEF Target, Frames
<1>2. /\ OfCall(t, y) /\ y.ended /\ (propagate => y.sent) /\ Record(Target(t), y)
  <2>1. IsSent(Last(entered[t]).form) \in BOOLEAN /\ (propagate => IsSent(Last(entered[t]).form))
    BY <1>1 DEF IsSent, OperationInv, OperationTypes
  <2>2. y \in MadeSpans /\ y.ended /\ y.sent = IsSent(Last(entered[t]).form)
        /\ y.task = x.task /\ y.number = x.number /\ y.parent = x.parent /\ y.input = x.input
        /\ y.output = x.output /\ y.error = x.error /\ y.events = x.events
    BY <1>y, <2>1 DEF OfCall, MadeSpans
  <2> QED BY <1>y, <2>1, <2>2 DEF OfCall, EndCall
<1>3. /\ made' \in Seq(MadeSpans) /\ DOMAIN made' = DOMAIN made /\ made'[q] = y
      /\ \A s \in DOMAIN made : s # q => made'[s] = made[s]
      /\ \A s \in DOMAIN made : /\ made'[s].task = made[s].task /\ made'[s].number = made[s].number
                             /\ made'[s].parent = made[s].parent
  BY <1>f, <1>q, <1>2, Written
<1>4. /\ entered'[t] \in Seq(Frames) /\ DOMAIN entered'[t] = 1..(m - 1)
      /\ \A i \in 1..(m - 1) : entered'[t][i] = entered[t][i]
      /\ \A u \in Tasks : u # t => entered'[u] = entered[u]
      /\ entered' \in [Tasks -> Seq(Frames)]
  <2>1. entered' = [entered EXCEPT ![t] = Front(@)] /\ entered \in [Tasks -> Seq(Frames)]
    BY DEF EndCall, OperationInv, OperationTypes
  <2>2. Front(entered[t]) = [i \in 1..(m - 1) |-> entered[t][i]]
    BY <1>1, <1>m DEF Front
  <2>3. Front(entered[t]) \in Seq(Frames)
    BY <1>1, <1>m, SubSeqProperties DEF Front
  <2> QED BY <2>1, <2>2, <2>3
<1>5. OperationTypes'
  BY <1>f, <1>3, <1>4 DEF OperationInv, OperationTypes
<1>6. ASSUME NEW u \in Tasks, NEW i \in DOMAIN entered'[u]
      PROVE  /\ i \in DOMAIN entered[u] /\ entered'[u][i] = entered[u][i] /\ entered[u][i].span # q
             /\ i # 1 => entered'[u][i - 1] = entered[u][i - 1]
  <2>1. DOMAIN entered[u] = 1..Len(entered[u])
    BY LenProperties DEF OperationInv, OperationTypes
  <2>2. i \in DOMAIN entered[u] /\ entered'[u][i] = entered[u][i] /\ ~(u = t /\ i = m)
        /\ (i # 1 => entered'[u][i - 1] = entered[u][i - 1])
    BY <1>1, <1>4, <1>6, <2>1
  <2>3. entered[u][i].span # q
    BY <1>1, <2>2, FramesApart
  <2> QED BY <2>2, <2>3
<1>7. \A u \in Tasks : Stacked(u)'
  <2> SUFFICES ASSUME NEW u \in Tasks PROVE Stacked(u)'
    OBVIOUS
  <2>1. ASSUME NEW i \in DOMAIN entered'[u] PROVE FrameFits(u, i)'
    <3>1. FrameFits(u, i)
      BY <1>6, <2>1 DEF OperationInv, Stacked
    <3>2. made'[entered[u][i].span] = made[entered[u][i].span]
      BY <1>3, <1>6, <2>1, <3>1 DEF FrameFits
    <3> QED BY <1>f, <1>3, <1>6, <2>1, <3>1, <3>2 DEF FrameFits
  <2>2. ASSUME NEW i \in DOMAIN entered'[u], NEW j \in DOMAIN entered'[u], i < j
        PROVE  entered'[u][i].number < entered'[u][j].number
    BY <1>6, <2>2 DEF OperationInv, Stacked
  <2> QED BY <2>1, <2>2 DEF Stacked
<1>8. ASSUME NEW s \in DOMAIN made' PROVE OwnSpan(s)'
  <2>1. PICK z : z = made'[s]
    OBVIOUS
  <2>2. OwnSpan(s) /\ s \in DOMAIN made /\ made[s].task \in Tasks
    BY <1>3, MadeTypes DEF OperationInv
  <2>3. Told(z)'
    <3>1. CASE s = q
      BY <1>f, <1>2, <1>3, <2>1, <2>2, <3>1 DEF OfCall, Told, OwnSpan
    <3>2. CASE s # q
      BY <1>f, <1>3, <2>1, <2>2, <3>2 DEF Told, OwnSpan
    <3> QED BY <3>1, <3>2
  <2>4. ASSUME ~z.ended
        PROVE  /\ s # q /\ ~made[s].ended
               /\ \E i \in DOMAIN entered'[z.task] : entered'[z.task][i].span = s
               /\ made[s].parent # q
    <3>1. s # q /\ z = made[s]
      BY <1>2, <1>3, <2>1, <2>2, <2>4
    <3>2. PICK i \in DOMAIN entered[z.task] : entered[z.task][i].span = s
      BY <2>2, <2>4, <3>1 DEF OwnSpan
    <3>3. DOMAIN entered[z.task] = 1..Len(entered[z.task]) /\ Len(entered[z.task]) \in Nat
      BY <2>2, <3>1, LenProperties DEF OperationInv, OperationTypes
    <3>4. i \in DOMAIN entered'[z.task] /\ entered'[z.task][i] = entered[z.task][i]
      BY <1>1, <1>4, <2>2, <3>1, <3>2
    <3>5. made[s].parent # q
      <4> SUFFICES ASSUME made[s].parent = q PROVE FALSE
        OBVIOUS
      <4>1. FrameFits(z.task, i)
        BY <2>2, <3>1, <3>2 DEF OperationInv, Stacked
      <4>2. q # NoSpan
        BY <1>1, MadeTypes, SpanAssumption
      <4>3. i # 1 /\ entered[z.task][i - 1].span = q
        BY <3>1, <3>2, <4>1, <4>2 DEF FrameFits
      <4>4. i - 1 \in DOMAIN entered[z.task]
        BY <3>2, <3>3, <4>3
      <4>5. z.task = t /\ i - 1 = m
        BY <1>1, <2>2, <3>1, <4>3, <4>4, FramesApart
      <4> QED BY <1>1, <3>2, <3>3, <4>5
    <3> QED BY <2>4, <3>1, <3>2, <3>4, <3>5
  <2>5. z.parent # NoSpan => InParent(z)'
    <3> SUFFICES ASSUME z.parent # NoSpan PROVE InParent(z)'
      OBVIOUS
    <3>1. InParent(made[s]) /\ z.parent = made[s].parent /\ z.task = made[s].task /\ z.number = made[s].number
      BY <1>3, <2>1, <2>2 DEF OwnSpan
    <3>2. CASE z.ended
      BY <1>3, <3>1, <3>2 DEF InParent
    <3>3. CASE ~z.ended
      BY <1>3, <2>4, <3>1, <3>3 DEF InParent
    <3> QED BY <3>2, <3>3
  <2> QED BY <2>1, <2>3, <2>4, <2>5 DEF OwnSpan
<1> QED BY <1>5, <1>7, <1>8 DEF OperationInv

LEMMA OperationStep == OperationInv /\ [OperationNext]_operated => OperationInv'
<1> SUFFICES ASSUME OperationInv, [OperationNext]_operated PROVE OperationInv'
  OBVIOUS
<1>1. CASE UNCHANGED operated
  BY <1>1 DEF operated, OperationInv, OperationTypes, Stacked, FrameFits, OwnSpan, Told, InParent
<1>2. ASSUME NEW t \in Tasks, NEW form \in Forms, BeginCall(t, form) PROVE OperationInv'
  BY <1>2, CallBeginKeeps
<1>3. ASSUME NEW t \in Tasks, SetInput(t) \/ SetOutput(t) PROVE OperationInv'
  <2>1. entered[t] # <<>> /\ Last(entered[t]).number = made[Target(t)].number /\ made[Target(t)].number \in Nat
    BY <1>3, LastFrame DEF SetInput, SetOutput, MadeSpans
  <2>2. PICK x : /\ x = [made[Target(t)] EXCEPT !.input = Last(entered[t]).number]
                    \/ x = [made[Target(t)] EXCEPT !.output = Last(entered[t]).number]
                 /\ Record(Target(t), x) /\ UNCHANGED <<propagate, op, entered, begun>>
    BY <1>3 DEF SetInput, SetOutput
  <2>3. OfCall(t, x) /\ ~x.ended /\ ~x.sent
    BY <2>1, <2>2, TargetIsOfCall DEF OfCall, MadeSpans
  <2> QED BY <2>1, <2>2, <2>3, TellingKeeps
<1>4. ASSUME NEW t \in Tasks, Return(t) PROVE OperationInv'
  <2>1. entered[t] # <<>> /\ Last(entered[t]).number = made[Target(t)].number /\ made[Target(t)].number \in Nat
    BY <1>4, LastFrame DEF Return, EndCall, MadeSpans
  <2>2. PICK x : /\ x = [made[Target(t)] EXCEPT !.output =
                            IF Last(entered[t]).form = "decorated" THEN Last(entered[t]).number ELSE @]
                 /\ EndCall(t, x)
    BY <1>4 DEF Return
  <2>3. OfCall(t, x)
    BY <2>1, <2>2, TargetIsOfCall DEF OfCall, MadeSpans
  <2> QED BY <2>2, <2>3, EndKeeps
<1>5. ASSUME NEW t \in Tasks, NEW k \in Nat, EndCall(t, Failed(t, k)) PROVE OperationInv'
  <2>1. entered[t] # <<>>
    BY <1>5 DEF EndCall
  <2>2. PICK x : x = [made[Target(t)] EXCEPT !.error = k > 0, !.events = k] /\ EndCall(t, x)
    BY <1>5 DEF Failed
  <2>3. made[Target(t)] \in MadeSpans /\ OfCall(t, made[Target(t)])
    BY <2>1, LastFrame, TargetIsOfCall
  <2>4. x \in MadeSpans /\ x.error = (k > 0) /\ x.events = k /\ x.task = made[Target(t)].task
        /\ x.number = made[Target(t)].number /\ x.parent = made[Target(t)].parent
        /\ x.input = made[Target(t)].input /\ x.output = made[Target(t)].output
    <3>1. (k > 0) \in BOOLEAN
      OBVIOUS
    <3> QED BY <1>5, <2>2, <2>3, <3>1 DEF MadeSpans
  <2>5. ~(x.error /\ x.events = 0)
    <3>1. k = 0 => (k > 0) = FALSE
      BY <1>5
    <3>2. k = 0 => x.error = FALSE
      BY <2>4, <3>1, Zenon
    <3> QED BY <2>4, <3>2
  <2>6. OfCall(t, x)
    BY <2>3, <2>4, <2>5 DEF OfCall
  <2> QED BY <2>2, <2>6, EndKeeps
<1>6. ASSUME NEW t \in Tasks, Raise(t) \/ Cancel(t) PROVE OperationInv'
  BY <1>5, <1>6 DEF Raise, Cancel
<1> QED BY <1>1, <1>2, <1>3, <1>4, <1>6 DEF OperationNext

\* Whatever the number of tasks and calls and however these interleave, end or
\* are cancelled, each has a span of its own, which is told of that call only,
\* ends before that of the call around it and is sent when it has.
THEOREM SpansApart == OperationSpec => []CallsAreApart
<1>1. OperationInv => CallsAreApart
  <2> SUFFICES ASSUME OperationInv, NEW s \in DOMAIN made
               PROVE  /\ made[s].ended = ({i \in DOMAIN entered[made[s].task] : entered[made[s].task][i].span = s} = {})
                      /\ made[s].sent => made[s].ended
                      /\ made[s].ended /\ propagate => made[s].sent
                      /\ {made[s].input, made[s].output} \subseteq {NoValue, made[s].number}
                      /\ ~(made[s].error /\ made[s].events = 0)
                      /\ made[s].parent # NoSpan =>
                           /\ made[made[s].parent].task = made[s].task
                           /\ made[made[s].parent].number < made[s].number
                           /\ made[made[s].parent].ended => made[s].ended
    BY DEF CallsAreApart
  <2>1. OwnSpan(s) /\ made[s].ended \in BOOLEAN /\ made[s].task \in Tasks
    BY MadeTypes DEF OperationInv
  <2>2. \A i \in DOMAIN entered[made[s].task] : entered[made[s].task][i].span = s => ~made[s].ended
    BY <2>1 DEF OperationInv, Stacked, FrameFits
  <2>3. made[s].ended = ({i \in DOMAIN entered[made[s].task] : entered[made[s].task][i].span = s} = {})
    BY <2>1, <2>2 DEF OwnSpan
  <2> QED BY <2>1, <2>3 DEF OwnSpan, Told, InParent
<1> QED BY OperationsBegin, OperationStep, <1>1, PTL DEF OperationSpec

-----------------------------------------------------------------------------
(* Tracing: what the route makes of a request. *)

\* last, on 0..n.
Counts(f, spans, numbers, n) ==
  f = [k \in 0..n |-> IF k = 0 THEN numbers ELSE Counted(f[k - 1], spans[k])]

LEMMA CountsMeans ==
  ASSUME NEW f, NEW spans, NEW numbers, NEW n \in Nat, Counts(f, spans, numbers, n)
  PROVE  /\ f[0] = numbers
         /\ \A k \in 1..n : f[k] = Counted(f[k - 1], spans[k])
<1>1. \A k \in 0..n : f[k] = IF k = 0 THEN numbers ELSE Counted(f[k - 1], spans[k])
  BY Zenon DEF Counts
<1>2. 0 \in 0..n /\ \A k \in 1..n : k \in 0..n /\ k # 0
  OBVIOUS
<1> QED BY <1>1, <1>2, Zenon

LEMMA CountsExists ==
  ASSUME NEW spans, NEW numbers, NEW n \in Nat
  PROVE  \E f : Counts(f, spans, numbers, n)
<1> DEFINE Good == {k \in Nat : \E f : Counts(f, spans, numbers, k)}
<1>1. 0 \in Good
  <2> DEFINE f == [i \in 0..0 |-> numbers]
  <2>1. Counts(f, spans, numbers, 0)
    BY DEF Counts
  <2> QED BY <2>1
<1>2. ASSUME NEW k \in 1..n, k - 1 \in Good
      PROVE  k \in Good
  <2>1. PICK f : Counts(f, spans, numbers, k - 1)
    BY <1>2
  <2> DEFINE Step(g, i) == IF i = 0 THEN numbers ELSE Counted(g[i - 1], spans[i])
  <2> DEFINE g == [i \in 0..k |-> IF i = k THEN Step(f, k) ELSE f[i]]
  <2>2. g[k] = Step(f, k) /\ \A i \in 0..(k - 1) : g[i] = f[i] /\ i \in 0..k
    OBVIOUS
  <2>3. \A i \in 0..(k - 1) : f[i] = Step(f, i)
    BY <2>1, Zenon DEF Counts
  <2>4. g = [i \in 0..k |-> g[i]]
    OBVIOUS
  <2> HIDE DEF g
  <2>5. \A i \in 0..k : g[i] = Step(g, i)
    <3> SUFFICES ASSUME NEW i \in 0..k PROVE g[i] = Step(g, i)
      OBVIOUS
    <3>1. i = k \/ i \in 0..(k - 1)
      OBVIOUS
    <3>2. i # 0 => g[i - 1] = f[i - 1]
      <4>1. i # 0 => i - 1 \in 0..(k - 1)
        OBVIOUS
      <4> QED BY <2>2, <4>1
    <3>3. Step(g, i) = Step(f, i)
      BY <3>2, Zenon
    <3> HIDE DEF Step
    <3> QED BY <2>2, <2>3, <3>1, <3>3
  <2>6. Counts(g, spans, numbers, k)
    BY <2>4, <2>5, Zenon DEF Counts
  <2> QED BY <2>6
<1>3. n \in 0..n
  OBVIOUS
<1> HIDE DEF Good
<1>4. n \in Good
  BY <1>1, <1>2, <1>3, Induction
<1> QED BY <1>4 DEF Good

LEMMA IssuedIs ==
  ASSUME NEW T, NEW spans \in Seq(T), NEW numbers
  PROVE  \E f : /\ Counts(f, spans, numbers, Len(spans))
                /\ Len(Issued(spans, numbers)) = Len(spans)
                /\ \A i \in DOMAIN spans : Issued(spans, numbers)[i] = WithNumber(spans[i], f[i][spans[i].rollout])
<1> DEFINE f == CHOOSE g : Counts(g, spans, numbers, Len(spans))
<1>1. Counts(f, spans, numbers, Len(spans))
  BY CountsExists
<1>2. Issued(spans, numbers) = [i \in DOMAIN spans |-> WithNumber(spans[i], f[i][spans[i].rollout])]
  BY Zenon DEF Issued, Counts
<1> HIDE DEF f
<1>3. DOMAIN spans = 1..Len(spans) /\ Len(spans) \in Nat
  OBVIOUS
<1>4. Len(Issued(spans, numbers)) = Len(spans)
  BY <1>2, <1>3
<1>5. \A i \in DOMAIN spans : Issued(spans, numbers)[i] = WithNumber(spans[i], f[i][spans[i].rollout])
  BY <1>2
<1> QED BY <1>1, <1>4, <1>5

Open(spans, r, n) == {i \in 1..n : spans[i].rollout = r /\ spans[i].number = ToBeIssued}

LEMMA OpenGrows ==
  ASSUME NEW spans, NEW r, NEW n \in Nat
  PROVE  /\ Cardinality(Open(spans, r, n)) \in Nat
         /\ Cardinality(Open(spans, r, 0)) = 0
         /\ spans[n + 1].rollout = r /\ spans[n + 1].number = ToBeIssued =>
              Cardinality(Open(spans, r, n + 1)) = Cardinality(Open(spans, r, n)) + 1
         /\ ~(spans[n + 1].rollout = r /\ spans[n + 1].number = ToBeIssued) =>
              Open(spans, r, n + 1) = Open(spans, r, n)
<1>1. IsFiniteSet(Open(spans, r, n))
  <2>1. IsFiniteSet(1..n)
    BY FS_Interval, 1 \in Int, n \in Int
  <2>2. Open(spans, r, n) \in SUBSET (1..n)
    BY DEF Open
  <2> QED BY <2>1, <2>2, FS_Subset
<1>2. Cardinality(Open(spans, r, n)) \in Nat
  BY <1>1, FS_CardinalityType
<1>3. Cardinality(Open(spans, r, 0)) = 0
  <2>1. Open(spans, r, 0) = {}
    BY DEF Open
  <2> QED BY <2>1, FS_EmptySet
<1>4. n + 1 \notin Open(spans, r, n) /\ \A i : i \in 1..(n + 1) <=> i \in 1..n \/ i = n + 1
  BY DEF Open
<1>5. ASSUME spans[n + 1].rollout = r, spans[n + 1].number = ToBeIssued
      PROVE  Cardinality(Open(spans, r, n + 1)) = Cardinality(Open(spans, r, n)) + 1
  <2>1. Open(spans, r, n + 1) = Open(spans, r, n) \cup {n + 1}
    BY <1>4, <1>5, Zenon DEF Open
  <2> QED BY <1>1, <1>4, <2>1, FS_AddElement
<1>6. ASSUME ~(spans[n + 1].rollout = r /\ spans[n + 1].number = ToBeIssued)
      PROVE  Open(spans, r, n + 1) = Open(spans, r, n)
  BY <1>4, <1>6, Zenon DEF Open
<1> QED BY <1>2, <1>3, <1>5, <1>6

\* The counter of a rollout has moved by the numbers issued for it.
LEMMA CountsAreOpen ==
  ASSUME NEW R, NEW spans, NEW l \in Nat, \A k \in 1..l : spans[k].rollout \in R,
         NEW numbers \in [R -> Nat], NEW f, Counts(f, spans, numbers, l)
  PROVE  \A n \in 0..l : \A r \in R : f[n][r] = numbers[r] + Cardinality(Open(spans, r, n))
<1>1. /\ f[0] = numbers
      /\ \A k \in 1..l : f[k] = Counted(f[k - 1], spans[k])
  BY CountsMeans
<1> DEFINE Good == {k \in Nat : /\ f[k] \in [R -> Nat]
                              /\ \A r \in R : f[k][r] = numbers[r] + Cardinality(Open(spans, r, k))}
<1>3. 0 \in Good
  <2>1. \A r \in R : Cardinality(Open(spans, r, 0)) = 0
    BY OpenGrows
  <2> QED BY <1>1, <2>1
<1>4. ASSUME NEW k \in 1..l, k - 1 \in Good
      PROVE  k \in Good
  <2> PICK m \in Nat : m = k - 1
    OBVIOUS
  <2>1. k = m + 1 /\ k \in Nat
    OBVIOUS
  <2>2. PICK g \in [R -> Nat] : g = f[m]
    BY <1>4
  <2>3. \A r \in R : g[r] = numbers[r] + Cardinality(Open(spans, r, m))
    BY <1>4, <2>2
  <2> PICK x \in R : x = spans[k].rollout
    OBVIOUS
  <2>4. f[k] = IF spans[k].number # ToBeIssued THEN g ELSE [g EXCEPT ![x] = @ + 1]
    BY <1>1, <2>1, <2>2 DEF Counted
  <2>5. f[k] \in [R -> Nat]
    BY <2>4
  <2>6. ASSUME NEW r \in R
        PROVE  f[k][r] = numbers[r] + Cardinality(Open(spans, r, k))
    <3>1. PICK c \in Nat : c = Cardinality(Open(spans, r, m))
      BY OpenGrows
    <3>2. /\ x = r /\ spans[k].number = ToBeIssued => Cardinality(Open(spans, r, k)) = c + 1
          /\ ~(x = r /\ spans[k].number = ToBeIssued) => Cardinality(Open(spans, r, k)) = c
      BY <2>1, <3>1, OpenGrows
    <3>3. g[r] = numbers[r] + c /\ numbers[r] \in Nat
      BY <2>3, <3>1
    <3>4. CASE x = r /\ spans[k].number = ToBeIssued
      <4>1. f[k][r] = g[r] + 1
        BY <2>4, <3>4
      <4> QED BY <3>2, <3>3, <3>4, <4>1
    <3>5. CASE ~(x = r /\ spans[k].number = ToBeIssued)
      <4>1. f[k][r] = g[r]
        BY <2>4, <3>5
      <4> QED BY <3>2, <3>3, <3>5, <4>1
    <3> QED BY <3>4, <3>5
  <2> QED BY <2>1, <2>5, <2>6
<1> HIDE DEF Good
<1>5. 0..l \subseteq Good
  BY <1>3, <1>4, Induction
<1> QED BY <1>5 DEF Good

\* The numbers that a request lacks are issued without a gap or a repetition,
\* in the order of the spans and on from each rollout's last number, and the
\* other numbers stay, whatever the groups, spans, ids and numbers of the
\* request.  utils/otlp.py, spans_from_proto.
THEOREM RequestsNumbered ==
  ASSUME NEW R, NEW A, NEW request, NEW numbers \in [R -> Nat],
         Parsed(request) \in Seq([rollout : R, attempt : A, number : Int])
  PROVE  RequestIsNumbered(request, numbers)
<1>r. PICK T : T = [rollout : R, attempt : A, number : Int]
  OBVIOUS
<1>s. PICK spans \in Seq(T) : spans = Parsed(request)
  BY <1>r
<1>n. PICK n \in Nat : n = Len(spans) /\ DOMAIN spans = 1..n
  OBVIOUS
<1>t. \A i \in 1..n : spans[i].rollout \in R
  <2>1. \A i \in 1..n : spans[i] \in T
    BY <1>n, ElementOfSeq, Zenon
  <2> QED BY <1>r, <2>1
<1>1. PICK f : /\ Counts(f, spans, numbers, Len(spans))
               /\ Len(Issued(spans, numbers)) = Len(spans)
               /\ \A i \in DOMAIN spans : Issued(spans, numbers)[i] = WithNumber(spans[i], f[i][spans[i].rollout])
  BY IssuedIs
<1>2. Counts(f, spans, numbers, n)
  BY <1>1, <1>n
<1>3. ASSUME NEW i \in DOMAIN spans
      PROVE  f[i][spans[i].rollout] = numbers[spans[i].rollout] + Cardinality(Open(spans, spans[i].rollout, i))
  <2>1. i \in 0..n /\ spans[i].rollout \in R
    BY <1>n, <1>t
  <2>2. \A r \in R : f[i][r] = numbers[r] + Cardinality(Open(spans, r, i))
    BY <1>2, <1>t, <2>1, CountsAreOpen
  <2> QED BY <2>1, <2>2
<1>4. ASSUME NEW i \in DOMAIN spans
      PROVE  Issued(spans, numbers)[i] =
               WithNumber(spans[i], numbers[spans[i].rollout] + Cardinality(Open(spans, spans[i].rollout, i)))
  BY <1>1, <1>3, Zenon
<1> QED BY <1>s, <1>1, <1>4, Zenon DEF RequestIsNumbered, Open

\* A request of one span, as the exporter sends it.
LEMMA OneIsKept ==
  ASSUME NEW x, NEW S, x \in S
  PROVE  Only(<<x>>, S) = <<x>>
<1> DEFINE T == {x}
<1>1. <<>> \in Seq(T) /\ x \in T /\ <<x>> = Append(<<>>, x)
  OBVIOUS
<1>2. Only(<<>>, S) \in Seq(T) /\ Len(Only(<<>>, S)) <= Len(<<>>)
  BY <1>1, OnlyProperties
<1>3. Only(<<>>, S) = <<>>
  BY <1>2
<1>4. Only(Append(<<>>, x), S) = IF x \in S THEN Append(Only(<<>>, S), x) ELSE Only(<<>>, S)
  BY <1>1, OnlyExtends
<1> QED BY <1>1, <1>3, <1>4

LEMMA OneIsFlat ==
  ASSUME NEW s, NEW t, s = <<t>>
  PROVE  FlattenSeq(s) = t
<1>1. Len(s) = 1 /\ s[1] = t /\ 1..1 = {1}
  OBVIOUS
<1> DEFINE Flat(f) == f = [i \in 1..Len(s) |-> IF i = 1 THEN s[i] ELSE f[i - 1] \o s[i]]
<1>2. \E f : Flat(f)
  <2> DEFINE g == [i \in {1} |-> t]
  <2>1. Flat(g)
    BY <1>1
  <2> QED BY <2>1
<1>3. Flat(CHOOSE f : Flat(f))
  BY <1>2
<1>4. FlattenSeq(s) = (CHOOSE f : Flat(f))[1]
  <2>1. Len(s) # 0
    BY <1>1
  <2>2. FlattenSeq(s) = (CHOOSE f : Flat(f))[Len(s)]
    BY <2>1, Zenon DEF FlattenSeq
  <2> QED BY <1>1, <2>2, Zenon
<1> QED BY <1>1, <1>3, <1>4

LEMMA ExportedSpan ==
  ASSUME NEW r, NEW a, r # NoId, a # NoId, NEW n \in Nat,
         NEW request,
         request = << [ids |-> [rollout |-> r, attempt |-> a, number |-> Absent],
                       spans |-> << [rollout |-> NoId, attempt |-> NoId, number |-> Absent] >>] >>
  PROVE  Answer("protobuf", [kind |-> "request", request |-> request], [q \in {r} |-> n]).spans[1] =
           [rollout |-> r, attempt |-> a, number |-> n + 1]
<1> PICK x : x = [rollout |-> r, attempt |-> a, number |-> ToBeIssued]
  OBVIOUS
<1>1. /\ DOMAIN request = {1} /\ DOMAIN request[1].spans = {1}
      /\ SpanOf(request[1].ids, request[1].spans[1]) = x
  BY DEF SpanOf, Own, Given, Absent, ToBeIssued
<1>2. [g \in DOMAIN request |-> [i \in DOMAIN request[g].spans |-> SpanOf(request[g].ids, request[g].spans[i])]]
        = << <<x>> >>
  BY <1>1
<1>3. Parsed(request) = <<x>>
  <2>1. FlattenSeq([g \in DOMAIN request |->
          [i \in DOMAIN request[g].spans |-> SpanOf(request[g].ids, request[g].spans[i])]]) = <<x>>
    BY <1>2, OneIsFlat
  <2>2. x \in {span \in Range(<<x>>) : HasIds(span)}
    BY DEF HasIds, Range
  <2> QED BY <2>1, <2>2, OneIsKept DEF Parsed
<1> PICK numbers : numbers = [q \in {r} |-> n]
  OBVIOUS
<1>4. PICK f : /\ Counts(f, <<x>>, numbers, Len(<<x>>))
               /\ Len(Issued(<<x>>, numbers)) = Len(<<x>>)
               /\ \A i \in DOMAIN <<x>> : Issued(<<x>>, numbers)[i] = WithNumber(<<x>>[i], f[i][<<x>>[i].rollout])
  <2>1. PICK T, s : T = {x} /\ s = <<x>>
    OBVIOUS
  <2>2. s \in Seq(T)
    BY <2>1
  <2>3. \E f : /\ Counts(f, s, numbers, Len(s))
                /\ Len(Issued(s, numbers)) = Len(s)
                /\ \A i \in DOMAIN s : Issued(s, numbers)[i] = WithNumber(s[i], f[i][s[i].rollout])
    BY <2>2, IssuedIs
  <2> QED BY <2>1, <2>3, Zenon
<1>5. f[1] = Counted(numbers, x)
  <2>1. Len(<<x>>) = 1 /\ 1 \in Nat /\ 1 \in 1..1 /\ <<x>>[1] = x
    OBVIOUS
  <2>2. f[0] = numbers /\ f[1] = Counted(f[0], <<x>>[1])
    BY <1>4, <2>1, CountsMeans
  <2> QED BY <2>1, <2>2
<1>6. Issued(<<x>>, numbers)[1] = WithNumber(x, f[1][r])
  BY <1>4
<1>7. f[1][r] = n + 1
  BY <1>5 DEF Counted
<1>8. WithNumber(x, n + 1) = [rollout |-> r, attempt |-> a, number |-> n + 1]
  BY DEF WithNumber
<1> QED BY <1>3, <1>6, <1>7, <1>8 DEF Answer

-----------------------------------------------------------------------------
(* Tracing: the two ways to the store. *)

Ids == Nat \cup {NoId}
IdPairs == [rollout : Ids, attempt : Ids]
Ends == {"open", "read", "submit", "wait", "keep", "export", "done"}
EndRecords == [pc : Ends, rollout : Ids, steady : BOOLEAN, in : Ids]
Submissions == [span : Threads, rollout : Ids, attempt : Ids]
Arrivals == [span : Threads, rollout : Ids, attempt : Ids, number : Nat]

TraceTypes ==
  /\ otlp \in BOOLEAN /\ silent \in BOOLEAN
  /\ context \in [open : BOOLEAN, pc : {"closed", "attempt", "enter", "open"}, number : Nat]
  /\ current \in IdPairs /\ exporter \in IdPairs
  /\ ending \in [Threads -> EndRecords]
  /\ submitted \subseteq Submissions
  /\ arrived \in Seq(Arrivals)

\* Within a context, the processor or the exporter has its ids, and the other
\* one is kept from submitting.
ContextHolds ==
  /\ context.open => context.pc = "open"
  /\ current = IF context.open THEN IdsOf(context.number) ELSE NoIds
  /\ context.open \/ context.pc \in {"attempt", "enter"} => silent = otlp
  /\ ~otlp => exporter = NoIds
  /\ otlp /\ context.pc \in {"attempt", "enter"} => exporter.rollout = context.number
  /\ otlp /\ (context.open \/ context.pc = "enter") => exporter = IdsOf(context.number)

\* The store has not been told of a span, or once and of this attempt.
Untold(t) ==
  /\ \A c \in submitted : c.span # t
  /\ \A i \in DOMAIN arrived : arrived[i].span # t
ToldOnce(t, n) ==
  /\ \A c \in submitted : c.span = t => c = [span |-> t, rollout |-> n, attempt |-> n]
  /\ \A i \in DOMAIN arrived : arrived[i].span = t =>
       /\ arrived[i].attempt = n
       /\ \A c \in submitted : c.span # t
       /\ \A j \in DOMAIN arrived : arrived[j].span = t => i = j

\* A span that began to end in a context that has not changed since.
SteadyHolds(t) ==
  LET n == ending[t].in IN
  /\ n \in Nat /\ n <= context.number /\ (context.pc \in {"attempt", "enter"} => n < context.number)
  /\ ending[t].pc # "done" => context.open /\ n = context.number
  /\ ToldOnce(t, n)
  /\ otlp => ending[t].pc \notin {"read", "submit", "wait"} /\ (ending[t].pc # "done" => Untold(t))
  /\ ending[t].pc = "submit" => ending[t].rollout = n
  /\ ending[t].pc \in {"export", "done"} /\ context.number = n => t \in buffer

SpanHolds(t) ==
  /\ ending[t].pc \in {"open", "read", "submit"} => Untold(t)
  /\ ending[t].steady /\ ending[t].pc # "open" => SteadyHolds(t)

TraceInv == TraceTypes /\ ContextHolds /\ \A t \in Threads : SpanHolds(t)

LEMMA TraceStarts == TraceInit => TraceInv
<1> SUFFICES ASSUME TraceInit PROVE TraceInv
  OBVIOUS
<1>1. NoIds \in IdPairs
  BY DEF NoIds, IdPairs, Ids
<1>2. \A t \in Threads : ending[t] = [pc |-> "open", rollout |-> NoId, steady |-> FALSE, in |-> NoId]
  BY DEF TraceInit
<1>3. ending \in [Threads -> EndRecords]
  <2>1. [pc |-> "open", rollout |-> NoId, steady |-> FALSE, in |-> NoId] \in EndRecords
    BY DEF EndRecords, Ends, Ids
  <2> QED BY <2>1 DEF TraceInit
<1>4. context = [open |-> FALSE, pc |-> "closed", number |-> 0] /\ arrived = <<>> /\ submitted = {}
  BY DEF TraceInit
<1>5. TraceTypes
  <2>1. <<>> \in Seq(Arrivals)
    OBVIOUS
  <2>2. context \in [open : BOOLEAN, pc : {"closed", "attempt", "enter", "open"}, number : Nat]
    BY <1>4
  <2> QED BY <1>1, <1>3, <1>4, <2>1, <2>2 DEF TraceInit, TraceTypes
<1>6. ContextHolds
  BY <1>4 DEF TraceInit, ContextHolds
<1>7. \A t \in Threads : SpanHolds(t)
  BY <1>2, <1>4 DEF SpanHolds, Untold
<1> QED BY <1>5, <1>6, <1>7 DEF TraceInv

LEMMA ToldStays ==
  ASSUME UNCHANGED <<submitted, arrived>>, NEW t, NEW n
  PROVE  (Untold(t)' <=> Untold(t)) /\ (ToldOnce(t, n)' <=> ToldOnce(t, n))
BY DEF Untold, ToldOnce

\* What was told stays told once; nothing is told of a span but what its own
\* call or export tells.
LEMMA SpanStays ==
  ASSUME NEW t, SpanHolds(t), ending'[t] = ending[t], context'.number = context.number,
         context' = context, otlp' = otlp, t \in buffer => t \in buffer',
         Untold(t) => Untold(t)',
         \A n : ToldOnce(t, n) => ToldOnce(t, n)'
  PROVE  SpanHolds(t)'
BY DEF SpanHolds, SteadyHolds

\* The context is opened for another attempt, or for none, or closed.
LEMMA ContextsPreserve ==
  ASSUME TraceInv, OpenFor \/ OpenForNone \/ Close
  PROVE  TraceInv'
<1> PICK n \in Nat : n = context.number
  BY DEF TraceInv, TraceTypes
<1>1. /\ ending' = Shaken /\ UNCHANGED <<otlp, submitted, arrived>>
      /\ current' = NoIds
  BY DEF OpenFor, OpenForNone, Close, TraceInv, ContextHolds
<1>c. context \in [open : BOOLEAN, pc : {"closed", "attempt", "enter", "open"}, number : Nat]
  BY DEF TraceInv, TraceTypes
<1>p. PICK m \in Nat, p \in {"closed", "attempt", "open"} :
        /\ context' = [open |-> FALSE, pc |-> p, number |-> m]
        /\ \/ m = n /\ buffer' = buffer /\ p = "closed"
           \/ m = n + 1
        /\ p = "attempt" <=> OpenFor
  <2>0. n + 1 \in Nat /\ (OpenFor => context'.pc = "attempt")
    BY DEF OpenFor
  <2>1. CASE OpenFor
    <3>1. context' = [open |-> FALSE, pc |-> "attempt", number |-> n + 1]
      BY <2>1 DEF OpenFor
    <3> QED BY <2>0, <2>1, <3>1
  <2>2. CASE OpenForNone
    <3>1. context' = [open |-> FALSE, pc |-> "open", number |-> n + 1]
      BY <2>2 DEF OpenForNone
    <3>2. ~OpenFor
      BY <2>0, <3>1
    <3> QED BY <2>0, <3>1, <3>2
  <2>3. CASE Close
    <3>1. context' = [open |-> FALSE, pc |-> "closed", number |-> n] /\ buffer' = buffer
      BY <1>c, <2>3 DEF Close
    <3>2. ~OpenFor
      BY <2>0, <3>1
    <3> QED BY <3>1, <3>2
  <2> QED BY <2>1, <2>2, <2>3
<1>2. ASSUME NEW t \in Threads
      PROVE  /\ ending'[t] \in EndRecords
             /\ ending'[t].pc = ending[t].pc /\ ending'[t].in = ending[t].in
             /\ ending[t].pc # "open" => (ending'[t].steady <=> ending[t].steady /\ ending[t].pc = "done")
  <2>1. ending[t] \in EndRecords
    BY DEF TraceInv, TraceTypes
  <2>2. ending'[t] = IF ending[t].pc = "open" THEN ending[t]
                     ELSE [ending[t] EXCEPT !.steady = @ /\ ending[t].pc = "done"]
    BY <1>1 DEF Shaken
  <2> QED BY <2>1, <2>2 DEF EndRecords
<1>3. ending' \in [Threads -> EndRecords]
  BY <1>1, <1>2 DEF Shaken
<1>4. ASSUME NEW t \in Threads
      PROVE  SpanHolds(t)'
  <2>1. SpanHolds(t)
    BY DEF TraceInv
  <2>2. ASSUME ending[t].pc = "done", ending[t].steady
        PROVE  SteadyHolds(t)'
    <3>1. SteadyHolds(t)
      BY <2>1, <2>2 DEF SpanHolds
    <3>2. PICK k \in Nat : k = ending[t].in /\ k = ending'[t].in
      BY <1>2, <3>1 DEF SteadyHolds
    <3>3. ToldOnce(t, k)'
      BY <1>1, <3>1, <3>2, ToldStays DEF SteadyHolds
    <3>4. k <= n /\ (n = k => t \in buffer)
      BY <2>2, <3>1, <3>2 DEF SteadyHolds
    <3>5. k <= m /\ (p = "attempt" => k < m) /\ (m = k => t \in buffer')
      <4>1. m = n \/ m = n + 1
        BY <1>p
      <4>2. p = "attempt" => m = n + 1
        BY <1>p
      <4> QED BY <1>p, <3>4, <4>1, <4>2
    <3>6. context'.pc = p /\ context'.number = m
      BY <1>p
    <3> QED BY <1>2, <2>2, <3>2, <3>3, <3>5, <3>6 DEF SteadyHolds
  <2>3. Untold(t)' <=> Untold(t)
    BY <1>1, ToldStays
  <2> QED BY <1>2, <2>1, <2>2, <2>3 DEF SpanHolds
<1>5. n + 1 \in Ids /\ NoIds \in IdPairs
  BY DEF Ids, NoIds, IdPairs
<1>6. /\ exporter' \in IdPairs
      /\ exporter' = IF OpenFor /\ otlp THEN [exporter EXCEPT !.rollout = n + 1] ELSE exporter
  <2>1. CASE OpenFor
    BY <1>5, <2>1 DEF OpenFor, TraceInv, TraceTypes, IdPairs
  <2>2. CASE ~OpenFor
    BY <2>2 DEF OpenForNone, Close, TraceInv, TraceTypes
  <2> QED BY <2>1, <2>2
<1>7. silent' \in BOOLEAN /\ (OpenFor => silent' = otlp)
  BY DEF OpenFor, OpenForNone, Close, TraceInv, TraceTypes, Silenced
<1>8. TraceTypes'
  <2>1. context' \in [open : BOOLEAN, pc : {"closed", "attempt", "enter", "open"}, number : Nat]
    BY <1>p
  <2> QED BY <1>1, <1>3, <1>5, <1>6, <1>7, <2>1 DEF TraceInv, TraceTypes
<1>9. ContextHolds'
  <2>1. ~context'.open /\ context'.pc = p /\ context'.number = m
    BY <1>p
  <2>2. p # "enter" /\ (p = "attempt" => OpenFor /\ m = n + 1)
    BY <1>p
  <2>3. ~otlp => exporter' = NoIds
    BY <1>6 DEF TraceInv, ContextHolds
  <2>4. otlp /\ OpenFor => exporter'.rollout = n + 1
    BY <1>6 DEF TraceInv, TraceTypes, IdPairs
  <2> QED BY <1>1, <1>7, <2>1, <2>2, <2>3, <2>4 DEF ContextHolds
<1> QED BY <1>4, <1>8, <1>9 DEF TraceInv

\* The exporter gets the attempt, and the processor both ids.
LEMMA EntersPreserve ==
  ASSUME TraceInv, PointAttempt \/ Enter
  PROVE  TraceInv'
<1> PICK n \in Nat : n = context.number
  BY DEF TraceInv, TraceTypes
<1>1. /\ UNCHANGED <<otlp, silent, ending, submitted, arrived>> /\ context'.number = n
      /\ ~context.open /\ context.pc \in {"attempt", "enter"}
  BY DEF PointAttempt, Enter, TraceInv, TraceTypes, ContextHolds
<1>2. n \in Ids
  BY DEF Ids
<1>3. context' \in [open : BOOLEAN, pc : {"closed", "attempt", "enter", "open"}, number : Nat]
  BY DEF PointAttempt, Enter, TraceInv, TraceTypes
<1>4. current' \in IdPairs /\ exporter' \in IdPairs
  BY <1>2 DEF PointAttempt, Enter, TraceInv, TraceTypes, IdPairs, IdsOf
<1>5. TraceTypes'
  BY <1>1, <1>3, <1>4 DEF TraceInv, TraceTypes
<1>6. ContextHolds'
  <2>1. CASE PointAttempt
    BY <1>1, <2>1 DEF PointAttempt, TraceInv, TraceTypes, ContextHolds, IdPairs, IdsOf
  <2>2. CASE Enter
    BY <1>1, <2>2 DEF Enter, TraceInv, TraceTypes, ContextHolds
  <2> QED BY <2>1, <2>2
<1>7. ASSUME NEW t \in Threads
      PROVE  SpanHolds(t)'
  <2>1. SpanHolds(t) /\ ending'[t] = ending[t]
    BY <1>1 DEF TraceInv
  <2>2. (Untold(t)' <=> Untold(t)) /\ \A m : ToldOnce(t, m)' <=> ToldOnce(t, m)
    BY <1>1, ToldStays
  <2>3. ASSUME SteadyHolds(t) PROVE SteadyHolds(t)'
    <3>1. PICK m \in Nat : m = ending[t].in /\ m < n
      BY <1>1, <2>3 DEF SteadyHolds
    <3>2. ending[t].pc = "done" /\ ToldOnce(t, m)'
      BY <1>1, <2>2, <2>3, <3>1 DEF SteadyHolds
    <3> QED BY <1>1, <2>1, <3>1, <3>2 DEF SteadyHolds
  <2> QED BY <2>1, <2>2, <2>3 DEF SpanHolds
<1> QED BY <1>5, <1>6, <1>7 DEF TraceInv

\* Other threads than the one that takes a step.
LEMMA OthersStay ==
  ASSUME TraceInv, NEW t \in Threads, UNCHANGED <<otlp, context, silent, current, exporter>>,
         buffer \subseteq buffer',
         NEW x \in EndRecords, ending' = [ending EXCEPT ![t] = x],
         submitted' \subseteq Submissions, arrived' \in Seq(Arrivals),
         \A u \in Threads : u # t => /\ Untold(u) => Untold(u)'
                                     /\ \A n : ToldOnce(u, n) => ToldOnce(u, n)',
         SpanHolds(t)'
  PROVE  TraceInv'
<1>1. ending' \in [Threads -> EndRecords] /\ ending'[t] = x /\ \A u \in Threads : u # t => ending'[u] = ending[u]
  BY DEF TraceInv, TraceTypes
<1>2. TraceTypes' /\ ContextHolds'
  BY <1>1 DEF TraceInv, TraceTypes, ContextHolds
<1>3. ASSUME NEW u \in Threads
      PROVE  SpanHolds(u)'
  <2>1. CASE u # t
    <3>1. SpanHolds(u) /\ ending'[u] = ending[u]
      BY <1>1, <2>1 DEF TraceInv
    <3> QED BY <2>1, <3>1, SpanStays
  <2> QED BY <2>1
<1> QED BY <1>2, <1>3 DEF TraceInv

\* on_end up to the call of the store, and after it.
LEMMA EndingsPreserve ==
  ASSUME TraceInv, NEW t \in Threads, EndSpan(t) \/ ReadRollout(t) \/ Waited(t) \/ Keep(t)
  PROVE  TraceInv'
<1> PICK e \in EndRecords : e = ending[t]
  BY DEF TraceInv, TraceTypes
<1>1. /\ UNCHANGED <<otlp, context, silent, current, exporter, submitted, arrived>>
      /\ buffer \subseteq buffer' /\ (e.pc = "keep" => t \in buffer')
  BY DEF EndSpan, ReadRollout, Waited, Keep
<1>2. \A u : (Untold(u) => Untold(u)') /\ \A n : ToldOnce(u, n) => ToldOnce(u, n)'
  BY <1>1, ToldStays
<1>3. submitted' \subseteq Submissions /\ arrived' \in Seq(Arrivals) /\ current \in IdPairs /\ SpanHolds(t)
  BY <1>1 DEF TraceInv, TraceTypes
<1>h. ContextHolds /\ context.number \in Nat
  BY DEF TraceInv, TraceTypes
<1>4. ASSUME EndSpan(t)
      PROVE  \E x \in EndRecords : ending' = [ending EXCEPT ![t] = x] /\ SpanHolds(t)'
  <2> DEFINE x == [e EXCEPT !.pc = IF ~silent /\ current # NoIds THEN "read" ELSE "keep",
                            !.steady = context.open, !.in = current.rollout]
  <2>1. /\ x \in EndRecords /\ x.steady = context.open /\ x.in = current.rollout
        /\ x.pc = IF ~silent /\ current # NoIds THEN "read" ELSE "keep"
    BY <1>3 DEF EndRecords, Ends, IdPairs, TraceInv, TraceTypes
  <2>2. ending' = [ending EXCEPT ![t] = x]
    BY <1>4 DEF EndSpan
  <2> HIDE DEF x
  <2>3. ending'[t] = x
    BY <2>2 DEF TraceInv, TraceTypes
  <2>4. e.pc = "open" /\ Untold(t)'
    BY <1>2, <1>3, <1>4 DEF EndSpan, SpanHolds
  <2>5. ASSUME context.open PROVE SteadyHolds(t)'
    <3>1. current = IdsOf(context.number) /\ silent = otlp /\ context.pc = "open"
      BY <1>h, <2>5 DEF ContextHolds
    <3>2. x.in = context.number /\ (otlp => x.pc = "keep") /\ x.pc \in {"read", "keep"}
      BY <2>1, <3>1 DEF IdsOf
    <3>3. ToldOnce(t, context.number)'
      BY <2>4 DEF Untold, ToldOnce
    <3> QED BY <1>1, <1>h, <2>1, <2>3, <2>4, <2>5, <3>1, <3>2, <3>3 DEF SteadyHolds
  <2>6. SpanHolds(t)'
    BY <2>1, <2>3, <2>4, <2>5 DEF SpanHolds
  <2> QED BY <2>1, <2>2, <2>6
<1>5. ASSUME ReadRollout(t) \/ Waited(t) \/ Keep(t)
      PROVE  \E x \in EndRecords : ending' = [ending EXCEPT ![t] = x] /\ SpanHolds(t)'
  <2>1. PICK x \in EndRecords : /\ ending' = [ending EXCEPT ![t] = x]
                             /\ x.steady = e.steady /\ x.in = e.in /\ e.pc \notin {"open", "done", "export"}
                             /\ \/ e.pc = "read" /\ x.pc = "keep" /\ current = NoIds
                                \/ e.pc = "read" /\ x.pc = "submit" /\ x.rollout = current.rollout
                                \/ e.pc = "wait" /\ x.pc = "keep"
                                \/ e.pc = "keep" /\ x.pc = "export"
    <3>1. CASE ReadRollout(t) /\ current = NoIds
      <4> DEFINE x == [e EXCEPT !.pc = "keep"]
      <4>1. x \in EndRecords /\ ending' = [ending EXCEPT ![t] = x]
        BY <3>1 DEF ReadRollout, EndRecords, Ends
      <4> QED BY <3>1, <4>1 DEF ReadRollout, EndRecords
    <3>2. CASE ReadRollout(t) /\ current # NoIds
      <4> DEFINE x == [e EXCEPT !.pc = "submit", !.rollout = current.rollout]
      <4>1. x \in EndRecords /\ ending' = [ending EXCEPT ![t] = x]
        BY <1>3, <3>2 DEF ReadRollout, EndRecords, Ends, IdPairs
      <4> QED BY <3>2, <4>1 DEF ReadRollout, EndRecords
    <3>3. CASE Waited(t)
      <4> DEFINE x == [e EXCEPT !.pc = "keep"]
      <4>1. x \in EndRecords /\ ending' = [ending EXCEPT ![t] = x]
        BY <3>3 DEF Waited, EndRecords, Ends
      <4> QED BY <3>3, <4>1 DEF Waited, EndRecords
    <3>4. CASE Keep(t)
      <4> DEFINE x == [e EXCEPT !.pc = "export"]
      <4>1. x \in EndRecords /\ ending' = [ending EXCEPT ![t] = x]
        BY <3>4 DEF Keep, EndRecords, Ends
      <4> QED BY <3>4, <4>1 DEF Keep, EndRecords
    <3> QED BY <1>5, <3>1, <3>2, <3>3, <3>4
  <2>2. ending'[t] = x
    BY <2>1 DEF TraceInv, TraceTypes
  <2>3. x.pc = "submit" => Untold(t)'
    BY <1>2, <1>3, <2>1 DEF SpanHolds
  <2>4. ASSUME x.steady PROVE SteadyHolds(t)'
    <3>1. SteadyHolds(t)
      BY <1>3, <2>1, <2>4 DEF SpanHolds
    <3>2. context.open /\ e.in = context.number /\ current = IdsOf(context.number) /\ e.in \in Nat
      BY <1>h, <2>1, <3>1 DEF SteadyHolds, ContextHolds
    <3>3. current # NoIds /\ current.rollout = e.in
      BY <3>2, TraceAssumption DEF IdsOf, NoIds
    <3>4. x.pc = "export" => t \in buffer'
      BY <1>1, <2>1
    <3>5. ToldOnce(t, e.in)' /\ (Untold(t) => Untold(t)')
      BY <1>2, <3>1 DEF SteadyHolds
    <3>6. e.pc # "done" /\ x.pc \in {"keep", "submit", "export"} /\ (e.pc = "read" <=> x.pc = "submit")
      BY <2>1, <3>3
    <3>7. otlp => e.pc # "read" /\ Untold(t)
      BY <3>1, <3>6 DEF SteadyHolds
    <3>8. context'.pc \notin {"attempt", "enter"}
      BY <1>1, <1>h, <3>2 DEF ContextHolds
    <3>9. x.pc = "submit" => x.rollout = e.in
      BY <2>1, <3>3
    <3> QED BY <1>1, <2>1, <2>2, <3>2, <3>4, <3>5, <3>6, <3>7, <3>8, <3>9 DEF SteadyHolds
  <2> QED BY <2>1, <2>2, <2>3, <2>4 DEF SpanHolds
<1>6. PICK x \in EndRecords : ending' = [ending EXCEPT ![t] = x] /\ SpanHolds(t)'
  BY <1>4, <1>5
<1> QED BY <1>1, <1>2, <1>3, <1>6, OthersStay

LEMMA SubmitPreserves ==
  ASSUME TraceInv, NEW t \in Threads, Submit(t)
  PROVE  TraceInv'
<1> PICK e \in EndRecords : e = ending[t]
  BY DEF TraceInv, TraceTypes
<1> PICK c : c = [span |-> t, rollout |-> e.rollout, attempt |-> current.attempt]
  OBVIOUS
<1>1. /\ UNCHANGED <<otlp, context, silent, current, exporter, buffer, arrived>>
      /\ submitted' = submitted \cup {c} /\ e.pc = "submit"
  BY DEF Submit
<1>2. c \in Submissions /\ c.span = t /\ submitted' \subseteq Submissions /\ arrived' \in Seq(Arrivals)
  BY <1>1 DEF TraceInv, TraceTypes, IdPairs, EndRecords, Submissions
<1>3. ASSUME NEW u \in Threads, u # t
      PROVE  (Untold(u) => Untold(u)') /\ \A n : ToldOnce(u, n) => ToldOnce(u, n)'
  BY <1>1, <1>2, <1>3 DEF Untold, ToldOnce
<1> DEFINE x == [e EXCEPT !.pc = "wait"]
<1>4. x \in EndRecords /\ x.pc = "wait" /\ x.steady = e.steady /\ x.in = e.in
  BY DEF EndRecords, Ends
<1>5. ending' = [ending EXCEPT ![t] = x]
  BY DEF Submit
<1> HIDE DEF x
<1>6. ending'[t] = x
  BY <1>5 DEF TraceInv, TraceTypes
<1>7. SpanHolds(t) /\ Untold(t) /\ ContextHolds
  BY <1>1 DEF TraceInv, SpanHolds
<1>8. ASSUME x.steady PROVE SteadyHolds(t)'
  <2>1. SteadyHolds(t)
    BY <1>1, <1>4, <1>7, <1>8 DEF SpanHolds
  <2>2. /\ context.open /\ e.in = context.number /\ e.in \in Nat /\ ~otlp
        /\ e.rollout = e.in /\ current = IdsOf(context.number) /\ context.pc = "open"
    BY <1>1, <1>7, <2>1 DEF SteadyHolds, ContextHolds
  <2>3. c = [span |-> t, rollout |-> e.in, attempt |-> e.in]
    BY <2>2 DEF IdsOf
  <2>4. ToldOnce(t, e.in)'
    BY <1>1, <1>7, <2>3 DEF ToldOnce, Untold
  <2> QED BY <1>1, <1>4, <1>6, <2>2, <2>4 DEF SteadyHolds
<1>9. SpanHolds(t)'
  BY <1>4, <1>6, <1>8 DEF SpanHolds
<1> QED BY <1>1, <1>2, <1>3, <1>4, <1>5, <1>9, OthersStay

LEMMA OneArrives ==
  ASSUME NEW T, NEW s \in Seq(T), NEW l \in Nat, l = Len(s), NEW y \in T, NEW r, r = Append(s, y)
  PROVE  r \in Seq(T) /\ DOMAIN r = 1..(l + 1) /\ (\A i \in 1..l : r[i] = s[i]) /\ r[l + 1] = y
OBVIOUS

\* The store runs a call, and adds the span or refuses it or fails.
LEMMA RunCallPreserves ==
  ASSUME TraceInv, NEW c \in submitted, RunCall(c)
  PROVE  TraceInv'
<1>1. /\ UNCHANGED <<otlp, context, silent, current, exporter, buffer, ending>>
      /\ submitted' = submitted \ {c} /\ c \in Submissions
  BY DEF RunCall, TraceInv, TraceTypes
<1>2. PICK l \in Nat : l = Len(arrived) /\ DOMAIN arrived = 1..l
  BY DEF TraceInv, TraceTypes
<1>3. Counter(c.rollout) \in Nat
  BY OnlyProperties DEF TraceInv, TraceTypes, Counter
<1>4. \/ arrived' = arrived
      \/ \E e \in Arrivals : /\ arrived' = Append(arrived, e)
                             /\ e.span = c.span /\ e.rollout = c.rollout /\ e.attempt = c.attempt
  <2> DEFINE e == [span |-> c.span, rollout |-> c.rollout, attempt |-> c.attempt, number |-> Counter(c.rollout) + 1]
  <2>1. e \in Arrivals
    BY <1>1, <1>3 DEF Submissions, Arrivals
  <2> QED BY <2>1 DEF RunCall, Store
<1>5. /\ arrived' \in Seq(Arrivals)
      /\ arrived' = arrived \/
           /\ DOMAIN arrived' = 1..(l + 1) /\ \A i \in 1..l : arrived'[i] = arrived[i]
           /\ arrived'[l + 1].span = c.span /\ arrived'[l + 1].attempt = c.attempt
  <2>1. arrived \in Seq(Arrivals)
    BY DEF TraceInv, TraceTypes
  <2>2. CASE arrived' # arrived
    <3>1. PICK e \in Arrivals : arrived' = Append(arrived, e) /\ e.span = c.span /\ e.attempt = c.attempt
      BY <1>4, <2>2
    <3> QED BY <1>2, <2>1, <3>1, OneArrives
  <2> QED BY <2>1, <2>2
<1>6. \A i : i \in 1..(l + 1) <=> i \in 1..l \/ i = l + 1
  OBVIOUS
<1>7. ASSUME NEW u, Untold(u)
      PROVE  Untold(u)'
  BY <1>1, <1>2, <1>5, <1>6, <1>7 DEF Untold
<1>8. ASSUME NEW u, NEW n, ToldOnce(u, n)
      PROVE  ToldOnce(u, n)'
  <2>1. CASE c.span = u
    <3>1. c.attempt = n /\ submitted' = submitted \ {c}
      BY <1>1, <1>8, <2>1 DEF ToldOnce
    <3>2. (\A d \in submitted' : d.span # u) /\ (\A i \in DOMAIN arrived : arrived[i].span # u)
      BY <1>1, <1>8, <2>1 DEF ToldOnce
    <3> QED BY <1>2, <1>5, <1>6, <3>1, <3>2 DEF ToldOnce
  <2>2. CASE c.span # u
    <3>1. \A d \in submitted' : d.span = u => d \in submitted
      BY <1>1
    <3>2. \A i \in DOMAIN arrived' : arrived'[i].span = u => i \in DOMAIN arrived /\ arrived'[i] = arrived[i]
      BY <1>2, <1>5, <1>6, <2>2
    <3> QED BY <1>1, <1>8, <3>1, <3>2 DEF ToldOnce
  <2> QED BY <2>1, <2>2
<1>9. \A t \in Threads : SpanHolds(t)'
  BY <1>1, <1>7, <1>8, SpanStays DEF TraceInv
<1>10. TraceTypes' /\ ContextHolds'
  BY <1>1, <1>5 DEF TraceInv, TraceTypes, ContextHolds
<1> QED BY <1>9, <1>10 DEF TraceInv

LEMMA ExportPreserves ==
  ASSUME TraceInv, NEW t \in Threads, Export(t)
  PROVE  TraceInv'
<1> PICK e \in EndRecords : e = ending[t]
  BY DEF TraceInv, TraceTypes
<1> DEFINE x == [e EXCEPT !.pc = "done"]
<1>1. /\ UNCHANGED <<otlp, context, silent, current, exporter, buffer, submitted>>
      /\ ending' = [ending EXCEPT ![t] = x] /\ e.pc = "export"
  BY DEF Export
<1>2. x \in EndRecords /\ x.pc = "done" /\ x.steady = e.steady /\ x.in = e.in
  BY DEF EndRecords, Ends
<1> HIDE DEF x
<1>3. ending'[t] = x
  BY <1>1 DEF TraceInv, TraceTypes
<1>4. PICK l \in Nat : l = Len(arrived) /\ DOMAIN arrived = 1..l
  BY DEF TraceInv, TraceTypes
<1>5. PICK r, a : r = exporter.rollout /\ a = exporter.attempt /\ r \in Ids /\ a \in Ids
  BY DEF TraceInv, TraceTypes, IdPairs
<1>6. \/ arrived' = arrived
      \/ /\ r # NoId /\ a # NoId
         /\ \E y \in Arrivals : arrived' = Append(arrived, y) /\ y.span = t /\ y.attempt = a
  <2>1. CASE r # NoId /\ a # NoId
    <3>1. PICK n \in Nat : n = Counter(r)
      <4>1. Counter(r) \in Nat
        BY OnlyProperties DEF TraceInv, TraceTypes, Counter
      <4> QED BY <4>1
    <3>2. PICK request :
            request = << [ids |-> [rollout |-> r, attempt |-> a, number |-> Absent],
                          spans |-> << [rollout |-> NoId, attempt |-> NoId, number |-> Absent] >>] >>
      OBVIOUS
    <3>3. PICK got : /\ got = Answer("protobuf", [kind |-> "request", request |-> request], [q \in {r} |-> n]).spans[1]
                     /\ got = [rollout |-> r, attempt |-> a, number |-> n + 1]
      BY <2>1, <3>2, ExportedSpan
    <3>4. [q \in {r} |-> n] = [q \in {exporter.rollout} |-> Counter(q)]
      BY <1>5, <3>1
    <3>5. Store(t, got.rollout, got.attempt, got.number) \/ arrived' = arrived
      BY <1>5, <2>1, <3>2, <3>3, <3>4 DEF Export
    <3>6. [span |-> t, rollout |-> r, attempt |-> a, number |-> n + 1] \in Arrivals
      BY <1>5 DEF Arrivals
    <3> QED BY <2>1, <3>3, <3>5, <3>6 DEF Store
  <2>2. CASE r = NoId \/ a = NoId
    BY <1>5, <2>2 DEF Export
  <2> QED BY <2>1, <2>2
<1>7. /\ arrived' \in Seq(Arrivals)
      /\ arrived' = arrived \/
           /\ r # NoId /\ DOMAIN arrived' = 1..(l + 1) /\ \A i \in 1..l : arrived'[i] = arrived[i]
           /\ arrived'[l + 1].span = t /\ arrived'[l + 1].attempt = a
  <2>1. arrived \in Seq(Arrivals)
    BY DEF TraceInv, TraceTypes
  <2>2. CASE arrived' # arrived
    <3>1. PICK y \in Arrivals : arrived' = Append(arrived, y) /\ y.span = t /\ y.attempt = a /\ r # NoId
      BY <1>6, <2>2
    <3> QED BY <1>4, <2>1, <3>1, OneArrives
  <2> QED BY <2>1, <2>2
<1>8. \A i : i \in 1..(l + 1) <=> i \in 1..l \/ i = l + 1
  OBVIOUS
<1>9. ASSUME NEW u \in Threads, u # t
      PROVE  (Untold(u) => Untold(u)') /\ \A n : ToldOnce(u, n) => ToldOnce(u, n)'
  <2>1. \A i \in DOMAIN arrived' : arrived'[i].span = u => i \in DOMAIN arrived /\ arrived'[i] = arrived[i]
    BY <1>4, <1>7, <1>8, <1>9
  <2> QED BY <1>1, <2>1 DEF Untold, ToldOnce
<1>10. SpanHolds(t) /\ ContextHolds /\ submitted' \subseteq Submissions
  BY <1>1 DEF TraceInv, TraceTypes
<1>11. ASSUME x.steady PROVE SteadyHolds(t)'
  <2>1. SteadyHolds(t)
    BY <1>1, <1>2, <1>10, <1>11 DEF SpanHolds
  <2>2. e.in \in Nat /\ e.in = context.number /\ context.open /\ context.pc = "open" /\ t \in buffer
    BY <1>1, <1>10, <2>1 DEF SteadyHolds, ContextHolds
  <2>3. CASE otlp
    <3>1. Untold(t) /\ a = e.in
      BY <1>1, <1>5, <1>10, <2>1, <2>2, <2>3 DEF SteadyHolds, ContextHolds, IdsOf
    <3>2. ToldOnce(t, e.in)'
      BY <1>1, <1>4, <1>7, <1>8, <3>1 DEF ToldOnce, Untold
    <3> QED BY <1>1, <1>2, <1>3, <2>2, <3>2 DEF SteadyHolds
  <2>4. CASE ~otlp
    <3>1. r = NoId
      BY <1>5, <1>10, <2>4 DEF ContextHolds, NoIds
    <3>2. ToldOnce(t, e.in)'
      BY <1>1, <1>7, <2>1, <3>1, ToldStays DEF SteadyHolds
    <3> QED BY <1>1, <1>2, <1>3, <2>2, <2>4, <3>2 DEF SteadyHolds
  <2> QED BY <2>3, <2>4
<1>12. SpanHolds(t)'
  BY <1>2, <1>3, <1>11 DEF SpanHolds
<1> QED BY <1>1, <1>2, <1>7, <1>9, <1>10, <1>12, OthersStay

LEMMA TraceSteps == TraceInv /\ [TraceNext]_traced => TraceInv'
<1> SUFFICES ASSUME TraceInv, [TraceNext]_traced PROVE TraceInv'
  OBVIOUS
<1>1. CASE UNCHANGED traced
  BY <1>1 DEF traced, TraceInv, TraceTypes, ContextHolds, SpanHolds, SteadyHolds, Untold, ToldOnce
<1>2. CASE OpenFor \/ OpenForNone \/ Close
  BY <1>2, ContextsPreserve
<1>3. CASE PointAttempt \/ Enter
  BY <1>3, EntersPreserve
<1>4. ASSUME NEW c \in submitted, RunCall(c)
      PROVE  TraceInv'
  BY <1>4, RunCallPreserves
<1>5. ASSUME NEW t \in Threads, EndSpan(t) \/ ReadRollout(t) \/ Waited(t) \/ Keep(t)
      PROVE  TraceInv'
  BY <1>5, EndingsPreserve
<1>6. ASSUME NEW t \in Threads, Submit(t)
      PROVE  TraceInv'
  BY <1>6, SubmitPreserves
<1>7. ASSUME NEW t \in Threads, Export(t)
      PROVE  TraceInv'
  BY <1>7, ExportPreserves
<1> QED BY <1>1, <1>2, <1>3, <1>4, <1>5, <1>6, <1>7 DEF TraceNext

\* A span that ends within the context of an attempt, and is through before the
\* context closes, reaches that attempt once at most and no other, by the
\* processor or by the exporter, and is in the local trace, for any threads and
\* contexts.  tracer/otel.py, trace_context and on_end.
THEOREM SpansTracedOnce == TraceSpec => []TracedOnce
<1>1. TraceInv => TracedOnce
  BY DEF TraceInv, SpanHolds, SteadyHolds, ToldOnce, TracedOnce
<1> QED BY <1>1, TraceStarts, TraceSteps, PTL DEF TraceSpec
=============================================================================
