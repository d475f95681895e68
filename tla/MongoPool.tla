------------------------------ MODULE MongoPool ------------------------------
(***************************************************************************)
(* How a store call comes to the Mongo collections it works on:            *)
(* MongoLightningCollections ensures each of them once, with its unique    *)
(* index, and MongoClientPool has one client and the handles of its        *)
(* collections for each event loop, behind two locks shared by all loops.  *)
(* A call may run on a copy with a session, which takes the flags along    *)
(* and keeps what it learns to itself.  The server is external: it creates *)
(* and refuses, and may fail any request.                                  *)
(***************************************************************************)
EXTENDS Integers, Sequences, FiniteSets, SequencesExt

CONSTANTS
  Tasks, LoopOf,   \* coroutines, and the event loop of each
  Names,           \* the collections, in the order they are ensured in
  MaxClients,      \* bound on the clients made
  MaxCalls         \* bound on the calls

Nobody == "nobody"

ASSUME PoolAssumption ==
  /\ LoopOf \in [Tasks -> Range(LoopOf)] /\ Names \in Seq(Range(Names))
  /\ MaxClients \in Nat /\ Nobody \notin Tasks

VARIABLES
  client,    \* _client_pool: of each loop a client's number; 0 is none
  handle,    \* _collection_pool: of each loop and collection, its client
  made,      \* clients made so far (their numbers)
  shut,      \* clients closed
  locks,     \* who has _get_client_lock and _get_collection_lock
  exists,    \* on the server: collections
  indexed,   \* on the server: collections with their unique index
  flags,     \* _collection_created of the shared collections
  calls,     \* calls so far (bound)
  task       \* of each task: records [at, todo, session, mine, with, got, closing]
pool == <<client, handle, made, shut, locks, exists, indexed, flags, calls, task>>

Resting == [at |-> "rest", todo |-> <<>>, session |-> FALSE, mine |-> {}, with |-> 0, got |-> {}, closing |-> {}]
Loop(t) == LoopOf[t]
Now(t) == Head(task[t].todo)      \* the collection a call is at
Flags(t) == IF task[t].session THEN task[t].mine ELSE flags
To(t, at) == task' = [task EXCEPT ![t].at = at]
Frees(t) == [k \in DOMAIN locks |-> IF locks[k] = t THEN Nobody ELSE locks[k]]

-----------------------------------------------------------------------------
\* _ensure_collections, for the first call, or one collection's
\* ensure_collection; with_session makes the copy.
EnsureCall(t, names, session) ==
  /\ task[t].at = "rest" /\ calls < MaxCalls /\ calls' = calls + 1
  /\ task' = [task EXCEPT ![t] = [at |-> "ensure", todo |-> names, session |-> session,
                                     mine |-> IF session THEN flags ELSE {},
                                     with |-> 0, got |-> {}, closing |-> {}]]
  /\ UNCHANGED <<client, handle, made, shut, locks, exists, indexed, flags>>

\* The handle goes to the operation that asked for it, and the next collection
\* is ensured.
Hand(t, c) == task' = [task EXCEPT ![t].at = "ensure", ![t].todo = Tail(@), ![t].with = 0,
                                   ![t].got = @ \cup {<<Now(t), c>>}]

\* get_client's way without the lock.
FindClient(t, found, wait) ==
  task' = [task EXCEPT ![t].at = IF client[Loop(t)] # 0 THEN found ELSE wait, ![t].with = client[Loop(t)]]

\* get_collection's way without the lock.
FindHandle(t) ==
  IF handle[Loop(t)][Now(t)] # 0 THEN Hand(t, handle[Loop(t)][Now(t)]) ELSE To(t, "waitHandle")

Ensure(t) ==
  /\ task[t].at = "ensure"
  /\ CASE task[t].todo = <<>> -> task' = [task EXCEPT ![t] = Resting]
       [] task[t].todo # <<>> /\ Now(t) \in Flags(t) -> FindHandle(t)
       [] task[t].todo # <<>> /\ Now(t) \notin Flags(t) -> FindClient(t, "create", "waitClient")
  /\ UNCHANGED <<client, handle, made, shut, locks, exists, indexed, flags, calls>>

\* Under the client lock: look again; "connect" makes a client for
\* ensure_collection, "connectHeld" for get_collection, which has its own lock.
LockClient(t, at, found, connect) ==
  /\ task[t].at = at /\ locks.client = Nobody
  /\ FindClient(t, found, connect)
  /\ locks' = IF client[Loop(t)] = 0 THEN [locks EXCEPT !.client = t] ELSE locks
  /\ UNCHANGED <<client, handle, made, shut, exists, indexed, flags, calls>>

Connect(t, at, next) ==
  /\ task[t].at = at
  /\ made < MaxClients /\ made' = made + 1
  /\ client' = [client EXCEPT ![Loop(t)] = made']
  /\ locks' = [locks EXCEPT !.client = Nobody]
  /\ task' = [task EXCEPT ![t].at = next, ![t].with = made']
  /\ UNCHANGED <<handle, shut, exists, indexed, flags, calls>>

\* The indexes are made whether the collection existed or not.
AfterCreate(t) == "index"

\* _ensure_collection: create it, or find that it exists; on a closed client
\* every request fails.
Create(t) ==
  /\ task[t].at = "create" /\ task[t].with \notin shut
  /\ exists' = exists \cup {Now(t)} /\ To(t, AfterCreate(t))
  /\ UNCHANGED <<client, handle, made, shut, locks, indexed, flags, calls>>

\* The unique index, and the flag.
Index(t) ==
  /\ task[t].at = "index" /\ task[t].with \notin shut
  /\ indexed' = indexed \cup {Now(t)}
  /\ IF task[t].session
     THEN task' = [task EXCEPT ![t].at = "handle", ![t].mine = @ \cup {Now(t)}] /\ UNCHANGED flags
     ELSE flags' = flags \cup {Now(t)} /\ To(t, "handle")
  /\ UNCHANGED <<client, handle, made, shut, locks, exists, calls>>

GetHandle(t) ==
  /\ task[t].at = "handle" /\ FindHandle(t)
  /\ UNCHANGED <<client, handle, made, shut, locks, exists, indexed, flags, calls>>

\* Under the collection lock: look again, else get the client.
LockHandle(t) ==
  /\ task[t].at = "waitHandle" /\ locks.collection = Nobody
  /\ IF handle[Loop(t)][Now(t)] # 0
     THEN Hand(t, handle[Loop(t)][Now(t)]) /\ UNCHANGED locks
     ELSE FindClient(t, "keep", "waitHeld") /\ locks' = [locks EXCEPT !.collection = t]
  /\ UNCHANGED <<client, handle, made, shut, exists, indexed, flags, calls>>

KeepHandle(t) ==
  /\ task[t].at = "keep"
  /\ handle' = [handle EXCEPT ![Loop(t)][Now(t)] = IF @ = 0 THEN task[t].with ELSE @]
  /\ Hand(t, task[t].with) /\ locks' = [locks EXCEPT !.collection = Nobody]
  /\ UNCHANGED <<client, made, shut, exists, indexed, flags, calls>>

\* A request to the server fails: the error leaves the call and its locks.
RequestFails(t) ==
  /\ task[t].at \in {"connect", "connectHeld", "create", "index"}
  /\ locks' = Frees(t) /\ task' = [task EXCEPT ![t] = Resting]
  /\ UNCHANGED <<client, handle, made, shut, exists, indexed, flags, calls>>

-----------------------------------------------------------------------------
\* A mutant: close does not wait for get_collection.
OneLock == "clear"

\* What close waits for with the client lock: the collection lock.
SecondLock == "waitBoth"

Close(t) ==
  /\ task[t].at = "rest" /\ To(t, "waitClose")
  /\ calls < MaxCalls /\ calls' = calls + 1
  /\ UNCHANGED <<client, handle, made, shut, locks, exists, indexed, flags>>

LockToClose(t) ==
  /\ task[t].at = "waitClose" /\ locks.client = Nobody
  /\ locks' = [locks EXCEPT !.client = t] /\ To(t, SecondLock)
  /\ UNCHANGED <<client, handle, made, shut, exists, indexed, flags, calls>>

\* The clients known are forgotten with their handles, under both locks.
Clear(t) ==
  /\ \/ task[t].at = "clear"
     \/ task[t].at = "waitBoth" /\ locks.collection = Nobody
  /\ client' = [l \in DOMAIN client |-> 0] /\ handle' = [l \in DOMAIN handle |-> [n \in Range(Names) |-> 0]]
  /\ task' = [task EXCEPT ![t].at = "closing", ![t].closing = Range(client) \ {0}]
  /\ locks' = Frees(t)
  /\ UNCHANGED <<made, shut, exists, indexed, flags, calls>>

CloseOne(t) ==
  /\ task[t].at = "closing"
  /\ IF task[t].closing = {}
     THEN To(t, "rest") /\ UNCHANGED shut
     ELSE \E c \in task[t].closing :
            shut' = shut \cup {c} /\ task' = [task EXCEPT ![t].closing = @ \ {c}]
  /\ UNCHANGED <<client, handle, made, locks, exists, indexed, flags, calls>>

-----------------------------------------------------------------------------
PoolInit ==
  /\ client = [l \in Range(LoopOf) |-> 0] /\ handle = [l \in Range(LoopOf) |-> [n \in Range(Names) |-> 0]]
  /\ made = 0 /\ shut = {} /\ locks = [client |-> Nobody, collection |-> Nobody]
  /\ exists = {} /\ indexed = {} /\ flags = {} /\ calls = 0
  /\ task = [t \in Tasks |-> Resting]

PoolStep(t) ==
  \/ \E session \in BOOLEAN : EnsureCall(t, Names, session) \/ \E n \in Range(Names) : EnsureCall(t, <<n>>, session)
  \/ Ensure(t) \/ LockClient(t, "waitClient", "create", "connect") \/ Connect(t, "connect", "create")
  \/ Create(t) \/ Index(t) \/ GetHandle(t) \/ LockHandle(t)
  \/ LockClient(t, "waitHeld", "keep", "connectHeld") \/ Connect(t, "connectHeld", "keep")
  \/ KeepHandle(t) \/ RequestFails(t)
  \/ Close(t) \/ LockToClose(t) \/ Clear(t) \/ CloseOne(t)

PoolNext == \E t \in Tasks : PoolStep(t)

PoolSpec == PoolInit /\ [][PoolNext]_pool

-----------------------------------------------------------------------------
Closing == UNION {task[t].closing : t \in Tasks}

\* Whatever calls, sessions, failed requests and closes interleave: a handle is
\* given only for a collection that has its unique index (two attempts cannot
\* get the same id); the pool's handles belong to the client their loop has
\* now; and no client is lost: each is in the pool, being closed or closed.
\* store/collection/mongo.py, MongoClientPool and ensure_collection.
PoolIsSound ==
  /\ \A t \in Tasks : \A h \in task[t].got : h[1] \in indexed
  /\ \A l \in Range(LoopOf), n \in Range(Names) : handle[l][n] \in {0, client[l]}
  /\ \A c \in 1..made : c \in Range(client) \cup Closing \cup shut
=============================================================================
