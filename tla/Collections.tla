---------------------------- MODULE Collections ----------------------------
(***************************************************************************)
(* The two implementations of a collection with two primary keys (as the   *)
(* attempts have): ListBasedCollection, nested dictionaries with a fast    *)
(* path along a prefix of the keys, and MongoBasedCollection, documents    *)
(* behind a translated filter.  The same operations are called on both.    *)
(* An item has the keys k1 and k2, a string s and an end_time.  A filter   *)
(* maps fields to operators, and operators to what they expect; None is    *)
(* the model value Null.                                                   *)
(***************************************************************************)
EXTENDS Integers, Sequences, FiniteSets, SequencesExt

CONSTANTS
  Outer, Inner,   \* values of k1 and k2
  Marks,          \* values of s, with Null among them
  Null,
  Rank,           \* the order of Marks; None sorts as the empty string
  Parts,          \* the substrings of each string of Marks that the model looks at
  Lower,          \* a string without its capital letters
  Latest,         \* no end_time is later
  Payloads,       \* what one call inserts, updates, upserts or deletes
  Queries,        \* what is asked: records [filter, must, logic]
  MaxOps          \* bound on the calls


VARIABLES
  roots,     \* the outer dictionary's keys, in order
  leaves,    \* the inner dictionaries' items, in order
  size,      \* _size
  docs,      \* the documents of the Mongo collection, in natural order
  ops        \* calls so far (bound)
vars == <<roots, leaves, size, docs, ops>>

Nothing == [x \in {} |-> Null]
Key(item) == <<item.k1, item.k2>>
Placed(seq, item) == {i \in DOMAIN seq : Key(seq[i]) = Key(item)}

-----------------------------------------------------------------------------
(* Filters, as _item_matches_filters reads them. *)

\* The conditions a filter comes to: an operator that expects None is none.
Conditions(f) == {<<fld, op>> \in (DOMAIN f) \X {"exact", "within", "contains"} :
                    op \in DOMAIN f[fld] /\ f[fld][op] # Null}

\* "contains" is a substring, letter by letter.
Holds(item, f, c) ==
  LET value == item[c[1]]  expected == f[c[1]][c[2]]
  IN CASE c[2] = "within" -> value \in expected
       [] c[2] = "contains" -> value # Null /\ expected \in Parts[value]
       [] c[2] = "exact" -> value = expected

Meets(item, f, logic) ==
  \/ f = Nothing
  \/ logic = "and" /\ \A c \in Conditions(f) : Holds(item, f, c)
  \/ logic = "or"  /\ \E c \in Conditions(f) : Holds(item, f, c)

Matches(item, q) == Meets(item, q.must, "and") /\ Meets(item, q.filter, q.logic)

-----------------------------------------------------------------------------
(* ListBasedCollection. *)

\* _iter_items: the stack gives the dictionary pushed last first.
Scan == FoldLeft(LAMBDA seq, k : leaves[k] \o seq, <<>>, roots)

Sources(q) == ({q.must} \cup (IF q.logic = "and" THEN {q.filter} ELSE {})) \ {Nothing}

\* What the sources say of a key: nothing usable, or the values it must equal.
OpsOn(q, k) == {f[k] : f \in {g \in Sources(q) : k \in DOMAIN g}} \ {Nothing}
Pure(o) == DOMAIN o = {"exact"} /\ o["exact"] # Null
Pinned(q, k) == OpsOn(q, k) # {} /\ \A o \in OpsOn(q, k) : Pure(o)
Pins(q, k) == {o["exact"] : o \in OpsOn(q, k)}

Below(k) == IF k \in Range(roots) THEN leaves[k] ELSE <<>>

\* _iter_matching_items: what a query finds, in order.
Found(q) ==
  LET Keep(seq) == SelectSeq(seq, LAMBDA item : Matches(item, q))
  IN IF (q.logic = "or" /\ q.must = Nothing) \/ ~Pinned(q, "k1") THEN Keep(Scan)
     ELSE IF Cardinality(Pins(q, "k1")) > 1 THEN <<>>
     ELSE LET k == CHOOSE x \in Pins(q, "k1") : TRUE
          IN IF ~Pinned(q, "k2") THEN Keep(Below(k))
             ELSE IF Cardinality(Pins(q, "k2")) > 1 THEN <<>>
             ELSE Keep(SelectSeq(Below(k), LAMBDA item : item.k2 \in Pins(q, "k2")))

\* _get_sort_value: a missing time comes after all others.
SortValue(item, by) ==
  IF by = "s" THEN Rank[item.s] ELSE IF item.end_time = Null THEN Latest + 1 ELSE item.end_time

\* query: a stable sort of a list by its items' values, then the window.
Sorted(seq, values, order) ==
  LET Before(i, j) == IF values[i] = values[j] THEN i < j ELSE (order = "asc") = (values[i] < values[j])
      places == SortSeq([i \in DOMAIN seq |-> i], Before)
  IN [i \in DOMAIN seq |-> seq[places[i]]]

Page(seq, offset, limit) ==
  SubSeq(seq, offset + 1, IF limit < 0 \/ offset + limit > Len(seq) THEN Len(seq) ELSE offset + limit)

InOrder(q, by, order) ==
  LET found == Found(q) IN Sorted(found, [i \in DOMAIN found |-> SortValue(found[i], by)], order)
Query(q, by, order, offset, limit) == Page(InOrder(q, by, order), offset, limit)

\* get: one pass for the best item.
Better(a, b, by, order) ==
  IF order = "asc" THEN SortValue(a, by) < SortValue(b, by) ELSE SortValue(a, by) > SortValue(b, by)

Get(q, by, order) ==
  IF Found(q) = <<>> THEN Null
  ELSE FoldLeft(LAMBDA best, item : IF Better(item, best, by, order) THEN item ELSE best,
                Head(Found(q)), Tail(Found(q)))

\* _mutate_single works on the dictionaries as a record [roots, leaves, size, ok].
\* An item put in its place, the fields named taken from it, or added.
Put(m, item, fields) ==
  LET at == Placed(m.leaves[item.k1], item)
      i  == CHOOSE j \in at : TRUE
      old == m.leaves[item.k1][i]
  IN IF at = {}
     THEN [m EXCEPT !.leaves[item.k1] = Append(@, item), !.size = @ + 1]
     ELSE [m EXCEPT !.leaves[item.k1][i] = [f \in DOMAIN item |-> IF f \in fields THEN item[f] ELSE old[f]]]

\* _locate_node with create_missing.
Rooted(m, item) ==
  IF item.k1 \in Range(m.roots) THEN m ELSE [m EXCEPT !.roots = Append(@, item.k1)]

Mutate(m, mode, item, fields) ==
  LET there == Placed(m.leaves[item.k1], item) # {}
  IN CASE ~m.ok -> m      \* raised: the items left are not reached
       [] m.ok /\ mode = "insert" ->
            IF there THEN [Rooted(m, item) EXCEPT !.ok = FALSE] ELSE Put(Rooted(m, item), item, fields)
       [] m.ok /\ mode = "upsert" -> Put(Rooted(m, item), item, fields)
       [] m.ok /\ mode = "update" ->
            IF there THEN Put(m, item, fields) ELSE [m EXCEPT !.ok = FALSE]
       [] m.ok /\ mode = "delete" ->
            IF there
            THEN [m EXCEPT !.size = @ - 1, !.leaves[item.k1] =
                    SelectSeq(@, LAMBDA other : Key(other) # Key(item))]
            ELSE [m EXCEPT !.ok = FALSE]

-----------------------------------------------------------------------------
(* MongoBasedCollection. *)

\* A mutant: an upsert sets the whole document.
WriteWhole(d, mode, item, fields) == [d EXCEPT !.docs = ReplaceAt(@, CHOOSE i \in Placed(@, item) : TRUE, item)]

\* $set of the named fields, or the whole document replaced.
Write(d, mode, item, fields) ==
  LET i == CHOOSE j \in Placed(d.docs, item) : TRUE
  IN [d EXCEPT !.docs[i] = [f \in DOMAIN item |-> IF f \in fields THEN item[f] ELSE @[f]]]

Apply(d, mode, item, fields) ==
  LET there == Placed(d.docs, item) # {}
  IN CASE ~d.ok -> d
       [] d.ok /\ there /\ mode = "insert" -> [d EXCEPT !.ok = FALSE]       \* the unique index
       [] d.ok /\ ~there /\ mode \in {"insert", "upsert"} -> [d EXCEPT !.docs = Append(@, item)]
       [] d.ok /\ ~there /\ mode \in {"update", "delete"} -> [d EXCEPT !.ok = FALSE]
       [] d.ok /\ there /\ mode \in {"update", "upsert"} -> Write(d, mode, item, fields)
       [] d.ok /\ there /\ mode = "delete" ->
            [d EXCEPT !.docs = SelectSeq(@, LAMBDA other : Key(other) # Key(item))]

\* _field_ops_to_conditions: $in, a pattern that passes over capitals, or the
\* value itself.
Fits(document, f, c) ==
  LET value == document[c[1]]  expected == f[c[1]][c[2]]
  IN CASE c[2] = "within" -> value \in expected
       [] c[2] = "contains" -> value # Null /\ \E part \in Parts[value] : Lower[part] = Lower[expected]
       [] c[2] = "exact" -> value = expected

\* _build_mongo_filter: no condition at all matches everything.
MongoMatches(item, q) ==
  LET some == {Fits(item, q.filter, c) : c \in Conditions(q.filter)}
      must == {Fits(item, q.must, c) : c \in Conditions(q.must)}
  IN IF q.logic = "and" THEN FALSE \notin some \cup must
     ELSE FALSE \notin must /\ (some = {} \/ TRUE \in some)

\* The server's order: None comes before every other value.
MongoValue(item, by) ==
  IF by = "s" THEN Rank[item.s] ELSE IF item.end_time = Null THEN -1 ELSE item.end_time

\* query and get: count_documents, and the cursor sorted, skipped and limited.
MongoFound(q) == SelectSeq(docs, LAMBDA item : MongoMatches(item, q))
MongoInOrder(q, by, order) ==
  LET found == MongoFound(q) IN Sorted(found, [i \in DOMAIN found |-> MongoValue(found[i], by)], order)
MongoQuery(q, by, order, offset, limit) ==
  [total |-> Len(MongoFound(q)),
   items |-> IF limit = 0 THEN <<>> ELSE Page(MongoInOrder(q, by, order), offset, limit)]
MongoGet(q, by, order) ==
  LET found == MongoInOrder(q, by, order) IN IF found = <<>> THEN Null ELSE Head(found)

-----------------------------------------------------------------------------
Init ==
  /\ roots = <<>> /\ leaves = [k \in Outer |-> <<>>] /\ size = 0
  /\ docs = <<>> /\ ops = 0

\* One call on both: item by item, up to the first that raises.
Call(mode, payload, fields) ==
  LET m == FoldLeft(LAMBDA acc, item : Mutate(acc, mode, item, fields),
                    [roots |-> roots, leaves |-> leaves, size |-> size, ok |-> TRUE], payload)
      d == FoldLeft(LAMBDA acc, item : Apply(acc, mode, item, fields), [docs |-> docs, ok |-> TRUE], payload)
  IN /\ ops < MaxOps /\ ops' = ops + 1
     /\ roots' = m.roots /\ leaves' = m.leaves /\ size' = m.size /\ docs' = d.docs

AllFields == {"k1", "k2", "s", "end_time"}

\* The fields a call may name: an upsert of none is a get_or_insert.
FieldsOf(mode) ==
  CASE mode = "upsert" -> {AllFields, {"s"}, {}}
    [] mode = "update" -> {AllFields, {"s"}}
    [] mode \in {"insert", "delete"} -> {AllFields}

Next == \E payload \in Payloads, mode \in {"insert", "update", "upsert", "delete"} :
          \E fields \in FieldsOf(mode) : Call(mode, payload, fields)

-----------------------------------------------------------------------------

\* The empty disjunction is where the backends part: memory matches nothing.
Comparable(q) == q.filter = Nothing \/ q.logic = "and" \/ Conditions(q.filter) # {}

\* Where they part too: text in another case, which only Mongo's "contains"
\* finds, and items without an end_time, last in memory and first in Mongo.
InAnotherCase(item, q) ==
  \E f \in {q.filter, q.must} : \E c \in Conditions(f) :
    c[2] = "contains" /\ Fits(item, f, c) /\ ~Holds(item, f, c)

\* The values a sequence is sorted by; those of items that have it.
Values(seq, by) ==
  LET have == IF by = "s" THEN seq ELSE SelectSeq(seq, LAMBDA item : item.end_time # Null)
  IN [i \in DOMAIN have |-> SortValue(have[i], by)]
HaveIt(seq, by) == by = "s" \/ \A item \in Range(seq) : item.end_time # Null
First(item) == IF item = Null THEN <<>> ELSE <<item>>


\* What the comment on FilterOptions says (types/core.py): "contains" is a
\* substring to search for, for every backend.
SameMatches ==
  \A q \in Queries : Comparable(q) => Range(Found(q)) = Range(MongoFound(q))
=============================================================================
