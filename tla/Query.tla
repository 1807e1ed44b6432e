------------------------------- MODULE Query -------------------------------
(***************************************************************************)
(* Searching the span store of htraced: HandleQuery() and the source of    *)
(* spans it reads (go/src/htrace/htraced/datastore.go), called page by     *)
(* page by a client that continues a search after its last result (the web *)
(* application) or dumps all spans (go/src/htrace/client/client.go), while *)
(* the shards write and reap spans.                                        *)
(*                                                                         *)
(* A key of a field's index is <<value, id>>; the SPAN_ID index, whose     *)
(* keys are ids, has <<id, id>>.  The iterators of a source are snapshots  *)
(* of their shards' indices; shards have no span in common, so it makes no *)
(* difference that they are created one after the other.                   *)
(***************************************************************************)
EXTENDS Integers, Sequences, FiniteSets, Functions

CONSTANTS
  Ids, MaxId,    \* span ids; the largest id there can be
  NumShards,     \* storage directories
  HashOf,        \* HashOf[id]: id.Hash32()
  ValueOf,       \* ValueOf[id]: the span's begin time, end time or duration
  Matching,      \* the ids of the spans that satisfy the query's other predicates
  Searches,      \* the searches clients may start, see QueryAssumption
  MayWrite,      \* ids of spans that may be written during the search
  MayReap,       \* MayReap[q]: ids of spans that may be reaped during search q
  None           \* stands for nil

AllOps == {"eq", "le", "ge", "gt"}

ASSUME QueryAssumption ==
  /\ MaxId \in Nat \ {0} /\ Ids \subseteq 1..MaxId
  /\ NumShards \in Nat \ {0} /\ HashOf \in [Ids -> Nat]
  /\ ValueOf \in [Ids -> Int] /\ Matching \subseteq Ids
  /\ \A q \in Searches :
       /\ DOMAIN q = {"byId", "op", "key", "lim", "dump"}
       /\ q.byId \in BOOLEAN                     \* is the indexed field SPAN_ID?
       /\ q.op \in AllOps /\ q.key \in Int       \* the indexed predicate
       /\ q.lim \in Nat \ {0}                    \* Query.Lim
       /\ q.dump \in BOOLEAN                     \* is the client DumpAll()?
       /\ q.dump => q.byId /\ q.op = "ge" /\ q.key = 0
  /\ MayWrite \subseteq Ids /\ MayReap \in [Searches -> SUBSET Ids] /\ None \notin Int

Shards == 0..(NumShards - 1)
Closed == <<"closed">>   \* an iterator that was closed, or ran past its index

VARIABLES
  query, key,             \* the search; the value in its predicate, which DumpAll() moves
  stored,                 \* ids of the spans in the store
  srcOp, srcKey,          \* the predicate of the source
  rows, cursor, nexts,    \* per shard: the iterator's snapshot and position, nexts
  at,                     \* the shard next() populates; NumShards: all are populated
  ret,                    \* the page HandleQuery() puts together
  phase,                  \* of the client and the handler
  prev,                   \* the last result the client got
  results,                \* the results the client got (up to the first repetition)
  kept,                   \* history: ids that were in the store all the time
  broken                  \* history: shards whose part of a page a missing span ended

srcVars == <<srcOp, srcKey, rows, cursor, nexts, at>>
queryVars == <<query, key, stored, srcVars, ret, phase, prev, results, kept, broken>>

Value(id) == IF query.byId THEN id ELSE ValueOf[id]
ShardOf(id) == HashOf[id] % NumShards
Row(id) == <<Value(id), id>>
Less(e, f) == e[1] < f[1] \/ (e[1] = f[1] /\ e[2] < f[2])

Descending(o) == o = "le"

\* Mutant: one id is skipped.
NextIdSkipping(id) == IF id = MaxId THEN 0 ELSE id + 2

\* SpanId.Next() and SpanId.Prev(), which wrap around.
NextId(id) == IF id = MaxId THEN 0 ELSE id + 1
PrevId(id) == IF id = 0 THEN MaxId ELSE id - 1

QueryInit ==
  /\ query \in Searches /\ key = query.key
  /\ stored = Ids \ MayWrite /\ kept = stored
  /\ srcOp = query.op /\ srcKey = key /\ at = 0
  /\ rows = [d \in Shards |-> {}] /\ cursor = [d \in Shards |-> Closed]
  /\ nexts = [d \in Shards |-> None]
  /\ ret = <<>> /\ phase = "request" /\ prev = None /\ results = <<>>
  /\ broken = {}

-----------------------------------------------------------------------------
(* createSource() *)

\* The id a continued search starts from.
StartId ==
  CASE query.op = "eq" -> IF query.byId THEN 0 ELSE NextId(prev)
    [] query.op = "le" -> PrevId(prev)
    [] OTHER     -> prev

\* The row an iterator over S starts from: Seek() goes to the first row at or after the
\* search key.  When that is past the index and the search descends, NOT_YET_SATISFIED
\* takes it back to the last row.
SeekRow(S, search) ==
  LET after == {e \in S : ~Less(e, search)}
  IN  IF after # {} THEN CHOOSE e \in after : \A f \in after : ~Less(f, e)
      ELSE IF Descending(query.op) /\ S # {} THEN CHOOSE e \in S : \A f \in S : ~Less(e, f)
      ELSE Closed

CreateSource ==
  /\ phase = "request"
  /\ srcOp' = IF prev # None /\ query.op = "ge" THEN "gt" ELSE query.op
  /\ srcKey' = IF prev = None THEN key ELSE IF query.byId THEN StartId ELSE Value(prev)
  /\ rows' = [d \in Shards |-> {Row(id) : id \in {x \in stored : ShardOf(x) = d}}]
  /\ LET search == <<srcKey', IF prev = None \/ query.byId THEN 0 ELSE StartId>>
     IN  cursor' = [d \in Shards |-> SeekRow(rows'[d], search)]
  /\ nexts' = [d \in Shards |-> None] /\ at' = 0
  /\ ret' = <<>> /\ phase' = "next"
  /\ UNCHANGED <<query, key, stored, prev, results, kept, broken>>

-----------------------------------------------------------------------------
(* source.next() *)

\* satisfiedBy() for the source's predicate.
SatisfiedBy(id) ==
  LET v == Value(id)
  IN  CASE srcOp = "eq" -> IF v = srcKey THEN "satisfied" ELSE "not"
        [] srcOp = "le" -> IF v <= srcKey THEN "satisfied" ELSE "notYet"
        [] srcOp = "ge" -> IF v >= srcKey THEN "satisfied" ELSE "not"
        [] srcOp = "gt" -> IF v > srcKey THEN "satisfied" ELSE "notYet"

\* iter.Next() or iter.Prev(), Closed at the end of the index.
Advance(d) ==
  LET rest == {e \in rows[d] : IF Descending(srcOp) THEN Less(e, cursor[d])
                               ELSE Less(cursor[d], e)}
  IN  IF rest = {} THEN Closed
      ELSE CHOOSE e \in rest : \A f \in rest : IF Descending(srcOp) THEN ~Less(e, f)
                                               ELSE ~Less(f, e)

\* populateNextFromShard() has nothing (more) to do for the shard.
Populated ==
  /\ phase = "next" /\ at \in Shards
  /\ cursor[at] = Closed \/ nexts[at] # None
  /\ at' = at + 1
  /\ UNCHANGED <<query, key, stored, srcOp, srcKey, rows, cursor, nexts, ret, phase, prev,
                 results, kept, broken>>

\* One round of its loop.  A secondary index leads to the span by FindSpan(): one that is
\* not found, as it was reaped meanwhile, closes the iterator, like one that cannot satisfy
\* the predicate.
PopulateNext ==
  /\ phase = "next" /\ at \in Shards
  /\ cursor[at] # Closed /\ nexts[at] = None
  /\ LET id == cursor[at][2]
         found == query.byId \/ id \in stored
         verdict == SatisfiedBy(id)
     IN  /\ cursor' = [cursor EXCEPT ![at] =
                         IF found /\ verdict # "not" THEN Advance(at) ELSE Closed]
         /\ nexts' = [nexts EXCEPT ![at] =
                        IF found /\ verdict = "satisfied" THEN id ELSE None]
         /\ broken' = IF found THEN broken ELSE broken \union {at}
  /\ UNCHANGED <<query, key, stored, srcOp, srcKey, rows, at, ret, phase, prev, results, kept>>

\* The shard whose span spanPtrIsBefore() prefers: the first of those with the best value.
Best ==
  LET cand == {d \in Shards : nexts[d] # None}
      before(d, e) == IF Descending(srcOp) THEN Value(nexts[d]) > Value(nexts[e])
                      ELSE Value(nexts[d]) < Value(nexts[e])
  IN  CHOOSE d \in cand : \A e \in cand : ~before(e, d) /\ (before(d, e) \/ d <= e)

\* Does the span satisfy the query's other predicates?  DumpAll()'s queries have none.
Accepts(id) == query.dump \/ id \in Matching

\* next() returns a span: HandleQuery() keeps it if it satisfies the other predicates and
\* goes on until the page is full.
TakeBest ==
  /\ phase = "next" /\ at = NumShards
  /\ \E d \in Shards : nexts[d] # None
  /\ nexts' = [nexts EXCEPT ![Best] = None]
  /\ ret' = IF Accepts(nexts[Best]) THEN Append(ret, nexts[Best]) ELSE ret
  /\ phase' = IF Len(ret') >= query.lim THEN "answer" ELSE "next"
  /\ at' = 0
  /\ UNCHANGED <<query, key, stored, srcOp, srcKey, rows, cursor, prev, results, kept, broken>>

\* next() returns nil: there are no more spans.
NoMore ==
  /\ phase = "next" /\ at = NumShards /\ \A d \in Shards : nexts[d] = None
  /\ phase' = "answer"
  /\ UNCHANGED <<query, key, stored, srcVars, ret, prev, results, kept, broken>>

-----------------------------------------------------------------------------
(* The clients *)

\* The client's results with the page it got.  Once a span has been repeated nothing is
\* added any more, which bounds the search that repeats itself for ever.
Received == IF IsInjective(results) THEN results \o ret ELSE results

\* The web application adds the page to its results and asks for what comes after the
\* last of them; an empty page is the end.
SearchMore ==
  /\ phase = "answer" /\ ~query.dump
  /\ results' = Received
  /\ prev' = IF ret = <<>> THEN prev ELSE ret[Len(ret)]
  /\ phase' = IF ret = <<>> THEN "done" ELSE "request"
  /\ UNCHANGED <<query, key, stored, srcVars, ret, kept, broken>>

\* DumpAll() hands the page out and asks for the ids from the next one on.
DumpMore ==
  /\ phase = "answer" /\ query.dump
  /\ results' = Received
  /\ key' = IF ret = <<>> THEN key ELSE NextId(ret[Len(ret)])
  /\ phase' = IF ret = <<>> THEN "done" ELSE "request"
  /\ UNCHANGED <<query, stored, srcVars, ret, prev, kept, broken>>

(* The shards' goroutines, see DataStore *)
Write(id) ==
  /\ id \in MayWrite \ stored
  /\ stored' = stored \union {id}
  /\ UNCHANGED <<query, key, srcVars, ret, phase, prev, results, kept, broken>>

Reap(id) ==
  /\ id \in MayReap[query] \intersect kept
  /\ stored' = stored \ {id} /\ kept' = kept \ {id}
  /\ UNCHANGED <<query, key, srcVars, ret, phase, prev, results, broken>>

SearchStep ==
  CreateSource \/ Populated \/ PopulateNext \/ TakeBest \/ NoMore \/ SearchMore \/ DumpMore

QueryNext == SearchStep \/ \E id \in Ids : Write(id) \/ Reap(id)


-----------------------------------------------------------------------------
(* Properties *)

\* Does the span satisfy the search's predicates?  (A search by id never has more than the
\* ids it started from: DumpAll() moves its key on.)
Wanted(id) ==
  /\ Accepts(id)
  /\ CASE query.op = "eq" -> Value(id) = key
       [] query.op = "le" -> Value(id) <= key
       [] query.op = "ge" -> query.dump \/ Value(id) >= key
       [] query.op = "gt" -> Value(id) > key

\* Every variable has its type; a page never has more than Lim results, and a shard's
\* pending result is a span of that shard.
QueryTypeOK ==
  /\ query \in Searches /\ srcOp \in AllOps /\ key \in Int /\ srcKey \in Int
  /\ stored \subseteq Ids /\ kept \subseteq stored
  /\ rows \in [Shards -> SUBSET (Int \X Ids)]
  /\ DOMAIN cursor = Shards /\ \A d \in Shards : cursor[d] = Closed \/ cursor[d] \in rows[d]
  /\ nexts \in [Shards -> Ids \union {None}]
  /\ \A d \in Shards : nexts[d] # None => ShardOf(nexts[d]) = d
  /\ at \in 0..NumShards /\ broken \subseteq Shards /\ ret \in Seq(Ids) /\ Len(ret) <= query.lim
  /\ phase \in {"request", "next", "answer", "done"}
  /\ prev \in Ids \union {None} /\ results \in Seq(Ids)

\* The client is only given spans that satisfy all predicates of its search, also on the
\* pages where createSource() replaced operator and key.
ResultsAreWanted == \A i \in 1..Len(results) : Wanted(results[i])

\* No span is returned twice, on one page or on two.
NoSpanTwice == IsInjective(results)

\* The results of all pages together are in the order of the indexed field.
ResultsAreOrdered ==
  \A i, j \in 1..Len(results) : i < j =>
    IF Descending(query.op) THEN Value(results[i]) >= Value(results[j])
    ELSE Value(results[i]) <= Value(results[j])

\* Page by page the client is given wanted spans only, each once, in order, and never more
\* than a page may hold.
ResultsAreRight == QueryTypeOK /\ ResultsAreWanted /\ NoSpanTwice /\ ResultsAreOrdered

\* The spans that a search has to find: those that were in the store all the time, in shards
\* of which no span was missing when it was looked up.
Findable == {id \in kept : ShardOf(id) \notin broken}

\* A page that is not full says that there is nothing more: the client then has every
\* wanted span that was in the store all the time, whatever was written and reaped during
\* the search ("found %d result(s), which are all that exist", HandleQuery()).  A reaped
\* span that a secondary index still led to costs it spans of the same shard, and no other.
SearchIsComplete ==
  phase = "answer" /\ Len(ret) < query.lim =>
    \A id \in Findable : Wanted(id) => \E i \in 1..Len(Received) : Received[i] = id

\* The search comes to an end: its last page is empty.
SearchEnds == <>(phase = "done")
=============================================================================
