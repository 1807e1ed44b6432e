---------------------------- MODULE Query_proofs ----------------------------
(***************************************************************************)
(* Proofs about the search of the span store (Query): an inductive         *)
(* invariant, which holds at first, which every step preserves, and which  *)
(* implies what the run checks, for the searches that HandleQuery gets     *)
(* right.                                                                  *)
(***************************************************************************)
EXTENDS Query, DataLemmas

\* A leaf that names no prover is tried with Zenon and then with the SMT solver.
USE ZenonT(20), SMTT(30)
-----------------------------------------------------------------------------
\* The searches HandleQuery() gets right, whatever is written and reaped meanwhile.  On the
\* index of a time, spans must differ in that time, and pages must not descend; there, and for DumpAll(), no span has the largest id, after which Next() is 0.
PlainSearches ==
  \A q \in Searches :
    /\ q.dump \/ ~q.byId => MaxId \notin Ids
    /\ ~q.byId => /\ q.op # "le"
                  /\ \A i, j \in Ids : ValueOf[i] = ValueOf[j] => i = j

\* Value() and the order of search q.
Val(q, id) == IF q.byId THEN id ELSE ValueOf[id]
Aft(q, v, w) == IF q.op = "le" THEN w < v ELSE v < w

\* A sequence of results is in order; a span comes after all of them, is one of them.
Inc(q, s) == \A i, j \in 1..Len(s) : i < j => Aft(q, Val(q, s[i]), Val(q, s[j]))
AftAll(q, s, id) == \A i \in 1..Len(s) : Aft(q, Val(q, s[i]), Val(q, id))
Got(s, id) == \E i \in 1..Len(s) : s[i] = id

\* The indexed predicate of the search, and that of the source.
Meets(q, k, id) ==
  CASE q.op = "eq" -> Val(q, id) = k
    [] q.op = "le" -> Val(q, id) <= k
    [] q.op = "ge" -> q.dump \/ Val(q, id) >= k
    [] q.op = "gt" -> Val(q, id) > k
Fit(q, k, id) == (q.dump \/ id \in Matching) /\ Meets(q, k, id)
Sat(q, o, k, id) ==
  CASE o = "eq" -> Val(q, id) = k
    [] o = "le" -> Val(q, id) <= k
    [] o = "ge" -> Val(q, id) >= k
    [] o = "gt" -> Val(q, id) > k

\* The rows an iterator at c has yet to pass.
Ahead(q, c, e) == c # Closed /\ (e = c \/ Aft(q, c[1], e[1]))

\* The rows of a shard are those of spans of that shard.
RowsAreSpans ==
  \A d \in Shards : \A e \in rows[d] :
    e[2] \in Ids /\ e = <<Val(query, e[2]), e[2]>> /\ ShardOf(e[2]) = d

\* Where the client is.
ClientInv ==
  /\ Inc(query, results) /\ \A i \in 1..Len(results) : Fit(query, key, results[i])
  /\ IF query.dump
     THEN prev = None /\ key = IF results = <<>> THEN 0 ELSE results[Len(results)] + 1
     ELSE prev = (IF results = <<>> THEN None ELSE results[Len(results)])
  /\ \A id \in Findable : Fit(query, key, id) => Got(results, id) \/ AftAll(query, results, id)

\* Where the source is.
Pending(id) ==
  /\ Sat(query, srcOp, srcKey, id)
  /\ \/ nexts[ShardOf(id)] = id
     \/ /\ <<Val(query, id), id>> \in rows[ShardOf(id)]
        /\ Ahead(query, cursor[ShardOf(id)], <<Val(query, id), id>>)
New(id) ==
  /\ Meets(query, key, id) /\ AftAll(query, results, id) /\ AftAll(query, ret, id)

SourceInv ==
  /\ srcOp = query.op \/ (srcOp = "gt" /\ query.op = "ge")
  /\ \A d \in Shards :
       /\ cursor[d] # Closed /\ srcOp \in {"eq", "ge"} => cursor[d][1] >= srcKey
       /\ \A e \in rows[d] : Ahead(query, cursor[d], e) /\ Sat(query, srcOp, srcKey, e[2]) => New(e[2])
       /\ nexts[d] # None =>
            /\ New(nexts[d])
            /\ \A e \in rows[d] : Ahead(query, cursor[d], e) => Aft(query, Val(query, nexts[d]), e[1])
PageInv ==
  /\ Inc(query, ret)
  /\ \A i \in 1..Len(ret) : Fit(query, key, ret[i]) /\ AftAll(query, results, ret[i])
  /\ \A id \in Findable : Fit(query, key, id) => Got(results, id) \/ Got(ret, id) \/ Pending(id)
  /\ phase = "next" => Len(ret) < query.lim
                       /\ \A d \in Shards : d < at => cursor[d] = Closed \/ nexts[d] # None
  /\ phase = "answer" => \/ Len(ret) >= query.lim
                         \/ \A d \in Shards : cursor[d] = Closed /\ nexts[d] = None

QueryInv ==
  /\ QueryTypeOK /\ RowsAreSpans /\ ClientInv
  /\ phase \in {"next", "answer"} => SourceInv /\ PageInv

\* Of finitely many numbered integers one is least ...
LEMMA LeastValue ==
  ASSUME NEW n \in Nat, NEW S \in SUBSET (0..n), S # {}, NEW f, \A x \in S : f[x] \in Int
  PROVE  \E x \in S : \A y \in S : f[x] <= f[y]
<1> DEFINE Fits(m) == \A T \in SUBSET (0..m) : T # {} /\ (\A x \in T : f[x] \in Int) =>
                        \E x \in T : \A y \in T : f[x] <= f[y]
           N == {m \in Nat : Fits(m)}
<1>1. Fits(0)
  <2> SUFFICES ASSUME NEW T \in SUBSET (0..0), T # {}, \A x \in T : f[x] \in Int
               PROVE  \E x \in T : \A y \in T : f[x] <= f[y]
    OBVIOUS
  <2>1. \A x \in 0..0 : x = 0
    OBVIOUS
  <2>2. T = {0}
    BY <2>1
  <2> QED
    BY <2>2, SMTT(30)
<1>2. ASSUME NEW m \in Nat, Fits(m) PROVE Fits(m + 1)
  <2> SUFFICES ASSUME NEW T \in SUBSET (0..(m + 1)), T # {}, \A x \in T : f[x] \in Int
               PROVE  \E x \in T : \A y \in T : f[x] <= f[y]
    OBVIOUS
  <2> DEFINE U == T \ {m + 1}
  <2>1. U \in SUBSET (0..m) /\ \A x \in U : f[x] \in Int
    BY SMTT(30)
  <2>2. CASE U = {}
    <3>1. T = {m + 1}
      BY <2>2
    <3> QED
      BY <3>1, SMTT(30)
  <2>3. CASE U # {}
    <3>1. PICK x \in U : \A y \in U : f[x] <= f[y]
      BY <1>2, <2>1, <2>3
    <3>2. CASE m + 1 \in T /\ f[m + 1] <= f[x]
      <4>1. \A y \in U : f[m + 1] <= f[y]
        BY <2>1, <3>1, <3>2
      <4>2. \A y \in T : f[m + 1] <= f[y]
        BY <3>2, <4>1
      <4> QED
        BY <3>2, <4>2
    <3>3. CASE m + 1 \notin T \/ f[x] <= f[m + 1]
      BY <3>1, <3>3
    <3>4. m + 1 \notin T \/ f[m + 1] <= f[x] \/ f[x] <= f[m + 1]
      BY <2>1
    <3> QED
      BY <3>2, <3>3, <3>4
  <2> QED
    BY <2>2, <2>3
<1> HIDE DEF Fits
<1>3. 0 \in N /\ \A m \in Nat : m \in N => m + 1 \in N
  BY <1>1, <1>2
<1> HIDE DEF N
<1>4. n \in N
  BY <1>3, Induct
<1> QED
  BY <1>4 DEF N, Fits

\* ... and one is greatest.
LEMMA GreatestValue ==
  ASSUME NEW n \in Nat, NEW S \in SUBSET (0..n), S # {}, NEW f, \A x \in S : f[x] \in Int
  PROVE  \E x \in S : \A y \in S : f[y] <= f[x]
<1> DEFINE g == [x \in S |-> 0 - f[x]]
<1>1. \A x \in S : g[x] \in Int /\ g[x] = 0 - f[x]
  OBVIOUS
<1> HIDE DEF g
<1>2. PICK x \in S : \A y \in S : g[x] <= g[y]
  BY <1>1, LeastValue
<1>3. \A y \in S : f[y] <= f[x]
  BY <1>1, <1>2
<1> QED
  BY <1>3

\* What a plain search may rely on.
Plain(q) ==
  /\ q \in Searches /\ q.byId \in BOOLEAN /\ q.op \in AllOps /\ q.lim \in Nat \ {0} /\ q.dump \in BOOLEAN
  /\ q.dump => q.byId /\ q.op = "ge" /\ MaxId \notin Ids
  /\ ~q.byId => q.op # "le" /\ MaxId \notin Ids
  /\ \A id \in Ids : id \in 1..MaxId /\ Val(q, id) \in Int /\ (q.byId => Val(q, id) = id)
  /\ \A i, j \in Ids : Val(q, i) = Val(q, j) => i = j

\* The assumptions on the constants make it so.
LEMMA PlainFacts == ASSUME PlainSearches, NEW q \in Searches PROVE Plain(q)
<1>1. CASE q.byId
  BY <1>1, QueryAssumption, SMTT(30) DEF Plain, PlainSearches, Val
<1>2. CASE ~q.byId
  BY <1>2, QueryAssumption DEF Plain, PlainSearches, Val
<1> QED
  BY <1>1, <1>2

\* The rows of an index of search q.
RowsOf(q) == {<<Val(q, id), id>> : id \in Ids}

\* Rows are in the order of their values.
LEMMA RowOrder ==
  ASSUME NEW q, Plain(q)
  PROVE  /\ \A e \in RowsOf(q) : e = <<e[1], e[2]>> /\ e[2] \in Ids /\ e[1] = Val(q, e[2]) /\ e[1] \in Int
                                 /\ e[2] \in Int /\ e # Closed
         /\ \A e, f \in RowsOf(q) : (Less(e, f) <=> e[1] < f[1]) /\ (e[1] = f[1] => e = f)
<1>1. \A e \in RowsOf(q) : e = <<e[1], e[2]>> /\ e[2] \in Ids /\ e[1] = Val(q, e[2]) /\ e[1] \in Int
                           /\ e[2] \in Int
  BY SMTT(30) DEF RowsOf, Plain
<1>2. \A e \in RowsOf(q) : e # Closed
  <2> TAKE e \in RowsOf(q)
  <2>1. e = <<e[1], e[2]>>
    BY <1>1
  <2>2. \A a, b : <<a, b>> # <<"closed">>
    OBVIOUS
  <2> QED
    BY <2>1, <2>2 DEF Closed
<1>3. \A e, f \in RowsOf(q) : e[1] = f[1] => e = f
  BY <1>1, SMTT(30) DEF Plain
<1>4. \A e, f \in RowsOf(q) : Less(e, f) <=> e[1] < f[1]
  BY <1>1, <1>3, SMTT(30) DEF Less
<1> QED
  BY <1>1, <1>2, <1>3, <1>4

\* A set of rows has a first row, and a last one.
LEMMA FirstRow ==
  ASSUME NEW q, Plain(q), NEW S \in SUBSET RowsOf(q), S # {}
  PROVE  (\E e \in S : \A f \in S : e[1] <= f[1]) /\ (\E e \in S : \A f \in S : f[1] <= e[1])
<1> DEFINE I == {e[2] : e \in S}
           f == [id \in I |-> Val(q, id)]
<1>1. MaxId \in Nat /\ I \in SUBSET (0..MaxId) /\ I # {} /\ \A id \in I : f[id] \in Int /\ f[id] = Val(q, id)
  <2>1. I \subseteq Ids /\ I # {}
    BY RowOrder, SMTT(30)
  <2>2. MaxId \in Nat /\ Ids \subseteq 0..MaxId
    BY QueryAssumption, SMTT(30)
  <2>3. \A id \in I : f[id] = Val(q, id) /\ f[id] \in Int
    BY <2>1 DEF Plain
  <2> QED
    BY ONLY <2>1, <2>2, <2>3
<1>2. \A e \in S : e[2] \in I /\ e[1] = f[e[2]]
  BY RowOrder
<1>3. \A id \in I : \E e \in S : e[2] = id
  OBVIOUS
<1> HIDE DEF I, f
<1>4. (\E x \in I : \A y \in I : f[x] <= f[y]) /\ (\E x \in I : \A y \in I : f[y] <= f[x])
  BY <1>1, LeastValue, GreatestValue
<1> QED
  BY <1>2, <1>3, <1>4, SMTT(30)

\* Where Seek() leaves an iterator: at the first row from the search key on, or, for a search
\* that descends, at a row from which no row up to the key is missed.
Sought(q, S, k, i, r) ==
  /\ r = Closed \/ r \in S
  /\ q.op # "le" => /\ r # Closed => ~Less(r, <<k, i>>)
                    /\ \A f \in S : ~Less(f, <<k, i>>) => r # Closed /\ r[1] <= f[1]
  /\ q.op = "le" /\ i = 0 => \A f \in S : f[1] <= k => r # Closed /\ f[1] <= r[1]

\* SeekRow() is that place.
LEMMA SeekFacts ==
  ASSUME Plain(query), NEW S \in SUBSET RowsOf(query), NEW k \in Int, NEW i \in Int
  PROVE  Sought(query, S, k, i, SeekRow(S, <<k, i>>))
<1> SUFFICES ASSUME NEW q, q = query, NEW r, r = SeekRow(S, <<k, i>>)
             PROVE  Sought(q, S, k, i, r)
  OBVIOUS
<1> DEFINE search == <<k, i>>
           after == {e \in S : ~Less(e, search)}
<1>1. \A e \in S : e[1] \in Int /\ e[2] \in Int /\ e # Closed
  BY RowOrder
<1>2. \A e, f \in S : Less(e, f) <=> e[1] < f[1]
  BY RowOrder
<1>3. after \in SUBSET RowsOf(q)
  OBVIOUS
<1>4. CASE after # {}
  <2>1. PICK m \in after : \A f \in after : m[1] <= f[1]
    BY <1>3, <1>4, FirstRow
  <2>2. \A f \in after : ~Less(f, m)
    BY <1>1, <1>2, <2>1
  <2>3. r = CHOOSE e \in after : \A f \in after : ~Less(f, e)
    BY <1>4 DEF SeekRow
  <2>4. r \in after /\ \A f \in after : ~Less(f, r)
    BY <2>2, <2>3
  <2>5. r \in S /\ r # Closed /\ ~Less(r, search) /\ \A f \in after : r[1] <= f[1]
    BY <1>1, <1>2, <2>4
  <2>6. ASSUME i = 0, NEW f \in S, f[1] <= k PROVE f[1] <= r[1]
    <3>1. f \in after => r[1] <= f[1]
      BY <2>5
    <3>2. search[1] = k /\ search[2] = i
      OBVIOUS
    <3>3. r[1] >= k
      BY <1>1, <2>5, <3>2 DEF Less
    <3> QED
      BY <1>1, <2>5, <2>6, <3>3
  <2> QED
    BY <2>5, <2>6 DEF Sought
<1>5. CASE after = {} /\ q.op = "le" /\ S # {}
  <2>1. PICK m \in S : \A f \in S : f[1] <= m[1]
    BY <1>5, FirstRow
  <2>2. \A f \in S : ~Less(m, f)
    BY <1>1, <1>2, <2>1
  <2>3. r = CHOOSE e \in S : \A f \in S : ~Less(e, f)
    BY <1>5 DEF SeekRow, Descending
  <2>4. r \in S /\ \A f \in S : ~Less(r, f)
    BY <2>2, <2>3
  <2>5. r \in S /\ r # Closed /\ \A f \in S : f[1] <= r[1]
    BY <1>1, <1>2, <2>4
  <2> QED
    BY <1>5, <2>5 DEF Sought
<1>6. CASE after = {} /\ (q.op # "le" \/ S = {})
  <2>1. r = Closed
    BY <1>6 DEF SeekRow, Descending
  <2>2. \A f \in S : Less(f, search) /\ q.op # "le"
    BY <1>6
  <2> QED
    BY <2>1, <2>2 DEF Sought
<1> QED
  BY <1>4, <1>5, <1>6

\* Where Next() or Prev() takes an iterator: to the row that comes after its own.
LEMMA AdvanceFacts ==
  ASSUME NEW q, q = query, Plain(q), NEW d \in Shards, rows[d] \subseteq RowsOf(q), cursor[d] \in rows[d],
         Descending(srcOp) <=> q.op = "le", NEW r, r = Advance(d)
  PROVE  /\ r = Closed \/ (r \in rows[d] /\ Aft(q, cursor[d][1], r[1]))
         /\ \A f \in rows[d] : Aft(q, cursor[d][1], f[1]) => Ahead(q, r, f)
<1> DEFINE c == cursor[d]
           rest == {e \in rows[d] : IF Descending(srcOp) THEN Less(e, c) ELSE Less(c, e)}
<1>1. \A e \in rows[d] : e[1] \in Int /\ e # Closed
  BY RowOrder
<1>2. \A e, f \in rows[d] : (Less(e, f) <=> e[1] < f[1]) /\ (e[1] = f[1] => e = f)
  BY RowOrder
<1>3. \A e \in rows[d] : e \in rest <=> Aft(q, c[1], e[1])
  BY <1>2 DEF Aft
<1>4. rest \in SUBSET RowsOf(q)
  OBVIOUS
<1>5. CASE rest = {}
  <2>1. r = Closed
    BY <1>5 DEF Advance
  <2> HIDE DEF rest
  <2> QED
    BY <1>3, <1>5, <2>1
<1>6. CASE rest # {}
  <2>1. r = CHOOSE e \in rest : \A f \in rest : IF Descending(srcOp) THEN ~Less(e, f) ELSE ~Less(f, e)
    BY <1>6 DEF Advance
  <2>2. \E e \in rest : \A f \in rest : IF Descending(srcOp) THEN ~Less(e, f) ELSE ~Less(f, e)
    <3>1. PICK m \in rest : \A f \in rest : m[1] <= f[1]
      BY <1>4, <1>6, FirstRow
    <3>2. PICK n \in rest : \A f \in rest : f[1] <= n[1]
      BY <1>4, <1>6, FirstRow
    <3>3. \A f \in rest : ~Less(f, m) /\ ~Less(n, f)
      BY <1>1, <1>2, <3>1, <3>2, SMTT(30)
    <3> QED
      BY <3>3
  <2>3. r \in rest /\ \A f \in rest : IF Descending(srcOp) THEN ~Less(r, f) ELSE ~Less(f, r)
    BY <2>1, <2>2
  <2>4. \A f \in rest : f = r \/ Aft(q, r[1], f[1])
    BY <1>1, <1>2, <2>3, SMTT(30) DEF Aft
  <2>5. r \in rows[d] /\ r # Closed /\ Aft(q, c[1], r[1])
    BY <1>1, <1>3, <2>3
  <2> HIDE DEF rest
  <2> QED
    BY <1>3, <2>4, <2>5 DEF Ahead
<1> QED
  BY <1>5, <1>6

\* The shard whose span next() returns has one, and none of the others' comes before it.
LEMMA BestFacts ==
  ASSUME NEW q, q = query, Plain(q), Descending(srcOp) <=> q.op = "le",
         nexts \in [Shards -> Ids \union {None}], \A d \in Shards : nexts[d] # None => ShardOf(nexts[d]) = d,
         \E d \in Shards : nexts[d] # None
  PROVE  /\ Best \in Shards /\ nexts[Best] \in Ids
         /\ \A d \in Shards : nexts[d] # None /\ d # Best => Aft(q, Val(q, nexts[Best]), Val(q, nexts[d]))
<1> DEFINE cand == {d \in Shards : nexts[d] # None}
           before(d, e) == IF Descending(srcOp) THEN Value(nexts[d]) > Value(nexts[e])
                           ELSE Value(nexts[d]) < Value(nexts[e])
           f == [d \in cand |-> Val(q, nexts[d])]
<1>0. NumShards \in Nat /\ cand \in SUBSET (0..NumShards) /\ cand # {} /\ \A d \in cand : d \in Int
  BY QueryAssumption, SMTT(30) DEF Shards
<1>1. \A d \in cand : nexts[d] \in Ids /\ f[d] = Val(q, nexts[d]) /\ f[d] \in Int
  BY DEF Plain
<1>2. \A d, e \in cand : f[d] = f[e] => d = e
  <2> SUFFICES ASSUME NEW d \in cand, NEW e \in cand, f[d] = f[e] PROVE d = e
    OBVIOUS
  <2>1. nexts[d] = nexts[e]
    BY <1>1 DEF Plain
  <2> QED
    BY <2>1
<1>3. \A d, e \in cand : before(d, e) <=> Aft(q, f[d], f[e])
  BY DEF Value, Val, Aft
<1>4. Best = CHOOSE d \in cand : \A e \in cand : ~before(e, d) /\ (before(d, e) \/ d <= e)
  BY DEF Best
<1> HIDE DEF f, before
<1>5. PICK m, n \in cand : \A e \in cand : f[m] <= f[e] /\ f[e] <= f[n]
  <2>1. PICK m \in cand : \A e \in cand : f[m] <= f[e]
    BY <1>0, <1>1, LeastValue
  <2>2. PICK n \in cand : \A e \in cand : f[e] <= f[n]
    BY <1>0, <1>1, GreatestValue
  <2> QED
    BY <2>1, <2>2
<1>6. \E d \in cand : \A e \in cand : ~before(e, d) /\ (before(d, e) \/ d <= e)
  <2>1. CASE q.op = "le"
    <3>1. \A e \in cand : ~Aft(q, f[e], f[n]) /\ (Aft(q, f[n], f[e]) \/ n = e)
      BY <1>1, <1>2, <1>5, <2>1, SMTT(30) DEF Aft
    <3> QED
      BY <1>0, <1>3, <3>1, SMTT(30)
  <2>2. CASE q.op # "le"
    <3>1. \A e \in cand : ~Aft(q, f[e], f[m]) /\ (Aft(q, f[m], f[e]) \/ m = e)
      BY <1>1, <1>2, <1>5, <2>2, SMTT(30) DEF Aft
    <3> QED
      BY <1>0, <1>3, <3>1, SMTT(30)
  <2> QED
    BY <2>1, <2>2
<1>7. Best \in cand /\ \A e \in cand : ~before(e, Best) /\ (before(Best, e) \/ Best <= e)
  BY <1>4, <1>6
<1>8. \A e \in cand : e # Best => Aft(q, f[Best], f[e])
  <2> SUFFICES ASSUME NEW e \in cand, e # Best PROVE Aft(q, f[Best], f[e])
    OBVIOUS
  <2>1. ~Aft(q, f[e], f[Best]) /\ f[e] # f[Best] /\ f[e] \in Int /\ f[Best] \in Int
    BY <1>1, <1>2, <1>3, <1>7
  <2> QED
    BY <2>1, SMTT(30) DEF Aft
<1> QED
  BY <1>1, <1>7, <1>8

\* What comes after the last result comes after all.
LEMMA AfterLast ==
  ASSUME NEW q, Plain(q), NEW s \in Seq(Ids), s # <<>>, Inc(q, s), NEW id \in Ids
  PROVE  /\ s[Len(s)] \in Ids
         /\ AftAll(q, s, id) <=> Aft(q, Val(q, s[Len(s)]), Val(q, id))
<1>1. Len(s) \in Nat \ {0} /\ Len(s) \in 1..Len(s) /\ \A i \in 1..Len(s) : s[i] \in Ids
  BY SeqFacts, EmptySeqFacts, SMTT(30)
<1>2. \A i \in 1..Len(s) : Val(q, s[i]) \in Int /\ Val(q, id) \in Int
  BY <1>1 DEF Plain
<1>3. \A i \in 1..Len(s) : i # Len(s) => Aft(q, Val(q, s[i]), Val(q, s[Len(s)]))
  BY <1>1 DEF Inc
<1>4. ASSUME Aft(q, Val(q, s[Len(s)]), Val(q, id)), NEW i \in 1..Len(s)
      PROVE  Aft(q, Val(q, s[i]), Val(q, id))
  BY <1>1, <1>2, <1>3, <1>4 DEF Aft
<1> QED
  BY <1>1, <1>4 DEF AftAll

\* Where an iterator that starts at <<k, i>> gets to.
From(q, k, i, id) == q.op # "le" => ~Less(<<Val(q, id), id>>, <<k, i>>)

\* The predicates, one operator at a time.
LEMMA OpFacts ==
  ASSUME NEW q, NEW k, NEW id, NEW o
  PROVE  /\ o = "eq" => (Sat(q, o, k, id) <=> Val(q, id) = k)
         /\ o = "le" => (Sat(q, o, k, id) <=> Val(q, id) <= k)
         /\ o = "ge" => (Sat(q, o, k, id) <=> Val(q, id) >= k)
         /\ o = "gt" => (Sat(q, o, k, id) <=> Val(q, id) > k)
         /\ q.op = "eq" => (Meets(q, k, id) <=> Val(q, id) = k)
         /\ q.op = "le" => (Meets(q, k, id) <=> Val(q, id) <= k)
         /\ q.op = "ge" => (Meets(q, k, id) <=> q.dump \/ Val(q, id) >= k)
         /\ q.op = "gt" => (Meets(q, k, id) <=> Val(q, id) > k)
BY DEF Sat, Meets

\* A continued search starts where the previous page ended: the spans from there on that satisfy
\* the predicate of the new source are those that satisfy the search's and were not returned.
LEMMA StartFacts ==
  ASSUME Plain(query), QueryTypeOK, ClientInv, CreateSource
  PROVE  \E i \in Int :
           /\ srcKey' \in Int /\ (query.op = "le" => i = 0)
           /\ cursor' = [d \in Shards |-> SeekRow(rows'[d], <<srcKey', i>>)]
           /\ \A id \in Ids : Sat(query, srcOp', srcKey', id) /\ From(query, srcKey', i, id)
                               <=> Meets(query, key, id) /\ AftAll(query, results, id)
<1> DEFINE q == query
           i == IF prev = None \/ query.byId THEN 0 ELSE StartId
<1>1. /\ srcOp' = IF prev # None /\ q.op = "ge" THEN "gt" ELSE q.op
      /\ srcKey' = IF prev = None THEN key ELSE IF q.byId THEN StartId ELSE Val(q, prev)
      /\ cursor' = [d \in Shards |-> SeekRow(rows'[d], <<srcKey', i>>)]
  BY DEF CreateSource, Value, Val
<1>2. /\ key \in Int /\ results \in Seq(Ids) /\ prev \in Ids \union {None} /\ q.op \in AllOps
      /\ q.byId \in BOOLEAN /\ q.dump \in BOOLEAN /\ MaxId \in Nat
  BY QueryAssumption DEF QueryTypeOK, Plain
<1>3. \A id \in Ids : id \in 1..MaxId /\ id \in Int /\ Val(q, id) \in Int
  BY SMTT(30) DEF Plain
<1>4. CASE prev = None
  <2>1. srcOp' = q.op /\ srcKey' = key /\ i = 0
    BY <1>1, <1>4
  <2>2. \A id \in Ids : Sat(q, srcOp', srcKey', id) <=> Meets(q, key, id) /\ AftAll(q, results, id)
    <3>1. CASE ~q.dump
      <4>1. results = <<>>
        <5>1. results # <<>> => results[Len(results)] \in Ids
          BY <1>2, EmptySeqFacts, SeqFacts, SMTT(30)
        <5>2. None \notin Ids
          BY <1>3, QueryAssumption
        <5> QED
          BY <1>4, <3>1, <5>1, <5>2 DEF ClientInv
      <4>2. \A id \in Ids : AftAll(q, results, id)
        BY <4>1 DEF AftAll
      <4> QED
        BY <1>2, <2>1, <3>1, <4>2, OpFacts DEF AllOps
    <3>2. CASE q.dump
      <4>1. q.byId /\ q.op = "ge" /\ \A id \in Ids : Val(q, id) = id
        BY <3>2 DEF Plain
      <4>2. \A id \in Ids : Meets(q, key, id) /\ (Sat(q, srcOp', srcKey', id) <=> id >= key)
        BY <2>1, <3>2, <4>1, OpFacts, SMTT(30)
      <4>3. CASE results = <<>>
        <5>1. key = 0 /\ \A id \in Ids : AftAll(q, results, id) /\ id >= 0
          BY <1>3, <3>2, <4>3 DEF AftAll, ClientInv
        <5> QED
          BY <4>2, <5>1
      <4>4. CASE results # <<>>
        <5> DEFINE last == results[Len(results)]
        <5>1. key = last + 1 /\ Inc(q, results)
          BY <3>2, <4>4 DEF ClientInv
        <5>2. \A id \in Ids : last \in Ids /\ (AftAll(q, results, id) <=> Aft(q, Val(q, last), Val(q, id)))
          BY <1>2, <4>4, <5>1, AfterLast
        <5> HIDE DEF last
        <5>3. \A id \in Ids : Aft(q, Val(q, last), Val(q, id)) <=> last < id
          BY <4>1, <5>2 DEF Aft
        <5>4. \A id \in Ids : id >= key <=> last < id
          BY <1>3, <5>1, <5>2
        <5> QED
          BY <4>2, <5>2, <5>3, <5>4
      <4> QED
        BY <4>3, <4>4
    <3> QED
      BY <1>2, <3>1, <3>2
  <2>3. \A id \in Ids : Sat(q, srcOp', srcKey', id) => From(q, srcKey', 0, id)
    <3> SUFFICES ASSUME NEW id \in Ids, Sat(q, srcOp', srcKey', id), q.op # "le"
                 PROVE  ~Less(<<Val(q, id), id>>, <<srcKey', 0>>)
      BY DEF From
    <3>1. q.op = "eq" \/ q.op = "ge" \/ q.op = "gt"
      BY <1>2 DEF AllOps
    <3>2. Val(q, id) = key \/ Val(q, id) >= key \/ Val(q, id) > key
      BY <2>1, <3>1, OpFacts
    <3>3. Val(q, id) >= key
      BY <1>2, <1>3, <3>2
    <3> QED
      BY <1>2, <1>3, <2>1, <3>3 DEF Less
  <2> QED
    BY <1>1, <1>2, <2>1, <2>2, <2>3
<1>5. CASE prev # None
  <2> DEFINE p == prev
  <2>1. results # <<>> /\ ~q.dump /\ p = results[Len(results)] /\ p \in Ids /\ Inc(q, results)
    BY <1>2, <1>5 DEF ClientInv
  <2>2. \A id \in Ids : AftAll(q, results, id) <=> Aft(q, Val(q, p), Val(q, id))
    BY <1>2, <2>1, AfterLast
  <2>3. Meets(q, key, p)
    <3>1. Len(results) \in 1..Len(results)
      BY <1>2, <2>1, EmptySeqFacts
    <3> QED
      BY <2>1, <3>1 DEF ClientInv, Fit
  <2>4. p \in 1..MaxId /\ Val(q, p) \in Int
    BY <1>3, <2>1
  <2>5. CASE q.op \in {"ge", "gt"}
    <3>1. srcOp' = "gt" /\ srcKey' = Val(q, p) /\ i \in Int
      <4>1. StartId = p
        BY <2>5 DEF StartId
      <4>2. q.byId => Val(q, p) = p
        BY <2>1 DEF Plain
      <4> QED
        BY <1>1, <1>5, <2>4, <2>5, <4>1, <4>2
    <3> HIDE DEF i
    <3>2. \A id \in Ids : Sat(q, srcOp', srcKey', id) <=> Val(q, id) > Val(q, p)
      BY <3>1, OpFacts
    <3>3. \A id \in Ids : AftAll(q, results, id) <=> Val(q, id) > Val(q, p)
      BY <1>3, <2>2, <2>4, <2>5 DEF Aft
    <3>4. \A id \in Ids : Val(q, id) > Val(q, p) => Meets(q, key, id)
      BY <1>2, <1>3, <2>1, <2>3, <2>4, <2>5, OpFacts, SMTT(30)
    <3>5. \A id \in Ids : Val(q, id) > Val(q, p) => From(q, srcKey', i, id)
      BY <1>3, <2>4, <3>1 DEF Less, From
    <3> QED
      BY <1>1, <2>4, <2>5, <3>1, <3>2, <3>3, <3>4, <3>5
  <2>6. CASE q.op = "le"
    <3>1. q.byId /\ \A id \in Ids : Val(q, id) = id
      BY <2>6 DEF Plain
    <3>2. StartId = p - 1
      BY <2>4, <2>6 DEF StartId, PrevId
    <3>3. srcOp' = "le" /\ srcKey' = p - 1 /\ i = 0
      BY <1>1, <1>5, <2>6, <3>1, <3>2
    <3> HIDE DEF i
    <3>4. \A id \in Ids : Sat(q, srcOp', srcKey', id) <=> id <= p - 1
      BY <3>1, <3>3, OpFacts, SMTT(30)
    <3>5. \A id \in Ids : AftAll(q, results, id) <=> id < p
      BY <2>1, <2>2, <2>6, <3>1 DEF Aft
    <3>6. p <= key /\ \A id \in Ids : Meets(q, key, id) <=> id <= key
      BY <2>1, <2>3, <2>6, <3>1, OpFacts, SMTT(30)
    <3>7. \A id \in Ids : (id <= p - 1 <=> id < p) /\ (id < p => id <= key)
      BY <1>2, <1>3, <2>4, <3>6
    <3> QED
      BY <1>1, <2>4, <2>6, <3>3, <3>4, <3>5, <3>6, <3>7 DEF From
  <2>7. CASE q.op = "eq"
    <3>1. Val(q, p) = key /\ \A id \in Ids : Meets(q, key, id) <=> Val(q, id) = key
      BY <2>3, <2>7, OpFacts
    <3>2. \A id \in Ids : ~(Meets(q, key, id) /\ AftAll(q, results, id))
      BY <1>2, <1>3, <2>2, <2>7, <3>1 DEF Aft
    <3>3. CASE q.byId
      <4>1. srcOp' = "eq" /\ srcKey' = 0 /\ i = 0
        BY <1>1, <1>5, <2>7, <3>3 DEF StartId
      <4> HIDE DEF i
      <4>2. \A id \in Ids : ~Sat(q, srcOp', srcKey', id)
        <5>1. \A id \in Ids : Val(q, id) = id
          BY <3>3 DEF Plain
        <5> QED
          BY <1>3, <4>1, <5>1, OpFacts
      <4> QED
        BY <1>1, <3>2, <4>1, <4>2
    <3>4. CASE ~q.byId
      <4>1. p # MaxId
        BY <2>1, <3>4 DEF Plain
      <4>2. StartId = p + 1
        BY <2>7, <3>4, <4>1 DEF StartId, NextId
      <4>3. srcOp' = "eq" /\ srcKey' = Val(q, p) /\ i = p + 1
        BY <1>1, <1>5, <2>7, <3>4, <4>2
      <4> HIDE DEF i
      <4>4. \A id \in Ids : Sat(q, srcOp', srcKey', id) => id = p
        BY <2>1, <4>3, OpFacts DEF Plain
      <4>5. Less(<<Val(q, p), p>>, <<srcKey', i>>)
        BY <2>4, <4>3 DEF Less
      <4> QED
        BY <1>1, <2>4, <2>7, <3>2, <4>3, <4>4, <4>5, SMTT(30) DEF From
    <3> QED
      BY <3>3, <3>4
  <2> QED
    BY <1>2, <2>5, <2>6, <2>7 DEF AllOps
<1> QED
  BY <1>4, <1>5

\* The spans to be found are of the store, and stay while no span is reaped or missed.
LEMMA FindableFacts == Findable \subseteq kept /\ (UNCHANGED <<kept, broken>> => Findable' = Findable)
BY DEF Findable, ShardOf

\* The client's part stays while the handler works, and when spans are reaped.
LEMMA ClientStays ==
  ASSUME ClientInv, UNCHANGED <<query, key, prev, results>>, Findable' \subseteq Findable
  PROVE  ClientInv'
BY DEF ClientInv

\* The source's part stays while nothing changes that it is about.
LEMMA SourceStays ==
  ASSUME SourceInv, UNCHANGED <<query, key, srcOp, srcKey, rows, cursor, nexts, ret, results>>
  PROVE  SourceInv'
BY DEF SourceInv, New

\* createSource() establishes what a page relies on.
LEMMA CreateSourceKeeps == ASSUME Plain(query), QueryInv, CreateSource PROVE QueryInv'
<1> DEFINE q == query
<1>1. /\ query' = query /\ key' = key /\ prev' = prev /\ results' = results /\ kept' = kept
      /\ broken' = broken /\ Findable' = Findable /\ stored' = stored /\ ret' = <<>> /\ phase' = "next" /\ at' = 0
      /\ nexts' = [d \in Shards |-> None]
      /\ srcOp' = IF prev # None /\ q.op = "ge" THEN "gt" ELSE q.op
      /\ rows' = [d \in Shards |-> {Row(id) : id \in {x \in stored : ShardOf(x) = d}}]
  BY FindableFacts DEF CreateSource
<1>2. QueryTypeOK /\ ClientInv
  BY DEF QueryInv
<1>3. stored \subseteq Ids /\ kept \subseteq stored /\ q \in Searches /\ key \in Int /\ results \in Seq(Ids)
      /\ broken \subseteq Shards /\ prev \in Ids \union {None} /\ q.op \in AllOps /\ q.lim \in Nat \ {0} /\ NumShards \in Nat
  BY <1>2, QueryAssumption DEF QueryTypeOK, Plain
<1>4. \A d \in Shards : rows'[d] = {<<Val(q, id), id>> : id \in {x \in stored : ShardOf(x) = d}}
  BY <1>1 DEF Row, Value, Val
<1>5. \A d \in Shards : \A e \in rows'[d] : /\ e[2] \in stored /\ e = <<Val(q, e[2]), e[2]>>
                                            /\ e[1] = Val(q, e[2]) /\ ShardOf(e[2]) = d
  BY <1>4, SMTT(30)
<1>6. \A d \in Shards : rows'[d] \in SUBSET RowsOf(q)
  BY <1>3, <1>5 DEF RowsOf
<1>7. PICK i \in Int :
        /\ srcKey' \in Int /\ (q.op = "le" => i = 0)
        /\ cursor' = [d \in Shards |-> SeekRow(rows'[d], <<srcKey', i>>)]
        /\ \A id \in Ids : Sat(q, srcOp', srcKey', id) /\ From(q, srcKey', i, id)
                            <=> Meets(q, key, id) /\ AftAll(q, results, id)
  BY <1>2, StartFacts
<1>8. \A d \in Shards :
        /\ cursor'[d] = Closed \/ cursor'[d] \in rows'[d]
        /\ q.op # "le" => /\ cursor'[d] # Closed => ~Less(cursor'[d], <<srcKey', i>>)
                          /\ \A f \in rows'[d] : ~Less(f, <<srcKey', i>>) =>
                               cursor'[d] # Closed /\ cursor'[d][1] <= f[1]
        /\ q.op = "le" => \A f \in rows'[d] : f[1] <= srcKey' => cursor'[d] # Closed /\ f[1] <= cursor'[d][1]
  <2> TAKE d \in Shards
  <2>1. cursor'[d] = SeekRow(rows'[d], <<srcKey', i>>) /\ rows'[d] \in SUBSET RowsOf(q)
    BY <1>6, <1>7
  <2>2. Sought(query, rows'[d], srcKey', i, cursor'[d])
    BY <1>7, <2>1, SeekFacts
  <2> QED
    BY <1>7, <2>2 DEF Sought
<1>9. \A d \in Shards : \A e \in rows'[d] : e[1] \in Int /\ e # Closed /\ e[2] \in Ids /\ e[2] \in Int
  BY <1>6, RowOrder
<1>10. QueryTypeOK'
  <2>1. rows' \in [Shards -> SUBSET (Int \X Ids)]
    BY <1>1, <1>5, <1>9, SMTT(30)
  <2>2. nexts' \in [Shards -> Ids \union {None}] /\ \A d \in Shards : nexts'[d] = None
    BY <1>1
  <2>3. srcOp' \in AllOps /\ ret' \in Seq(Ids) /\ Len(ret') <= q.lim /\ at' \in 0..NumShards
    BY <1>1, <1>3 DEF AllOps
  <2> QED
    BY <1>1, <1>3, <1>7, <1>8, <2>1, <2>2, <2>3 DEF QueryTypeOK, ShardOf
<1>11. RowsAreSpans'
  BY <1>1, <1>3, <1>5 DEF RowsAreSpans, ShardOf
<1>12. ClientInv'
  BY <1>1, <1>2, ClientStays
<1>13. \A d \in Shards : cursor'[d] # Closed /\ srcOp' \in {"eq", "ge"} => cursor'[d][1] >= srcKey'
  <2> SUFFICES ASSUME NEW d \in Shards, cursor'[d] # Closed, srcOp' \in {"eq", "ge"}
               PROVE  cursor'[d][1] >= srcKey'
    OBVIOUS
  <2>1. q.op # "le"
    BY <1>1
  <2>2. ~Less(cursor'[d], <<srcKey', i>>) /\ cursor'[d][1] \in Int
    BY <1>8, <1>9, <2>1
  <2> QED
    BY <1>7, <2>2 DEF Less
<1>14. \A d \in Shards : \A e \in rows'[d] :
         Ahead(q, cursor'[d], e) => From(q, srcKey', i, e[2])
  <2> SUFFICES ASSUME NEW d \in Shards, NEW e \in rows'[d], Ahead(q, cursor'[d], e), q.op # "le"
               PROVE  ~Less(<<Val(q, e[2]), e[2]>>, <<srcKey', i>>)
    BY DEF From
  <2>1. e = <<Val(q, e[2]), e[2]>> /\ e[1] \in Int /\ e[2] \in Int
    BY <1>5, <1>9
  <2>2. /\ cursor'[d] # Closed /\ ~Less(cursor'[d], <<srcKey', i>>)
        /\ cursor'[d][1] \in Int /\ cursor'[d][2] \in Int
    BY <1>8, <1>9 DEF Ahead
  <2>3. e = cursor'[d] \/ cursor'[d][1] < e[1]
    BY DEF Ahead, Aft
  <2>4. ~Less(e, <<srcKey', i>>)
    BY <1>7, <2>1, <2>2, <2>3 DEF Less
  <2> QED
    BY <2>1, <2>4
<1>15. \A d \in Shards : \A e \in rows'[d] :
         Sat(q, srcOp', srcKey', e[2]) /\ From(q, srcKey', i, e[2]) => Ahead(q, cursor'[d], e)
  <2> SUFFICES ASSUME NEW d \in Shards, NEW e \in rows'[d], Sat(q, srcOp', srcKey', e[2]),
                      From(q, srcKey', i, e[2])
               PROVE  Ahead(q, cursor'[d], e)
    OBVIOUS
  <2>1. e = <<Val(q, e[2]), e[2]>> /\ e[1] \in Int /\ e[1] = Val(q, e[2])
    BY <1>5, <1>9
  <2>2. CASE q.op # "le"
    <3>1. ~Less(e, <<srcKey', i>>)
      BY <2>1, <2>2 DEF From
    <3>2. cursor'[d] # Closed /\ cursor'[d][1] <= e[1] /\ cursor'[d] \in rows'[d]
      BY <1>8, <2>2, <3>1
    <3>3. cursor'[d][1] \in Int /\ (cursor'[d][1] = e[1] => cursor'[d] = e)
      BY <1>6, <3>2, RowOrder
    <3> QED
      BY <2>1, <2>2, <3>2, <3>3 DEF Ahead, Aft
  <2>3. CASE q.op = "le"
    <3>1. srcOp' = "le"
      BY <1>1, <2>3
    <3>2. e[1] <= srcKey'
      BY <2>1, <3>1, OpFacts, SMTT(30)
    <3>3. cursor'[d] # Closed /\ e[1] <= cursor'[d][1] /\ cursor'[d] \in rows'[d]
      BY <1>8, <2>3, <3>2
    <3>4. cursor'[d][1] \in Int /\ (cursor'[d][1] = e[1] => cursor'[d] = e)
      BY <1>6, <3>3, RowOrder
    <3> QED
      BY <2>1, <2>3, <3>3, <3>4 DEF Ahead, Aft
  <2> QED
    BY <2>2, <2>3
<1>16. \A d \in Shards : \A e \in rows'[d] :
         Ahead(q, cursor'[d], e) /\ Sat(q, srcOp', srcKey', e[2]) =>
           Meets(q, key, e[2]) /\ AftAll(q, results, e[2])
  BY <1>7, <1>9, <1>14
<1>17. \A id : AftAll(q, <<>>, id) /\ ~Got(<<>>, id)
  BY DEF AftAll, Got
<1>18. SourceInv'
  <2>1. srcOp' = q.op \/ (srcOp' = "gt" /\ q.op = "ge")
    BY <1>1
  <2>2. \A d \in Shards : nexts'[d] = None
    BY <1>1
  <2> QED
    BY <1>1, <1>13, <1>16, <1>17, <2>1, <2>2 DEF SourceInv, New
<1>19. \A id \in Findable : Fit(q, key, id) => Got(results, id) \/ Pending(id)'
  <2> SUFFICES ASSUME NEW id \in Findable, Fit(q, key, id), ~Got(results, id) PROVE Pending(id)'
    OBVIOUS
  <2>1. id \in Ids /\ id \in stored /\ Meets(q, key, id) /\ AftAll(q, results, id)
    BY <1>2, <1>3, FindableFacts DEF ClientInv, Fit
  <2>2. Sat(q, srcOp', srcKey', id) /\ From(q, srcKey', i, id)
    BY <1>7, <2>1
  <2> DEFINE d == ShardOf(id)
             e == <<Val(q, id), id>>
  <2>3. d \in Shards
    BY <2>1, QueryAssumption, SMTT(30) DEF ShardOf, Shards
  <2>4. e \in rows'[d] /\ e[2] = id
    BY <1>4, <2>1, <2>3
  <2>5. Ahead(q, cursor'[d], e)
    BY <1>15, <2>2, <2>3, <2>4
  <2> QED
    BY <1>1, <2>2, <2>4, <2>5 DEF Pending, ShardOf
<1>20. PageInv'
  <2>1. Inc(q, <<>>) /\ Len(<<>>) = 0
    BY DEF Inc
  <2>2. \A d \in Shards : ~(d < 0)
    BY <1>3 DEF Shards
  <2> QED
    BY <1>1, <1>3, <1>19, <2>1, <2>2 DEF PageInv
<1> QED
  BY <1>1, <1>10, <1>11, <1>12, <1>18, <1>20 DEF QueryInv

\* The direction of the source is that of the search.
LEMMA Direction == ASSUME SourceInv PROVE Descending(srcOp) <=> query.op = "le"
BY DEF SourceInv, Descending

\* Rows are those of the search's index.
LEMMA RowsKnown ==
  ASSUME RowsAreSpans, NEW d \in Shards
  PROVE  rows[d] \in SUBSET RowsOf(query)
BY DEF RowsAreSpans, RowsOf

\* The walk over the shards, its end, and writes and deletions keep the invariant.
LEMMA OthersKeep ==
  ASSUME Plain(query), QueryInv, Populated \/ NoMore \/ \E id \in Ids : Write(id) \/ Reap(id)
  PROVE  QueryInv'
<1>1. /\ UNCHANGED <<query, key, srcOp, srcKey, rows, cursor, nexts, ret, prev, results, broken>>
      /\ kept' \subseteq kept /\ Findable' \subseteq Findable
  BY DEF Populated, NoMore, Write, Reap, srcVars, Findable, ShardOf
<1>2. QueryTypeOK /\ RowsAreSpans /\ ClientInv /\ NumShards \in Nat
  BY QueryAssumption DEF QueryInv
<1>3. ClientInv'
  BY <1>1, <1>2, ClientStays
<1>4. SourceInv => SourceInv'
  BY <1>1, SourceStays
<1>5. \A id : Pending(id)' <=> Pending(id)
  BY <1>1 DEF Pending, ShardOf
<1>6. CASE Populated
  <2>1. /\ phase = "next" /\ phase' = phase /\ at \in Shards /\ at' = at + 1
        /\ stored' = stored /\ kept' = kept
        /\ cursor[at] = Closed \/ nexts[at] # None
    BY <1>6 DEF Populated
  <2>2. at' \in 0..NumShards /\ \A d \in Shards : d < at' => d < at \/ d = at
    BY <1>2, <2>1 DEF Shards
  <2>3. QueryTypeOK'
    BY <1>1, <1>2, <2>1, <2>2 DEF QueryTypeOK, ShardOf
  <2>4. RowsAreSpans'
    BY <1>1, <1>2, <2>1 DEF RowsAreSpans, ShardOf
  <2>5. SourceInv /\ PageInv
    BY <2>1 DEF QueryInv
  <2>6. PageInv'
    BY <1>1, <1>5, <2>1, <2>2, <2>5 DEF PageInv
  <2> QED
    BY <1>3, <1>4, <2>3, <2>4, <2>5, <2>6 DEF QueryInv
<1>7. CASE NoMore
  <2>1. /\ phase = "next" /\ phase' = "answer" /\ at = NumShards /\ at' = at /\ stored' = stored
        /\ kept' = kept /\ \A d \in Shards : nexts[d] = None
    BY <1>7 DEF NoMore, srcVars
  <2>2. QueryTypeOK'
    BY <1>1, <1>2, <2>1 DEF QueryTypeOK, ShardOf
  <2>3. RowsAreSpans'
    BY <1>1, <1>2, <2>1 DEF RowsAreSpans, ShardOf
  <2>4. SourceInv /\ PageInv
    BY <2>1 DEF QueryInv
  <2>5. \A d \in Shards : d < at
    BY <1>2, <2>1 DEF Shards
  <2>6. PageInv'
    BY <1>1, <1>5, <2>1, <2>4, <2>5 DEF PageInv
  <2> QED
    BY <1>3, <1>4, <2>2, <2>3, <2>4, <2>6 DEF QueryInv
<1>8. ASSUME NEW id \in Ids, Write(id) \/ Reap(id) PROVE QueryInv'
  <2>1. phase' = phase /\ at' = at /\ stored \subseteq Ids /\ kept \subseteq stored
    BY <1>2, <1>8 DEF Write, Reap, srcVars, QueryTypeOK
  <2>2. stored' \subseteq Ids /\ kept' \subseteq stored'
    BY <1>8, <2>1 DEF Write, Reap
  <2>3. QueryTypeOK'
    BY <1>1, <1>2, <2>1, <2>2 DEF QueryTypeOK, ShardOf
  <2>4. RowsAreSpans'
    BY <1>1, <1>2 DEF RowsAreSpans, ShardOf
  <2>5. PageInv => PageInv'
    BY <1>1, <1>5, <2>1 DEF PageInv
  <2> QED
    BY <1>3, <1>4, <2>1, <2>3, <2>4, <2>5 DEF QueryInv
<1> QED
  BY <1>6, <1>7, <1>8

\* A round of populateNextFromShard() keeps the invariant: a row it passes or stops at hides no
\* span that the search must return.
LEMMA PopulateKeeps ==
  ASSUME Plain(query), QueryInv, PopulateNext, query.byId \/ cursor[at][2] \in stored
  PROVE  QueryInv'
<1> DEFINE q == query
           d == at
           c == cursor[at]
           x == cursor[at][2]
<1>1. /\ phase = "next" /\ d \in Shards /\ c # Closed /\ nexts[d] = None
      /\ UNCHANGED <<query, key, stored, srcOp, srcKey, rows, at, ret, phase, prev, results, kept, broken>>
      /\ Findable' = Findable
  BY FindableFacts DEF PopulateNext
<1>2. QueryTypeOK /\ RowsAreSpans /\ ClientInv /\ SourceInv /\ PageInv
  BY <1>1 DEF QueryInv
<1>3. /\ cursor' = [cursor EXCEPT ![d] = IF SatisfiedBy(x) # "not" THEN Advance(d) ELSE Closed]
      /\ nexts' = [nexts EXCEPT ![d] = IF SatisfiedBy(x) = "satisfied" THEN x ELSE None]
  BY DEF PopulateNext
<1>4. /\ c \in rows[d] /\ x \in Ids /\ c = <<Val(q, x), x>> /\ c[1] = Val(q, x) /\ ShardOf(x) = d
      /\ rows[d] \in SUBSET RowsOf(q) /\ DOMAIN cursor = Shards /\ nexts \in [Shards -> Ids \union {None}]
  BY <1>1, <1>2, RowsKnown, SMTT(30) DEF QueryTypeOK, RowsAreSpans
<1>5. /\ SatisfiedBy(x) = "satisfied" <=> Sat(q, srcOp, srcKey, x)
      /\ SatisfiedBy(x) = "not" => srcOp \in {"eq", "ge"} /\ ~Sat(q, srcOp, srcKey, x)
  <2>1. srcOp = "eq" \/ srcOp = "le" \/ srcOp = "ge" \/ srcOp = "gt"
    BY <1>2 DEF QueryTypeOK, AllOps
  <2>2. Value(x) = Val(q, x)
    BY DEF Value, Val
  <2> QED
    BY <2>1, <2>2, OpFacts, SMTT(30) DEF SatisfiedBy
<1>6. PICK n : n = cursor'[d]
  OBVIOUS
<1>7. \A e \in rows[d] : e[1] \in Int /\ e # Closed /\ e[1] = Val(q, e[2])
  BY <1>4, RowOrder
<1>8. /\ n = Closed \/ (n \in rows[d] /\ Aft(q, c[1], n[1]))
      /\ SatisfiedBy(x) # "not" => \A f \in rows[d] : Aft(q, c[1], f[1]) => Ahead(q, n, f)
  <2>1. n = IF SatisfiedBy(x) # "not" THEN Advance(d) ELSE Closed
    BY <1>1, <1>3, <1>4, <1>6
  <2>2. LET r == Advance(d)
        IN  /\ r = Closed \/ (r \in rows[d] /\ Aft(q, c[1], r[1]))
            /\ \A f \in rows[d] : Aft(q, c[1], f[1]) => Ahead(q, r, f)
    BY <1>1, <1>2, <1>4, Direction, AdvanceFacts
  <2> QED
    BY <2>1, <2>2
<1>9. \A f \in rows[d] : Ahead(q, n, f) => Ahead(q, c, f) /\ Aft(q, c[1], f[1])
  <2> SUFFICES ASSUME NEW f \in rows[d], Ahead(q, n, f) PROVE Ahead(q, c, f) /\ Aft(q, c[1], f[1])
    OBVIOUS
  <2>1. n \in rows[d] /\ Aft(q, c[1], n[1]) /\ (f = n \/ Aft(q, n[1], f[1]))
    BY <1>8 DEF Ahead
  <2>2. Aft(q, c[1], f[1])
    BY <1>4, <1>7, <2>1, SMTT(30) DEF Aft
  <2> QED
    BY <1>1, <2>2 DEF Ahead
<1>10. SatisfiedBy(x) = "not" => \A f \in rows[d] : Ahead(q, c, f) => ~Sat(q, srcOp, srcKey, f[2])
  <2> SUFFICES ASSUME SatisfiedBy(x) = "not", NEW f \in rows[d], Ahead(q, c, f), Sat(q, srcOp, srcKey, f[2])
               PROVE  FALSE
    OBVIOUS
  <2>1. srcOp \in {"eq", "ge"} /\ ~Sat(q, srcOp, srcKey, x) /\ c[1] >= srcKey /\ srcKey \in Int
    BY <1>1, <1>2, <1>5 DEF SourceInv, QueryTypeOK
  <2>2. q.op # "le"
    BY <1>2, <2>1 DEF SourceInv
  <2>3. f[1] >= c[1] /\ f[1] \in Int /\ c[1] \in Int /\ f[1] = Val(q, f[2])
    BY <1>4, <1>7, <2>2, SMTT(30) DEF Ahead, Aft
  <2>4. CASE srcOp = "ge"
    BY <1>4, <2>1, <2>4, OpFacts, SMTT(30)
  <2>5. CASE srcOp = "eq"
    <3>1. c[1] # srcKey /\ f[1] = srcKey
      BY <1>4, <2>1, <2>3, <2>5, OpFacts, SMTT(30)
    <3> QED
      BY <2>1, <2>3, <3>1
  <2> QED
    BY <2>1, <2>4, <2>5
<1>11. \A e \in Shards \ {d} : cursor'[e] = cursor[e] /\ nexts'[e] = nexts[e]
  BY <1>3, <1>4
<1>12. nexts'[d] = IF SatisfiedBy(x) = "satisfied" THEN x ELSE None
  BY <1>1, <1>3, <1>4
<1> HIDE DEF c, x, d
<1>13. QueryTypeOK'
  <2>1. DOMAIN cursor' = Shards /\ nexts' \in [Shards -> Ids \union {None}]
    BY <1>3, <1>4
  <2>2. \A e \in Shards : cursor'[e] = Closed \/ cursor'[e] \in rows'[e]
    BY <1>1, <1>2, <1>6, <1>8, <1>11 DEF QueryTypeOK
  <2>3. \A e \in Shards : nexts'[e] # None => ShardOf(nexts'[e]) = e
    BY <1>2, <1>4, <1>11, <1>12 DEF QueryTypeOK
  <2> QED
    BY <1>1, <1>2, <2>1, <2>2, <2>3 DEF QueryTypeOK, ShardOf
<1>14. RowsAreSpans' /\ ClientInv'
  BY <1>1, <1>2, ClientStays DEF RowsAreSpans, ShardOf
<1>15. \A id : New(id)' <=> New(id)
  BY <1>1 DEF New
<1>16. Sat(q, srcOp, srcKey, x) => New(x)
  <2>1. Ahead(q, c, c) /\ c[2] = x
    BY <1>1, <1>4 DEF Ahead
  <2> QED
    BY <1>1, <1>2, <1>4, <2>1 DEF SourceInv, c, d
<1>17. SourceInv'
  <2>1. \A e \in Shards : cursor'[e] # Closed /\ srcOp \in {"eq", "ge"} => cursor'[e][1] >= srcKey
    <3>1. ASSUME n # Closed, srcOp \in {"eq", "ge"} PROVE n[1] >= srcKey
      <4>1. c[1] >= srcKey /\ srcKey \in Int /\ q.op # "le"
        BY <1>1, <1>2, <3>1 DEF SourceInv, QueryTypeOK, c, d
      <4>2. n[1] \in Int /\ c[1] \in Int /\ c[1] < n[1]
        BY <1>4, <1>7, <1>8, <3>1, <4>1 DEF Aft
      <4> QED
        BY <4>1, <4>2
    <3> QED
      BY <1>2, <1>6, <1>11, <3>1 DEF SourceInv
  <2>2. \A e \in Shards : \A f \in rows[e] :
          Ahead(q, cursor'[e], f) /\ Sat(q, srcOp, srcKey, f[2]) => New(f[2])
    <3>1. \A f \in rows[d] : Ahead(q, n, f) /\ Sat(q, srcOp, srcKey, f[2]) => New(f[2])
      BY <1>1, <1>2, <1>9 DEF SourceInv, c, d
    <3> QED
      BY <1>2, <1>6, <1>11, <3>1 DEF SourceInv
  <2>3. \A e \in Shards : nexts'[e] # None =>
          New(nexts'[e]) /\ \A f \in rows[e] : Ahead(q, cursor'[e], f) => Aft(q, Val(q, nexts'[e]), f[1])
    <3>1. nexts'[d] # None => New(nexts'[d]) /\ \A f \in rows[d] : Ahead(q, n, f) => Aft(q, Val(q, nexts'[d]), f[1])
      BY <1>4, <1>5, <1>9, <1>12, <1>16
    <3> QED
      BY <1>2, <1>6, <1>11, <3>1 DEF SourceInv
  <2>4. srcOp = q.op \/ (srcOp = "gt" /\ q.op = "ge")
    BY <1>2 DEF SourceInv
  <2> QED
    BY <1>1, <1>15, <2>1, <2>2, <2>3, <2>4 DEF SourceInv
<1>18. \A id \in Ids : Pending(id) => Pending(id)'
  <2> SUFFICES ASSUME NEW id \in Ids, Pending(id) PROVE Pending(id)'
    OBVIOUS
  <2> DEFINE s == ShardOf(id)
             e == <<Val(q, id), id>>
  <2>0. s \in Shards /\ e[1] = Val(q, id) /\ e[2] = id
    BY QueryAssumption, SMTT(30) DEF ShardOf, Shards
  <2>1. Sat(q, srcOp, srcKey, id) /\ (nexts[s] = id \/ (e \in rows[s] /\ Ahead(q, cursor[s], e)))
    BY DEF Pending
  <2>2. nexts'[s] = id \/ (e \in rows[s] /\ Ahead(q, cursor'[s], e))
    <3>1. CASE s # d
      BY <1>11, <2>0, <2>1, <3>1
    <3>2. CASE s = d
      <4>1. e \in rows[d] /\ Ahead(q, c, e)
        <5>1. \A i \in Ids : i \in Int
          BY SMTT(30) DEF Plain
        <5>2. None \notin Ids
          BY <5>1, QueryAssumption
        <5> QED
          BY <1>1, <2>1, <3>2, <5>2 DEF c, d
      <4>2. SatisfiedBy(x) # "not"
        BY <1>10, <2>0, <2>1, <4>1
      <4>3. CASE e = c
        <5>1. x = id
          BY <1>4, <4>3
        <5> QED
          BY <1>5, <1>12, <2>1, <3>2, <5>1
      <4>4. CASE e # c
        BY <1>6, <1>8, <3>2, <4>1, <4>2, <4>4 DEF Ahead
      <4> QED
        BY <4>3, <4>4
    <3> QED
      BY <3>1, <3>2
  <2> QED
    BY <1>1, <2>1, <2>2 DEF Pending, ShardOf
<1>19. PageInv'
  <2>1. \A e \in Shards : e < at => e # d
    BY DEF d, Shards
  <2>2. \A e \in Shards : e < at => cursor'[e] = Closed \/ nexts'[e] # None
    BY <1>1, <1>2, <1>11, <2>1 DEF PageInv
  <2>3. Findable \subseteq Ids
    BY <1>2, FindableFacts DEF QueryTypeOK
  <2> QED
    BY <1>1, <1>2, <1>18, <2>2, <2>3 DEF PageInv
<1> QED
  BY <1>13, <1>14, <1>17, <1>19 DEF QueryInv

\* Neither does one whose span is missing: it ends the shard's part of the page, and the spans
\* of that shard are not to be found any more.
LEMMA MissKeeps ==
  ASSUME Plain(query), QueryInv, PopulateNext, ~(query.byId \/ cursor[at][2] \in stored)
  PROVE  QueryInv'
<1>1. /\ phase = "next" /\ at \in Shards /\ nexts[at] = None
      /\ cursor' = [cursor EXCEPT ![at] = Closed] /\ nexts' = [nexts EXCEPT ![at] = None]
      /\ broken' = broken \union {at}
      /\ UNCHANGED <<query, key, stored, srcOp, srcKey, rows, at, ret, phase, prev, results, kept>>
  BY DEF PopulateNext
<1>2. QueryTypeOK /\ RowsAreSpans /\ ClientInv /\ SourceInv /\ PageInv
  BY <1>1 DEF QueryInv
<1>3. nexts' = nexts /\ cursor'[at] = Closed /\ DOMAIN cursor' = Shards
      /\ \A d \in Shards \ {at} : cursor'[d] = cursor[d]
  BY <1>1, <1>2 DEF QueryTypeOK
<1>4. Findable' \subseteq Findable /\ Findable' \subseteq Ids /\ \A id \in Findable' : ShardOf(id) # at
  BY <1>1, <1>2 DEF Findable, ShardOf, QueryTypeOK
<1>5. QueryTypeOK'
  <2>1. \A d \in Shards : cursor'[d] = Closed \/ cursor'[d] \in rows'[d]
    BY <1>1, <1>2, <1>3 DEF QueryTypeOK
  <2> QED
    BY <1>1, <1>2, <1>3, <2>1 DEF QueryTypeOK, ShardOf
<1>6. RowsAreSpans' /\ ClientInv'
  BY <1>1, <1>2, <1>4, ClientStays DEF RowsAreSpans, ShardOf
<1>7. \A d \in Shards : \A e : Ahead(query, cursor'[d], e) => Ahead(query, cursor[d], e)
  BY <1>3 DEF Ahead
<1>8. SourceInv'
  <2>1. \A id : New(id)' <=> New(id)
    BY <1>1 DEF New
  <2>2. \A d \in Shards : cursor'[d] # Closed => cursor'[d] = cursor[d]
    BY <1>3
  <2> QED
    BY <1>1, <1>2, <1>3, <1>7, <2>1, <2>2 DEF SourceInv
<1>9. \A id \in Findable' : Pending(id) => Pending(id)'
  <2> SUFFICES ASSUME NEW id \in Findable', Pending(id) PROVE Pending(id)'
    OBVIOUS
  <2>1. ShardOf(id) \in Shards \ {at}
    BY <1>4, QueryAssumption, SMTT(30) DEF ShardOf, Shards
  <2> QED
    BY <1>1, <1>3, <2>1 DEF Pending, ShardOf
<1>10. PageInv'
  <2>1. \A d \in Shards : d < at => cursor'[d] = Closed \/ nexts'[d] # None
    BY <1>1, <1>2, <1>3 DEF PageInv
  <2> QED
    BY <1>1, <1>2, <1>4, <1>9, <2>1 DEF PageInv
<1> QED
  BY <1>5, <1>6, <1>8, <1>10 DEF QueryInv

\* A result that comes after those there are leaves them in order.
LEMMA AppendResult ==
  ASSUME NEW q, Plain(q), NEW s \in Seq(Ids), NEW x \in Ids
  PROVE  /\ Inc(q, s) /\ AftAll(q, s, x) => Inc(q, Append(s, x))
         /\ \A id : Got(Append(s, x), id) <=> Got(s, id) \/ id = x
         /\ \A id : AftAll(q, Append(s, x), id) <=> AftAll(q, s, id) /\ Aft(q, Val(q, x), Val(q, id))
<1> DEFINE t == Append(s, x)
<1>1. Len(s) \in Nat /\ Len(t) = Len(s) + 1 /\ (\A i \in 1..Len(s) : t[i] = s[i]) /\ t[Len(s) + 1] = x
  BY AppendFacts, SeqFacts, SMTT(30)
<1> HIDE DEF t
<1>2. \A i \in 1..Len(t) : i \in 1..Len(s) \/ i = Len(s) + 1
  BY <1>1
<1>3. 1..Len(s) \subseteq 1..Len(t) /\ Len(s) + 1 \in 1..Len(t) /\ \A i \in 1..Len(s) : i < Len(s) + 1
  BY <1>1
<1>4. ASSUME Inc(q, s), AftAll(q, s, x) PROVE Inc(q, t)
  <2> SUFFICES ASSUME NEW i \in 1..Len(t), NEW j \in 1..Len(t), i < j
               PROVE  Aft(q, Val(q, t[i]), Val(q, t[j]))
    BY DEF Inc
  <2>1. i \in 1..Len(s)
    BY <1>1
  <2>2. CASE j \in 1..Len(s)
    BY <1>1, <1>4, <2>1, <2>2 DEF Inc
  <2>3. CASE j = Len(s) + 1
    BY <1>1, <1>4, <2>1, <2>3 DEF AftAll
  <2> QED
    BY <1>2, <2>2, <2>3
<1>5. \A id : Got(t, id) <=> Got(s, id) \/ id = x
  BY <1>1, <1>2, <1>3 DEF Got
<1>6. \A id : AftAll(q, t, id) <=> AftAll(q, s, id) /\ Aft(q, Val(q, x), Val(q, id))
  BY <1>1, <1>2, <1>3 DEF AftAll
<1> QED
  BY <1>4, <1>5, <1>6 DEF t

\* HandleQuery() takes the span that next() returns: the other shards' come after it.
LEMMA TakeKeeps == ASSUME Plain(query), QueryInv, TakeBest PROVE QueryInv'
<1> DEFINE q == query
<1>1. /\ phase = "next" /\ at = NumShards /\ at' = 0 /\ \E d \in Shards : nexts[d] # None
      /\ UNCHANGED <<query, key, stored, srcOp, srcKey, rows, cursor, prev, results, kept, broken>>
      /\ Findable' = Findable
  BY FindableFacts DEF TakeBest
<1>2. QueryTypeOK /\ RowsAreSpans /\ ClientInv /\ SourceInv /\ PageInv
  BY <1>1 DEF QueryInv
<1>3. /\ nexts \in [Shards -> Ids \union {None}] /\ \A d \in Shards : nexts[d] # None => ShardOf(nexts[d]) = d
      /\ ret \in Seq(Ids) /\ Len(ret) < q.lim /\ q.lim \in Nat /\ Len(ret) \in Nat /\ NumShards \in Nat
  BY <1>1, <1>2, QueryAssumption, SeqFacts DEF QueryTypeOK, PageInv, Plain
<1>4. PICK b \in Shards, x \in Ids :
        /\ b = Best /\ x = nexts[b]
        /\ \A d \in Shards : nexts[d] # None /\ d # b => Aft(q, Val(q, x), Val(q, nexts[d]))
  BY <1>1, <1>2, <1>3, Direction, BestFacts
<1>5. /\ nexts' = [nexts EXCEPT ![b] = None]
      /\ ret' = IF Accepts(x) THEN Append(ret, x) ELSE ret
      /\ phase' = IF Len(ret') >= q.lim THEN "answer" ELSE "next"
  BY <1>4 DEF TakeBest
<1>6. nexts'[b] = None /\ \A d \in Shards \ {b} : nexts'[d] = nexts[d]
  BY <1>3, <1>5
<1>7. New(x) /\ Meets(q, key, x) /\ AftAll(q, results, x) /\ AftAll(q, ret, x)
  <2>1. None \notin Ids
    <3>1. \A i \in Ids : i \in Int
      BY SMTT(30) DEF Plain
    <3> QED
      BY <3>1, QueryAssumption
  <2>2. New(x)
    BY <1>2, <1>4, <2>1 DEF SourceInv
  <2> QED
    BY <2>2 DEF New
<1>8. \A d \in Shards \ {b} : nexts[d] # None => Aft(q, Val(q, x), Val(q, nexts[d]))
  BY <1>4
<1>9. \A d \in Shards : \A e \in rows[d] : /\ e[1] \in Int /\ e[1] = Val(q, e[2]) /\ e[2] \in Ids
                                           /\ Ahead(q, cursor[d], e) => Aft(q, Val(q, x), e[1])
  <2> SUFFICES ASSUME NEW d \in Shards, NEW e \in rows[d]
               PROVE  /\ e[1] \in Int /\ e[1] = Val(q, e[2]) /\ e[2] \in Ids
                      /\ Ahead(q, cursor[d], e) => Aft(q, Val(q, x), e[1])
    OBVIOUS
  <2>1. e[1] \in Int /\ e[1] = Val(q, e[2]) /\ e[2] \in Ids /\ Val(q, x) \in Int
    BY <1>2, RowsKnown, RowOrder DEF Plain
  <2>2. ASSUME Ahead(q, cursor[d], e) PROVE Aft(q, Val(q, x), e[1])
    <3>1. nexts[d] # None
      <4>1. d < at /\ cursor[d] # Closed
        BY <1>1, <1>3, <2>2, SMTT(30) DEF Shards, Ahead
      <4> QED
        BY <1>1, <1>2, <4>1 DEF PageInv
    <3>2. Aft(q, Val(q, nexts[d]), e[1])
      BY <1>2, <2>2, <3>1 DEF SourceInv
    <3>3. CASE d = b
      BY <1>4, <3>2, <3>3
    <3>4. CASE d # b
      <4>1. Aft(q, Val(q, x), Val(q, nexts[d])) /\ nexts[d] \in Ids
        BY <1>3, <1>8, <3>1, <3>4
      <4>2. Val(q, nexts[d]) \in Int
        BY <4>1 DEF Plain
      <4> QED
        BY <2>1, <3>2, <4>1, <4>2 DEF Aft
    <3> QED
      BY <3>3, <3>4
  <2> QED
    BY <2>1, <2>2
<1>10. /\ Accepts(x) => Fit(q, key, x)
       /\ \A id : Fit(q, key, id) /\ id = x => Accepts(x)
  BY <1>7 DEF Accepts, Fit
<1>11. /\ ret' \in Seq(Ids) /\ Len(ret') \in Nat /\ Len(ret') <= q.lim /\ Inc(q, ret')
       /\ \A id : Got(ret', id) <=> Got(ret, id) \/ (Accepts(x) /\ id = x)
       /\ \A id : AftAll(q, ret, id) /\ Aft(q, Val(q, x), Val(q, id)) => AftAll(q, ret', id)
       /\ \A i \in 1..Len(ret') : Fit(q, key, ret'[i]) /\ AftAll(q, results, ret'[i])
  <2>0. Inc(q, ret) /\ \A i \in 1..Len(ret) : Fit(q, key, ret[i]) /\ AftAll(q, results, ret[i])
    BY <1>2 DEF PageInv
  <2>1. CASE ~Accepts(x)
    BY <1>3, <1>5, <2>0, <2>1
  <2>2. CASE Accepts(x)
    <3>1. /\ Len(Append(ret, x)) = Len(ret) + 1 /\ Append(ret, x) \in Seq(Ids)
          /\ \A i \in 1..Len(ret) : Append(ret, x)[i] = ret[i]
          /\ Append(ret, x)[Len(ret) + 1] = x
      BY <1>3, <1>4, AppendFacts, SMTT(30)
    <3>2. \A i \in 1..(Len(ret) + 1) : i \in 1..Len(ret) \/ i = Len(ret) + 1
      BY <1>3
    <3>3. /\ Inc(q, Append(ret, x)) /\ \A id : Got(Append(ret, x), id) <=> Got(ret, id) \/ id = x
          /\ \A id : AftAll(q, Append(ret, x), id) <=> AftAll(q, ret, id) /\ Aft(q, Val(q, x), Val(q, id))
      BY <1>3, <1>4, <1>7, <2>0, AppendResult
    <3>4. ret' = Append(ret, x) /\ Fit(q, key, x)
      BY <1>5, <1>10, <2>2
    <3>5. \A i \in 1..Len(ret') : Fit(q, key, ret'[i]) /\ AftAll(q, results, ret'[i])
      BY <1>7, <2>0, <3>1, <3>2, <3>4
    <3>6. Len(ret') \in Nat /\ Len(ret') <= q.lim
      BY <1>3, <3>1, <3>4
    <3> QED
      BY <2>2, <3>1, <3>3, <3>4, <3>5, <3>6
  <2> QED
    BY <2>1, <2>2
<1>12. QueryTypeOK'
  <2>1. nexts' \in [Shards -> Ids \union {None}] /\ \A d \in Shards : nexts'[d] # None => ShardOf(nexts'[d]) = d
    BY <1>3, <1>5, <1>6
  <2>2. at' \in 0..NumShards /\ phase' \in {"request", "next", "answer", "done"}
    BY <1>1, <1>3, <1>5, SMTT(30)
  <2> QED
    BY <1>1, <1>2, <1>11, <2>1, <2>2 DEF QueryTypeOK, ShardOf
<1>13. RowsAreSpans' /\ ClientInv'
  BY <1>1, <1>2, ClientStays DEF RowsAreSpans, ShardOf
<1>14. \A id : New(id) /\ Aft(q, Val(q, x), Val(q, id)) => New(id)'
  BY <1>1, <1>11 DEF New
<1>15. SourceInv'
  <2>1. \A d \in Shards : cursor[d] # Closed /\ srcOp \in {"eq", "ge"} => cursor[d][1] >= srcKey
    BY <1>2 DEF SourceInv
  <2>2. \A d \in Shards : \A e \in rows[d] :
          Ahead(q, cursor[d], e) /\ Sat(q, srcOp, srcKey, e[2]) => New(e[2])'
    BY <1>2, <1>9, <1>14 DEF SourceInv
  <2>3. \A d \in Shards : nexts'[d] # None =>
          /\ Meets(q, key, nexts'[d]) /\ AftAll(q, results, nexts'[d]) /\ AftAll(q, ret', nexts'[d])
          /\ \A e \in rows[d] : Ahead(q, cursor[d], e) => Aft(q, Val(q, nexts'[d]), e[1])
    <3> SUFFICES ASSUME NEW d \in Shards, nexts'[d] # None
                 PROVE  /\ Meets(q, key, nexts[d]) /\ AftAll(q, results, nexts[d]) /\ AftAll(q, ret', nexts[d])
                        /\ \A e \in rows[d] : Ahead(q, cursor[d], e) => Aft(q, Val(q, nexts[d]), e[1])
      BY <1>6
    <3>1. d # b /\ nexts'[d] = nexts[d]
      BY <1>6
    <3>2. New(nexts[d]) /\ \A e \in rows[d] : Ahead(q, cursor[d], e) => Aft(q, Val(q, nexts[d]), e[1])
      BY <1>2, <3>1 DEF SourceInv
    <3>3. AftAll(q, ret', nexts[d])
      BY <1>8, <1>11, <3>1, <3>2 DEF New
    <3> QED
      BY <3>2, <3>3 DEF New
  <2>4. srcOp = q.op \/ (srcOp = "gt" /\ q.op = "ge")
    BY <1>2 DEF SourceInv
  <2> QED
    BY <1>1, <2>1, <2>2, <2>3, <2>4 DEF SourceInv, New
<1>16. \A id \in Ids : Pending(id) => id = x \/ Pending(id)'
  <2> SUFFICES ASSUME NEW id \in Ids, Pending(id), id # x PROVE Pending(id)'
    OBVIOUS
  <2> DEFINE s == ShardOf(id)
  <2>1. s \in Shards
    BY QueryAssumption, SMTT(30) DEF ShardOf, Shards
  <2>2. nexts[s] = id => nexts'[s] = id
    BY <1>4, <1>6, <2>1
  <2> QED
    BY <1>1, <2>2 DEF Pending, ShardOf
<1>17. PageInv'
  <2>1. \A id \in Findable : Fit(q, key, id) => Got(results, id) \/ Got(ret', id) \/ Pending(id)'
    <3> SUFFICES ASSUME NEW id \in Findable, Fit(q, key, id)
                 PROVE  Got(results, id) \/ Got(ret', id) \/ Pending(id)'
      OBVIOUS
    <3>1. id \in Ids /\ (Got(results, id) \/ Got(ret, id) \/ Pending(id))
      BY <1>2, FindableFacts DEF PageInv, QueryTypeOK
    <3> QED
      BY <1>10, <1>11, <1>16, <3>1
  <2>2. phase' = "next" => Len(ret') < q.lim
    BY <1>3, <1>5, <1>11
  <2>3. phase' = "answer" => Len(ret') >= q.lim
    BY <1>5
  <2>4. \A d \in Shards : ~(d < at')
    BY <1>1, <1>3, SMTT(30) DEF Shards
  <2> QED
    BY <1>1, <1>11, <2>1, <2>2, <2>3, <2>4 DEF PageInv
<1> QED
  BY <1>12, <1>13, <1>15, <1>17 DEF QueryInv

\* A page that comes after the results there are leaves them in order.
LEMMA AddPage ==
  ASSUME NEW q, NEW s \in Seq(Ids), NEW t \in Seq(Ids), Inc(q, s), Inc(q, t),
         \A i \in 1..Len(t) : AftAll(q, s, t[i])
  PROVE  /\ s \o t \in Seq(Ids) /\ Inc(q, s \o t)
         /\ \A id : Got(s \o t, id) <=> Got(s, id) \/ Got(t, id)
         /\ \A id : AftAll(q, s, id) /\ AftAll(q, t, id) => AftAll(q, s \o t, id)
         /\ t = <<>> => s \o t = s
         /\ t # <<>> => s \o t # <<>> /\ (s \o t)[Len(s \o t)] = t[Len(t)]
<1> DEFINE u == s \o t
           m == Len(s)
           n == Len(t)
<1>1. /\ m \in Nat /\ n \in Nat /\ u \in Seq(Ids) /\ Len(u) = m + n /\ Len(u) \in Nat
      /\ \A i \in 1..(m + n) : u[i] = IF i <= m THEN s[i] ELSE t[i - m]
  BY ConcatFacts, SeqFacts
<1> HIDE DEF u, m, n
<1>2. \A i \in 1..Len(u) : \/ i \in 1..m /\ u[i] = s[i]
                           \/ i - m \in 1..n /\ u[i] = t[i - m]
  BY <1>1
<1>3. \A i \in 1..m : i \in 1..Len(u) /\ u[i] = s[i]
  BY <1>1
<1>4. \A i \in 1..n : m + i \in 1..Len(u) /\ u[m + i] = t[i]
  BY <1>1
<1>5. Inc(q, u)
  <2> SUFFICES ASSUME NEW i \in 1..Len(u), NEW j \in 1..Len(u), i < j
               PROVE  Aft(q, Val(q, u[i]), Val(q, u[j]))
    BY DEF Inc
  <2>1. CASE i \in 1..m /\ u[i] = s[i] /\ j \in 1..m /\ u[j] = s[j]
    BY <2>1 DEF Inc, m
  <2>2. CASE i \in 1..m /\ u[i] = s[i] /\ j - m \in 1..n /\ u[j] = t[j - m]
    BY <2>2 DEF AftAll, m, n
  <2>3. CASE i - m \in 1..n /\ u[i] = t[i - m] /\ j - m \in 1..n /\ u[j] = t[j - m]
    <3>1. i - m < j - m
      BY <1>1
    <3> QED
      BY <2>3, <3>1 DEF Inc, n
  <2>4. ~(i - m \in 1..n /\ j \in 1..m)
    BY <1>1
  <2> QED
    BY <1>2, <2>1, <2>2, <2>3, <2>4
<1>6. \A id : Got(u, id) <=> Got(s, id) \/ Got(t, id)
  BY <1>2, <1>3, <1>4 DEF Got, m, n
<1>7. \A id : AftAll(q, s, id) /\ AftAll(q, t, id) => AftAll(q, u, id)
  BY <1>2 DEF AftAll, m, n
<1>8. t = <<>> => u = s
  <2>1. ASSUME t = <<>> PROVE n = 0
    BY <2>1 DEF n
  <2>2. ASSUME n = 0 PROVE u = s
    <3>1. Len(u) = Len(s) /\ \A i \in 1..Len(u) : u[i] = s[i]
      BY <1>1, <2>2 DEF m
    <3> QED
      BY <1>1, <3>1, SeqEqual
  <2> QED
    BY <2>1, <2>2
<1>9. t # <<>> => u # <<>> /\ u[Len(u)] = t[n]
  <2> SUFFICES ASSUME t # <<>> PROVE u # <<>> /\ u[Len(u)] = t[n]
    OBVIOUS
  <2>1. n \in 1..n /\ Len(u) # 0
    BY <1>1, EmptySeqFacts DEF n
  <2>2. u # <<>>
    BY <2>1
  <2> QED
    BY <1>1, <1>4, <2>1, <2>2
<1> QED
  BY <1>1, <1>5, <1>6, <1>7, <1>8, <1>9 DEF u, n

\* Results in order are distinct.
LEMMA OrderedDistinct ==
  ASSUME NEW q, Plain(q), NEW s \in Seq(Ids), Inc(q, s)
  PROVE  IsInjective(s)
<1>1. DOMAIN s = 1..Len(s) /\ Len(s) \in Nat /\ \A i \in 1..Len(s) : Val(q, s[i]) \in Int
  BY SeqFacts DEF Plain
<1>2. \A i, j \in 1..Len(s) : i < j => s[i] # s[j]
  BY <1>1 DEF Inc, Aft
<1> QED
  BY <1>1, <1>2, SMTT(30) DEF IsInjective

\* What is pending comes after everything the client has and gets.
LEMMA PendingIsNew ==
  ASSUME Plain(query), SourceInv, NEW id \in Ids, Pending(id)
  PROVE  New(id)
<1>1. ShardOf(id) \in Shards
  BY QueryAssumption, SMTT(30) DEF ShardOf, Shards
<1>2. None \notin Ids
  <2>1. \A i \in Ids : i \in Int
    BY SMTT(30) DEF Plain
  <2> QED
    BY <2>1, QueryAssumption
<1>3. CASE nexts[ShardOf(id)] = id
  BY <1>1, <1>2, <1>3 DEF SourceInv
<1>4. CASE nexts[ShardOf(id)] # id
  <2>1. PICK e \in rows[ShardOf(id)] : e[2] = id /\ Ahead(query, cursor[ShardOf(id)], e)
    BY <1>4 DEF Pending
  <2> QED
    BY <1>1, <2>1 DEF SourceInv, Pending
<1> QED
  BY <1>3, <1>4

\* The client takes the page and goes on after its last result.
LEMMA ClientKeeps == ASSUME Plain(query), QueryInv, SearchMore \/ DumpMore PROVE QueryInv'
<1> DEFINE q == query
<1>1. /\ phase = "answer" /\ phase' \in {"done", "request"} /\ results' = Received
      /\ UNCHANGED <<query, stored, srcOp, srcKey, rows, cursor, nexts, at, ret, kept, broken>>
      /\ Findable' = Findable
  BY FindableFacts DEF SearchMore, DumpMore, srcVars
<1>2. QueryTypeOK /\ RowsAreSpans /\ ClientInv /\ SourceInv /\ PageInv
  BY <1>1 DEF QueryInv
<1>3. /\ results \in Seq(Ids) /\ ret \in Seq(Ids) /\ kept \subseteq Ids /\ key \in Int
      /\ prev \in Ids \union {None} /\ q.dump \in BOOLEAN
  BY <1>2 DEF QueryTypeOK, Plain
<1>4. results' = results \o ret
  <2>1. IsInjective(results)
    BY <1>2, <1>3, OrderedDistinct DEF ClientInv
  <2> QED
    BY <1>1, <2>1 DEF Received
<1>5. /\ results' \in Seq(Ids) /\ Inc(q, results')
      /\ \A id : Got(results', id) <=> Got(results, id) \/ Got(ret, id)
      /\ \A id : AftAll(q, results, id) /\ AftAll(q, ret, id) => AftAll(q, results', id)
      /\ ret = <<>> => results' = results
      /\ ret # <<>> => results' # <<>> /\ results'[Len(results')] = ret[Len(ret)]
  BY <1>2, <1>3, <1>4, AddPage, SMTT(30) DEF ClientInv, PageInv
<1>6. ret # <<>> => ret[Len(ret)] \in Ids
  BY <1>3, EmptySeqFacts, SeqFacts, SMTT(30)
<1>7. \A id \in Findable : Fit(q, key, id) => Got(results', id) \/ AftAll(q, results', id)
  <2> SUFFICES ASSUME NEW id \in Findable, Fit(q, key, id), ~Got(results', id) PROVE AftAll(q, results', id)
    OBVIOUS
  <2>1. Pending(id) /\ id \in Ids
    BY <1>2, <1>3, <1>5, FindableFacts DEF PageInv
  <2> QED
    BY <1>2, <1>5, <2>1, PendingIsNew DEF New
<1>8. \A i \in 1..Len(results') : Fit(q, key, results'[i])
  <2> SUFFICES ASSUME NEW i \in 1..Len(results') PROVE Fit(q, key, results'[i])
    OBVIOUS
  <2>1. Got(results', results'[i])
    BY DEF Got
  <2>2. PICK x : x = results'[i]
    OBVIOUS
  <2>3. Got(results, x) \/ Got(ret, x)
    BY <1>5, <2>1, <2>2
  <2> QED
    BY <1>2, <2>2, <2>3 DEF Got, ClientInv, PageInv
<1>9. RowsAreSpans'
  BY <1>1, <1>2 DEF RowsAreSpans, ShardOf
<1>10. CASE SearchMore
  <2>1. ~q.dump /\ key' = key /\ prev' = IF ret = <<>> THEN prev ELSE ret[Len(ret)]
    BY <1>10 DEF SearchMore
  <2>2. prev' \in Ids \union {None} /\ prev' = IF results' = <<>> THEN None ELSE results'[Len(results')]
    BY <1>2, <1>3, <1>5, <1>6, <2>1 DEF ClientInv
  <2>3. QueryTypeOK'
    BY <1>1, <1>2, <1>5, <2>1, <2>2 DEF QueryTypeOK, ShardOf
  <2>4. ClientInv'
    BY <1>1, <1>5, <1>7, <1>8, <2>1, <2>2 DEF ClientInv
  <2> QED
    BY <1>1, <1>9, <2>3, <2>4 DEF QueryInv
<1>11. CASE DumpMore
  <2>1. q.dump /\ prev' = prev /\ key' = IF ret = <<>> THEN key ELSE NextId(ret[Len(ret)])
    BY <1>11 DEF DumpMore
  <2>2. ret # <<>> => NextId(ret[Len(ret)]) = ret[Len(ret)] + 1 /\ ret[Len(ret)] \in Int
    <3>1. MaxId \notin Ids /\ \A i \in Ids : i \in Int
      BY <2>1 DEF Plain
    <3> QED
      BY <1>6, <3>1 DEF NextId
  <2>3. prev' = None /\ key' \in Int /\ key' = IF results' = <<>> THEN 0 ELSE results'[Len(results')] + 1
    BY <1>2, <1>3, <1>5, <2>1, <2>2 DEF ClientInv
  <2>4. \A id : Fit(q, key', id) <=> Fit(q, key, id)
    <3>1. q.op = "ge"
      BY <2>1 DEF Plain
    <3> QED
      BY <2>1, <3>1, OpFacts DEF Fit
  <2>5. QueryTypeOK'
    BY <1>1, <1>2, <1>5, <2>3 DEF QueryTypeOK, ShardOf
  <2>6. ClientInv'
    BY <1>1, <1>5, <1>7, <1>8, <2>1, <2>3, <2>4 DEF ClientInv
  <2> QED
    BY <1>1, <1>9, <2>5, <2>6 DEF QueryInv
<1> QED
  BY <1>10, <1>11

\* The invariant holds at the start ...
LEMMA QueryStarts == ASSUME PlainSearches, QueryInit PROVE QueryInv
<1>1. /\ query \in Searches /\ key = query.key /\ stored = Ids \ MayWrite /\ kept = stored
      /\ srcOp = query.op /\ srcKey = key /\ at = 0
      /\ rows = [d \in Shards |-> {}] /\ cursor = [d \in Shards |-> Closed]
      /\ nexts = [d \in Shards |-> None]
      /\ ret = <<>> /\ phase = "request" /\ prev = None /\ results = <<>> /\ broken = {}
  BY DEF QueryInit
<1>2. query.op \in AllOps /\ query.key \in Int /\ query.lim \in Nat /\ NumShards \in Nat
      /\ (query.dump => query.key = 0) /\ query.dump \in BOOLEAN
  BY <1>1, QueryAssumption
<1>3. QueryTypeOK
  BY <1>1, <1>2 DEF QueryTypeOK
<1>4. RowsAreSpans
  BY <1>1 DEF RowsAreSpans
<1>5. Inc(query, <<>>) /\ \A id : AftAll(query, <<>>, id)
  BY DEF Inc, AftAll
<1>6. ClientInv
  BY <1>1, <1>2, <1>5 DEF ClientInv
<1> QED
  BY <1>1, <1>3, <1>4, <1>6 DEF QueryInv

\* ... is kept by every step of the search ...
LEMMA QueryStep ==
  ASSUME PlainSearches, QueryInv, [QueryNext]_queryVars
  PROVE  QueryInv'
<1>1. Plain(query)
  BY PlainFacts DEF QueryInv, QueryTypeOK
<1>2. CASE UNCHANGED queryVars
  <2>1. UNCHANGED <<query, key, srcOp, srcKey, rows, cursor, nexts, ret, results, stored, at, phase, prev, kept, broken>>
    BY <1>2 DEF queryVars, srcVars
  <2>2. QueryTypeOK' <=> QueryTypeOK
    BY <2>1 DEF QueryTypeOK, ShardOf
  <2>3. RowsAreSpans' <=> RowsAreSpans
    BY <2>1 DEF RowsAreSpans, ShardOf
  <2>4. ClientInv' <=> ClientInv
    BY <2>1, FindableFacts DEF ClientInv
  <2>5. SourceInv' <=> SourceInv
    BY <2>1 DEF SourceInv, New
  <2>6. PageInv' <=> PageInv
    BY <2>1, FindableFacts DEF PageInv, Pending, ShardOf
  <2> QED
    BY <2>1, <2>2, <2>3, <2>4, <2>5, <2>6 DEF QueryInv
<1>3. CASE QueryNext
  BY <1>1, <1>3, CreateSourceKeeps, OthersKeep, PopulateKeeps, MissKeeps, TakeKeeps, ClientKeeps
  DEF QueryNext, SearchStep
<1> QED
  BY <1>2, <1>3

\* ... and says what the properties say.
LEMMA QueryInvSays ==
  ASSUME PlainSearches, QueryInv
  PROVE  ResultsAreRight /\ SearchIsComplete
<1>1. Plain(query) /\ QueryTypeOK /\ ClientInv
  BY PlainFacts DEF QueryInv, QueryTypeOK
<1>2. \A id : Wanted(id) <=> Fit(query, key, id)
  BY DEF Wanted, Fit, Meets, Accepts, Value, Val
<1>3. ResultsAreWanted
  BY <1>1, <1>2 DEF ResultsAreWanted, ClientInv
<1>4. NoSpanTwice
  BY <1>1, OrderedDistinct DEF NoSpanTwice, ClientInv, QueryTypeOK
<1>5. ResultsAreOrdered
  <2>1. \A i \in 1..Len(results) : Val(query, results[i]) \in Int /\ Value(results[i]) = Val(query, results[i])
    <3>1. \A i \in 1..Len(results) : results[i] \in Ids
      BY <1>1, SeqFacts DEF QueryTypeOK
    <3> QED
      BY <1>1, <3>1 DEF Plain, Value, Val
  <2>2. \A i, j \in 1..Len(results) : i < j => Aft(query, Val(query, results[i]), Val(query, results[j]))
    BY <1>1 DEF ClientInv, Inc
  <2> QED
    BY <2>1, <2>2 DEF ResultsAreOrdered, Descending, Aft
<1>6. SearchIsComplete
  <2> SUFFICES ASSUME phase = "answer", Len(ret) < query.lim, NEW id \in Findable, Wanted(id)
               PROVE  \E i \in 1..Len(Received) : Received[i] = id
    BY DEF SearchIsComplete
  <2>1. SourceInv /\ PageInv
    BY DEF QueryInv
  <2>2. results \in Seq(Ids) /\ ret \in Seq(Ids) /\ id \in Ids /\ Len(ret) \in Nat /\ query.lim \in Nat
    BY <1>1, FindableFacts, SeqFacts DEF QueryTypeOK, Plain
  <2>3. \A d \in Shards : cursor[d] = Closed /\ nexts[d] = None
    BY <2>1, <2>2 DEF PageInv
  <2>4. ~Pending(id)
    <3>1. ShardOf(id) \in Shards
      BY <2>2, QueryAssumption, SMTT(30) DEF ShardOf, Shards
    <3>2. None \notin Ids
      <4>1. \A i \in Ids : i \in Int
        BY <1>1, SMTT(30) DEF Plain
      <4> QED
        BY <4>1, QueryAssumption
    <3> QED
      BY <2>2, <2>3, <3>1, <3>2 DEF Pending, Ahead
  <2>5. Got(results, id) \/ Got(ret, id)
    BY <1>2, <2>1, <2>4 DEF PageInv
  <2>6. IsInjective(results)
    BY <1>4 DEF NoSpanTwice
  <2>7. Got(results \o ret, id)
    BY <1>1, <2>1, <2>2, <2>5, AddPage DEF ClientInv, PageInv
  <2> QED
    BY <2>6, <2>7 DEF Received, Got
<1> QED
  BY <1>1, <1>3, <1>4, <1>5, <1>6 DEF ResultsAreRight
=============================================================================
