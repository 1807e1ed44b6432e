--------------------------- MODULE Tracers_proofs ---------------------------
(***************************************************************************)
(* Proofs about the clients' scopes and the receiver that writes to a      *)
(* local file: the scopes of the threads of a Java client (Scopes), those  *)
(* of a C client (CScopes), and what the threads append to the file        *)
(* (LocalFile). For each of them an inductive invariant, which holds at    *)
(* first, which every step preserves, and which implies what the run       *)
(* checks.                                                                 *)
(***************************************************************************)
EXTENDS Scopes, CScopes, LocalFile, DataLemmas, FiniteSetTheorems

\* A leaf that names no prover is tried with Zenon and then with the SMT solver.
USE ZenonT(20), SMTT(30)
-----------------------------------------------------------------------------
(* Sequences and sets *)

\* The range of two sequences, one after the other.
LEMMA RangeConcat ==
  ASSUME NEW S, NEW s \in Seq(S), NEW t \in Seq(S)
  PROVE  s \o t \in Seq(S) /\ Range(s \o t) = Range(s) \cup Range(t)
<1>1. s \o t \in Seq(S)
  BY ConcatFacts
<1>2. \A e : e \in Range(s \o t) <=> e \in Range(s) \/ e \in Range(t)
  BY InConcat
<1> QED
  BY <1>1, <1>2

\* The range of a sequence with an element more.
LEMMA RangeAppend ==
  ASSUME NEW S, NEW s \in Seq(S), NEW x \in S
  PROVE  Append(s, x) \in Seq(S) /\ Range(Append(s, x)) = Range(s) \cup {x}
<1>1. Append(s, x) \in Seq(S)
  BY AppendFacts
<1>2. \A e : e \in Range(Append(s, x)) <=> e \in Range(s) \/ x = e
  BY InAppend
<1> QED
  BY <1>1, <1>2

\* Two sequences make one without repetition when both are so and they have nothing in common.
LEMMA InjectiveConcat ==
  ASSUME NEW S, NEW s \in Seq(S), NEW t \in Seq(S)
  PROVE  IsInjective(s \o t) <=> IsInjective(s) /\ IsInjective(t) /\ Range(s) \cap Range(t) = {}
<1> DEFINE m == Len(s)
           n == Len(t)
           u == s \o t
<1>1. m \in Nat /\ n \in Nat /\ DOMAIN s = 1..m /\ DOMAIN t = 1..n
  BY SeqIsFcn
<1>2. /\ u \in Seq(S) /\ Len(u) = m + n
      /\ \A i \in 1..(m + n) : u[i] = IF i <= m THEN s[i] ELSE t[i - m]
  BY ConcatFacts
<1>3. DOMAIN u = 1..(m + n)
  BY <1>2, SeqIsFcn
<1> HIDE DEF m, n, u
<1>4. \A i \in 1..m : i \in 1..(m + n) /\ u[i] = s[i]
  BY <1>1, <1>2
<1>5. \A i \in 1..n : m + i \in 1..(m + n) /\ u[m + i] = t[i]
  <2> TAKE i \in 1..n
  <2>1. m + i \in 1..(m + n) /\ ~(m + i <= m) /\ (m + i) - m = i
    BY <1>1
  <2> QED
    BY <1>2, <2>1
<1>6. ASSUME IsInjective(u) PROVE IsInjective(s) /\ IsInjective(t) /\ Range(s) \cap Range(t) = {}
  <2>1. \A i, j \in 1..(m + n) : u[i] = u[j] => i = j
    BY <1>3, <1>6 DEF IsInjective
  <2>2. \A i, j \in 1..m : s[i] = s[j] => i = j
    BY <1>4, <2>1
  <2>3. \A i, j \in 1..n : t[i] = t[j] => i = j
    <3> TAKE i, j \in 1..n
    <3> HAVE t[i] = t[j]
    <3>1. m + i = m + j
      BY <1>5, <2>1
    <3> QED
      BY <1>1, <3>1
  <2>4. \A i \in 1..m, j \in 1..n : s[i] # t[j]
    <3> TAKE i \in 1..m, j \in 1..n
    <3> SUFFICES ASSUME s[i] = t[j] PROVE FALSE
      OBVIOUS
    <3>1. i = m + j
      BY <1>4, <1>5, <2>1
    <3> QED
      BY <1>1, <3>1
  <2>5. IsInjective(s) /\ IsInjective(t)
    BY <1>1, <2>2, <2>3 DEF IsInjective
  <2>6. Range(s) \cap Range(t) = {}
    BY <1>1, <2>4 DEF Range
  <2> QED
    BY <2>5, <2>6
<1>7. ASSUME IsInjective(s), IsInjective(t), Range(s) \cap Range(t) = {} PROVE IsInjective(u)
  <2>1. \A i, j \in 1..m : s[i] = s[j] => i = j
    BY <1>1, <1>7 DEF IsInjective
  <2>2. \A i, j \in 1..n : t[i] = t[j] => i = j
    BY <1>1, <1>7 DEF IsInjective
  <2>3. \A i \in 1..m, j \in 1..n : s[i] # t[j]
    BY <1>1, <1>7 DEF Range
  <2>4. ASSUME NEW i \in 1..(m + n), NEW j \in 1..(m + n), u[i] = u[j] PROVE i = j
    <3>1. \A k \in 1..(m + n) : ~(k <= m) => k - m \in 1..n /\ u[k] = t[k - m]
      BY <1>1, <1>2
    <3>2. \A k \in 1..(m + n) : k <= m => k \in 1..m /\ u[k] = s[k]
      BY <1>1, <1>2
    <3>3. CASE i <= m /\ j <= m
      BY <2>1, <2>4, <3>2, <3>3
    <3>4. CASE ~(i <= m) /\ ~(j <= m)
      <4>1. i - m = j - m
        BY <2>2, <2>4, <3>1, <3>4
      <4> QED
        BY <1>1, <4>1
    <3>5. CASE (i <= m /\ ~(j <= m)) \/ (~(i <= m) /\ j <= m)
      BY <2>3, <2>4, <3>1, <3>2, <3>5
    <3> QED
      BY <3>3, <3>4, <3>5
  <2> QED
    BY <1>3, <2>4 DEF IsInjective
<1> QED
  BY <1>6, <1>7 DEF u

\* A sequence with one more element in front.
LEMMA ConsFacts ==
  ASSUME NEW S, NEW s \in Seq(S), NEW x \in S
  PROVE  /\ <<x>> \o s \in Seq(S) /\ Len(s) \in Nat /\ Len(<<x>> \o s) = Len(s) + 1
            /\ (<<x>> \o s)[1] = x
         /\ \A i \in 1..Len(s) : (<<x>> \o s)[i + 1] = s[i]
         /\ Range(<<x>> \o s) = Range(s) \cup {x}
         /\ IsInjective(s) /\ x \notin Range(s) => IsInjective(<<x>> \o s)
<1>1. <<x>> \in Seq(S) /\ Len(<<x>>) = 1 /\ <<x>>[1] = x
  OBVIOUS
<1>2. Range(<<x>>) = {x} /\ IsInjective(<<x>>)
  BY <1>1 DEF Range, IsInjective
<1>3. Len(s) \in Nat
  BY SeqFacts
<1> DEFINE a == <<x>>
           u == a \o s
<1>4. a \in Seq(S) /\ Len(a) = 1 /\ a[1] = x /\ Range(a) = {x} /\ IsInjective(a)
  BY <1>1, <1>2
<1> HIDE DEF a
<1>5. /\ u \in Seq(S) /\ Len(u) = Len(a) + Len(s)
      /\ \A i \in 1..(Len(a) + Len(s)) : u[i] = IF i <= Len(a) THEN a[i] ELSE s[i - Len(a)]
  BY <1>4, ConcatFacts
<1>6. u[1] = x /\ Len(u) = Len(s) + 1
  BY <1>3, <1>4, <1>5, SMTT(30)
<1>7. \A i \in 1..Len(s) : u[i + 1] = s[i]
  <2> TAKE i \in 1..Len(s)
  <2>1. i + 1 \in 1..(1 + Len(s)) /\ ~(i + 1 <= 1) /\ (i + 1) - 1 = i
    BY <1>3
  <2> QED
    BY <1>4, <1>5, <2>1
<1>8. Range(u) = Range(s) \cup {x}
  BY <1>4, RangeConcat, SMTT(30)
<1>9. IsInjective(s) /\ x \notin Range(s) => IsInjective(u)
  BY <1>4, InjectiveConcat, SMTT(30)
<1> QED
  BY <1>3, <1>5, <1>6, <1>7, <1>8, <1>9 DEF a

\* A sequence without repetitions is as long as the set of its elements is large.
LEMMA InjectiveCardinality ==
  ASSUME NEW S, NEW s \in Seq(S), IsInjective(s)
  PROVE  IsFiniteSet(Range(s)) /\ Cardinality(Range(s)) = Len(s)
<1>1. Len(s) \in Nat /\ DOMAIN s = 1..Len(s) /\ s = [i \in 1..Len(s) |-> s[i]]
  BY SeqIsFcn, SeqFacts
<1>2. s \in [1..Len(s) -> Range(s)]
  BY <1>1 DEF Range
<1>3. \A e \in Range(s) : \E i \in 1..Len(s) : s[i] = e
  BY <1>1 DEF Range
<1>4. s \in Bijection(1..Len(s), Range(s))
  BY <1>2, <1>3 DEF Bijection, Injection, Surjection
<1>5. ExistsBijection(1..Len(s), Range(s))
  BY <1>4 DEF ExistsBijection
<1> QED
  BY <1>1, <1>5, FS_CountingElements, FS_NatBijection

\* The cardinality of the union of two sets that are disjoint.
LEMMA DisjointUnion ==
  ASSUME NEW S, NEW T, IsFiniteSet(S), IsFiniteSet(T), S \cap T = {}
  PROVE  IsFiniteSet(S \cup T) /\ Cardinality(S \cup T) = Cardinality(S) + Cardinality(T)
<1>1. Cardinality(S \cap T) = 0 /\ Cardinality(S) \in Nat /\ Cardinality(T) \in Nat
  BY FS_EmptySet, FS_CardinalityType
<1>2. /\ IsFiniteSet(S \cup T)
      /\ Cardinality(S \cup T) = Cardinality(S) + Cardinality(T) - Cardinality(S \cap T)
  BY FS_Union
<1> QED
  BY <1>1, <1>2

\* One value of a table of two arguments is replaced.
LEMMA TableFacts ==
  ASSUME NEW A, NEW B, NEW V, NEW d \in [A -> [B -> V]], NEW a \in A, NEW b \in B, NEW v \in V
  PROVE  LET e == [d EXCEPT ![a][b] = v]
         IN  /\ e \in [A -> [B -> V]]
             /\ \A x \in A, y \in B : e[x][y] = IF x = a /\ y = b THEN v ELSE d[x][y]
OBVIOUS
-----------------------------------------------------------------------------
(* Scopes *)

ScopeTypes == [tracer : ScTracers, parent : Nat, detached : BOOLEAN, received : Nat]
Depths == [ScThreads -> [ScTracers -> Int]]

\* The i-th scope of a chain, which ends with no scope.
ScopeAt(c, i) == IF i <= Len(c) THEN c[i] ELSE NoScope

\* From the current scope of the thread, parents lead through c to no scope.
IsChain(c, t) ==
  /\ threadLocalScope[t] = ScopeAt(c, 1)
  /\ \A i \in 1..Len(c) : scopes[c[i]].parent = ScopeAt(c, i + 1)

OfTracer(S, r) == {s \in S : scopes[s].tracer = r}

\* ch has the chains of all threads.
Nested(ch) ==
  /\ \A t \in ScThreads :
       /\ IsChain(ch[t], t) /\ IsInjective(ch[t])
       /\ \A s \in Range(ch[t]) : ~scopes[s].detached /\ scopes[s].received = 0
       /\ \A u \in ScThreads : t # u => Range(ch[t]) \cap Range(ch[u]) = {}
       /\ \A r \in ScTracers : depth[t][r] = nulls[t][r] + Cardinality(OfTracer(Range(ch[t]), r))
  /\ \A s \in KnownScopes :
       \/ \E t \in ScThreads : s \in Range(ch[t])
       \/ scopes[s].detached /\ scopes[s].received = 0
       \/ ~scopes[s].detached /\ scopes[s].received = 1

ScopesInv ==
  /\ scopes \in Seq(ScopeTypes) /\ Len(scopes) <= MaxScopes
  /\ threadLocalScope \in [ScThreads -> Nat] /\ depth \in Depths /\ nulls \in Depths
  /\ \E ch \in [ScThreads -> Seq(KnownScopes)] : Nested(ch)

\* The invariant holds at first.
LEMMA ScopesInitInv == ScopesInit => ScopesInv
<1> SUFFICES ASSUME ScopesInit PROVE ScopesInv
  OBVIOUS
<1>1. /\ scopes = <<>> /\ scopes \in Seq(ScopeTypes) /\ Len(scopes) = 0 /\ KnownScopes = {}
      /\ threadLocalScope = [t \in ScThreads |-> NoScope] /\ nulls = depth
      /\ depth = [t \in ScThreads |-> [r \in ScTracers |-> 0]]
  BY EmptySeqFacts DEF ScopesInit, KnownScopes
<1> DEFINE ch == [t \in ScThreads |-> <<>>]
<1>2. ch \in [ScThreads -> Seq(KnownScopes)] /\ \A t \in ScThreads : ch[t] = <<>>
  BY EmptySeqFacts
<1>3. Range(<<>>) = {} /\ IsInjective(<<>>) /\ Len(<<>>) = 0
  BY DEF Range, IsInjective
<1> HIDE DEF ch
<1>4. \A r : Cardinality(OfTracer({}, r)) = 0
  BY FS_EmptySet DEF OfTracer
<1>5. \A t \in ScThreads : IsChain(ch[t], t)
  BY <1>1, <1>2, <1>3 DEF IsChain, ScopeAt
<1>6. Nested(ch)
  <2>1. ASSUME NEW t \in ScThreads
        PROVE  /\ IsInjective(ch[t]) /\ Range(ch[t]) = {}
               /\ \A r \in ScTracers : depth[t][r] = nulls[t][r]
                  + Cardinality(OfTracer(Range(ch[t]), r))
    <3>1. ch[t] = <<>>
      BY <1>2
    <3>2. Range(ch[t]) = {} /\ IsInjective(ch[t])
      BY <1>3, <3>1
    <3>3. \A r \in ScTracers : depth[t][r] = 0 /\ nulls[t][r] = 0
      BY <1>1
    <3> QED
      BY <1>4, <3>2, <3>3
  <2> QED
    BY <1>1, <1>5, <2>1 DEF Nested
<1>7. threadLocalScope \in [ScThreads -> Nat] /\ depth \in Depths /\ nulls \in Depths
  BY <1>1 DEF Depths, NoScope
<1> QED
  BY <1>1, <1>2, <1>6, <1>7, ScopesAssumption DEF ScopesInv

\* A scope that is in no chain becomes the current one of a thread.
LEMMA PushKeeps ==
  ASSUME ScopesInv, NEW t \in ScThreads, NEW r \in ScTracers, NEW s \in Nat \ {0},
         KnownScopes' = KnownScopes \cup {s},
         scopes' \in Seq(ScopeTypes), Len(scopes') <= MaxScopes,
         \A x \in KnownScopes \ {s} : scopes'[x] = scopes[x],
         scopes'[s].tracer = r, scopes'[s].parent = threadLocalScope[t],
         ~scopes'[s].detached, scopes'[s].received = 0,
         s \in KnownScopes => scopes[s].detached,
         threadLocalScope' = [threadLocalScope EXCEPT ![t] = s],
         pushScope(t, r), nulls' = nulls
  PROVE  ScopesInv'
<1>1. PICK ch \in [ScThreads -> Seq(KnownScopes)] : Nested(ch)
  BY DEF ScopesInv
<1> DEFINE old == ch[t]
           new == <<s>> \o old
           next == [ch EXCEPT ![t] = new]
<1>2. \A u \in ScThreads : /\ ch[u] \in Seq(KnownScopes \cup {s}) /\ ch[u] \in Seq(KnownScopes)
                           /\ Range(ch[u]) \subseteq KnownScopes /\ s \notin Range(ch[u])
  <2> TAKE u \in ScThreads
  <2>1. ch[u] \in Seq(KnownScopes)
    OBVIOUS
  <2>2. ch[u] \in Seq(KnownScopes \cup {s})
    BY <2>1, SeqSuperset
  <2>3. Range(ch[u]) \subseteq KnownScopes
    BY <2>1, RangeFacts
  <2> QED
    BY <1>1, <2>2, <2>3 DEF Nested
<1>3. /\ new \in Seq(KnownScopes \cup {s}) /\ Len(old) \in Nat /\ Len(new) = Len(old) + 1
         /\ new[1] = s
      /\ \A i \in 1..Len(old) : new[i + 1] = old[i]
      /\ Range(new) = Range(old) \cup {s} /\ IsInjective(new)
  BY <1>1, <1>2, ConsFacts, SMTT(30) DEF Nested
<1>4. /\ next \in [ScThreads -> Seq(KnownScopes')] /\ next[t] = new
      /\ \A u \in ScThreads \ {t} : next[u] = ch[u]
  BY <1>2, <1>3
<1> HIDE DEF new, next
<1>5. ASSUME NEW u \in ScThreads \ {t} PROVE IsChain(ch[u], u)'
  <2>1. \A i \in 1..Len(ch[u]) : ch[u][i] \in KnownScopes \ {s}
    <3>1. \A i \in 1..Len(ch[u]) : ch[u][i] \in Range(ch[u])
      BY <1>2, SeqIsFcn, SMTT(30) DEF Range
    <3> QED
      BY <1>2, <3>1
  <2>2. threadLocalScope'[u] = threadLocalScope[u]
    BY DEF ScopesInv
  <2>3. IsChain(ch[u], u)
    BY <1>1 DEF Nested
  <2>4. \A i \in 1..Len(ch[u]) : scopes'[ch[u][i]] = scopes[ch[u][i]]
    BY <2>1
  <2> QED
    BY <2>2, <2>3, <2>4 DEF IsChain, ScopeAt
<1>6. IsChain(new, t)'
  <2>1. threadLocalScope'[t] = ScopeAt(new, 1)
    BY <1>3, SMTT(30) DEF ScopeAt, ScopesInv
  <2>2. ASSUME NEW i \in 1..Len(new) PROVE scopes'[new[i]].parent = ScopeAt(new, i + 1)
    <3>1. CASE i = 1
      <4>1. threadLocalScope[t] = ScopeAt(old, 1)
        BY <1>1 DEF Nested, IsChain
      <4>2. ScopeAt(new, 2) = ScopeAt(old, 1)
        <5>1. CASE Len(old) >= 1
          <6>1. 1 \in 1..Len(old) /\ 2 <= Len(new) /\ 1 + 1 = 2
            BY <1>3, <5>1, SMTT(30)
          <6> QED
            BY <1>3, <6>1, SMTT(30) DEF ScopeAt
        <5>2. CASE ~(Len(old) >= 1)
          BY <1>3, <5>2, SMTT(30) DEF ScopeAt
        <5> QED
          BY <5>1, <5>2
      <4> QED
        BY <1>3, <3>1, <4>1, <4>2, SMTT(30)
    <3>2. CASE i # 1
      <4>1. i - 1 \in 1..Len(old) /\ (i - 1) + 1 = i
        BY <1>3, <3>2, SMTT(30)
      <4>2. new[i] = old[i - 1]
        BY <1>3, <4>1
      <4>3. old[i - 1] \in KnownScopes \ {s}
        <5>1. old[i - 1] \in Range(old)
          BY <1>2, <4>1, SeqIsFcn, SMTT(30) DEF Range
        <5> QED
          BY <1>2, <5>1
      <4>4. scopes'[new[i]].parent = ScopeAt(old, i)
        BY <1>1, <4>1, <4>2, <4>3, SMTT(30) DEF Nested, IsChain
      <4>5. ScopeAt(old, i) = ScopeAt(new, i + 1)
        <5>1. CASE i <= Len(old)
          <6>1. i \in 1..Len(old) /\ i + 1 <= Len(new)
            BY <1>3, <5>1, SMTT(30)
          <6> QED
            BY <1>3, <5>1, <6>1 DEF ScopeAt
        <5>2. CASE ~(i <= Len(old))
          <6>1. ~(i + 1 <= Len(new))
            BY <1>3, <5>2, SMTT(30)
          <6> QED
            BY <5>2, <6>1 DEF ScopeAt
        <5> QED
          BY <5>1, <5>2
      <4> QED
        BY <4>4, <4>5
    <3> QED
      BY <3>1, <3>2
  <2>3. ScopeAt(new, 1) = ScopeAt(new, 1)'
        /\ \A i \in 1..Len(new) : ScopeAt(new, i + 1)' = ScopeAt(new, i + 1)
    BY DEF ScopeAt, new
  <2> QED
    BY <2>1, <2>2, <2>3 DEF IsChain, ScopeAt, new
<1>7. /\ depth' \in Depths
      /\ \A u \in ScThreads, q \in ScTracers : depth'[u][q] = IF u = t
         /\ q = r THEN depth[t][r] + 1 ELSE depth[u][q]
  <2>1. depth \in [ScThreads -> [ScTracers -> Int]] /\ depth[t][r] + 1 \in Int
    BY SMTT(30) DEF ScopesInv, Depths
  <2>2. depth' = [depth EXCEPT ![t][r] = depth[t][r] + 1]
    BY DEF pushScope
  <2> QED
    BY <2>1, <2>2, TableFacts, SMTT(30) DEF Depths
<1>8. ASSUME NEW u \in ScThreads \ {t}, NEW q \in ScTracers
      PROVE  depth'[u][q] = nulls'[u][q] + Cardinality(OfTracer(Range(ch[u]), q)')
  <2>1. OfTracer(Range(ch[u]), q)' = OfTracer(Range(ch[u]), q)
    BY <1>2 DEF OfTracer
  <2> QED
    BY <1>1, <1>7, <2>1, SMTT(30) DEF Nested
<1>9. ASSUME NEW q \in ScTracers
      PROVE  depth'[t][q] = nulls'[t][q] + Cardinality({x \in Range(new) : scopes'[x].tracer = q})
  <2>1. depth[t][q] = nulls[t][q] + Cardinality(OfTracer(Range(old), q))
    BY <1>1, SMTT(30) DEF Nested
  <2>2. IsFiniteSet(OfTracer(Range(old), q)) /\ Cardinality(OfTracer(Range(old), q)) \in Nat
    <3>1. IsFiniteSet(Range(old)) /\ OfTracer(Range(old), q) \subseteq Range(old)
      BY <1>1, <1>2, InjectiveCardinality DEF Nested, OfTracer
    <3> QED
      BY <3>1, FS_Subset, FS_CardinalityType
  <2>3. CASE q = r
    <3>1. {x \in Range(new) : scopes'[x].tracer = q} = OfTracer(Range(old), q) \cup {s}
      BY <1>2, <1>3, <2>3, SMTT(30) DEF OfTracer
    <3>2. s \notin OfTracer(Range(old), q)
      BY <1>2 DEF OfTracer
    <3>3. Cardinality({x \in Range(new)
          : scopes'[x].tracer = q}) = Cardinality(OfTracer(Range(old), q)) + 1
      <4>1. Cardinality(OfTracer(Range(old), q) \cup {s}) = Cardinality(OfTracer(Range(old), q)) + 1
        BY ONLY <2>2, <3>2, FS_AddElement
      <4> QED
        BY <3>1, <4>1
    <3> QED
      BY <1>7, <2>1, <2>2, <2>3, <3>3, SMTT(30) DEF ScopesInv, Depths
  <2>4. CASE q # r
    <3>1. {x \in Range(new) : scopes'[x].tracer = q} = OfTracer(Range(old), q)
      BY <1>2, <1>3, <2>4, SMTT(30) DEF OfTracer
    <3> QED
      BY <1>7, <2>1, <2>4, <3>1
  <2> QED
    BY <2>3, <2>4
<1>10. Nested(next)'
  <2>1. ASSUME NEW u \in ScThreads
        PROVE  /\ IsChain(next[u], u)' /\ IsInjective(next[u])
               /\ \A x \in Range(next[u]) : ~scopes'[x].detached /\ scopes'[x].received = 0
               /\ \A v \in ScThreads : u # v => Range(next[u]) \cap Range(next[v]) = {}
               /\ \A q \in ScTracers : depth'[u][q] = nulls'[u][q]
                  + Cardinality({x \in Range(next[u]) : scopes'[x].tracer = q})
    <3>1. \A v \in ScThreads \ {t} : \A x \in Range(ch[v]) : ~scopes'[x].detached
          /\ scopes'[x].received = 0
      <4>1. \A v \in ScThreads : \A x \in Range(ch[v]) : ~scopes[x].detached
            /\ scopes[x].received = 0
        BY <1>1 DEF Nested
      <4>2. \A v \in ScThreads : \A x \in Range(ch[v]) : scopes'[x] = scopes[x]
        BY <1>2
      <4> QED
        BY ONLY <4>1, <4>2
    <3>2. \A v \in ScThreads \ {t} : Range(new) \cap Range(ch[v]) = {}
      BY <1>1, <1>2, <1>3, SMTT(30) DEF Nested
    <3>3. CASE u = t
      <4>1. \A x \in Range(new) : ~scopes'[x].detached /\ scopes'[x].received = 0
        BY <1>1, <1>2, <1>3, SMTT(30) DEF Nested
      <4>2. \A v \in ScThreads : t # v => Range(new) \cap Range(next[v]) = {}
        BY <1>4, <3>2
      <4>3. IsChain(next[t], t)'
        BY <1>4, <1>6 DEF IsChain, ScopeAt
      <4> QED
        BY <1>3, <1>4, <1>9, <3>3, <4>1, <4>2, <4>3
    <3>4. CASE u # t
      <4>1. next[u] = ch[u] /\ IsInjective(ch[u])
        BY <1>1, <1>4, <3>4 DEF Nested
      <4>2. \A v \in ScThreads : u # v => Range(ch[u]) \cap Range(next[v]) = {}
        BY <1>1, <1>4, <3>2, <3>4 DEF Nested
      <4>3. \A q \in ScTracers : depth'[u][q] = nulls'[u][q] + Cardinality({x \in Range(ch[u])
            : scopes'[x].tracer = q})
        BY <1>8, <3>4 DEF OfTracer
      <4>4. IsChain(next[u], u)'
        BY <1>5, <3>4, <4>1, SMTT(30) DEF IsChain, ScopeAt
      <4> QED
        BY <3>1, <3>4, <4>1, <4>2, <4>3, <4>4
    <3> QED
      BY <3>3, <3>4
  <2>2. ASSUME NEW x \in KnownScopes'
        PROVE  \/ \E u \in ScThreads : x \in Range(next[u])
               \/ scopes'[x].detached /\ scopes'[x].received = 0
               \/ ~scopes'[x].detached /\ scopes'[x].received = 1
    <3>1. CASE x = s
      BY <1>3, <1>4, <3>1
    <3>2. CASE x # s
      <4>1. x \in KnownScopes /\ scopes'[x] = scopes[x]
        BY <3>2
      <4>2. \A u \in ScThreads : x \in Range(ch[u]) => x \in Range(next[u])
        BY <1>3, <1>4
      <4> QED
        BY <1>1, <4>1, <4>2, SMTT(30) DEF Nested
    <3> QED
      BY <3>1, <3>2
  <2> QED
    BY <2>1, <2>2 DEF Nested, OfTracer
<1>11. threadLocalScope' \in [ScThreads -> Nat] /\ nulls' \in Depths
  BY DEF ScopesInv
<1> QED
  BY <1>4, <1>7, <1>10, <1>11 DEF ScopesInv

\* The current scope of a thread leaves its chain.
LEMMA PopKeeps ==
  ASSUME ScopesInv, NEW t \in ScThreads, NEW s \in KnownScopes, threadLocalScope[t] = s,
         scopes' \in Seq(ScopeTypes), Len(scopes') = Len(scopes), KnownScopes' = KnownScopes,
         \A x \in KnownScopes \ {s} : scopes'[x] = scopes[x],
         \/ scopes'[s].detached /\ scopes'[s].received = scopes[s].received
         \/ scopes'[s].detached = scopes[s].detached
           /\ scopes'[s].received = scopes[s].received + 1,
         threadLocalScope' = [threadLocalScope EXCEPT ![t] = scopes[s].parent],
         popScope(t, scopes[s].tracer), nulls' = nulls
  PROVE  ScopesInv'
<1>1. PICK ch \in [ScThreads -> Seq(KnownScopes)] : Nested(ch)
  BY DEF ScopesInv
<1>a. s \in Nat /\ s >= 1 /\ scopes[s] \in ScopeTypes
  BY SeqIsFcn, SMTT(30) DEF ScopesInv, KnownScopes
<1> DEFINE r == scopes[s].tracer
           old == ch[t]
           new == Tail(old)
           next == [ch EXCEPT ![t] = new]
<1>b. r \in ScTracers
  BY <1>a DEF ScopeTypes
<1>2. \A u \in ScThreads : /\ ch[u] \in Seq(KnownScopes) /\ Range(ch[u]) \subseteq KnownScopes
                           /\ \A x \in Range(ch[u]) : ~scopes[x].detached /\ scopes[x].received = 0
  BY <1>1, RangeFacts DEF Nested
<1>3. Len(old) \in Nat /\ Len(old) >= 1 /\ old[1] = s /\ old # <<>>
  <2>1. threadLocalScope[t] = ScopeAt(old, 1)
    BY <1>1 DEF Nested, IsChain
  <2>2. Len(old) \in Nat
    BY <1>2, SeqIsFcn
  <2>3. ScopeAt(old, 1) # NoScope
    BY <1>a, <2>1 DEF NoScope
  <2> QED
    BY <2>1, <2>2, <2>3, SMTT(30) DEF ScopeAt
<1>4. /\ new \in Seq(KnownScopes) /\ Len(new) = Len(old) - 1 /\ IsInjective(new)
      /\ \A i \in 1..(Len(old) - 1) : new[i] = old[i + 1]
      /\ s \notin Range(new) /\ Range(old) = Range(new) \cup {s}
  <2>1. /\ new \in Seq(KnownScopes) /\ Head(old) = s /\ Len(new) = Len(old) - 1
        /\ \A i \in 1..(Len(old) - 1) : new[i] = old[i + 1]
        /\ \A e : e \in Range(old) <=> e = s \/ e \in Range(new)
    BY <1>2, <1>3, TailFacts, SMTT(30)
  <2>2. IsInjective(new) /\ s \notin Range(new)
    BY <1>1, <1>2, <1>3, <2>1, InjectiveTail DEF Nested
  <2>3. (\A e : e \in Range(new) <=> e \in Range(new))
        /\ (\A e : e \in Range(old) <=> e \in Range(old))
    BY <1>2, <2>1, RangeFacts
  <2>4. Range(old) = Range(new) \cup {s}
    BY ONLY <2>1, <2>3
  <2> QED
    BY <2>1, <2>2, <2>3, <2>4
<1>5. /\ next \in [ScThreads -> Seq(KnownScopes)] /\ next[t] = new
      /\ \A u \in ScThreads \ {t} : next[u] = ch[u]
  BY <1>2, <1>4
<1> HIDE DEF new, next
<1>6. \A u \in ScThreads \ {t} : s \notin Range(ch[u])
  BY <1>1, <1>4 DEF Nested
<1>7. \A u \in ScThreads \ {t} : IsChain(ch[u], u)'
  <2> TAKE u \in ScThreads \ {t}
  <2>1. \A i \in 1..Len(ch[u]) : ch[u][i] \in KnownScopes \ {s}
    <3>1. \A i \in 1..Len(ch[u]) : ch[u][i] \in Range(ch[u])
      BY <1>2, SeqIsFcn DEF Range
    <3> QED
      BY <1>2, <1>6, <3>1
  <2>2. threadLocalScope'[u] = threadLocalScope[u]
    BY DEF ScopesInv
  <2>3. IsChain(ch[u], u)
    BY <1>1 DEF Nested
  <2>4. \A i \in 1..Len(ch[u]) : scopes'[ch[u][i]] = scopes[ch[u][i]]
    BY <2>1
  <2>5. threadLocalScope'[u] = ScopeAt(ch[u], 1)
    BY <2>2, <2>3 DEF IsChain
  <2>6. \A i \in 1..Len(ch[u]) : scopes'[ch[u][i]].parent = ScopeAt(ch[u], i + 1)
    BY <2>3, <2>4 DEF IsChain
  <2> QED
    BY <2>5, <2>6 DEF IsChain, ScopeAt
<1>8. \A i \in 1..Len(old) : ScopeAt(old, i + 1) = ScopeAt(new, i)
  <2> TAKE i \in 1..Len(old)
  <2>1. CASE i = Len(old)
    <3>1. ~(i + 1 <= Len(old)) /\ ~(i <= Len(new))
      BY <1>3, <1>4, <2>1, SMTT(30)
    <3> QED
      BY <3>1 DEF ScopeAt
  <2>2. CASE i # Len(old)
    <3>1. i + 1 <= Len(old) /\ i <= Len(new) /\ i \in 1..(Len(old) - 1)
      BY <1>3, <1>4, <2>2, SMTT(30)
    <3> QED
      BY <1>4, <3>1 DEF ScopeAt
  <2> QED
    BY <2>1, <2>2
<1>9. IsChain(new, t)'
  <2>1. IsChain(old, t)
    BY <1>1 DEF Nested
  <2>2. threadLocalScope'[t] = ScopeAt(new, 1)
    <3>1. scopes[s].parent = ScopeAt(old, 1 + 1)
      BY <1>3, <2>1, SMTT(30) DEF IsChain
    <3>2. ScopeAt(old, 1 + 1) = ScopeAt(new, 1)
      BY <1>3, <1>8, SMTT(30)
    <3> QED
      BY <3>1, <3>2 DEF ScopesInv
  <2>3. ASSUME NEW i \in 1..Len(new) PROVE scopes'[new[i]].parent = ScopeAt(new, i + 1)
    <3>1. i \in 1..(Len(old) - 1) /\ i + 1 \in 1..Len(old)
      BY <1>3, <1>4, SMTT(30)
    <3>2. new[i] = old[i + 1] /\ new[i] \in Range(new)
      BY <1>4, <3>1, SeqIsFcn DEF Range
    <3>3. new[i] \in KnownScopes \ {s}
      BY <1>2, <1>4, <3>2
    <3>4. scopes'[new[i]] = scopes[old[i + 1]]
      BY <3>2, <3>3
    <3>5. scopes[old[i + 1]].parent = ScopeAt(old, (i + 1) + 1)
      BY <2>1, <3>1 DEF IsChain
    <3> QED
      BY <1>8, <3>1, <3>4, <3>5
  <2> QED
    BY <2>2, <2>3 DEF IsChain, ScopeAt, new
<1>10. /\ depth' \in Depths
       /\ \A u \in ScThreads, q \in ScTracers : depth'[u][q] = IF u = t
          /\ q = r THEN depth[t][r] - 1 ELSE depth[u][q]
  <2>1. depth \in [ScThreads -> [ScTracers -> Int]] /\ depth[t][r] - 1 \in Int
    BY <1>b, SMTT(30) DEF ScopesInv, Depths
  <2>2. depth' = [depth EXCEPT ![t][r] = depth[t][r] - 1]
    BY DEF popScope
  <2> QED
    BY <1>b, <2>1, <2>2, TableFacts, SMTT(30) DEF Depths
<1>11. ASSUME NEW u \in ScThreads \ {t}, NEW q \in ScTracers
       PROVE  depth'[u][q] = nulls'[u][q] + Cardinality({x \in Range(ch[u])
              : scopes'[x].tracer = q})
  <2>1. {x \in Range(ch[u]) : scopes'[x].tracer = q} = OfTracer(Range(ch[u]), q)
    BY <1>2, <1>6 DEF OfTracer
  <2>2. depth'[u][q] = depth[u][q]
    BY <1>10
  <2>3. depth[u][q] = nulls[u][q] + Cardinality(OfTracer(Range(ch[u]), q))
    BY <1>1 DEF Nested
  <2> QED
    BY <2>1, <2>2, <2>3
<1>12. ASSUME NEW q \in ScTracers
       PROVE  depth'[t][q] = nulls'[t][q] + Cardinality({x \in Range(new) : scopes'[x].tracer = q})
  <2> DEFINE left == {x \in Range(new) : scopes'[x].tracer = q}
  <2>1. depth[t][q] = nulls[t][q] + Cardinality(OfTracer(Range(old), q))
    BY <1>1 DEF Nested
  <2>2. IsFiniteSet(left) /\ Cardinality(left) \in Nat
    <3>1. IsFiniteSet(Range(new)) /\ left \subseteq Range(new)
      BY <1>4, InjectiveCardinality
    <3> QED
      BY <3>1, FS_Subset, FS_CardinalityType
  <2>3. \A x \in Range(new) : scopes'[x] = scopes[x]
    BY <1>2, <1>4
  <2>4. CASE q = r
    <3>1. OfTracer(Range(old), q) = left \cup {s} /\ s \notin left
      BY <1>4, <2>3, <2>4 DEF OfTracer
    <3>2. Cardinality(left \cup {s}) = Cardinality(left) + 1
      BY ONLY <2>2, <3>1, FS_AddElement
    <3>3. nulls[t][q] \in Int /\ depth[t][q] \in Int
      BY DEF ScopesInv, Depths
    <3>4. depth'[t][q] = depth[t][q] - 1
      BY <1>b, <1>10, <2>4
    <3>5. PICK k \in Nat : k = Cardinality(left)
      BY <2>2
    <3>6. depth[t][q] = nulls[t][q] + (k + 1)
      BY <2>1, <3>1, <3>2, <3>5
    <3>7. \A a, b \in Int : a = b + (k + 1) => a - 1 = b + k
      BY SMTT(30)
    <3>8. depth[t][q] - 1 = nulls[t][q] + k
      BY <3>3, <3>6, <3>7
    <3> QED
      BY <3>4, <3>5, <3>8
  <2>5. CASE q # r
    <3>1. OfTracer(Range(old), q) = left
      BY <1>4, <2>3, <2>5 DEF OfTracer
    <3> QED
      BY <1>10, <2>1, <2>5, <3>1
  <2> QED
    BY <2>4, <2>5
<1>13. ASSUME NEW u \in ScThreads
       PROVE  /\ IsChain(next[u], u)' /\ IsInjective(next[u])
              /\ \A x \in Range(next[u]) : ~scopes'[x].detached /\ scopes'[x].received = 0
              /\ \A v \in ScThreads : u # v => Range(next[u]) \cap Range(next[v]) = {}
              /\ \A q \in ScTracers : depth'[u][q] = nulls'[u][q]
                 + Cardinality({x \in Range(next[u]) : scopes'[x].tracer = q})
  <2>1. \A v \in ScThreads : Range(next[v]) \subseteq Range(ch[v]) /\ s \notin Range(next[v])
    BY <1>4, <1>5, <1>6
  <2>2. \A x \in Range(next[u]) : x \in KnownScopes \ {s} /\ scopes'[x] = scopes[x]
    BY <1>2, <2>1
  <2>3. \A x \in Range(next[u]) : ~scopes'[x].detached /\ scopes'[x].received = 0
    BY <1>2, <2>1, <2>2, ZenonT(30)
  <2>4. \A v \in ScThreads : u # v => Range(next[u]) \cap Range(next[v]) = {}
    <3>1. \A v \in ScThreads : u # v => Range(ch[u]) \cap Range(ch[v]) = {}
      BY <1>1 DEF Nested
    <3> QED
      BY <2>1, <3>1
  <2>5. CASE u = t
    <3>1. IsChain(next[u], u)'
      BY <1>5, <1>9, <2>5 DEF IsChain, ScopeAt
    <3> QED
      BY <1>4, <1>5, <1>12, <2>3, <2>4, <2>5, <3>1
  <2>6. CASE u # t
    <3>1. next[u] = ch[u] /\ IsInjective(ch[u])
      BY <1>1, <1>5, <2>6 DEF Nested
    <3>2. IsChain(next[u], u)'
      BY <1>7, <2>6, <3>1, SMTT(30) DEF IsChain, ScopeAt
    <3> QED
      BY <1>11, <2>3, <2>4, <2>6, <3>1, <3>2, ZenonT(30)
  <2> QED
    BY <2>5, <2>6
<1>14. ASSUME NEW x \in KnownScopes
       PROVE  \/ \E u \in ScThreads : x \in Range(next[u])
              \/ scopes'[x].detached /\ scopes'[x].received = 0
              \/ ~scopes'[x].detached /\ scopes'[x].received = 1
  <2>1. CASE x = s
    <3>1. ~scopes[s].detached /\ scopes[s].received = 0
      BY <1>2, <1>4
    <3> QED
      BY <2>1, <3>1, SMTT(30)
  <2>2. CASE x # s
    <3>1. scopes'[x] = scopes[x]
      BY <2>2
    <3>2. \A u \in ScThreads : x \in Range(ch[u]) => x \in Range(next[u])
      BY <1>4, <1>5, <2>2
    <3> QED
      BY <1>1, <3>1, <3>2 DEF Nested
  <2> QED
    BY <2>1, <2>2
<1>15. Nested(next)'
  BY <1>13, <1>14 DEF Nested, OfTracer
<1>16. threadLocalScope' \in [ScThreads -> Nat] /\ nulls' \in Depths /\ Len(scopes') <= MaxScopes
  BY <1>a DEF ScopesInv, ScopeTypes
<1> QED
  BY <1>5, <1>10, <1>15, <1>16 DEF ScopesInv

\* A null scope is opened or closed.
LEMMA NullKeeps ==
  ASSUME ScopesInv, NEW t \in ScThreads, NEW r \in ScTracers, NEW d \in {1, -1},
         scopes' = scopes, threadLocalScope' = threadLocalScope,
         depth' = [depth EXCEPT ![t][r] = @ + d], nulls' = [nulls EXCEPT ![t][r] = @ + d]
  PROVE  ScopesInv'
<1>1. PICK ch \in [ScThreads -> Seq(KnownScopes)] : Nested(ch)
  BY DEF ScopesInv
<1>2. depth \in [ScThreads -> [ScTracers -> Int]] /\ nulls \in [ScThreads -> [ScTracers -> Int]]
  BY DEF ScopesInv, Depths
<1>3. depth[t][r] + d \in Int /\ nulls[t][r] + d \in Int
  BY <1>2, SMTT(30)
<1>4. /\ depth' \in Depths
      /\ \A u \in ScThreads, q \in ScTracers : depth'[u][q] = IF u = t
         /\ q = r THEN depth[t][r] + d ELSE depth[u][q]
  <2>1. PICK e \in Int : e = depth[t][r] + d
    BY <1>3
  <2>2. depth' = [depth EXCEPT ![t][r] = e]
    BY <2>1
  <2>3. /\ depth' \in [ScThreads -> [ScTracers -> Int]]
        /\ \A u \in ScThreads, q \in ScTracers : depth'[u][q] = IF u = t
           /\ q = r THEN e ELSE depth[u][q]
    BY ONLY <1>2, <2>2, TableFacts, t \in ScThreads, r \in ScTracers, e \in Int, SMTT(30)
  <2> QED
    BY <2>1, <2>3 DEF Depths
<1>5. /\ nulls' \in Depths
      /\ \A u \in ScThreads, q \in ScTracers : nulls'[u][q] = IF u = t
         /\ q = r THEN nulls[t][r] + d ELSE nulls[u][q]
  <2>1. PICK e \in Int : e = nulls[t][r] + d
    BY <1>3
  <2>2. nulls' = [nulls EXCEPT ![t][r] = e]
    BY <2>1
  <2>3. /\ nulls' \in [ScThreads -> [ScTracers -> Int]]
        /\ \A u \in ScThreads, q \in ScTracers : nulls'[u][q] = IF u = t
           /\ q = r THEN e ELSE nulls[u][q]
    BY ONLY <1>2, <2>2, TableFacts, t \in ScThreads, r \in ScTracers, e \in Int, SMTT(30)
  <2> QED
    BY <2>1, <2>3 DEF Depths
<1>6. ASSUME NEW u \in ScThreads, NEW q \in ScTracers
      PROVE  depth'[u][q] = nulls'[u][q] + Cardinality(OfTracer(Range(ch[u]), q))
  <2>1. depth[u][q] = nulls[u][q] + Cardinality(OfTracer(Range(ch[u]), q))
    BY <1>1 DEF Nested
  <2>2. IsFiniteSet(Range(ch[u])) /\ OfTracer(Range(ch[u]), q) \subseteq Range(ch[u])
    BY <1>1, InjectiveCardinality DEF Nested, OfTracer
  <2>3. Cardinality(OfTracer(Range(ch[u]), q)) \in Nat
    BY <2>2, FS_Subset, FS_CardinalityType
  <2>4. nulls[u][q] \in Int
    BY <1>2
  <2> QED
    BY <1>4, <1>5, <2>1, <2>3, <2>4, SMTT(30)
<1>7. Nested(ch)'
  <2>1. \A u \in ScThreads : IsChain(ch[u], u)'
    BY <1>1 DEF Nested, IsChain, ScopeAt
  <2>2. \A u \in ScThreads : \A q \in ScTracers :
          depth'[u][q] = nulls'[u][q] + Cardinality({x \in Range(ch[u]) : scopes'[x].tracer = q})
    BY <1>6, SMTT(30) DEF OfTracer
  <2> QED
    BY <1>1, <2>1, <2>2 DEF Nested, OfTracer, KnownScopes
<1>8. ch \in [ScThreads -> Seq(KnownScopes')]
  BY DEF KnownScopes
<1> QED
  BY <1>4, <1>5, <1>7, <1>8 DEF ScopesInv

\* Every operation on scopes keeps the chains.
LEMMA ScopesStep == ScopesInv /\ [ScopesNext]_scopesVars => ScopesInv'
<1> SUFFICES ASSUME ScopesInv, [ScopesNext]_scopesVars PROVE ScopesInv'
  OBVIOUS
<1>t. /\ scopes \in Seq(ScopeTypes) /\ Len(scopes) \in Nat /\ Len(scopes) <= MaxScopes
      /\ KnownScopes = 1..Len(scopes) /\ MaxScopes \in Nat
      /\ \A x \in KnownScopes : scopes[x] \in ScopeTypes
  BY SeqIsFcn, ScopesAssumption DEF ScopesInv, KnownScopes
<1>1. ASSUME NEW t \in ScThreads, NEW r \in ScTracers, pushNewScope(t, r, threadLocalScope[t])
      PROVE  ScopesInv'
  <2> DEFINE s == Len(scopes) + 1
             new == [tracer |-> r, parent |-> threadLocalScope[t], detached |-> FALSE,
                    received |-> 0]
  <2>1. new \in ScopeTypes
    BY DEF ScopesInv, ScopeTypes
  <2>2. /\ scopes' = Append(scopes, new) /\ scopes' \in Seq(ScopeTypes) /\ Len(scopes') = s
        /\ scopes'[s] = new /\ \A x \in KnownScopes : scopes'[x] = scopes[x]
    <3>1. scopes' = Append(scopes, new)
      BY <1>1 DEF pushNewScope
    <3> HIDE DEF new
    <3> QED
      BY <1>t, <2>1, <3>1, AppendFacts, SMTT(30)
  <2>3. KnownScopes' = KnownScopes \cup {s}
    <3>1. KnownScopes' = 1..Len(scopes')
      BY <2>2, SeqIsFcn DEF KnownScopes
    <3> QED
      BY <1>t, <2>2, <3>1
  <2>4. Len(scopes') <= MaxScopes /\ s \in Nat \ {0} /\ s \notin KnownScopes
    BY <1>1, <1>t, <2>2 DEF pushNewScope
  <2>5. threadLocalScope' = [threadLocalScope EXCEPT ![t] = s] /\ pushScope(t, r) /\ nulls' = nulls
    BY <1>1, <2>2 DEF pushNewScope
  <2>6. scopes'[s].tracer = r /\ scopes'[s].parent = threadLocalScope[t] /\ ~scopes'[s].detached
        /\ scopes'[s].received = 0
    BY <2>2
  <2> HIDE DEF new
  <2>7. \E x \in Nat \ {0} : x = s
    BY <2>4
  <2> HIDE DEF s
  <2> QED
    BY <2>2, <2>3, <2>4, <2>5, <2>6, PushKeeps
<1>2. ASSUME NEW t \in ScThreads, NEW r \in ScTracers, nullScope(t, r) PROVE ScopesInv'
  <2>1. depth' = [depth EXCEPT ![t][r] = @ + 1] /\ nulls' = [nulls EXCEPT ![t][r] = @ + 1]
    BY <1>2 DEF nullScope, pushScope
  <2>2. scopes' = scopes /\ threadLocalScope' = threadLocalScope
    BY <1>2 DEF nullScope
  <2> QED
    BY <2>1, <2>2, NullKeeps
<1>3. ASSUME NEW t \in ScThreads, NEW r \in ScTracers, popNullScope(t, r) PROVE ScopesInv'
  <2>1. depth' = [depth EXCEPT ![t][r] = @ + (-1)]
    <3>1. depth[t][r] \in Int
      BY DEF ScopesInv, Depths
    <3>2. depth[t][r] - 1 = depth[t][r] + (-1)
      BY <3>1
    <3> QED
      BY <1>3, <3>2 DEF popNullScope, popScope
  <2>2. nulls' = [nulls EXCEPT ![t][r] = @ + (-1)]
    <3>1. nulls[t][r] \in Int
      BY DEF ScopesInv, Depths
    <3>2. nulls[t][r] - 1 = nulls[t][r] + (-1)
      BY <3>1
    <3> QED
      BY <1>3, <3>2 DEF popNullScope
  <2>3. scopes' = scopes /\ threadLocalScope' = threadLocalScope
    BY <1>3 DEF popNullScope
  <2> QED
    BY <2>1, <2>2, <2>3, NullKeeps
<1>4. ASSUME NEW t \in ScThreads, NEW s \in KnownScopes, detach(t, s) PROVE ScopesInv'
  <2> DEFINE new == [scopes[s] EXCEPT !.detached = TRUE, !.parent = NoScope]
  <2>1. new \in ScopeTypes /\ new.detached /\ new.received = scopes[s].received
    BY <1>t DEF ScopeTypes, NoScope
  <2>2. scopes' = [scopes EXCEPT ![s] = new]
    BY <1>4 DEF detach
  <2> HIDE DEF new
  <2>3. /\ scopes' \in Seq(ScopeTypes) /\ Len(scopes') = Len(scopes)
           /\ DOMAIN scopes' = DOMAIN scopes
        /\ scopes'[s] = new /\ \A x \in KnownScopes \ {s} : scopes'[x] = scopes[x]
    BY <1>t, <2>1, <2>2, ExceptFacts DEF KnownScopes
  <2>4. /\ threadLocalScope[t] = s /\ popScope(t, scopes[s].tracer) /\ nulls' = nulls
        /\ threadLocalScope' = [threadLocalScope EXCEPT ![t] = scopes[s].parent]
    BY <1>4 DEF detach, Scope
  <2>5. KnownScopes' = KnownScopes
    BY <2>3 DEF KnownScopes
  <2>6. scopes'[s].detached /\ scopes'[s].received = scopes[s].received
    BY <2>1, <2>3
  <2> QED
    BY <2>3, <2>4, <2>5, <2>6, PopKeeps
<1>5. ASSUME NEW t \in ScThreads, NEW s \in KnownScopes, closeScope(t, s) PROVE ScopesInv'
  <2> DEFINE new == [scopes[s] EXCEPT !.parent = NoScope, !.received = @ + 1]
  <2>0. scopes[s] \in ScopeTypes /\ scopes[s].received + 1 \in Nat
    BY <1>t, SMTT(30) DEF ScopeTypes
  <2>1. new \in ScopeTypes /\ new.detached = scopes[s].detached
        /\ new.received = scopes[s].received + 1
    BY <2>0 DEF ScopeTypes, NoScope
  <2>2. scopes' = [scopes EXCEPT ![s] = new]
    BY <1>5 DEF closeScope
  <2> HIDE DEF new
  <2>3. /\ scopes' \in Seq(ScopeTypes) /\ Len(scopes') = Len(scopes)
           /\ DOMAIN scopes' = DOMAIN scopes
        /\ scopes'[s] = new /\ \A x \in KnownScopes \ {s} : scopes'[x] = scopes[x]
    BY <1>t, <2>1, <2>2, ExceptFacts DEF KnownScopes
  <2>4. /\ threadLocalScope[t] = s /\ popScope(t, scopes[s].tracer) /\ nulls' = nulls
        /\ threadLocalScope' = [threadLocalScope EXCEPT ![t] = scopes[s].parent]
    BY <1>5 DEF closeScope, Scope
  <2>5. KnownScopes' = KnownScopes
    BY <2>3 DEF KnownScopes
  <2>6. scopes'[s].detached = scopes[s].detached /\ scopes'[s].received = scopes[s].received + 1
    BY <2>1, <2>3
  <2> QED
    BY <2>3, <2>4, <2>5, <2>6, PopKeeps
<1>6. ASSUME NEW t \in ScThreads, NEW s \in KnownScopes, reattach(t, s) PROVE ScopesInv'
  <2> DEFINE new == [scopes[s] EXCEPT !.detached = FALSE, !.parent = threadLocalScope[t]]
  <2>0. threadLocalScope[t] \in Nat /\ s \in Nat \ {0} /\ scopes[s].tracer \in ScTracers
    BY <1>t, SMTT(30) DEF ScopesInv, ScopeTypes
  <2>1. /\ new \in ScopeTypes /\ ~new.detached /\ new.received = scopes[s].received
        /\ new.tracer = scopes[s].tracer /\ new.parent = threadLocalScope[t]
    BY <1>t, <2>0 DEF ScopeTypes
  <2>2. scopes' = [scopes EXCEPT ![s] = new]
    BY <1>6 DEF reattach
  <2> HIDE DEF new
  <2>3. /\ scopes' \in Seq(ScopeTypes) /\ Len(scopes') = Len(scopes)
           /\ DOMAIN scopes' = DOMAIN scopes
        /\ scopes'[s] = new /\ \A x \in KnownScopes \ {s} : scopes'[x] = scopes[x]
    BY <1>t, <2>1, <2>2, ExceptFacts DEF KnownScopes
  <2>4. /\ scopes[s].detached /\ pushScope(t, scopes[s].tracer) /\ nulls' = nulls
        /\ threadLocalScope' = [threadLocalScope EXCEPT ![t] = s]
    BY <1>6 DEF reattach, Scope
  <2>5. KnownScopes' = KnownScopes \cup {s}
    BY <2>3 DEF KnownScopes
  <2>6. scopes[s].received = 0
    BY <2>4 DEF ScopesInv, Nested
  <2>7. /\ scopes'[s].tracer = scopes[s].tracer /\ scopes'[s].parent = threadLocalScope[t]
        /\ ~scopes'[s].detached /\ scopes'[s].received = 0
    BY <2>1, <2>3, <2>6
  <2>8. Len(scopes') <= MaxScopes
    BY <1>t, <2>3
  <2>9. PICK r \in ScTracers : r = scopes[s].tracer
    BY <2>0
  <2>10. pushScope(t, r) /\ scopes'[s].tracer = r
    BY <2>4, <2>7, <2>9
  <2> QED
    BY <2>0, <2>3, <2>4, <2>5, <2>7, <2>8, <2>10, PushKeeps
<1>7. CASE UNCHANGED scopesVars
  <2>1. PICK ch \in [ScThreads -> Seq(KnownScopes)] : Nested(ch)
    BY DEF ScopesInv
  <2>2. scopes' = scopes /\ threadLocalScope' = threadLocalScope /\ depth' = depth /\ nulls' = nulls
    BY <1>7 DEF scopesVars
  <2>3. KnownScopes' = KnownScopes
    BY <2>2 DEF KnownScopes
  <2>4. \A u \in ScThreads : IsChain(ch[u], u)' <=> IsChain(ch[u], u)
    BY <2>2 DEF IsChain, ScopeAt
  <2>5. \A S, q : OfTracer(S, q)' = OfTracer(S, q)
    BY <2>2 DEF OfTracer
  <2>6. Nested(ch)'
    BY <2>1, <2>2, <2>3, <2>4, <2>5 DEF Nested
  <2> QED
    BY <2>1, <2>2, <2>3, <2>6 DEF ScopesInv
<1>8. ASSUME NEW t \in ScThreads, NEW r \in ScTracers, newScope(t, r) PROVE ScopesInv'
  BY <1>1, <1>2, <1>8 DEF newScope
<1>9. CASE ScopesNext
  <2>1. \A t \in ScThreads, r \in ScTracers : newScopeOf(t, r) => ScopesInv'
    BY <1>1 DEF newScopeOf
  <2>2. \A t \in ScThreads, r \in ScTracers : newNullScope(t, r) => ScopesInv'
    BY <1>2 DEF newNullScope
  <2> QED
    BY <1>3, <1>4, <1>5, <1>6, <1>8, <1>9, <2>1, <2>2 DEF ScopesNext
<1> QED
  BY <1>7, <1>9
-----------------------------------------------------------------------------
\* Following parents for as many steps as there may be scopes visits a whole chain, and no scope
\* after it.
LEMMA ChainOf ==
  ASSUME NEW c \in Seq(Nat \ {0}), NEW t, IsChain(c, t), Len(c) <= MaxScopes
  PROVE  Chain(t) = Append(c, NoScope)
<1>0. /\ Len(c) \in Nat /\ MaxScopes \in Nat /\ \A i \in 1..Len(c) : c[i] \in Nat /\ c[i] # 0
  BY SeqIsFcn, ScopesAssumption
<1> DEFINE L(n) == IF n <= Len(c) THEN n + 1 ELSE Len(c) + 1
           G == [n \in 0..MaxScopes |-> [i \in 1..L(n) |-> ScopeAt(c, i)]]
           P(f) == f = [n \in 0..MaxScopes |->
                          IF n = 0 THEN <<threadLocalScope[t]>>
                          ELSE LET last == f[n - 1][Len(f[n - 1])]
                               IN  IF last = NoScope THEN f[n - 1] ELSE Append(f[n - 1],
                                 Scope(last).parent)]
           up == CHOOSE f : P(f)
<1>1. Chain(t) = up[MaxScopes]
  BY DEF Chain
<1>2. \A i \in Nat \ {0} : ScopeAt(c, i) \in Nat /\ (ScopeAt(c, i) = NoScope <=> i > Len(c))
  BY <1>0 DEF ScopeAt, NoScope
<1>3. \A n \in 0..MaxScopes : G[n] \in Seq(Nat) /\ Len(G[n]) = L(n) /\ L(n) \in Nat /\ L(n) >= 1
      /\ G[n][L(n)] = ScopeAt(c, L(n))
  <2> TAKE n \in 0..MaxScopes
  <2>1. L(n) \in Nat /\ L(n) >= 1
    BY <1>0
  <2> HIDE DEF L
  <2>2. G[n] = [i \in 1..L(n) |-> ScopeAt(c, i)]
    OBVIOUS
  <2>3. \A i \in 1..L(n) : ScopeAt(c, i) \in Nat
    BY <1>2, <2>1
  <2> QED
    BY <2>1, <2>2, <2>3, SMTT(30)
<1>4. ASSUME NEW n \in 0..MaxScopes
      PROVE  G[n] = IF n = 0 THEN <<threadLocalScope[t]>>
                    ELSE LET last == G[n - 1][Len(G[n - 1])]
                         IN  IF last = NoScope THEN G[n - 1] ELSE Append(G[n - 1],
                           Scope(last).parent)
  <2>1. CASE n = 0
    <3>1. L(0) = 1
      BY <1>0
    <3>2. G[0] = [i \in 1..1 |-> ScopeAt(c, i)]
      BY <1>0, <3>1, SMTT(30)
    <3>3. threadLocalScope[t] = ScopeAt(c, 1)
      BY DEF IsChain
    <3> QED
      BY <2>1, <3>2, <3>3, SMTT(30)
  <2>2. CASE n # 0
    <3>1. n - 1 \in 0..MaxScopes /\ n \in Nat /\ n >= 1
      BY <1>0, <2>2
    <3>2. G[n - 1][Len(G[n - 1])] = ScopeAt(c, L(n - 1))
      BY <1>3, <3>1
    <3>3. CASE n - 1 <= Len(c) - 1
      <4>1. L(n - 1) = n /\ L(n) = n + 1 /\ n \in 1..Len(c)
        BY <1>0, <3>1, <3>3
      <4>2. ScopeAt(c, n) # NoScope /\ ScopeAt(c, n) = c[n]
        BY <1>0, <4>1 DEF ScopeAt, NoScope
      <4>3. Scope(c[n]).parent = ScopeAt(c, n + 1)
        BY <4>1 DEF IsChain, Scope
      <4>4. G[n - 1] = [i \in 1..n |-> ScopeAt(c, i)] /\ G[n] = [i \in 1..(n + 1) |-> ScopeAt(c, i)]
        BY <3>1, <4>1
      <4>5. G[n - 1] \in Seq(Nat) /\ Len(G[n - 1]) = n /\ ScopeAt(c, n + 1) \in Nat
        BY <1>2, <1>3, <3>1, <4>1, SMTT(30)
      <4> HIDE DEF G, L
      <4>6. G[n] = Append(G[n - 1], ScopeAt(c, n + 1))
        <5> DEFINE a == Append(G[n - 1], ScopeAt(c, n + 1))
        <5>1. a \in Seq(Nat) /\ Len(a) = n + 1 /\ a[n + 1] = ScopeAt(c, n + 1)
              /\ \A i \in 1..n : a[i] = G[n - 1][i]
          BY <4>5, AppendFacts, SMTT(30)
        <5>2. a = [i \in 1..(n + 1) |-> a[i]]
          BY <5>1, SeqIsFcn
        <5> HIDE DEF a
        <5>3. \A i \in 1..(n + 1) : a[i] = ScopeAt(c, i)
          BY <3>1, <4>4, <5>1, SMTT(30)
        <5>4. a = G[n]
          BY <4>4, <5>2, <5>3
        <5> QED
          BY <5>4 DEF a
      <4> QED
        BY <2>2, <3>2, <4>1, <4>2, <4>3, <4>6
    <3>4. CASE ~(n - 1 <= Len(c) - 1)
      <4>1. L(n - 1) = Len(c) + 1 /\ L(n) = Len(c) + 1
        BY <1>0, <3>1, <3>4
      <4>2. ScopeAt(c, Len(c) + 1) = NoScope
        BY <1>0, <1>2
      <4>3. G[n - 1] = G[n]
        BY <3>1, <4>1
      <4> HIDE DEF G, L
      <4> QED
        BY <2>2, <3>2, <4>1, <4>2, <4>3
    <3> QED
      BY <3>3, <3>4
  <2> QED
    BY <2>1, <2>2
<1>5. P(G)
  BY <1>4
<1> HIDE DEF P, G
<1>6. P(up)
  BY <1>5
<1>7. \A n \in Nat : n \in 0..MaxScopes => up[n] = G[n]
  <2> DEFINE S == {n \in Nat : n \in 0..MaxScopes => up[n] = G[n]}
  <2>a. \A n \in 0..MaxScopes : up[n] = IF n = 0 THEN <<threadLocalScope[t]>>
                    ELSE LET last == up[n - 1][Len(up[n - 1])]
                         IN  IF last = NoScope THEN up[n - 1] ELSE Append(up[n - 1],
                           Scope(last).parent)
    <3> HIDE DEF up
    <3> QED
      BY <1>6 DEF P
  <2> HIDE DEF up
  <2>1. 0 \in S
    BY <1>0, <1>4, <2>a
  <2>2. \A n \in Nat : n \in S => n + 1 \in S
    <3> SUFFICES ASSUME NEW n \in Nat, n \in S, n + 1 \in 0..MaxScopes PROVE up[n + 1] = G[n + 1]
      OBVIOUS
    <3>1. n \in 0..MaxScopes /\ (n + 1) - 1 = n /\ n + 1 # 0
      BY <1>0
    <3>2. up[n] = G[n]
      BY <3>1
    <3> QED
      BY <1>4, <2>a, <3>1, <3>2
  <2> HIDE DEF S
  <2>3. Nat \subseteq S
    BY <2>1, <2>2, Induct
  <2> QED
    BY <2>3 DEF S
<1>8. Chain(t) = G[MaxScopes]
  BY <1>0, <1>1, <1>7, SMTT(30)
<1>9. G[MaxScopes] = Append(c, NoScope)
  <2>1. L(MaxScopes) = Len(c) + 1
    BY <1>0
  <2>2. G[MaxScopes] = [i \in 1..(Len(c) + 1) |-> ScopeAt(c, i)]
    BY <1>0, <2>1 DEF G
  <2> DEFINE a == Append(c, NoScope)
  <2>3. a \in Seq(Nat) /\ Len(a) = Len(c) + 1 /\ a[Len(c) + 1] = NoScope
        /\ \A i \in 1..Len(c) : a[i] = c[i]
    <3>1. c \in Seq(Nat) /\ NoScope \in Nat
      BY SeqSuperset DEF NoScope
    <3> QED
      BY <3>1, AppendFacts, SMTT(30)
  <2> HIDE DEF a
  <2>a. DOMAIN a = 1..Len(a)
    BY <2>3, SeqIsFcn
  <2>b. a = [i \in DOMAIN a |-> a[i]]
    BY <2>3
  <2>4. a = [i \in 1..(Len(c) + 1) |-> a[i]]
    BY <2>3, <2>a, <2>b
  <2>5. \A i \in 1..(Len(c) + 1) : a[i] = ScopeAt(c, i)
    BY <1>0, <2>3 DEF ScopeAt
  <2>6. a = G[MaxScopes]
    BY <2>2, <2>4, <2>5
  <2> QED
    BY <2>6 DEF a
<1> QED
  BY <1>8, <1>9

\* The chains of the invariant are the ones the properties follow.
LEMMA ScopesInvProperties == ScopesInv => DepthIsExact /\ ScopesAreNested
<1> SUFFICES ASSUME ScopesInv PROVE DepthIsExact /\ ScopesAreNested
  OBVIOUS
<1>1. PICK ch \in [ScThreads -> Seq(KnownScopes)] : Nested(ch)
  BY DEF ScopesInv
<1>2. Len(scopes) \in Nat /\ KnownScopes = 1..Len(scopes) /\ Len(scopes) <= MaxScopes
      /\ MaxScopes \in Nat
  BY SeqIsFcn, ScopesAssumption DEF ScopesInv, KnownScopes
<1>3. ASSUME NEW t \in ScThreads
      PROVE  Chain(t) = Append(ch[t], NoScope) /\ Attached(t) = Range(ch[t])
             /\ Chain(t)[Len(Chain(t))] = NoScope
  <2>1. ch[t] \in Seq(KnownScopes) /\ IsInjective(ch[t]) /\ IsChain(ch[t], t)
    BY <1>1 DEF Nested
  <2>2. ch[t] \in Seq(Nat \ {0}) /\ ch[t] \in Seq(Nat)
    <3>1. KnownScopes \subseteq Nat \ {0} /\ KnownScopes \subseteq Nat
      BY <1>2
    <3> QED
      BY <2>1, <3>1, SeqSuperset
  <2>3. Len(ch[t]) <= MaxScopes
    <3>1. IsFiniteSet(Range(ch[t])) /\ Cardinality(Range(ch[t])) = Len(ch[t])
          /\ Range(ch[t]) \subseteq 1..Len(scopes)
      BY <1>2, <2>1, InjectiveCardinality, RangeFacts
    <3>2. IsFiniteSet(1..Len(scopes)) /\ Cardinality(1..Len(scopes)) = Len(scopes)
      <4>1. \A n \in Nat : IsFiniteSet(1..n) /\ Cardinality(1..n) = IF 1 > n THEN 0 ELSE n - 1 + 1
        BY FS_Interval
      <4>2. \A n \in Nat : (IF 1 > n THEN 0 ELSE n - 1 + 1) = n
        OBVIOUS
      <4> QED
        BY <1>2, <4>1, <4>2
    <3>3. Cardinality(Range(ch[t])) <= Cardinality(1..Len(scopes))
      BY <3>1, <3>2, FS_Subset
    <3>4. Len(ch[t]) \in Nat
      BY <2>1, SeqIsFcn
    <3> QED
      BY <1>2, <3>1, <3>2, <3>3, <3>4
  <2>4. Chain(t) = Append(ch[t], NoScope)
    BY <2>1, <2>2, <2>3, ChainOf
  <2>5. NoScope \in Nat /\ NoScope \notin Range(ch[t])
    <3>1. Range(ch[t]) \subseteq Nat \ {0}
      BY <2>2, RangeFacts
    <3> QED
      BY <3>1 DEF NoScope
  <2>6. Range(Append(ch[t], NoScope)) = Range(ch[t]) \cup {NoScope}
    BY <2>2, <2>5, RangeAppend
  <2>7. Attached(t) = Range(Append(ch[t], NoScope)) \ {NoScope}
    BY <2>4 DEF Attached, Range
  <2>8. Len(Append(ch[t], NoScope)) = Len(ch[t]) + 1
        /\ Append(ch[t], NoScope)[Len(ch[t]) + 1] = NoScope
    BY <2>2, <2>5, AppendFacts, SMTT(30)
  <2> QED
    BY <2>4, <2>5, <2>6, <2>7, <2>8
<1>4. DepthIsExact
  BY <1>1, <1>3, ZenonT(30) DEF DepthIsExact, Nested, OfTracer, Scope
<1>5. ScopesAreNested
  BY <1>1, <1>3, SMTT(30) DEF ScopesAreNested, Nested, Scope
<1> QED
  BY <1>4, <1>5
-----------------------------------------------------------------------------
(* C scopes *)

\* Stacks of scopes whose spans are among the first n.
StackTypes(n) ==
  /\ cscopes \in [CsThreads -> Seq(0..n)]
  /\ \A t \in CsThreads : Len(cscopes[t]) <= MaxCDepth

\* Whether a scope of a thread has the span.
Holds(s) == \E t \in CsThreads : \E i \in 1..Len(cscopes[t]) : cscopes[t][i] = s

\* No span is in two scopes.
HeldOnce ==
  \A t, u \in CsThreads : \A i \in 1..Len(cscopes[t]), j \in 1..Len(cscopes[u]) :
    cscopes[t][i] = cscopes[u][j] /\ cscopes[t][i] # Detached => t = u /\ i = j

CSpanTypes == [high : Nat, parent : Nat, enclosing : Nat]

CScopesTypes ==
  /\ cspans \in Seq(CSpanTypes) /\ crashed \in BOOLEAN
  /\ added \in Seq(1..Len(cspans)) /\ disowned \subseteq 1..Len(cspans)
     /\ freed \subseteq 1..Len(cspans)
  /\ StackTypes(Len(cspans))

\* A span has one place, but for the one whose start crashed.
PlacedWell(s) ==
  /\ Holds(s) => s \notin Range(added) /\ s \notin disowned /\ s \notin freed
  /\ s \in Range(added) => s \notin disowned /\ s \notin freed
  /\ s \in disowned => s \notin freed

Somewhere(s) == Holds(s) \/ s \in Range(added) \/ s \in disowned \/ s \in freed

PlacedOnce ==
  \A s \in 1..Len(cspans) :
    /\ PlacedWell(s)
    /\ Somewhere(s) <=> ~(crashed /\ s = Len(cspans))

\* The step leaves the span where it is.
StaysPut(s) ==
  /\ Holds(s)' <=> Holds(s)
  /\ s \in Range(added') <=> s \in Range(added)
  /\ s \in disowned' <=> s \in disowned
  /\ s \in freed' <=> s \in freed

ParentsRight ==
  \A s \in 1..Len(cspans) :
    LET p == cspans[s].parent IN
      /\ p \in 0..Len(cspans)
      /\ p # Detached => cspans[p].high = cspans[s].high \/ cspans[s].high = s
      /\ cspans[s].high # s => p # Detached /\ p = cspans[s].enclosing

CScopesInv == CScopesTypes /\ HeldOnce /\ IsInjective(added) /\ PlacedOnce /\ ParentsRight

\* A span in no scope goes into a new one.
LEMMA PushedScope ==
  ASSUME NEW n \in Nat, NEW m \in Nat, n <= m, NEW t \in CsThreads, NEW s \in 1..m,
         StackTypes(n), HeldOnce, ~Holds(s), Len(cscopes[t]) < MaxCDepth,
         cscopes' = [cscopes EXCEPT ![t] = <<s>> \o @]
  PROVE  StackTypes(m)' /\ HeldOnce' /\ \A x : Holds(x)' <=> Holds(x) \/ x = s
<1> DEFINE new == <<s>> \o cscopes[t]
<1>1. \A u \in CsThreads : cscopes[u] \in Seq(0..m) /\ Len(cscopes[u]) \in Nat
  <2>1. 0..n \subseteq 0..m
    OBVIOUS
  <2> QED
    BY <2>1, SeqSuperset, SeqIsFcn DEF StackTypes
<1>2. PICK k \in Nat : k = Len(cscopes[t])
  BY <1>1
<1>3. new \in Seq(0..m) /\ Len(new) = k + 1 /\ new[1] = s
      /\ \A i \in 1..k : new[i + 1] = cscopes[t][i]
  BY <1>1, <1>2, ConsFacts, SMTT(30)
<1>4. cscopes' = [cscopes EXCEPT ![t] = new]
  OBVIOUS
<1> HIDE DEF new
<1>5. \A u \in CsThreads : cscopes'[u] = IF u = t THEN new ELSE cscopes[u]
  BY <1>4 DEF StackTypes
<1>6. \A i \in 1..(k + 1) : i = 1 \/ (i - 1 \in 1..k /\ new[i] = cscopes[t][i - 1])
  <2> TAKE i \in 1..(k + 1)
  <2>1. CASE i # 1
    <3>1. i - 1 \in 1..k /\ (i - 1) + 1 = i
      BY <2>1
    <3> QED
      BY <1>3, <3>1
  <2> QED
    BY <2>1
<1>7. StackTypes(m)'
  <2>1. cscopes' \in [CsThreads -> Seq(0..m)]
    BY <1>1, <1>3, <1>4 DEF StackTypes
  <2>2. \A u \in CsThreads : Len(cscopes'[u]) <= MaxCDepth
    BY <1>2, <1>3, <1>5, CScopesAssumption, SMTT(30) DEF StackTypes
  <2> QED
    BY <2>1, <2>2 DEF StackTypes
<1>8. ASSUME NEW x PROVE Holds(x)' <=> Holds(x) \/ x = s
  <2>1. ASSUME Holds(x)' PROVE Holds(x) \/ x = s
    <3>a. PICK u \in CsThreads : \E i \in 1..Len(cscopes'[u]) : cscopes'[u][i] = x
      BY <2>1 DEF Holds
    <3>1. PICK i \in 1..Len(cscopes'[u]) : cscopes'[u][i] = x
      BY <3>a
    <3>2. CASE u = t
      <4>1. i \in 1..(k + 1) /\ new[i] = x
        BY <1>3, <1>5, <3>1, <3>2
      <4> QED
        BY <1>2, <1>3, <1>6, <4>1 DEF Holds
    <3>3. CASE u # t
      BY <1>5, <3>1, <3>3 DEF Holds
    <3> QED
      BY <3>2, <3>3
  <2>2. ASSUME Holds(x) PROVE Holds(x)'
    <3>a. PICK u \in CsThreads : \E i \in 1..Len(cscopes[u]) : cscopes[u][i] = x
      BY <2>2 DEF Holds
    <3>1. PICK i \in 1..Len(cscopes[u]) : cscopes[u][i] = x
      BY <3>a
    <3>2. CASE u = t
      <4>1. i \in 1..k /\ i + 1 \in 1..(k + 1)
        BY <1>2, <3>1, <3>2
      <4>2. i + 1 \in 1..Len(cscopes'[t]) /\ cscopes'[t][i + 1] = x
        BY <1>3, <1>5, <3>1, <3>2, <4>1
      <4> QED
        BY <4>2 DEF Holds
    <3>3. CASE u # t
      BY <1>5, <3>1, <3>3 DEF Holds
    <3> QED
      BY <3>2, <3>3
  <2>3. Holds(s)'
    <3>1. 1 \in 1..Len(cscopes'[t]) /\ cscopes'[t][1] = s
      BY <1>3, <1>5
    <3> QED
      BY <3>1 DEF Holds
  <2> QED
    BY <2>1, <2>2, <2>3
<1>9. HeldOnce'
  <2> SUFFICES ASSUME NEW u \in CsThreads, NEW v \in CsThreads,
                      NEW i \in 1..Len(cscopes'[u]), NEW j \in 1..Len(cscopes'[v]),
                      cscopes'[u][i] = cscopes'[v][j], cscopes'[u][i] # Detached
               PROVE  u = v /\ i = j
    BY SMTT(30) DEF HeldOnce
  \* A place of the new stacks is the new one or one of the old ones.
  <2>1. \A w \in CsThreads : \A l \in 1..Len(cscopes'[w]) :
          \/ w = t /\ l = 1 /\ cscopes'[w][l] = s
          \/ w = t /\ l \in Nat /\ l - 1 \in 1..Len(cscopes[w])
            /\ cscopes'[w][l] = cscopes[w][l - 1]
          \/ w # t /\ l \in 1..Len(cscopes[w]) /\ cscopes'[w][l] = cscopes[w][l]
    <3> TAKE w \in CsThreads
    <3> TAKE l \in 1..Len(cscopes'[w])
    <3>1. CASE w = t
      <4>0. cscopes'[w] = new
        BY <1>5, <3>1
      <4>1. l \in 1..(k + 1) /\ l \in Nat
        BY <1>3, <4>0, SMTT(30)
      <4> QED
        BY <1>2, <1>3, <1>6, <3>1, <4>0, <4>1
    <3>2. CASE w # t
      BY <1>5, <3>2
    <3> QED
      BY <3>1, <3>2
  <2>2. \A w \in CsThreads : \A l \in 1..Len(cscopes[w]) : cscopes[w][l] # s
    BY DEF Holds
  <2>3. CASE u = t /\ i = 1 /\ cscopes'[u][i] = s
    BY <2>1, <2>2, <2>3, SMTT(30)
  <2>4. CASE u = t /\ i \in Nat /\ i - 1 \in 1..Len(cscopes[u])
        /\ cscopes'[u][i] = cscopes[u][i - 1]
    <3>1. CASE v = t /\ j = 1 /\ cscopes'[v][j] = s
      BY <2>2, <2>4, <3>1
    <3>2. CASE v = t /\ j \in Nat /\ j - 1 \in 1..Len(cscopes[v])
          /\ cscopes'[v][j] = cscopes[v][j - 1]
      <4>0. cscopes[u][i - 1] = cscopes[v][j - 1] /\ cscopes[u][i - 1] # Detached
            /\ i - 1 \in 1..Len(cscopes[u]) /\ j - 1 \in 1..Len(cscopes[v])
        BY <2>4, <3>2
      <4>1. i - 1 = j - 1
        BY ONLY <4>0, HeldOnce, u \in CsThreads, v \in CsThreads DEF HeldOnce
      <4> QED
        BY <2>4, <3>2, <4>1
    <3>3. CASE v # t /\ j \in 1..Len(cscopes[v]) /\ cscopes'[v][j] = cscopes[v][j]
      BY <2>4, <3>3, ZenonT(60) DEF HeldOnce
    <3> QED
      BY <2>1, <3>1, <3>2, <3>3
  <2>5. CASE u # t /\ i \in 1..Len(cscopes[u]) /\ cscopes'[u][i] = cscopes[u][i]
    <3>1. CASE v = t /\ j = 1 /\ cscopes'[v][j] = s
      BY <2>2, <2>5, <3>1
    <3>2. CASE v = t /\ j \in Nat /\ j - 1 \in 1..Len(cscopes[v])
          /\ cscopes'[v][j] = cscopes[v][j - 1]
      BY <2>5, <3>2, SMTT(30) DEF HeldOnce
    <3>3. CASE v # t /\ j \in 1..Len(cscopes[v]) /\ cscopes'[v][j] = cscopes[v][j]
      BY <2>5, <3>3, SMTT(30) DEF HeldOnce
    <3> QED
      BY <2>1, <3>1, <3>2, <3>3
  <2> QED
    BY <2>1, <2>3, <2>4, <2>5
<1> QED
  BY <1>7, <1>8, <1>9

\* The innermost scope of a thread is closed.
LEMMA PoppedScope ==
  ASSUME NEW n \in Nat, NEW t \in CsThreads, StackTypes(n), HeldOnce, cscopes[t] # <<>>,
         cscopes' = [cscopes EXCEPT ![t] = Tail(@)]
  PROVE  /\ StackTypes(n)' /\ HeldOnce' /\ Head(cscopes[t]) \in 0..n
         /\ Head(cscopes[t]) # Detached => Holds(Head(cscopes[t]))
         /\ \A x : x # Detached => (Holds(x)' <=> Holds(x) /\ x # Head(cscopes[t]))
<1> DEFINE new == Tail(cscopes[t])
<1>1. \A u \in CsThreads : cscopes[u] \in Seq(0..n) /\ Len(cscopes[u]) \in Nat
  BY SeqIsFcn DEF StackTypes
<1>2. PICK k \in Nat : k + 1 = Len(cscopes[t])
  <2>1. Len(cscopes[t]) >= 1
    BY <1>1, TailFacts
  <2>2. \A l \in Nat : l >= 1 => \E k \in Nat : k + 1 = l
    <3> SUFFICES ASSUME NEW l \in Nat, l >= 1 PROVE \E k \in Nat : k + 1 = l
      OBVIOUS
    <3>1. l - 1 \in Nat /\ (l - 1) + 1 = l
      OBVIOUS
    <3> QED
      BY <3>1
  <2> QED
    BY <1>1, <2>1, <2>2
<1>3. PICK h \in 0..n : h = Head(cscopes[t])
  BY <1>1, TailFacts
<1>4. new \in Seq(0..n) /\ Len(new) = k /\ h = cscopes[t][1]
      /\ \A i \in 1..k : new[i] = cscopes[t][i + 1]
  <2>1. /\ new \in Seq(0..n) /\ Len(new) = Len(cscopes[t]) - 1 /\ h = cscopes[t][1]
        /\ \A i \in 1..(Len(cscopes[t]) - 1) : new[i] = cscopes[t][i + 1]
    BY <1>1, <1>3, TailFacts
  <2>2. Len(cscopes[t]) - 1 = k
    BY <1>2
  <2> QED
    BY <2>1, <2>2
<1>5. cscopes' = [cscopes EXCEPT ![t] = new]
  OBVIOUS
<1> HIDE DEF new
<1>6. \A u \in CsThreads : cscopes'[u] = IF u = t THEN new ELSE cscopes[u]
  BY <1>5 DEF StackTypes
<1>7. StackTypes(n)'
  <2>1. cscopes' \in [CsThreads -> Seq(0..n)]
    BY <1>1, <1>4, <1>5 DEF StackTypes
  <2>2. \A u \in CsThreads : Len(cscopes'[u]) <= MaxCDepth
    BY <1>2, <1>4, <1>6, CScopesAssumption, SMTT(30) DEF StackTypes
  <2> QED
    BY <2>1, <2>2 DEF StackTypes
\* A place of the new stacks is one of the old ones, and not the innermost of t.
<1>8. \A w \in CsThreads : \A l \in 1..Len(cscopes'[w]) :
        \/ w = t /\ l \in Nat /\ l >= 1 /\ l + 1 \in 1..Len(cscopes[w])
          /\ cscopes'[w][l] = cscopes[w][l + 1]
        \/ w # t /\ l \in 1..Len(cscopes[w]) /\ cscopes'[w][l] = cscopes[w][l]
  <2> TAKE w \in CsThreads
  <2> TAKE l \in 1..Len(cscopes'[w])
  <2>1. CASE w = t
    <3>0. cscopes'[w] = new
      BY <1>6, <2>1
    <3>1. l \in 1..k /\ l \in Nat /\ l + 1 \in 1..(k + 1)
      BY <1>4, <3>0, SMTT(30)
    <3> QED
      BY <1>2, <1>4, <2>1, <3>0, <3>1, SMTT(30)
  <2>2. CASE w # t
    BY <1>6, <2>2
  <2> QED
    BY <2>1, <2>2
<1>9. ASSUME NEW x, x # Detached PROVE Holds(x)' <=> Holds(x) /\ x # h
  <2>1. ASSUME Holds(x)' PROVE Holds(x) /\ x # h
    <3>a. PICK u \in CsThreads : \E i \in 1..Len(cscopes'[u]) : cscopes'[u][i] = x
      BY <2>1 DEF Holds
    <3>1. PICK i \in 1..Len(cscopes'[u]) : cscopes'[u][i] = x
      BY <3>a
    <3>2. PICK j \in 1..Len(cscopes[u]) : cscopes[u][j] = x /\ (u = t => j # 1)
      BY <1>8, <3>1, SMTT(30)
    <3>3. 1 \in 1..Len(cscopes[t])
      BY <1>2
    <3> QED
      BY <1>4, <1>9, <3>2, <3>3, SMTT(30) DEF Holds, HeldOnce
  <2>2. ASSUME Holds(x), x # h PROVE Holds(x)'
    <3>a. PICK u \in CsThreads : \E i \in 1..Len(cscopes[u]) : cscopes[u][i] = x
      BY <2>2 DEF Holds
    <3>1. PICK i \in 1..Len(cscopes[u]) : cscopes[u][i] = x
      BY <3>a
    <3>2. CASE u = t
      <4>1. i - 1 \in 1..k /\ (i - 1) + 1 = i
        BY <1>2, <1>4, <2>2, <3>1, <3>2, SMTT(30)
      <4>2. i - 1 \in 1..Len(cscopes'[t]) /\ cscopes'[t][i - 1] = x
        BY <1>4, <1>6, <3>1, <3>2, <4>1, ZenonT(30)
      <4> QED
        BY <4>2 DEF Holds
    <3>3. CASE u # t
      BY <1>6, <3>1, <3>3 DEF Holds
    <3> QED
      BY <3>2, <3>3
  <2> QED
    BY <2>1, <2>2
<1>10. HeldOnce'
  <2> SUFFICES ASSUME NEW u \in CsThreads, NEW v \in CsThreads,
                      NEW i \in 1..Len(cscopes'[u]), NEW j \in 1..Len(cscopes'[v]),
                      cscopes'[u][i] = cscopes'[v][j], cscopes'[u][i] # Detached
               PROVE  u = v /\ i = j
    BY SMTT(30) DEF HeldOnce
  <2>1. PICK i1 \in 1..Len(cscopes[u]) : cscopes[u][i1] = cscopes'[u][i]
             /\ i1 = IF u = t THEN i + 1 ELSE i
    BY <1>8
  <2>2. PICK j1 \in 1..Len(cscopes[v]) : cscopes[v][j1] = cscopes'[v][j]
             /\ j1 = IF v = t THEN j + 1 ELSE j
    BY <1>8
  <2>3. u = v /\ i1 = j1
    BY <2>1, <2>2, SMTT(30) DEF HeldOnce
  <2>4. i \in Nat /\ j \in Nat
    BY <1>8, SMTT(30)
  <2> QED
    BY <2>1, <2>2, <2>3, <2>4
<1>11. Holds(h)
  BY <1>2, <1>4, SMTT(30) DEF Holds
<1> QED
  BY <1>3, <1>7, <1>9, <1>10, <1>11

\* A scope of a thread gives its span away.
LEMMA ClearedScope ==
  ASSUME NEW n \in Nat, NEW t \in CsThreads, NEW i \in 1..Len(cscopes[t]), StackTypes(n), HeldOnce,
         cscopes[t][i] # Detached,
         cscopes' = [cscopes EXCEPT ![t][i] = Detached]
  PROVE  /\ StackTypes(n)' /\ HeldOnce' /\ cscopes[t][i] \in 1..n /\ Holds(cscopes[t][i])
         /\ \A x : x # Detached => (Holds(x)' <=> Holds(x) /\ x # cscopes[t][i])
<1> DEFINE new == [cscopes[t] EXCEPT ![i] = Detached]
<1>1. \A u \in CsThreads : cscopes[u] \in Seq(0..n) /\ Len(cscopes[u]) \in Nat
      /\ DOMAIN cscopes[u] = 1..Len(cscopes[u])
  BY SeqIsFcn DEF StackTypes
<1>2. Detached \in 0..n /\ cscopes[t][i] \in 0..n
  BY <1>1, SeqIsFcn, SMTT(30) DEF Detached
<1>3. /\ new \in Seq(0..n) /\ Len(new) = Len(cscopes[t])
      /\ \A l \in 1..Len(cscopes[t]) : new[l] = IF l = i THEN Detached ELSE cscopes[t][l]
  BY <1>1, <1>2, ExceptFacts
<1>4. cscopes' = [cscopes EXCEPT ![t] = new]
  BY DEF StackTypes
<1> HIDE DEF new
<1>5. \A u \in CsThreads : cscopes'[u] = IF u = t THEN new ELSE cscopes[u]
  BY <1>4 DEF StackTypes
<1>6. StackTypes(n)'
  <2>1. cscopes' \in [CsThreads -> Seq(0..n)]
    BY <1>1, <1>3, <1>4 DEF StackTypes
  <2>2. \A u \in CsThreads : Len(cscopes'[u]) <= MaxCDepth
    BY <1>3, <1>5 DEF StackTypes
  <2> QED
    BY <2>1, <2>2 DEF StackTypes
<1>7. \A w \in CsThreads : Len(cscopes'[w]) = Len(cscopes[w])
  BY <1>3, <1>5
<1>8. \A w \in CsThreads : \A l \in 1..Len(cscopes[w]) :
        cscopes'[w][l] = IF w = t /\ l = i THEN Detached ELSE cscopes[w][l]
  BY <1>3, <1>5, SMTT(30)
<1>9. ASSUME NEW x, x # Detached PROVE Holds(x)' <=> Holds(x) /\ x # cscopes[t][i]
  <2>1. Holds(x)' => Holds(x)
    BY <1>7, <1>8, <1>9, SMTT(30) DEF Holds
  <2>2. Holds(x)' => x # cscopes[t][i]
    BY <1>7, <1>8, <1>9, SMTT(30) DEF Holds, HeldOnce
  <2>3. Holds(x) /\ x # cscopes[t][i] => Holds(x)'
    BY <1>7, <1>8, <1>9, SMTT(30) DEF Holds
  <2> QED
    BY <2>1, <2>2, <2>3
<1>10. HeldOnce'
  BY <1>7, <1>8, SMTT(30) DEF HeldOnce
<1>11. Holds(cscopes[t][i]) /\ cscopes[t][i] \in 1..n
  BY <1>2 DEF Holds, Detached
<1> QED
  BY <1>6, <1>9, <1>10, <1>11

\* The invariant holds at first.
LEMMA CScopesInitInv == CScopesInit => CScopesInv
<1> SUFFICES ASSUME CScopesInit PROVE CScopesInv
  OBVIOUS
<1>1. /\ cspans = <<>> /\ added = <<>> /\ disowned = {} /\ freed = {} /\ crashed = FALSE
      /\ cscopes = [t \in CsThreads |-> <<>>] /\ Len(cspans) = 0
  BY DEF CScopesInit
<1>2. \A t \in CsThreads : cscopes[t] = <<>> /\ Len(cscopes[t]) = 0
  BY <1>1
<1>3. \A i : i \notin 1..0
  OBVIOUS
<1>4. StackTypes(0)
  BY <1>1, <1>2, CScopesAssumption, EmptySeqFacts DEF StackTypes
<1>5. CScopesTypes
  BY <1>1, <1>4, EmptySeqFacts DEF CScopesTypes
<1>6. HeldOnce
  BY <1>2, <1>3 DEF HeldOnce
<1>7. IsInjective(added)
  BY <1>1, SMTT(30) DEF IsInjective
<1>8. PlacedOnce /\ ParentsRight
  BY <1>1, <1>3 DEF PlacedOnce, ParentsRight, PlacedWell, Somewhere
<1> QED
  BY <1>5, <1>6, <1>7, <1>8 DEF CScopesInv

\* The smallest place of a set of places is there.
LEMMA LeastPlace ==
  ASSUME NEW I \in SUBSET Nat, I # {}
  PROVE  /\ (CHOOSE i \in I : \A j \in I : i <= j) \in I
         /\ \A m \in I : (\A j \in I : m <= j) => (CHOOSE i \in I : \A j \in I : i <= j) = m
<1>1. \E i \in I : \A j \in I : i <= j
  BY LeastNat
<1>2. PICK c : c = CHOOSE i \in I : \A j \in I : i <= j
  OBVIOUS
<1>3. c \in I /\ \A j \in I : c <= j
  BY <1>1, <1>2
<1>4. ASSUME NEW m \in I, \A j \in I : m <= j PROVE c = m
  <2>1. c \in Nat /\ m \in Nat /\ c <= m /\ m <= c
    BY <1>3, <1>4
  <2> QED
    BY <2>1
<1> QED
  BY <1>2, <1>3, <1>4

\* What htrace_start_span finds above: spans of scopes, and the innermost one when it has one.
LEMMA ParentFacts ==
  ASSUME NEW n \in Nat, NEW st \in Seq(0..n)
  PROVE  /\ ParentFound(st) \in 0..n /\ InnermostOwned(st) \in 0..n
         /\ st # <<>> /\ st[1] # Detached => ParentFound(st) = st[1] /\ InnermostOwned(st) = st[1]
<1>1. Len(st) \in Nat /\ DOMAIN st = 1..Len(st) /\ \A i \in 1..Len(st) : st[i] \in 0..n
  BY SeqIsFcn
<1>2. Owned(st) \in SUBSET Nat /\ Looked(st) \in SUBSET Nat /\ Owned(st) \subseteq 1..Len(st)
      /\ Looked(st) \subseteq 1..Len(st)
  BY <1>1, SMTT(30) DEF Owned, Looked
<1>3. Detached \in 0..n
  BY DEF Detached
<1>4. ParentFound(st) \in 0..n
  <2>1. CASE Looked(st) = {}
    BY <1>3, <2>1 DEF ParentFound
  <2>2. CASE Looked(st) # {}
    <3>1. (CHOOSE i \in Looked(st) : \A j \in Looked(st) : i <= j) \in Looked(st)
      BY <1>2, <2>2, LeastPlace
    <3> QED
      BY <1>1, <1>2, <2>2, <3>1 DEF ParentFound
  <2> QED
    BY <2>1, <2>2
<1>5. InnermostOwned(st) \in 0..n
  <2>1. CASE Owned(st) = {}
    BY <1>3, <2>1 DEF InnermostOwned
  <2>2. CASE Owned(st) # {}
    <3>1. (CHOOSE i \in Owned(st) : \A j \in Owned(st) : i <= j) \in Owned(st)
      BY <1>2, <2>2, LeastPlace
    <3> QED
      BY <1>1, <1>2, <2>2, <3>1 DEF InnermostOwned
  <2> QED
    BY <2>1, <2>2
<1>6. ASSUME st # <<>>, st[1] # Detached PROVE ParentFound(st) = st[1] /\ InnermostOwned(st) = st[1]
  <2>1. Len(st) >= 1 /\ 1 \in 1..Len(st)
    BY <1>1, <1>6, TailFacts, SMTT(30)
  <2>2. 1 % 2 = 1
    OBVIOUS
  <2>3. 1 \in Owned(st) /\ 1 \in Looked(st)
    BY <1>1, <1>6, <2>1, <2>2 DEF Owned, Looked
  <2>4. (\A j \in Owned(st) : 1 <= j) /\ (\A j \in Looked(st) : 1 <= j)
    BY <1>1, <1>2
  <2>5. (CHOOSE i \in Owned(st) : \A j \in Owned(st) : i <= j) = 1
    BY <1>2, <2>3, <2>4, LeastPlace
  <2>6. (CHOOSE i \in Looked(st) : \A j \in Looked(st) : i <= j) = 1
    BY <1>2, <2>3, <2>4, LeastPlace
  <2> QED
    BY <2>3, <2>5, <2>6 DEF ParentFound, InnermostOwned
<1> QED
  BY <1>4, <1>5, <1>6

\* What the invariant says about the sequences it is about.
LEMMA CScopesFacts ==
  ASSUME CScopesInv
  PROVE  /\ Len(cspans) \in Nat /\ DOMAIN cspans = 1..Len(cspans)
         /\ \A s \in 1..Len(cspans) : cspans[s] \in CSpanTypes
         /\ \A t \in CsThreads : /\ cscopes[t] \in Seq(0..Len(cspans)) /\ Len(cscopes[t]) \in Nat
                                 /\ DOMAIN cscopes[t] = 1..Len(cscopes[t])
         /\ \A x : Holds(x) => x \in 0..Len(cspans)
         /\ \A x \in Range(added) : x \in 1..Len(cspans)
<1>1. Len(cspans) \in Nat /\ DOMAIN cspans = 1..Len(cspans)
      /\ \A s \in 1..Len(cspans) : cspans[s] \in CSpanTypes
  BY SeqIsFcn DEF CScopesInv, CScopesTypes
<1>2. \A t \in CsThreads : cscopes[t] \in Seq(0..Len(cspans))
  BY DEF CScopesInv, CScopesTypes, StackTypes
<1>3. \A t \in CsThreads : /\ Len(cscopes[t]) \in Nat /\ DOMAIN cscopes[t] = 1..Len(cscopes[t])
                           /\ \A i \in 1..Len(cscopes[t]) : cscopes[t][i] \in 0..Len(cspans)
  BY <1>2, SeqIsFcn
<1>4. \A x \in Range(added) : x \in 1..Len(cspans)
  BY RangeFacts DEF CScopesInv, CScopesTypes
<1> QED
  BY <1>1, <1>2, <1>3, <1>4 DEF Holds

\* The first span gets its place, or a new span its first one.
LEMMA StartSpanKeeps ==
  ASSUME CScopesInv, ~crashed, NEW t \in CsThreads, htrace_start_span(t)
  PROVE  CScopesInv'
<1>1. PICK n \in Nat : n = Len(cspans)
  BY CScopesFacts
<1>2. PICK s \in Nat : s = n + 1 /\ s \in 1..s /\ s \notin 0..n /\ s # 0
  BY <1>1
<1>3. PICK st \in Seq(0..n) : st = cscopes[t] /\ Len(st) < MaxCDepth
  BY <1>1, CScopesFacts DEF htrace_start_span
<1>4. /\ crashed' = LooksPastEnd(st) /\ disowned' = disowned /\ added' = added /\ freed' = freed
      /\ IF crashed' THEN UNCHANGED cscopes ELSE cscopes' = [cscopes EXCEPT ![t] = <<s>> \o @]
  BY <1>1, <1>2, <1>3 DEF htrace_start_span
<1>5. PICK high : /\ high = IF st # <<>> /\ st[1] # Detached THEN cspans[st[1]].high ELSE s
                  /\ cspans' = Append(cspans, [high |-> high, parent |-> ParentFound(st),
                     enclosing |-> InnermostOwned(st)])
  BY <1>1, <1>2, <1>3 DEF htrace_start_span
<1>6. st # <<>> => 1 \in 1..Len(st) /\ st[1] \in 0..n
  BY TailFacts, SeqIsFcn, SMTT(30)
<1>7. high \in Nat
  <2>1. CASE st # <<>> /\ st[1] # Detached
    <3>1. st[1] \in 1..n
      BY <1>6, <2>1 DEF Detached
    <3> QED
      BY <1>1, <1>5, <2>1, <3>1, CScopesFacts DEF CSpanTypes
  <2>2. CASE ~(st # <<>> /\ st[1] # Detached)
    BY <1>5, <2>2
  <2> QED
    BY <2>1, <2>2
<1>8. /\ ParentFound(st) \in 0..n /\ InnermostOwned(st) \in 0..n
      /\ st # <<>> /\ st[1] # Detached => ParentFound(st) = st[1] /\ InnermostOwned(st) = st[1]
  BY ParentFacts
<1> DEFINE new == [high |-> high, parent |-> ParentFound(st), enclosing |-> InnermostOwned(st)]
<1>9. new \in CSpanTypes /\ new.high = high /\ new.parent = ParentFound(st)
      /\ new.enclosing = InnermostOwned(st)
  BY <1>7, <1>8 DEF CSpanTypes
<1> HIDE DEF new
<1>10. /\ cspans' \in Seq(CSpanTypes) /\ Len(cspans') = s /\ cspans'[s] = new
       /\ \A x \in 1..n : cspans'[x] = cspans[x]
  <2>1. cspans \in Seq(CSpanTypes) /\ cspans' = Append(cspans, new)
    BY <1>5 DEF new, CScopesInv, CScopesTypes
  <2> QED
    BY <1>1, <1>2, <1>9, <2>1, AppendFacts, SMTT(30)
<1>11. 1..s = 1..n \cup {s} /\ 1..n \subseteq 1..s /\ s \notin 1..n
  BY <1>2
<1>12. ~Holds(s) /\ s \notin Range(added) /\ s \notin disowned /\ s \notin freed
  BY <1>1, <1>2, <1>11, CScopesFacts DEF CScopesInv, CScopesTypes
<1>13. /\ StackTypes(s)' /\ HeldOnce'
       /\ \A x : Holds(x)' <=> Holds(x) \/ (~crashed' /\ x = s)
  <2>0. StackTypes(n) /\ HeldOnce /\ n <= s
    BY <1>1, <1>2 DEF CScopesInv, CScopesTypes
  <2>1. CASE crashed'
    <3>1. cscopes' = cscopes
      BY <1>4, <2>1
    <3>2. StackTypes(s)'
      <4>1. 0..n \subseteq 0..s
        BY <1>2
      <4> QED
        BY <2>0, <3>1, <4>1, SeqSuperset DEF StackTypes
    <3> QED
      BY <2>0, <2>1, <3>1, <3>2, SMTT(30) DEF HeldOnce, Holds
  <2>2. CASE ~crashed'
    <3>1. cscopes' = [cscopes EXCEPT ![t] = <<s>> \o @]
      BY <1>4, <2>2
    <3> QED
      BY <1>2, <1>3, <1>12, <2>0, <2>2, <3>1, PushedScope
  <2> QED
    BY <2>1, <2>2
<1>14. CScopesTypes'
  <2>1. crashed' \in BOOLEAN
    BY <1>4 DEF LooksPastEnd
  <2>2. added' \in Seq(1..s) /\ disowned' \subseteq 1..s /\ freed' \subseteq 1..s
    BY <1>1, <1>4, <1>11, SeqSuperset DEF CScopesInv, CScopesTypes
  <2>3. StackTypes(Len(cspans))'
    BY <1>10, <1>13 DEF StackTypes
  <2> QED
    BY <1>10, <2>1, <2>2, <2>3 DEF CScopesTypes
<1>15. PlacedOnce'
  <2> SUFFICES ASSUME NEW x \in 1..s
               PROVE  /\ Holds(x)' => x \notin Range(added) /\ x \notin disowned /\ x \notin freed
                      /\ x \in Range(added) => x \notin disowned /\ x \notin freed
                      /\ x \in disowned => x \notin freed
                      /\ Holds(x)' \/ x \in Range(added) \/ x \in disowned
                         \/ x \in freed <=> ~(crashed' /\ x = s)
    BY <1>4, <1>10 DEF PlacedOnce, PlacedWell, Somewhere
  <2>1. CASE x = s
    BY <1>12, <1>13, <2>1
  <2>2. CASE x # s
    <3>1. x \in 1..n
      BY <1>11, <2>2
    <3>2. Holds(x)' <=> Holds(x)
      BY <1>13, <2>2
    <3> QED
      BY <1>1, <2>2, <3>1, <3>2 DEF CScopesInv, PlacedOnce, PlacedWell, Somewhere
  <2> QED
    BY <2>1, <2>2
<1>16. ParentsRight'
  <2> SUFFICES ASSUME NEW x \in 1..s
               PROVE  LET p == cspans'[x].parent IN
                        /\ p \in 0..s
                        /\ p # Detached => cspans'[p].high = cspans'[x].high \/ cspans'[x].high = x
                        /\ cspans'[x].high # x => p # Detached /\ p = cspans'[x].enclosing
    BY <1>10 DEF ParentsRight
  <2>0. 0..n \subseteq 0..s /\ \A p \in 0..n : p # Detached => p \in 1..n
    BY <1>2 DEF Detached
  <2>1. CASE x = s
    <3>1. cspans'[x] = new
      BY <1>10, <2>1
    <3>2. CASE st # <<>> /\ st[1] # Detached
      <4>1. new.parent = st[1] /\ new.enclosing = st[1] /\ st[1] \in 0..n
        BY <1>6, <1>8, <1>9, <3>2
      <4>2. st[1] \in 1..n /\ new.high = cspans[st[1]].high
        BY <1>5, <1>9, <2>0, <3>2, <4>1
      <4>3. cspans'[st[1]] = cspans[st[1]]
        BY <1>10, <4>2
      <4> QED
        BY <2>0, <3>1, <3>2, <4>1, <4>2, <4>3
    <3>3. CASE ~(st # <<>> /\ st[1] # Detached)
      <4>1. new.high = s /\ new.parent \in 0..n
        BY <1>5, <1>8, <1>9, <3>3
      <4> QED
        BY <2>0, <2>1, <3>1, <4>1
    <3> QED
      BY <3>2, <3>3
  <2>2. CASE x # s
    <3>1. x \in 1..n /\ cspans'[x] = cspans[x]
      BY <1>10, <1>11, <2>2
    <3>2. PICK p : p = cspans[x].parent
      OBVIOUS
    <3>3. /\ p \in 0..n
          /\ p # Detached => cspans[p].high = cspans[x].high \/ cspans[x].high = x
          /\ cspans[x].high # x => p # Detached /\ p = cspans[x].enclosing
      BY <1>1, <3>1, <3>2 DEF CScopesInv, ParentsRight
    <3>4. p # Detached => cspans'[p] = cspans[p]
      BY <1>10, <2>0, <3>3
    <3> QED
      BY <2>0, <3>1, <3>2, <3>3, <3>4
  <2> QED
    BY <2>1, <2>2
<1>17. IsInjective(added)'
  BY <1>4 DEF CScopesInv
<1> QED
  BY <1>13, <1>14, <1>15, <1>16, <1>17 DEF CScopesInv

\* A step that moves the span s, and no other, and starts none.
LEMMA MoveKeeps ==
  ASSUME CScopesInv, ~crashed, NEW n \in Nat, n = Len(cspans), NEW s \in 1..n,
         cspans' = cspans, crashed' = crashed, StackTypes(n)', HeldOnce', IsInjective(added'),
         added' \in Seq(1..n), disowned' \subseteq 1..n, freed' \subseteq 1..n,
         \A x \in 1..n \ {s} : StaysPut(x),
         PlacedWell(s)' /\ Somewhere(s)'
  PROVE  CScopesInv'
<1>1. CScopesTypes'
  BY DEF CScopesInv, CScopesTypes, StackTypes
<1>2. PlacedOnce'
  <2> SUFFICES ASSUME NEW x \in 1..n PROVE PlacedWell(x)' /\ Somewhere(x)'
    BY DEF PlacedOnce, PlacedWell, Somewhere
  <2>1. CASE x = s
    BY <2>1
  <2>2. CASE x # s
    BY <2>2 DEF CScopesInv, PlacedOnce, PlacedWell, Somewhere, StaysPut
  <2> QED
    BY <2>1, <2>2
<1>3. ParentsRight'
  BY DEF CScopesInv, ParentsRight
<1> QED
  BY <1>1, <1>2, <1>3 DEF CScopesInv

\* A span that is detached belongs to the caller.
LEMMA CDetachKeeps ==
  ASSUME CScopesInv, ~crashed, NEW t \in CsThreads, NEW i \in DOMAIN cscopes[t],
         htrace_scope_detach(t, i)
  PROVE  CScopesInv'
<1>1. PICK n \in Nat : n = Len(cspans)
  BY CScopesFacts
<1>2. StackTypes(n) /\ HeldOnce /\ i \in 1..Len(cscopes[t])
  BY <1>1, CScopesFacts DEF CScopesInv, CScopesTypes
<1>3. /\ cscopes[t][i] # Detached /\ cscopes' = [cscopes EXCEPT ![t][i] = Detached]
      /\ disowned' = disowned \cup {cscopes[t][i]}
      /\ cspans' = cspans /\ added' = added /\ freed' = freed /\ crashed' = crashed
  BY DEF htrace_scope_detach
<1>4. /\ StackTypes(n)' /\ HeldOnce' /\ cscopes[t][i] \in 1..n /\ Holds(cscopes[t][i])
      /\ \A x : x # Detached => (Holds(x)' <=> Holds(x) /\ x # cscopes[t][i])
  BY <1>2, <1>3, ClearedScope
<1>5. PICK s \in 1..n : s = cscopes[t][i]
  BY <1>4
<1>6. Holds(s) /\ s # Detached /\ s \notin Range(added) /\ s \notin disowned /\ s \notin freed
  BY <1>1, <1>3, <1>4, <1>5 DEF CScopesInv, PlacedOnce, PlacedWell, Somewhere
<1>7. ~Holds(s)' /\ \A x \in 1..n \ {s} : Holds(x)' <=> Holds(x)
  BY <1>4, <1>5, <1>6 DEF Detached
<1>8. added' \in Seq(1..n) /\ disowned' \subseteq 1..n /\ freed' \subseteq 1..n
      /\ IsInjective(added')
  BY <1>1, <1>3, <1>5 DEF CScopesInv, CScopesTypes
<1>9. disowned' = disowned \cup {s}
  BY <1>3, <1>5
<1> QED
  <2>1. PlacedWell(s)' /\ Somewhere(s)'
    BY <1>3, <1>6, <1>7, <1>9 DEF PlacedWell, Somewhere
  <2>2. \A x \in 1..n \ {s} : StaysPut(x)
    BY <1>3, <1>7, <1>9 DEF StaysPut
  <2> QED
    BY <1>1, <1>3, <1>4, <1>8, <2>1, <2>2, MoveKeeps

\* A span that was detached goes into a new scope.
LEMMA CRestartKeeps ==
  ASSUME CScopesInv, ~crashed, NEW t \in CsThreads, NEW s \in disowned, htrace_restart_span(t, s)
  PROVE  CScopesInv'
<1>1. PICK n \in Nat : n = Len(cspans)
  BY CScopesFacts
<1>2. s \in 1..n /\ StackTypes(n) /\ HeldOnce
  BY <1>1 DEF CScopesInv, CScopesTypes
<1>3. ~Holds(s) /\ s \notin Range(added) /\ s \notin freed
  BY <1>1, <1>2 DEF CScopesInv, PlacedOnce, PlacedWell, Somewhere
<1>4. /\ Len(cscopes[t]) < MaxCDepth /\ disowned' = disowned \ {s}
      /\ cspans' = cspans /\ added' = added /\ crashed' = crashed
  BY DEF htrace_restart_span
<1>5. added' \in Seq(1..n) /\ disowned' \subseteq 1..n /\ IsInjective(added')
      /\ freed \subseteq 1..n
  BY <1>1, <1>4 DEF CScopesInv, CScopesTypes
<1>6. CASE cscopes' = [cscopes EXCEPT ![t] = <<s>> \o @] /\ UNCHANGED freed
  <2>1. n <= n
    OBVIOUS
  <2>2. StackTypes(n)' /\ HeldOnce' /\ \A x : Holds(x)' <=> Holds(x) \/ x = s
    BY <1>2, <1>3, <1>4, <1>6, <2>1, PushedScope
  <2>3. Holds(s)' /\ \A x \in 1..n \ {s} : Holds(x)' <=> Holds(x)
    BY <2>2
  <2>4. freed' = freed
    BY <1>6
  <2> QED
    <3>1. PlacedWell(s)' /\ Somewhere(s)'
      BY <1>3, <1>4, <2>3, <2>4 DEF PlacedWell, Somewhere
    <3>2. \A x \in 1..n \ {s} : StaysPut(x)
      BY <1>4, <2>3, <2>4 DEF StaysPut
    <3> QED
      BY <1>1, <1>2, <1>4, <1>5, <2>2, <2>4, <3>1, <3>2, MoveKeeps
<1>7. CASE freed' = freed \union {s} /\ UNCHANGED cscopes
  <2>1. StackTypes(n)' /\ HeldOnce' /\ \A x : Holds(x)' <=> Holds(x)
    BY <1>2, <1>7, SMTT(30) DEF StackTypes, HeldOnce, Holds
  <2>2. freed' \subseteq 1..n /\ freed' = freed \cup {s}
    BY <1>2, <1>5, <1>7
  <2> QED
    <3>1. PlacedWell(s)' /\ Somewhere(s)'
      BY <1>3, <1>4, <2>1, <2>2 DEF PlacedWell, Somewhere
    <3>2. \A x \in 1..n \ {s} : StaysPut(x)
      BY <1>4, <2>1, <2>2 DEF StaysPut
    <3> QED
      BY <1>1, <1>2, <1>4, <1>5, <2>1, <2>2, <3>1, <3>2, MoveKeeps
<1> QED
  BY <1>6, <1>7 DEF htrace_restart_span

\* The span of a scope that is closed goes to the receiver, when it has one.
LEMMA CCloseKeeps ==
  ASSUME CScopesInv, ~crashed, NEW t \in CsThreads, htrace_scope_close(t)
  PROVE  CScopesInv'
<1>1. PICK n \in Nat : n = Len(cspans)
  BY CScopesFacts
<1>2. StackTypes(n) /\ HeldOnce
  BY <1>1 DEF CScopesInv, CScopesTypes
<1>3. /\ cscopes[t] # <<>> /\ cscopes' = [cscopes EXCEPT ![t] = Tail(@)]
      /\ cspans' = cspans /\ disowned' = disowned /\ freed' = freed /\ crashed' = crashed
  BY DEF htrace_scope_close
<1>4. PICK s \in 0..n : s = Head(cscopes[t])
  BY <1>2, <1>3, PoppedScope
<1>5. /\ StackTypes(n)' /\ HeldOnce'
      /\ s # Detached => Holds(s)
      /\ \A x : x # Detached => (Holds(x)' <=> Holds(x) /\ x # s)
  BY <1>2, <1>3, <1>4, PoppedScope
<1>6. added' = IF s = Detached THEN added ELSE Append(added, s)
  BY <1>4 DEF htrace_scope_close
<1>7. added \in Seq(1..n) /\ disowned' \subseteq 1..n /\ freed' \subseteq 1..n /\ IsInjective(added)
  BY <1>1, <1>3 DEF CScopesInv, CScopesTypes
<1>8. CASE s = Detached
  <2>1. \A x \in 1..n : Holds(x)' <=> Holds(x)
    BY <1>5, <1>8 DEF Detached
  <2>2. added' = added
    BY <1>6, <1>8
  <2>3. CScopesTypes'
    BY <1>1, <1>3, <1>5, <2>2 DEF CScopesInv, CScopesTypes, StackTypes
  <2>4. PlacedOnce'
    BY <1>1, <1>3, <2>1, <2>2 DEF CScopesInv, PlacedOnce, PlacedWell, Somewhere
  <2>5. ParentsRight'
    BY <1>3 DEF CScopesInv, ParentsRight
  <2> QED
    BY <1>5, <1>7, <2>2, <2>3, <2>4, <2>5 DEF CScopesInv
<1>9. CASE s # Detached
  <2>1. s \in 1..n /\ Holds(s)
    BY <1>5, <1>9 DEF Detached
  <2>2. s \notin Range(added) /\ s \notin disowned /\ s \notin freed
    BY <1>1, <2>1 DEF CScopesInv, PlacedOnce, PlacedWell, Somewhere
  <2>3. added' \in Seq(1..n) /\ Range(added') = Range(added) \cup {s}
    <3>1. added' = Append(added, s)
      BY <1>6, <1>9
    <3> QED
      BY <1>7, <2>1, <3>1, RangeAppend, SMTT(30)
  <2>4. IsInjective(added')
    <3>1. s \notin Range(added)
      BY <1>7, <2>2, RangeFacts
    <3> QED
      BY <1>6, <1>7, <1>9, <2>1, <3>1, InjectiveAppend
  <2>5. ~Holds(s)' /\ \A x \in 1..n \ {s} : Holds(x)' <=> Holds(x)
    BY <1>5, <1>9 DEF Detached
  <2> QED
    <3>1. PlacedWell(s)' /\ Somewhere(s)'
      BY <1>3, <2>2, <2>3, <2>5 DEF PlacedWell, Somewhere
    <3>2. \A x \in 1..n \ {s} : StaysPut(x)
      BY <1>3, <2>3, <2>5 DEF StaysPut
    <3> QED
      BY <1>1, <1>3, <1>5, <1>7, <2>1, <2>3, <2>4, <3>1, <3>2, MoveKeeps
<1> QED
  BY <1>8, <1>9

\* Every step of the C scopes, and a stutter, preserves the invariant.
LEMMA CScopesStep == CScopesInv /\ [CScopesNext]_cscopeVars => CScopesInv'
<1> SUFFICES ASSUME CScopesInv, [CScopesNext]_cscopeVars PROVE CScopesInv'
  OBVIOUS
<1>1. CASE CScopesNext
  BY <1>1, StartSpanKeeps, CDetachKeeps, CRestartKeeps, CCloseKeeps DEF CScopesNext
<1>2. CASE UNCHANGED cscopeVars
  <2>1. cscopes' = cscopes /\ cspans' = cspans /\ disowned' = disowned /\ added' = added
        /\ freed' = freed /\ crashed' = crashed
    BY <1>2 DEF cscopeVars
  <2>2. \A x : Holds(x)' <=> Holds(x)
    BY <2>1 DEF Holds
  <2>3. CScopesTypes' /\ HeldOnce'
    BY <2>1 DEF CScopesInv, CScopesTypes, StackTypes, HeldOnce
  <2>4. PlacedOnce'
    BY <2>1, <2>2 DEF CScopesInv, PlacedOnce, PlacedWell, Somewhere
  <2>5. ParentsRight' /\ IsInjective(added')
    BY <2>1 DEF CScopesInv, ParentsRight
  <2> QED
    BY <2>3, <2>4, <2>5 DEF CScopesInv
<1> QED
  BY <1>1, <1>2

\* Counting the places of a span.
LEMMA CScopesInvProperties == CScopesInv => CSpansHaveOneOwner /\ AttachedParentsAreRight
<1> SUFFICES ASSUME CScopesInv PROVE CSpansHaveOneOwner /\ AttachedParentsAreRight
  OBVIOUS
<1>1. AttachedParentsAreRight
  BY CScopesFacts DEF CScopesInv, ParentsRight, AttachedParentsAreRight
<1>2. ASSUME NEW s \in 1..Len(cspans)
      PROVE  Cardinality(ScopesOf(s)) + Cardinality(AddedAt(s))
             + Cardinality({s} \intersect disowned)
               + Cardinality({s} \intersect freed) = IF crashed /\ s = Len(cspans) THEN 0 ELSE 1
  <2>0. s # Detached
    BY CScopesFacts DEF Detached
  <2>1. Cardinality(ScopesOf(s)) = IF Holds(s) THEN 1 ELSE 0
    <3>0. \A t \in CsThreads : Len(cscopes[t]) \in Nat /\ DOMAIN cscopes[t] = 1..Len(cscopes[t])
          /\ Len(cscopes[t]) <= MaxCDepth
      BY CScopesFacts DEF CScopesInv, CScopesTypes, StackTypes
    <3>1. CASE Holds(s)
      <4>1. PICK t \in CsThreads : \E i \in 1..Len(cscopes[t]) : cscopes[t][i] = s
        BY <3>1 DEF Holds
      <4>2. PICK i \in 1..Len(cscopes[t]) : cscopes[t][i] = s
        BY <4>1
      <4>3. i \in 1..MaxCDepth
        BY <3>0, CScopesAssumption
      <4>4. <<t, i>> \in ScopesOf(s)
        BY <3>0, <4>2, <4>3 DEF ScopesOf
      <4>5. ASSUME NEW p \in ScopesOf(s) PROVE p = <<t, i>>
        <5>1. p \in CsThreads \X (1..MaxCDepth) /\ p[1] \in CsThreads
              /\ p[2] \in 1..Len(cscopes[p[1]]) /\ cscopes[p[1]][p[2]] = s
          BY <3>0 DEF ScopesOf
        <5>2. p[1] = t /\ p[2] = i
          BY <2>0, <4>2, <5>1, SMTT(30) DEF CScopesInv, HeldOnce
        <5> QED
          BY <5>1, <5>2
      <4>6. ScopesOf(s) = {<<t, i>>}
        BY <4>4, <4>5
      <4> QED
        BY <3>1, <4>6, FS_Singleton
    <3>2. CASE ~Holds(s)
      <4>1. ScopesOf(s) = {}
        BY <3>0, <3>2 DEF ScopesOf, Holds
      <4> QED
        BY <3>2, <4>1, FS_EmptySet
    <3> QED
      BY <3>1, <3>2
  <2>2. Cardinality(AddedAt(s)) = IF s \in Range(added) THEN 1 ELSE 0
    <3>1. CASE s \in Range(added)
      <4>1. PICK i \in DOMAIN added : added[i] = s
        BY <3>1 DEF Range
      <4>2. AddedAt(s) = {i}
        BY <4>1 DEF AddedAt, CScopesInv, IsInjective
      <4> QED
        BY <3>1, <4>2, FS_Singleton
    <3>2. CASE s \notin Range(added)
      <4>1. AddedAt(s) = {}
        BY <3>2 DEF AddedAt, Range
      <4> QED
        BY <3>2, <4>1, FS_EmptySet
    <3> QED
      BY <3>1, <3>2
  <2>3. \A S : Cardinality({s} \cap S) = IF s \in S THEN 1 ELSE 0
    <3> TAKE S
    <3>1. CASE s \in S
      <4>1. {s} \cap S = {s}
        BY <3>1
      <4> QED
        BY <3>1, <4>1, FS_Singleton
    <3>2. CASE s \notin S
      <4>1. {s} \cap S = {}
        BY <3>2
      <4> QED
        BY <3>2, <4>1, FS_EmptySet
    <3> QED
      BY <3>1, <3>2
  <2>4. /\ Holds(s) => s \notin Range(added) /\ s \notin disowned /\ s \notin freed
        /\ s \in Range(added) => s \notin disowned /\ s \notin freed
        /\ s \in disowned => s \notin freed
        /\ Holds(s) \/ s \in Range(added) \/ s \in disowned \/ s \in freed <=> ~(crashed
           /\ s = Len(cspans))
    BY DEF CScopesInv, PlacedOnce, PlacedWell, Somewhere
  <2>5. Cardinality({s} \cap disowned) = IF s \in disowned THEN 1 ELSE 0
    BY <2>3
  <2>6. Cardinality({s} \cap freed) = IF s \in freed THEN 1 ELSE 0
    BY <2>3
  <2> QED
    BY <2>1, <2>2, <2>4, <2>5, <2>6
<1>3. CSpansHaveOneOwner
  BY <1>2, CScopesFacts DEF CSpansHaveOneOwner
<1> QED
  BY <1>1, <1>3
-----------------------------------------------------------------------------
(* LocalFile *)

TakenTypes == [spans : Seq(LfSpans), closes : BOOLEAN]

\* No span is in two places, or twice in one.
Apart ==
  /\ IsInjective(bufferedSpans) /\ IsInjective(file)
  /\ \A b \in taken : IsInjective(b.spans)
  /\ \A b, c \in taken : b # c => Range(b.spans) \cap Range(c.spans) = {}
  /\ Range(bufferedSpans) \cap (Taken \cup Range(file) \cup lost \cup refused) = {}
  /\ Taken \cap (Range(file) \cup lost \cup refused) = {}
  /\ Range(file) \cap (lost \cup refused) = {}
  /\ lost \cap refused = {}

LocalFileInv ==
  /\ bufferedSpans \in Seq(LfSpans) /\ file \in Seq(LfSpans) /\ taken \subseteq TakenTypes
  /\ buffering \in BOOLEAN /\ IsFiniteSet(received)
  /\ received = Range(bufferedSpans) \cup Taken \cup Range(file) \cup lost \cup refused
  /\ Apart
  /\ (stream = "closed" \/ \E b \in taken : b.closes) => ~buffering
  /\ ~buffering => bufferedSpans = <<>>

\* The empty sequence.
LEMMA EmptyRange == IsInjective(<<>>) /\ Range(<<>>) = {} /\ \A S : <<>> \in Seq(S)
BY EmptySeqFacts DEF IsInjective, Range

\* The invariant holds at first.
LEMMA LocalFileInitInv == LocalFileInit => LocalFileInv
<1> SUFFICES ASSUME LocalFileInit PROVE LocalFileInv
  OBVIOUS
<1>1. Taken = {}
  BY DEF LocalFileInit, Taken
<1> QED
  BY <1>1, EmptyRange, FS_EmptySet DEF LocalFileInit, LocalFileInv, Apart

\* What is taken away with a buffer.
LEMMA TakenMore ==
  ASSUME NEW b, taken' = taken \cup {b}
  PROVE  Taken' = Taken \cup Range(b.spans)
BY DEF Taken

\* A span is buffered, or taken with the full buffer, or refused.
LEMMA BufferSpanKeeps ==
  ASSUME LocalFileInv, NEW s \in LfSpans \ received, bufferSpan(s)
  PROVE  LocalFileInv'
<1>1. /\ received' = received \cup {s} /\ IsFiniteSet(received') /\ s \notin received
      /\ UNCHANGED <<buffering, stream, file, lost>> /\ bufferedSpans \in Seq(LfSpans)
  BY FS_AddElement, ZenonT(30) DEF bufferSpan, LocalFileInv
<1>2. s \notin Range(bufferedSpans) \cup Taken \cup Range(file) \cup lost \cup refused
  BY <1>1 DEF LocalFileInv
<1>3. CASE ~buffering
  <2>1. refused' = refused \cup {s} /\ UNCHANGED <<bufferedSpans, taken>>
    BY <1>3 DEF bufferSpan
  <2>2. Taken' = Taken
    BY <2>1 DEF Taken
  <2>3. Apart'
    BY <1>1, <1>2, <2>1, <2>2, ZenonT(30) DEF LocalFileInv, Apart
  <2> QED
    BY <1>1, <2>1, <2>2, <2>3 DEF LocalFileInv
<1>4. CASE buffering
  <2> DEFINE spans == Append(bufferedSpans, s)
  <2>1. /\ refused' = refused
        /\ IF Len(spans) = LfCapacity THEN takeFull(spans) ELSE bufferedSpans' = spans
           /\ taken' = taken
    BY <1>4 DEF bufferSpan
  <2>2. spans \in Seq(LfSpans) /\ Range(spans) = Range(bufferedSpans) \cup {s}
    BY <1>1, RangeAppend, SMTT(30)
  <2>3. IsInjective(spans)
    <3>1. s \notin Range(bufferedSpans)
      BY <1>1, <1>2, RangeFacts
    <3> QED
      BY <1>1, <3>1, InjectiveAppend DEF LocalFileInv, Apart
  <2> HIDE DEF spans
  <2>4. CASE Len(spans) = LfCapacity
    <3> DEFINE b == [spans |-> spans, closes |-> FALSE]
    <3>1. taken' = taken \cup {b} /\ bufferedSpans' = <<>>
      BY <2>1, <2>4 DEF takeFull
    <3>2. Taken' = Taken \cup Range(b.spans)
      BY <3>1, TakenMore, ZenonT(30)
    <3>3. Taken' = Taken \cup Range(bufferedSpans) \cup {s}
      BY <2>2, <3>2
    <3>4. taken' \subseteq TakenTypes /\ b.spans = spans /\ ~b.closes
      <4>1. b \in TakenTypes /\ b.spans = spans /\ ~b.closes
        BY <2>2 DEF TakenTypes
      <4> HIDE DEF b
      <4> QED
        BY <3>1, <4>1 DEF LocalFileInv
    <3>5. \A c \in taken : Range(c.spans) \cap Range(b.spans) = {}
      <4>1. \A c \in taken : Range(c.spans) \subseteq Taken
        BY DEF Taken
      <4> QED
        BY <1>2, <2>2, <4>1 DEF LocalFileInv, Apart
    <3>6. \A c, d \in taken' : c # d => Range(c.spans) \cap Range(d.spans) = {}
      BY <3>1, <3>5, ZenonT(30) DEF LocalFileInv, Apart
    <3>7. Apart'
      <4> HIDE DEF b
      <4>1. \A c \in taken' : IsInjective(c.spans)
        BY <2>3, <3>1, <3>4 DEF LocalFileInv, Apart
      <4>2. IsInjective(bufferedSpans') /\ Range(bufferedSpans') = {}
        BY <3>1, EmptyRange
      <4>3. Taken' \cap (Range(file) \cup lost \cup refused) = {}
        BY <1>2, <3>3 DEF LocalFileInv, Apart
      <4> QED
        BY <1>1, <2>1, <3>6, <4>1, <4>2, <4>3 DEF LocalFileInv, Apart
    <3>8. received' = Range(bufferedSpans') \cup Taken' \cup Range(file) \cup lost \cup refused
      BY <1>1, <3>1, <3>3, EmptyRange DEF LocalFileInv
    <3>9. \A c \in taken' : c.closes => \E d \in taken : d.closes
      BY <3>1
    <3> QED
      BY <1>1, <1>4, <2>1, <3>1, <3>4, <3>7, <3>8, <3>9, EmptyRange DEF LocalFileInv
  <2>5. CASE Len(spans) # LfCapacity
    <3>1. bufferedSpans' = spans /\ taken' = taken /\ Taken' = Taken
      BY <2>1, <2>5 DEF Taken
    <3>2. Apart'
      <4>1. Range(spans) \cap (Taken \cup Range(file) \cup lost \cup refused) = {}
        BY <1>2, <2>2 DEF LocalFileInv, Apart
      <4> QED
        BY <1>1, <2>1, <2>3, <3>1, <4>1, ZenonT(30) DEF LocalFileInv, Apart
    <3> QED
      BY <1>1, <1>4, <2>1, <2>2, <3>1, <3>2 DEF LocalFileInv
  <2> QED
    BY <2>4, <2>5
<1> QED
  BY <1>3, <1>4 DEF LocalFileInv

\* close() takes what is buffered.
LEMMA TakeLastKeeps ==
  ASSUME LocalFileInv, takeLast
  PROVE  LocalFileInv'
<1> DEFINE b == [spans |-> bufferedSpans, closes |-> TRUE]
<1>1. /\ buffering' = FALSE /\ taken' = taken \cup {b} /\ bufferedSpans' = <<>>
      /\ UNCHANGED <<stream, file, received, refused, lost>>
  BY DEF takeLast
<1>2. Taken' = Taken \cup Range(bufferedSpans)
  <2>1. Taken' = Taken \cup Range(b.spans)
    BY <1>1, TakenMore
  <2> QED
    BY <2>1
<1>3. taken' \subseteq TakenTypes /\ b.spans = bufferedSpans
  <2>1. b \in TakenTypes /\ b.spans = bufferedSpans
    BY DEF LocalFileInv, TakenTypes
  <2> HIDE DEF b
  <2> QED
    BY <1>1, <2>1 DEF LocalFileInv
<1>4. \A c, d \in taken' : c # d => Range(c.spans) \cap Range(d.spans) = {}
  <2>1. \A c \in taken : Range(c.spans) \subseteq Taken
    BY DEF Taken
  <2>2. \A c \in taken : Range(c.spans) \cap Range(b.spans) = {}
    BY <2>1 DEF LocalFileInv, Apart
  <2> QED
    BY <1>1, <2>2, ZenonT(30) DEF LocalFileInv, Apart
<1>5. Apart'
  <2> HIDE DEF b
  <2>1. \A c \in taken' : IsInjective(c.spans)
    BY <1>1, <1>3 DEF LocalFileInv, Apart
  <2>2. IsInjective(bufferedSpans') /\ Range(bufferedSpans') = {}
    BY <1>1, EmptyRange
  <2>3. Taken' \cap (Range(file) \cup lost \cup refused) = {}
    BY <1>2 DEF LocalFileInv, Apart
  <2> QED
    BY <1>1, <1>4, <2>1, <2>2, <2>3 DEF LocalFileInv, Apart
<1>6. received = Range(bufferedSpans') \cup Taken' \cup Range(file) \cup lost \cup refused
  BY <1>1, <1>2, EmptyRange DEF LocalFileInv
<1> QED
  BY <1>1, <1>3, <1>5, <1>6, EmptyRange DEF LocalFileInv

\* What was taken is written or lost.
LEMMA FlushTakenKeeps ==
  ASSUME LocalFileInv, NEW b \in taken, flushTaken(b)
  PROVE  LocalFileInv'
<1>1. /\ taken' = taken \ {b} /\ stream' = (IF b.closes THEN "closed" ELSE stream)
      /\ UNCHANGED <<bufferedSpans, buffering, received, refused>>
  BY DEF flushTaken
<1>2. b.spans \in Seq(LfSpans) /\ IsInjective(b.spans) /\ Len(b.spans) \in Nat
  BY SeqFacts DEF LocalFileInv, TakenTypes, Apart
<1>3. PICK n \in 0..Len(b.spans) :
        /\ file' = file \o SubSeq(b.spans, 1, n)
        /\ lost' = lost \cup Range(SubSeq(b.spans, n + 1, Len(b.spans)))
  BY DEF flushTaken, doFlush
<1> DEFINE written == SubSeq(b.spans, 1, n)
           left == SubSeq(b.spans, n + 1, Len(b.spans))
<1>4. written \in Seq(LfSpans) /\ left \in Seq(LfSpans) /\ b.spans = written \o left
  BY <1>2, Split
<1> HIDE DEF written, left
<1>5. /\ Range(b.spans) = Range(written) \cup Range(left)
      /\ IsInjective(written) /\ Range(written) \cap Range(left) = {}
  BY <1>2, <1>4, RangeConcat, InjectiveConcat, SMTT(30)
<1>6. file' = file \o written /\ lost' = lost \cup Range(left)
  BY <1>3 DEF written, left
<1>7. Range(b.spans) \subseteq Taken
  BY DEF Taken
<1>8. file' \in Seq(LfSpans) /\ Range(file') = Range(file) \cup Range(written) /\ IsInjective(file')
  <2>1. file \in Seq(LfSpans) /\ IsInjective(file) /\ Range(file) \cap Range(written) = {}
    BY <1>5, <1>7 DEF LocalFileInv, Apart
  <2> QED
    BY <1>4, <1>5, <1>6, <2>1, RangeConcat, InjectiveConcat, SMTT(30)
<1>9. Taken' = Taken \ Range(b.spans)
  <2>1. \A c \in taken' : Range(c.spans) \cap Range(b.spans) = {}
    BY <1>1 DEF LocalFileInv, Apart
  <2> QED
    BY <1>1, <2>1 DEF Taken
<1>10. Apart'
  BY <1>1, <1>5, <1>6, <1>7, <1>8, <1>9, ZenonT(30) DEF LocalFileInv, Apart
<1>11. received = Range(bufferedSpans) \cup Taken' \cup Range(file') \cup lost' \cup refused
  BY <1>5, <1>6, <1>7, <1>8, <1>9 DEF LocalFileInv
<1> QED
  BY <1>1, <1>8, <1>10, <1>11 DEF LocalFileInv

\* What the file receiver promises is kept by every step.
LEMMA LocalFileStep == LocalFileInv /\ [LocalFileNext]_localFileVars => LocalFileInv'
<1> SUFFICES ASSUME LocalFileInv, [LocalFileNext]_localFileVars PROVE LocalFileInv'
  OBVIOUS
<1>1. CASE UNCHANGED localFileVars
  <2>1. Taken' = Taken
    BY <1>1 DEF localFileVars, Taken
  <2>2. Apart'
    BY <1>1, <2>1 DEF localFileVars, LocalFileInv, Apart
  <2> QED
    BY <1>1, <2>1, <2>2 DEF localFileVars, LocalFileInv
<1> QED
  BY <1>1, BufferSpanKeeps, TakeLastKeeps, FlushTakenKeeps DEF LocalFileNext

\* The invariant implies what the run checks.
LEMMA LocalFileInvProperties == LocalFileInv => FileSpansAreKept
<1> SUFFICES ASSUME LocalFileInv PROVE FileSpansAreKept
  OBVIOUS
<1> DEFINE A == Range(bufferedSpans)
           F == Range(file)
           T == Taken
<1>1. received = A \cup T \cup F \cup lost \cup refused /\ IsFiniteSet(received)
  BY DEF LocalFileInv
<1>2. IsFiniteSet(A) /\ IsFiniteSet(T) /\ IsFiniteSet(F) /\ IsFiniteSet(lost)
      /\ IsFiniteSet(refused)
  BY <1>1, FS_Subset, SMTT(30)
<1>3. Cardinality(A) = Len(bufferedSpans) /\ Cardinality(F) = Len(file)
  BY InjectiveCardinality DEF LocalFileInv, Apart
<1>4. /\ A \cap T = {} /\ (A \cup T) \cap F = {} /\ (A \cup T \cup F) \cap lost = {}
      /\ (A \cup T \cup F \cup lost) \cap refused = {}
  BY DEF LocalFileInv, Apart
<1> HIDE DEF A, F, T
<1>5. IsFiniteSet(A \cup T) /\ Cardinality(A \cup T) = Cardinality(A) + Cardinality(T)
  BY <1>2, <1>4, DisjointUnion
<1>6. IsFiniteSet(A \cup T \cup F)
      /\ Cardinality(A \cup T \cup F) = Cardinality(A \cup T) + Cardinality(F)
  BY <1>2, <1>4, <1>5, DisjointUnion
<1>7. IsFiniteSet(A \cup T \cup F \cup lost)
      /\ Cardinality(A \cup T \cup F \cup lost) = Cardinality(A \cup T \cup F) + Cardinality(lost)
  BY <1>2, <1>4, <1>6, DisjointUnion
<1>8. Cardinality(received) = Cardinality(A \cup T \cup F \cup lost) + Cardinality(refused)
  BY <1>1, <1>2, <1>4, <1>7, DisjointUnion
<1>9. Cardinality(received) = Len(bufferedSpans) + Cardinality(Taken) + Len(file)
      + Cardinality(lost) + Cardinality(refused)
  BY <1>3, <1>5, <1>6, <1>7, <1>8 DEF T
<1>10. stream = "closed" /\ taken = {} => received = Range(file) \cup lost \cup refused
  <2> SUFFICES ASSUME stream = "closed", taken = {}
                      PROVE received = Range(file) \cup lost \cup refused
    OBVIOUS
  <2>1. bufferedSpans = <<>> /\ Taken = {}
    BY DEF LocalFileInv, Taken
  <2> QED
    BY <1>1, <2>1, EmptyRange DEF A, F, T
<1> QED
  BY <1>9, <1>10, ZenonT(30) DEF LocalFileInv, Apart, FileSpansAreKept
=============================================================================
