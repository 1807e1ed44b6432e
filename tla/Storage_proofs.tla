--------------------------- MODULE Storage_proofs ---------------------------
(***************************************************************************)
(* Proofs about what is found where it was put: the receivers of the pool  *)
(* that the tracers share (TracerPool), the hash table of the C client's   *)
(* configuration (HTable), and the shard directories that the daemon's     *)
(* loader serves or formats (Loader). For each of them an inductive        *)
(* invariant, which holds at first, which every step preserves, and which  *)
(* implies what the run checks.                                            *)
(***************************************************************************)
EXTENDS TracerPool, HTable, Loader, DataLemmas, FiniteSetTheorems

\* A leaf that names no prover is tried with Zenon and then with the SMT solver.
USE ZenonT(20), SMTT(30)
-----------------------------------------------------------------------------
(* TracerPool *)

BuildRecords == [pc : {"none", "loading", "ready", "closed"}, left : Seq(STRING)]
ReceiverRecords == [class : STRING, removed : BOOLEAN, closed : Nat]

\* A tracer that has been added to the pool and is not closed.
InPool(b) == b.pc \in {"loading", "ready"}

PoolTypes ==
  /\ builds \in [PoolTracers -> BuildRecords]
  /\ receivers \in Seq(ReceiverRecords)
  /\ curReceivers \in Seq(Receivers) /\ closing \in Seq(Receivers)

\* Who has a receiver: the pool, the thread that closes the pool's, or the caller who took it out.
Holders(r) ==
  /\ r \in Range(curReceivers) => receivers[r].closed = 0 /\ ~receivers[r].removed
     /\ r \notin Range(closing)
  /\ r \in Range(closing) => receivers[r].closed = 0 /\ ~receivers[r].removed
  /\ r \notin Range(curReceivers) /\ r \notin Range(closing) =>
       receivers[r].closed = 1 \/ (receivers[r].closed = 0 /\ receivers[r].removed)

PoolInv ==
  /\ PoolTypes /\ IsInjective(curReceivers) /\ IsInjective(closing)
  /\ closing # <<>> => curReceivers = <<>>
  /\ \A r \in Receivers : Holders(r)
  /\ curTracers = {t \in PoolTracers : InPool(builds[t])}
  /\ curTracers = {} => Range(curReceivers) \subseteq strays

\* A sequence without repetition from which the k-th element is taken has the others.
LEMMA InjectiveRemoveAt ==
  ASSUME NEW S, NEW s \in Seq(S), NEW k \in 1..Len(s), IsInjective(s)
  PROVE  /\ SubSeq(s, 1, k - 1) \o SubSeq(s, k + 1, Len(s)) \in Seq(S)
            /\ IsInjective(SubSeq(s, 1, k - 1) \o SubSeq(s, k + 1, Len(s)))
         /\ \A e : e \in Range(SubSeq(s, 1, k - 1) \o SubSeq(s, k + 1,
            Len(s))) <=> e \in Range(s) /\ e # s[k]
<1> DEFINE n == Len(s)
           a == SubSeq(s, 1, k - 1)
           b == SubSeq(s, k + 1, n)
           u == a \o b
<1>1. n \in Nat /\ DOMAIN s = 1..n /\ (\A i \in 1..n : s[i] \in S) /\ k \in Nat /\ 1 <= k /\ k <= n
  BY SeqIsFcn
<1>2. \A i, j \in 1..n : s[i] = s[j] => i = j
  BY <1>1 DEF IsInjective
<1>3. a \in Seq(S) /\ Len(a) = k - 1 /\ \A i \in 1..(k - 1) : a[i] = s[i]
  <2>1. \A i \in 1..(k - 1) : s[i] \in S
    BY <1>1
  <2>2. /\ a \in Seq(S) /\ Len(a) = IF 1 <= k - 1 THEN (k - 1) - 1 + 1 ELSE 0
        /\ \A i \in 1..((k - 1) - 1 + 1) : a[i] = s[1 + i - 1]
    BY <1>1, <2>1, SubSeqFacts, SMTT(30)
  <2> HIDE DEF a
  <2> QED
    BY <1>1, <2>2
<1>4. b \in Seq(S) /\ Len(b) = n - k /\ \A i \in 1..(n - k) : b[i] = s[k + i]
  <2>1. \A i \in (k + 1)..n : s[i] \in S
    BY <1>1
  <2>2. /\ b \in Seq(S) /\ Len(b) = IF k + 1 <= n THEN n - (k + 1) + 1 ELSE 0
        /\ \A i \in 1..(n - (k + 1) + 1) : b[i] = s[(k + 1) + i - 1]
    BY <1>1, <2>1, SubSeqFacts, SMTT(30)
  <2>3. \A i \in 1..(n - k) : i \in 1..(n - (k + 1) + 1) /\ (k + 1) + i - 1 = k + i
    BY <1>1
  <2> HIDE DEF b, n
  <2> QED
    BY <1>1, <2>2, <2>3, SMTT(30)
<1>5. u \in Seq(S) /\ Len(u) = n - 1
      /\ \A i \in 1..(n - 1) : u[i] = IF i <= k - 1 THEN s[i] ELSE s[i + 1]
  <2>1. u \in Seq(S) /\ Len(u) = Len(a) + Len(b)
        /\ \A i \in 1..(Len(a) + Len(b)) : u[i] = IF i <= Len(a) THEN a[i] ELSE b[i - Len(a)]
    BY <1>3, <1>4, ConcatFacts
  <2> HIDE DEF a, b, n, u
  <2>2. ASSUME NEW i \in 1..(n - 1) PROVE u[i] = IF i <= k - 1 THEN s[i] ELSE s[i + 1]
    <3>1. u[i] = IF i <= k - 1 THEN a[i] ELSE b[i - (k - 1)]
      BY <1>1, <1>3, <1>4, <2>1, SMTT(30)
    <3>2. CASE i <= k - 1
      BY <1>1, <1>3, <3>1, <3>2
    <3>3. CASE ~(i <= k - 1)
      <4>1. i - (k - 1) \in 1..(n - k) /\ k + (i - (k - 1)) = i + 1
        BY <1>1, <3>3
      <4> QED
        BY <1>4, <3>1, <3>3, <4>1
    <3> QED
      BY <3>2, <3>3
  <2> QED
    BY <1>1, <1>3, <1>4, <2>1, <2>2, SMTT(30)
<1> HIDE DEF a, b, n, u
<1>6. DOMAIN u = 1..(n - 1)
  BY <1>5, SeqIsFcn
<1>7. IsInjective(u)
  BY <1>1, <1>2, <1>5, <1>6, SMTT(30) DEF IsInjective
<1>8. ASSUME NEW e PROVE (\E i \in 1..(n - 1) : u[i] = e) <=> (\E i \in 1..n : s[i] = e) /\ e # s[k]
  <2>1. ASSUME NEW i \in 1..(n - 1), u[i] = e PROVE (\E j \in 1..n : s[j] = e) /\ e # s[k]
    <3>1. CASE i <= k - 1
      <4>1. i \in 1..n /\ i # k /\ s[i] = e
        BY <1>1, <1>5, <2>1, <3>1, SMTT(30)
      <4> QED
        BY <1>1, <1>2, <4>1, SMTT(30)
    <3>2. CASE ~(i <= k - 1)
      <4>1. i + 1 \in 1..n /\ i + 1 # k /\ s[i + 1] = e
        BY <1>1, <1>5, <2>1, <3>2, SMTT(30)
      <4> QED
        BY <1>1, <1>2, <4>1, SMTT(30)
    <3> QED
      BY <3>1, <3>2
  <2>2. ASSUME NEW i \in 1..n, s[i] = e, e # s[k] PROVE \E j \in 1..(n - 1) : u[j] = e
    <3>1. CASE i < k
      <4>1. i \in 1..(n - 1) /\ i <= k - 1
        BY <1>1, <3>1
      <4> QED
        BY <1>5, <2>2, <4>1
    <3>2. CASE i > k
      <4>1. i - 1 \in 1..(n - 1) /\ ~(i - 1 <= k - 1) /\ (i - 1) + 1 = i
        BY <1>1, <3>2
      <4> QED
        BY <1>5, <2>2, <4>1
    <3> QED
      BY <1>1, <2>2, <3>1, <3>2
  <2> QED
    BY <2>1, <2>2
<1>9. SubSeq(s, 1, k - 1) \o SubSeq(s, k + 1, Len(s)) = u
  BY DEF u, a, b, n
<1>10. \A e : e \in Range(u) <=> \E i \in 1..(n - 1) : u[i] = e
  BY <1>6 DEF Range
<1>11. \A e : e \in Range(s) <=> \E i \in 1..n : s[i] = e
  BY <1>1 DEF Range
<1>12. \A e : e \in Range(u) <=> e \in Range(s) /\ e # s[k]
  BY <1>8, <1>10, <1>11
<1> QED
  BY <1>5, <1>7, <1>9, <1>12

\* Nothing is in the empty sequence.
LEMMA EmptyHolds == IsInjective(<<>>) /\ \A r : r \notin Range(<<>>)
BY DEF IsInjective, Range

\* The invariant holds at first.
LEMMA PoolInitInv == PoolInit => PoolInv
<1> SUFFICES ASSUME PoolInit PROVE PoolInv
  OBVIOUS
<1>1. PoolTypes
  BY PoolAssumption, EmptySeqFacts DEF PoolInit, PoolTypes, BuildRecords
<1>2. Receivers = {}
  BY DEF PoolInit, Receivers
<1> QED
  BY <1>1, <1>2, EmptyHolds DEF PoolInit, PoolInv, InPool

\* The receivers are the numbers from 1 on.
LEMMA ReceiverNumbers ==
  ASSUME PoolTypes
  PROVE  Len(receivers) \in Nat /\ Receivers = 1..Len(receivers)
           /\ \A r \in Receivers : receivers[r] \in ReceiverRecords
BY SeqIsFcn DEF PoolTypes, Receivers

\* A change of one receiver that is known.
LEMMA OneReceiver ==
  ASSUME PoolTypes, NEW r \in Receivers, NEW v \in ReceiverRecords,
         receivers' = [receivers EXCEPT ![r] = v]
  PROVE  /\ receivers' \in Seq(ReceiverRecords)
            /\ Receivers' = Receivers
         /\ receivers'[r] = v /\ \A x \in Receivers \ {r} : receivers'[x] = receivers[x]
<1>1. r \in 1..Len(receivers)
      /\ receivers \in Seq(ReceiverRecords)
  BY ReceiverNumbers DEF PoolTypes
<1>2. receivers' \in Seq(ReceiverRecords)
  BY <1>1, ExceptFacts
<1>3. DOMAIN receivers' = DOMAIN receivers
  OBVIOUS
<1> QED
  BY <1>1, <1>2, <1>3 DEF Receivers

\* Steps of a tracer that leave the receivers alone.
LEMMA BuildMoves ==
  ASSUME PoolInv, NEW t \in PoolTracers, UNCHANGED <<curReceivers, receivers, closing>>,
         NEW b \in BuildRecords,
         builds' = [builds EXCEPT ![t] = b],
         curTracers' = IF InPool(b) THEN curTracers \cup {t} ELSE curTracers \ {t},
         curTracers' # {}
  PROVE  PoolInv'
<1>1. PoolTypes' /\ Receivers' = Receivers
  BY DEF PoolInv, PoolTypes, Receivers
<1>2. \A r \in Receivers : Holders(r)'
  BY DEF PoolInv, Holders
<1>3. curTracers' = {x \in PoolTracers : InPool(builds'[x])}
  BY DEF PoolInv, PoolTypes
<1> QED
  BY <1>1, <1>2, <1>3 DEF PoolInv

\* A new receiver is in the pool, and not closed; while there is no tracer it is a stray.
LEMMA AddReceiverKeeps ==
  ASSUME PoolInv, Unlocked, NEW c \in STRING, addReceiver(c), UNCHANGED <<curTracers, closing>>,
         builds' \in [PoolTracers -> BuildRecords], \A x \in PoolTracers : builds'[x].pc = builds[x].pc
  PROVE  PoolInv'
<1> DEFINE new == [class |-> c, removed |-> FALSE, closed |-> 0]
<1>0. PICK n \in Nat : n = Len(receivers)
  BY ReceiverNumbers DEF PoolInv
<1>1. /\ n \in Nat /\ Receivers = 1..n
         /\ receivers \in Seq(ReceiverRecords)
      /\ curReceivers \in Seq(1..n) /\ closing = <<>>
  BY <1>0, ReceiverNumbers DEF PoolInv, PoolTypes, Unlocked
<1>2. receivers' = Append(receivers, new) /\ curReceivers' = Append(curReceivers, Len(receivers'))
  BY DEF addReceiver
<1>3. new \in ReceiverRecords
  BY DEF ReceiverRecords
<1> HIDE DEF new
<1>4. /\ receivers' \in Seq(ReceiverRecords)
         /\ Len(receivers') = n + 1
      /\ receivers'[n + 1] = new /\ \A i \in 1..n : receivers'[i] = receivers[i]
  BY <1>0, <1>1, <1>2, <1>3, AppendFacts, SMTT(30)
<1>5. Receivers' = 1..(n + 1)
  BY <1>4, SeqIsFcn DEF Receivers
<1>6. curReceivers \in Seq(1..(n + 1)) /\ n + 1 \in 1..(n + 1)
  <2>1. 1..n \subseteq 1..(n + 1)
    BY <1>1
  <2> QED
    BY <1>1, <2>1, SeqSuperset
<1>7. n + 1 \notin Range(curReceivers)
  <2>1. \A i \in 1..Len(curReceivers) : curReceivers[i] \in 1..n
    BY <1>1, SeqIsFcn
  <2> QED
    BY <1>1, <2>1 DEF Range
<1>8. curReceivers' = Append(curReceivers, n + 1)
  BY <1>2, <1>4
<1>9. /\ curReceivers' \in Seq(1..(n + 1)) /\ IsInjective(curReceivers')
      /\ \A e : e \in Range(curReceivers') <=> e \in Range(curReceivers) \/ n + 1 = e
  BY <1>6, <1>7, <1>8, AppendFacts, InAppend, InjectiveAppend, SMTT(30) DEF PoolInv
<1>10. \A r \in 1..(n + 1) : Holders(r)'
  <2>1. ASSUME NEW r \in 1..n PROVE Holders(r)'
    <3>1. r # n + 1 /\ receivers'[r] = receivers[r]
      BY <1>1, <1>4
    <3>2. Holders(r)
      BY <1>1 DEF PoolInv
    <3> QED
      BY <1>9, <3>1, <3>2 DEF Holders
  <2>2. Holders(n + 1)'
    <3>1. n + 1 \notin Range(closing)
      BY <1>1, EmptyHolds
    <3>2. receivers'[n + 1].closed = 0 /\ ~receivers'[n + 1].removed
      BY <1>4 DEF new
    <3> QED
      BY <1>9, <3>1, <3>2 DEF Holders
  <2> QED
    BY <1>1, <2>1, <2>2
<1>11. PoolTypes'
  BY <1>1, <1>4, <1>5, <1>9, EmptySeqFacts DEF PoolTypes
<1>12. curTracers' = {x \in PoolTracers : InPool(builds'[x])}
  BY DEF PoolInv, InPool
<1>13. curTracers' = {} => Range(curReceivers') \subseteq strays'
  BY <1>4, <1>9 DEF PoolInv, addReceiver
<1> QED
  BY <1>1, <1>5, <1>9, <1>10, <1>11, <1>12, <1>13, EmptyHolds DEF PoolInv

\* The pool's receivers become those to close.
LEMMA RemoveAllKeeps ==
  ASSUME PoolInv, Unlocked, removeAndCloseAll, receivers' = receivers,
         builds' \in [PoolTracers -> BuildRecords],
         curTracers' = {t \in PoolTracers : InPool(builds'[t])}
  PROVE  PoolInv'
<1>1. closing = <<>> /\ closing' = curReceivers /\ curReceivers' = <<>> /\ Receivers' = Receivers
  BY DEF Unlocked, removeAndCloseAll, Receivers
<1>2. PoolTypes'
  BY <1>1, EmptySeqFacts DEF PoolInv, PoolTypes
<1>3. \A r \in Receivers : Holders(r)'
  BY <1>1, EmptyHolds DEF PoolInv, Holders
<1> QED
  BY <1>1, <1>2, <1>3, EmptyHolds DEF PoolInv

\* The next receiver to be closed was not closed before, and is not used any more.
LEMMA CloseNextKeeps ==
  ASSUME PoolInv, closeNext
  PROVE  PoolInv'
<1> DEFINE h == Head(closing)
           v == [receivers[h] EXCEPT !.closed = @ + 1]
<1>1. /\ closing # <<>> /\ closing' = Tail(closing)
         /\ receivers' = [receivers EXCEPT ![h].closed = @ + 1]
      /\ UNCHANGED <<builds, curTracers, curReceivers>> /\ curReceivers = <<>>
         /\ closing \in Seq(Receivers)
  BY DEF closeNext, PoolInv, PoolTypes
<1>2. /\ h \in Receivers /\ closing' \in Seq(Receivers)
         /\ \A e : e \in Range(closing) <=> e = h \/ e \in Range(closing')
      /\ IsInjective(closing') /\ h \notin Range(closing')
  BY <1>1, TailFacts, InjectiveTail DEF PoolInv
<1>3. receivers[h] \in ReceiverRecords
      /\ receivers[h].closed = 0 /\ ~receivers[h].removed
  BY <1>2, ReceiverNumbers DEF PoolInv, Holders
<1>4. v \in ReceiverRecords /\ v.closed = 1
  BY <1>3 DEF ReceiverRecords
<1>5. /\ receivers' \in Seq(ReceiverRecords)
         /\ Receivers' = Receivers
      /\ receivers'[h] = v /\ \A x \in Receivers \ {h} : receivers'[x] = receivers[x]
  <2>1. receivers' = [receivers EXCEPT ![h] = v]
    BY <1>1
  <2> QED
    BY <1>2, <1>4, <2>1, OneReceiver DEF PoolInv
<1> HIDE DEF h, v
<1>6. PoolTypes'
  BY <1>1, <1>2, <1>5 DEF PoolInv, PoolTypes
<1>7. ASSUME NEW r \in Receivers PROVE Holders(r)'
  <2>1. r \notin Range(curReceivers')
    BY <1>1, EmptyHolds
  <2>2. CASE r = h
    BY <1>2, <1>4, <1>5, <2>1, <2>2 DEF Holders
  <2>3. CASE r # h
    <3>1. Holders(r) /\ receivers'[r] = receivers[r]
          /\ (r \in Range(closing) <=> r \in Range(closing'))
      BY <1>2, <1>5, <2>3 DEF PoolInv
    <3> QED
      BY <1>1, <2>1, <3>1 DEF Holders
  <2> QED
    BY <2>2, <2>3
<1> QED
  BY <1>1, <1>2, <1>5, <1>6, <1>7, EmptyHolds DEF PoolInv

\* removeReceiver takes one receiver out, whose holder is then the caller.
LEMMA RemoveReceiverFacts ==
  ASSUME PoolInv, NEW r \in Receivers, removeReceiver(r)
  PROVE  /\ r \in Range(curReceivers) /\ curReceivers' \in Seq(Receivers)
            /\ IsInjective(curReceivers')
         /\ \A e : e \in Range(curReceivers') <=> e \in Range(curReceivers) /\ e # r
         /\ receivers' \in Seq(ReceiverRecords)
            /\ Receivers' = Receivers
         /\ receivers'[r].removed /\ receivers'[r].closed = receivers[r].closed
         /\ \A x \in Receivers \ {r} : receivers'[x] = receivers[x]
<1>1. PICK i \in DOMAIN curReceivers : curReceivers[i] = r
           /\ curReceivers' = SubSeq(curReceivers, 1, i - 1) \o SubSeq(curReceivers, i + 1,
              Len(curReceivers))
  BY DEF removeReceiver
<1>2. curReceivers \in Seq(Receivers) /\ i \in 1..Len(curReceivers)
  BY SeqIsFcn DEF PoolInv, PoolTypes
<1>3. receivers[r] \in ReceiverRecords
  BY ReceiverNumbers DEF PoolInv
<1> DEFINE v == [receivers[r] EXCEPT !.removed = TRUE]
<1>4. v \in ReceiverRecords /\ v.removed
      /\ v.closed = receivers[r].closed
  BY <1>3 DEF ReceiverRecords
<1>5. receivers' = [receivers EXCEPT ![r] = v]
  BY DEF removeReceiver
<1> HIDE DEF v
<1>6. r \in Range(curReceivers)
  BY <1>1, <1>2 DEF Range
<1>7. /\ curReceivers' \in Seq(Receivers) /\ IsInjective(curReceivers')
      /\ \A e : e \in Range(curReceivers') <=> e \in Range(curReceivers) /\ e # r
  BY <1>1, <1>2, InjectiveRemoveAt DEF PoolInv
<1>8. /\ receivers' \in Seq(ReceiverRecords)
         /\ Receivers' = Receivers
      /\ receivers'[r] = v /\ \A x \in Receivers \ {r} : receivers'[x] = receivers[x]
  BY <1>4, <1>5, OneReceiver DEF PoolInv
<1> QED
  BY <1>4, <1>6, <1>7, <1>8

\* A receiver that is taken out is neither in use nor among those that the pool closes.
LEMMA RemoveReceiverKeeps ==
  ASSUME PoolInv, NEW r \in Receivers, removeReceiver(r)
  PROVE  PoolInv'
<1>1. closing = <<>> /\ UNCHANGED <<builds, curTracers, closing>>
  BY DEF removeReceiver, Unlocked
<1>2. /\ r \in Range(curReceivers) /\ curReceivers' \in Seq(Receivers) /\ IsInjective(curReceivers')
      /\ \A e : e \in Range(curReceivers') <=> e \in Range(curReceivers) /\ e # r
      /\ receivers' \in Seq(ReceiverRecords)
         /\ Receivers' = Receivers
      /\ receivers'[r].removed /\ receivers'[r].closed = receivers[r].closed
      /\ \A x \in Receivers \ {r} : receivers'[x] = receivers[x]
  BY RemoveReceiverFacts
<1>3. PoolTypes'
  BY <1>1, <1>2 DEF PoolInv, PoolTypes
<1>4. \A x \in Receivers : Holders(x)'
  <2>1. \A x \in Receivers : Holders(x)
    BY DEF PoolInv
  <2>2. Holders(r)'
    BY <1>1, <1>2, <2>1 DEF Holders
  <2>3. \A x \in Receivers \ {r} : Holders(x)'
    BY <1>1, <1>2, <2>1 DEF Holders
  <2> QED
    BY <2>2, <2>3
<1>5. curTracers' = {} => Range(curReceivers') \subseteq strays'
  BY <1>2 DEF PoolInv, removeReceiver
<1> QED
  BY <1>1, <1>2, <1>3, <1>4, <1>5 DEF PoolInv

\* A receiver that was taken out is closed by the one who took it out.
LEMMA CloseRemovedKeeps ==
  ASSUME PoolInv, NEW r \in Receivers, closeRemoved(r)
  PROVE  PoolInv'
<1> DEFINE v == [receivers[r] EXCEPT !.closed = 1]
<1>1. /\ receivers[r].removed /\ receivers' = [receivers EXCEPT ![r] = v]
      /\ UNCHANGED <<builds, curTracers, curReceivers, closing, strays>>
  BY DEF closeRemoved
<1>2. receivers[r] \in ReceiverRecords
  BY ReceiverNumbers DEF PoolInv
<1>3. v \in ReceiverRecords /\ v.closed = 1
  BY <1>2 DEF ReceiverRecords
<1> HIDE DEF v
<1>4. /\ receivers' \in Seq(ReceiverRecords)
         /\ Receivers' = Receivers
      /\ receivers'[r] = v /\ \A x \in Receivers \ {r} : receivers'[x] = receivers[x]
  BY <1>1, <1>3, OneReceiver DEF PoolInv
<1>5. PoolTypes'
  BY <1>1, <1>4 DEF PoolInv, PoolTypes
<1>6. \A x \in Receivers : Holders(x)'
  <2>1. \A x \in Receivers : Holders(x)
    BY DEF PoolInv
  <2>2. Holders(r)'
    BY <1>1, <1>3, <1>4, <2>1 DEF Holders
  <2>3. \A x \in Receivers \ {r} : Holders(x)'
    BY <1>1, <1>4, <2>1 DEF Holders
  <2> QED
    BY <2>2, <2>3
<1> QED
  BY <1>1, <1>4, <1>5, <1>6 DEF PoolInv

\* Every step of a tracer that is being built or closed.
LEMMA TracerStepKeeps ==
  ASSUME PoolInv, NEW t \in PoolTracers,
         addTracer(t) \/ loadReceiverType(t) \/ built(t) \/ closeTracer(t)
  PROVE  PoolInv'
<1>1. builds \in [PoolTracers -> BuildRecords]
      /\ builds[t] \in BuildRecords
      /\ curTracers = {x \in PoolTracers : InPool(builds[x])}
  BY DEF PoolInv, PoolTypes
<1>2. CASE addTracer(t)
  <2> DEFINE b == [builds[t] EXCEPT !.pc = "loading"]
  <2>1. b \in BuildRecords /\ b.pc = "loading"
    BY <1>1 DEF BuildRecords
  <2>2. builds' = [builds EXCEPT ![t] = b] /\ UNCHANGED <<curReceivers, receivers, closing>>
        /\ curTracers' = curTracers \cup {t}
    BY <1>2 DEF addTracer
  <2> HIDE DEF b
  <2> QED
    BY <2>1, <2>2, BuildMoves DEF InPool
<1>3. CASE built(t)
  <2> DEFINE b == [builds[t] EXCEPT !.pc = "ready"]
  <2>1. b \in BuildRecords /\ b.pc = "ready"
    BY <1>1 DEF BuildRecords
  <2>2. builds' = [builds EXCEPT ![t] = b]
        /\ UNCHANGED <<curReceivers, receivers, closing, curTracers>>
        /\ t \in curTracers
    BY <1>1, <1>3 DEF built, InPool
  <2> HIDE DEF b
  <2> QED
    BY <2>1, <2>2, BuildMoves DEF PoolInv, InPool
<1>4. CASE loadReceiverType(t)
  <2> DEFINE b == [builds[t] EXCEPT !.left = Tail(@)]
  <2>1. builds[t].pc = "loading" /\ builds[t].left # <<>> /\ Unlocked
        /\ UNCHANGED <<curTracers, closing>>
        /\ builds' = [builds EXCEPT ![t].left = Tail(@)] /\ t \in curTracers
    BY <1>1, <1>4 DEF loadReceiverType, InPool
  <2>2. Tail(builds[t].left) \in Seq(STRING) /\ Head(builds[t].left) \in STRING
    BY <1>1, <2>1, TailFacts DEF BuildRecords
  <2>3. b \in BuildRecords /\ b.pc = "loading"
    BY <1>1, <2>1, <2>2 DEF BuildRecords
  <2>4. builds' = [builds EXCEPT ![t] = b]
    BY <2>1
  <2> HIDE DEF b
  <2>5. CASE UNCHANGED <<curReceivers, receivers>>
    <3>1. /\ curTracers' = IF InPool(b) THEN curTracers \cup {t} ELSE curTracers \ {t}
          /\ curTracers' # {}
      BY <2>1, <2>3 DEF InPool
    <3> QED
      BY <2>1, <2>3, <2>4, <2>5, <3>1, BuildMoves
  <2>6. CASE addReceiver(Head(builds[t].left))
    <3>1. builds' \in [PoolTracers -> BuildRecords] /\ \A x \in PoolTracers : builds'[x].pc = builds[x].pc
      BY <1>1, <2>1, <2>3, <2>4
    <3> QED
      BY <2>1, <2>2, <2>6, <3>1, AddReceiverKeeps
  <2> QED
    BY <1>4, <2>5, <2>6 DEF loadReceiverType
<1>5. CASE closeTracer(t)
  <2> DEFINE b == [builds[t] EXCEPT !.pc = "closed"]
  <2>1. b \in BuildRecords /\ b.pc = "closed"
    BY <1>1 DEF BuildRecords
  <2>2. builds' = [builds EXCEPT ![t] = b] /\ receivers' = receivers
        /\ curTracers' = curTracers \ {t} /\ Unlocked
    BY <1>5 DEF closeTracer
  <2> HIDE DEF b
  <2>3. CASE curTracers' = {}
    <3>1. removeAndCloseAll
      BY <1>5, <2>3 DEF closeTracer
    <3>2. builds' \in [PoolTracers -> BuildRecords]
      BY <1>1, <2>1, <2>2
    <3>3. curTracers' = {x \in PoolTracers : InPool(builds'[x])}
      BY <1>1, <2>1, <2>2 DEF BuildRecords, InPool
    <3> QED
      BY <2>2, <3>1, <3>2, <3>3, RemoveAllKeeps
  <2>4. CASE curTracers' # {}
    BY <1>5, <2>1, <2>2, <2>4, BuildMoves DEF closeTracer, InPool
  <2> QED
    BY <2>3, <2>4
<1> QED
  BY <1>2, <1>3, <1>4, <1>5

\* What the tracers of a pool rely on is kept by every step.
LEMMA PoolStep == PoolInv /\ [PoolNext]_poolVars => PoolInv'
<1> SUFFICES ASSUME PoolInv, [PoolNext]_poolVars PROVE PoolInv'
  OBVIOUS
<1>1. ASSUME NEW t \in PoolTracers,
             addTracer(t) \/ loadReceiverType(t) \/ built(t) \/ closeTracer(t) PROVE PoolInv'
  BY <1>1, TracerStepKeeps
<1>2. ASSUME NEW r \in Receivers, removeReceiver(r) PROVE PoolInv'
  BY <1>2, RemoveReceiverKeeps
<1>3. ASSUME NEW r \in Receivers, closeRemoved(r) PROVE PoolInv'
  BY <1>3, CloseRemovedKeeps
<1>4. CASE closeNext
  BY <1>4, CloseNextKeeps
<1>5. CASE shutdownHook
  BY <1>5, RemoveAllKeeps DEF shutdownHook, PoolInv, PoolTypes
<1>6. CASE getReceivers \/ receiveSpan \/ UNCHANGED poolVars
  <2>1. UNCHANGED <<builds, curTracers, curReceivers, receivers, closing, strays>>
    BY <1>6 DEF getReceivers, receiveSpan, poolVars
  <2>2. Receivers' = Receivers /\ \A r : Holders(r)' <=> Holders(r)
    BY <2>1 DEF Receivers, Holders
  <2> QED
    BY <2>1, <2>2 DEF PoolInv, PoolTypes
<1>7. CASE callerAdds
  <2>1. PICK t \in PoolTracers : \E c \in Range(ClassesOf[t]) : addReceiver(c)
    BY <1>7 DEF callerAdds
  <2>2. PICK c \in Range(ClassesOf[t]) : addReceiver(c)
    BY <2>1
  <2>3. c \in STRING
    BY PoolAssumption, SeqIsFcn DEF Range
  <2> QED
    BY <1>7, <2>2, <2>3, AddReceiverKeeps DEF callerAdds, PoolInv, PoolTypes
<1> QED
  BY <1>1, <1>2, <1>3, <1>4, <1>5, <1>6, <1>7 DEF PoolNext

\* The invariant implies what the run checks.
LEMMA PoolInvProperties == PoolInv => ReceiversCloseOnce /\ LastTracerClosesReceivers
<1> SUFFICES ASSUME PoolInv PROVE ReceiversCloseOnce /\ LastTracerClosesReceivers
  OBVIOUS
<1>1. ReceiversCloseOnce
  BY DEF PoolInv, Holders, ReceiversCloseOnce
<1>2. LastTracerClosesReceivers
  BY DEF PoolInv, LastTracerClosesReceivers, InPool
<1> QED
  BY <1>1, <1>2

\* What a step does to the receivers of a pool in use.
LEMMA PoolStepStays ==
  ASSUME PoolInv, PoolInv', [PoolNext]_poolVars, NEW r \in Receivers,
         r \in Range(curReceivers), r \notin Range(curReceivers')
  PROVE  \/ receivers'[r].removed
         \/ hookRan' # hookRan
         \/ \A t \in PoolTracers : builds'[t].pc \notin {"loading", "ready"}
<1>1. CASE curReceivers' = curReceivers
  BY <1>1
<1>2. ASSUME NEW t \in PoolTracers, addTracer(t) \/ loadReceiverType(t) \/ built(t) \/ callerAdds
             PROVE r \in Range(curReceivers')
  <2>1. CASE curReceivers' = curReceivers
    BY <2>1
  <2>2. CASE \E c : addReceiver(c)
    <3>1. curReceivers' = Append(curReceivers, Len(receivers')) /\ curReceivers \in Seq(Nat)
          /\ Len(receivers') \in Nat
      <4>1. Len(receivers) \in Nat /\ Receivers = 1..Len(receivers)
            /\ curReceivers \in Seq(Receivers)
        BY ReceiverNumbers DEF PoolInv, PoolTypes
      <4>2. Receivers \subseteq Nat
        BY <4>1
      <4>3. curReceivers \in Seq(Nat)
        BY <4>1, <4>2, SeqSuperset
      <4>4. receivers' \in Seq(ReceiverRecords)
        BY DEF PoolInv, PoolTypes
      <4>5. Len(receivers') \in Nat
        BY <4>4, SeqFacts
      <4> QED
        BY <2>2, <4>3, <4>5 DEF addReceiver
    <3> QED
      BY <3>1, InAppend
  <2> QED
    BY <1>2, <2>1, <2>2 DEF addTracer, loadReceiverType, built, callerAdds
<1>3. ASSUME NEW t \in PoolTracers, closeTracer(t), curReceivers' # curReceivers
      PROVE  \A x \in PoolTracers : builds'[x].pc \notin {"loading", "ready"}
  <2>1. curTracers' = {}
    BY <1>3 DEF closeTracer
  <2> QED
    BY <2>1 DEF PoolInv, InPool
<1>4. ASSUME NEW x \in Receivers, removeReceiver(x) PROVE receivers'[r].removed
  BY <1>4, RemoveReceiverFacts
<1>5. CASE shutdownHook
  BY <1>5 DEF shutdownHook
<1>6. CASE closeNext \/ getReceivers \/ receiveSpan \/ UNCHANGED poolVars
      \/ \E x \in Receivers : closeRemoved(x)
  BY <1>1, <1>6 DEF closeNext, getReceivers, receiveSpan, poolVars, closeRemoved
<1>7. CASE callerAdds
  <2>1. PICK t \in PoolTracers : TRUE
    BY <1>7 DEF callerAdds
  <2> QED
    BY <1>2, <1>7, <2>1
<1> QED
  BY <1>1, <1>2, <1>3, <1>4, <1>5, <1>6, <1>7 DEF PoolNext
-----------------------------------------------------------------------------
(* The hash table *)

Capacities == 1..(4 * (MaxPuts + 1))
Pairs == HtKeys \X Nat

Slot(k, c, n) == (HtHash(k, c) + n) % c

Filled(e, c) == {i \in 0..(c - 1) : e[i] # NULL}

\* A table of c slots in which no pair is twice.
IsTable(e, c) ==
  /\ e \in [0..(c - 1) -> {NULL} \cup Pairs]
  /\ \A i, j \in Filled(e, c) : e[i] = e[j] => i = j

\* From where its key hashes to, no empty slot comes before the slot of a pair.
Reachable(e, c) ==
  \A i \in Filled(e, c) : \E n \in 0..(c - 1) :
    Slot(e[i][1], c, n) = i /\ \A m \in 0..(n - 1) : e[Slot(e[i][1], c, m)] # NULL

PairsOf(e, c) == {e[i] : i \in Filled(e, c)}

\* A pair has a key and a value, and is not NULL.
LEMMA PairFacts ==
  ASSUME NEW p \in Pairs
  PROVE  p[1] \in HtKeys /\ p[2] \in Nat /\ p # NULL /\ p = <<p[1], p[2]>>
<1>1. p[1] \in HtKeys /\ p[2] \in Nat /\ p = <<p[1], p[2]>>
  BY DEF Pairs
<1>2. \A k, v : <<k, v>> # <<>>
  OBVIOUS
<1> QED
  BY <1>1, <1>2 DEF NULL

\* From the place of its hash, a probe of as many slots as there are meets every slot once.
LEMMA SlotFacts ==
  ASSUME NEW k \in HtKeys, NEW c \in Capacities
  PROVE  /\ c \in Nat /\ c >= 1
         /\ \A n \in 0..(c - 1) : Slot(k, c, n) \in 0..(c - 1)
         /\ \A n, m \in 0..(c - 1) : Slot(k, c, n) = Slot(k, c, m) => n = m
         /\ \A i \in 0..(c - 1) : \E n \in 0..(c - 1) : Slot(k, c, n) = i
<1>1. c \in Nat /\ c >= 1
  BY HTableAssumption DEF Capacities
<1>2. PICK h \in 0..(c - 1) : h = HtHash(k, c)
  BY HTableAssumption DEF Capacities
<1>3. \A n \in 0..(c - 1) : Slot(k, c, n) = IF h + n < c THEN h + n ELSE h + n - c
  <2> TAKE n \in 0..(c - 1)
  <2>1. (h + n) % c = IF h + n < c THEN h + n ELSE h + n - c
    BY <1>1
  <2> QED
    BY <1>2, <2>1 DEF Slot
<1>4. \A n \in 0..(c - 1) : Slot(k, c, n) \in 0..(c - 1)
  BY <1>1, <1>3
<1>5. \A n, m \in 0..(c - 1) : Slot(k, c, n) = Slot(k, c, m) => n = m
  BY <1>1, <1>3
<1>6. ASSUME NEW i \in 0..(c - 1) PROVE \E n \in 0..(c - 1) : Slot(k, c, n) = i
  <2> DEFINE n == IF i >= h THEN i - h ELSE i - h + c
  <2>1. n \in 0..(c - 1) /\ (IF h + n < c THEN h + n ELSE h + n - c) = i
    BY <1>1
  <2> HIDE DEF n
  <2> QED
    BY <1>3, <2>1
<1> QED
  BY <1>1, <1>4, <1>5, <1>6

\* The capacity of a table, and what Probe gives in it.
LEMMA CapacityIs ==
  ASSUME NEW c \in Nat \ {0}, NEW e, DOMAIN e = 0..(c - 1)
  PROVE  Capacity(e) = c /\ \A k, n : Probe(e, k, n) = Slot(k, c, n)
<1>1. Cardinality(0..(c - 1)) = c
  BY FS_Interval
<1> QED
  BY <1>1 DEF Capacity, Probe, Slot

\* The filled slots are finitely many.
LEMMA FilledFacts ==
  ASSUME NEW c \in Nat, NEW e
  PROVE  IsFiniteSet(Filled(e, c)) /\ Cardinality(Filled(e, c)) \in Nat
<1>1. IsFiniteSet(0..(c - 1))
  BY FS_Interval
<1>2. Filled(e, c) \in SUBSET (0..(c - 1))
  BY DEF Filled
<1> QED
  BY <1>1, <1>2, FS_Subset, FS_CardinalityType

\* A search comes to an empty slot: the first one is there.
LEMMA FirstEmptyIs ==
  ASSUME NEW c \in Capacities, NEW e, IsTable(e, c), NEW k \in HtKeys, Cardinality(Filled(e, c)) < c
  PROVE  /\ FirstEmpty(e, k) \in 0..(c - 1) /\ e[Slot(k, c, FirstEmpty(e, k))] = NULL
         /\ \A m \in 0..(c - 1) : m < FirstEmpty(e, k) => e[Slot(k, c, m)] # NULL
<1>1. c \in Nat \ {0} /\ DOMAIN e = 0..(c - 1)
  BY SlotFacts, SMTT(30) DEF IsTable
<1>2. \E i \in 0..(c - 1) : e[i] = NULL
  <2>1. CASE Filled(e, c) = 0..(c - 1)
    <3>1. Cardinality(Filled(e, c)) = c
      BY <1>1, <2>1, FS_Interval, SMTT(30)
    <3> QED
      BY <1>1, <3>1
  <2> QED
    BY <2>1 DEF Filled
<1> DEFINE I == {n \in 0..(c - 1) : e[Slot(k, c, n)] = NULL}
<1>3. I # {} /\ I \in SUBSET Nat
  <2>1. PICK i \in 0..(c - 1) : e[i] = NULL
    BY <1>2
  <2>2. PICK n \in 0..(c - 1) : Slot(k, c, n) = i
    BY SlotFacts
  <2> QED
    BY <1>1, <2>1, <2>2, SMTT(30)
<1>4. FirstEmpty(e, k) = CHOOSE x \in I : \A y \in I : x <= y
  <2>1. {n \in 0..(Capacity(e) - 1) : e[Probe(e, k, n)] = NULL} = I
    BY <1>1, CapacityIs, SMTT(30)
  <2> QED
    BY <2>1 DEF FirstEmpty, Min
<1>5. PICK x \in I : \A y \in I : x <= y
  BY <1>3, LeastNat
<1>6. FirstEmpty(e, k) \in I /\ \A y \in I : FirstEmpty(e, k) <= y
  BY <1>4, <1>5
<1> QED
  BY <1>1, <1>6, SMTT(30)

\* Inserting a new pair takes one empty slot, and hides no other pair.
LEMMA Inserted ==
  ASSUME NEW c \in Capacities, NEW e, IsTable(e, c), Cardinality(Filled(e, c)) < c,
         NEW p \in Pairs, p \notin PairsOf(e, c)
  PROVE  /\ IsTable(insert_internal(e, p), c)
         /\ PairsOf(insert_internal(e, p), c) = PairsOf(e, c) \cup {p}
         /\ Cardinality(Filled(insert_internal(e, p), c)) = Cardinality(Filled(e, c)) + 1
         /\ Reachable(e, c) => Reachable(insert_internal(e, p), c)
<1>1. c \in Nat \ {0} /\ DOMAIN e = 0..(c - 1) /\ p[1] \in HtKeys /\ p # NULL
  <2>1. p[1] \in HtKeys /\ p # NULL
    BY PairFacts
  <2>2. c \in Nat /\ c >= 1
    BY <2>1, SlotFacts
  <2>3. DOMAIN e = 0..(c - 1)
    BY DEF IsTable
  <2> QED
    BY <2>1, <2>2, <2>3
<1>2. PICK n \in 0..(c - 1) : n = FirstEmpty(e, p[1])
  BY <1>1, FirstEmptyIs
<1>3. PICK s \in 0..(c - 1) : s = Slot(p[1], c, n)
  BY <1>1, SlotFacts
<1>4. e[s] = NULL /\ \A m \in 0..(n - 1) : e[Slot(p[1], c, m)] # NULL
  <2>1. \A m \in 0..(n - 1) : m \in 0..(c - 1) /\ m < n
    BY <1>1
  <2> QED
    BY <1>1, <1>2, <1>3, <2>1, FirstEmptyIs, SMTT(30)
<1>5. PICK f : f = insert_internal(e, p)
  OBVIOUS
<1>6. f = [e EXCEPT ![s] = p]
  <2>1. Probe(e, p[1], n) = Slot(p[1], c, n)
    BY <1>1, CapacityIs, SMTT(30)
  <2>2. Probe(e, p[1], FirstEmpty(e, p[1])) = s
    BY <1>2, <1>3, <2>1
  <2> QED
    BY <1>5, <2>2 DEF insert_internal
<1>7. f \in [0..(c - 1) -> {NULL} \cup Pairs]
      /\ \A i \in 0..(c - 1) : f[i] = IF i = s THEN p ELSE e[i]
  BY <1>6 DEF IsTable
<1>8. Filled(f, c) = Filled(e, c) \cup {s} /\ s \notin Filled(e, c)
  BY <1>1, <1>4, <1>7 DEF Filled
<1>9. IsTable(f, c)
  <2>1. \A i, j \in Filled(f, c) : f[i] = f[j] => i = j
    <3> SUFFICES ASSUME NEW i \in Filled(f, c), NEW j \in Filled(f, c), f[i] = f[j] PROVE i = j
      OBVIOUS
    <3>1. i \in 0..(c - 1) /\ j \in 0..(c - 1)
      BY DEF Filled
    <3>2. \A x \in Filled(e, c) : e[x] # p
      BY DEF PairsOf
    <3> QED
      BY <1>7, <1>8, <3>1, <3>2 DEF IsTable
  <2> QED
    BY <1>7, <2>1 DEF IsTable
<1>10. PairsOf(f, c) = PairsOf(e, c) \cup {p}
  <2>1. \A i \in Filled(e, c) : f[i] = e[i]
    BY <1>4, <1>7 DEF Filled
  <2>2. f[s] = p
    BY <1>7
  <2> QED
    BY <1>8, <2>1, <2>2, ZenonT(60) DEF PairsOf
<1>11. Cardinality(Filled(f, c)) = Cardinality(Filled(e, c)) + 1
  BY <1>1, <1>8, FilledFacts, FS_AddElement
<1>12. ASSUME Reachable(e, c) PROVE Reachable(f, c)
  <2>0. \A i \in 0..(c - 1) : e[i] # NULL => f[i] # NULL
    BY <1>1, <1>7
  <2>1. ASSUME NEW i \in Filled(f, c)
        PROVE  \E l \in 0..(c - 1) : Slot(f[i][1], c, l) = i
               /\ \A m \in 0..(l - 1) : f[Slot(f[i][1], c, m)] # NULL
    <3>1. CASE i = s
      <4>1. f[i] = p /\ \A m \in 0..(n - 1) : Slot(p[1], c, m) \in 0..(c - 1)
        <5>1. f[i] = p
          BY <1>7, <3>1
        <5>2. \A m \in 0..(n - 1) : m \in 0..(c - 1)
          BY <1>1
        <5> QED
          BY <1>1, <5>1, <5>2, SlotFacts
      <4> QED
        BY <1>3, <1>4, <2>0, <3>1, <4>1
    <3>2. CASE i # s
      <4>1. i \in Filled(e, c) /\ f[i] = e[i] /\ e[i] \in Pairs
        BY <1>7, <1>8, <3>2 DEF Filled, IsTable
      <4>2. PICK l \in 0..(c - 1) : Slot(e[i][1], c, l) = i
                 /\ \A m \in 0..(l - 1) : e[Slot(e[i][1], c, m)] # NULL
        BY <1>12, <4>1 DEF Reachable
      <4>3. \A m \in 0..(l - 1) : Slot(e[i][1], c, m) \in 0..(c - 1)
        <5>1. e[i][1] \in HtKeys /\ \A m \in 0..(l - 1) : m \in 0..(c - 1)
          BY <1>1, <4>1 DEF Pairs
        <5> QED
          BY <5>1, SlotFacts
      <4> QED
        BY <2>0, <4>1, <4>2, <4>3
    <3> QED
      BY <3>1, <3>2
  <2> QED
    BY <2>1 DEF Reachable
<1> QED
  BY <1>5, <1>9, <1>10, <1>11, <1>12

\* Enlarging a table keeps its pairs, and every pair can be found in the new one.
LEMMA Reallocated ==
  ASSUME NEW c \in Nat \ {0}, 2 * c \in Capacities, NEW e, IsTable(e, c), Cardinality(Filled(e,
         c)) < 2 * c
  PROVE  /\ IsTable(realloc(e), 2 * c) /\ Reachable(realloc(e), 2 * c)
         /\ PairsOf(realloc(e), 2 * c) = PairsOf(e, c)
         /\ Cardinality(Filled(realloc(e), 2 * c)) = Cardinality(Filled(e, c))
<1>0. PICK d \in Nat \ {0} : d = 2 * c /\ d \in Capacities /\ c < d
  OBVIOUS
<1> DEFINE none == [j \in 0..(2 * c - 1) |-> NULL]
           B(f, i) == IF i = 0 THEN none ELSE IF e[i - 1] = NULL THEN f[i - 1]
             ELSE insert_internal(f[i - 1], e[i - 1])
           P(f) == f = [i \in 0..c |-> IF i = 0 THEN none
             ELSE IF e[i - 1] = NULL THEN f[i - 1] ELSE insert_internal(f[i - 1], e[i - 1])]
           to == CHOOSE f : P(f)
<1>1. DOMAIN e = 0..(c - 1) /\ Capacity(e) = c
  BY CapacityIs DEF IsTable
<1>2. realloc(e) = to[c]
  <2> DEFINE PP(f) == f = [i \in 0..Capacity(e) |-> IF i
             = 0 THEN [j \in 0..(2 * Capacity(e) - 1) |-> NULL]
               ELSE IF e[i - 1] = NULL THEN f[i - 1] ELSE insert_internal(f[i - 1], e[i - 1])]
  <2>1. realloc(e) = (CHOOSE f : PP(f))[Capacity(e)]
    BY DEF realloc
  <2> QED
    BY <1>1, <2>1
\* There is such a function.
<1>3. \E f : P(f)
  <2> HIDE DEF none
  <2> DEFINE A == {n \in Nat : \E f : DOMAIN f = 0..n /\ \A i \in 0..n : f[i] = B(f, i)}
  <2>1. 0 \in A
    <3> DEFINE f == [i \in 0..0 |-> none]
    <3>1. DOMAIN f = 0..0 /\ \A i \in 0..0 : f[i] = B(f, i)
      OBVIOUS
    <3> QED
      BY <3>1
  <2>2. ASSUME NEW n \in Nat, n \in A PROVE n + 1 \in A
    <3>1. PICK g : DOMAIN g = 0..n /\ \A i \in 0..n : g[i] = B(g, i)
      BY <2>2
    <3> DEFINE f == [i \in 0..(n + 1) |-> IF i <= n THEN g[i] ELSE B(g, n + 1)]
    <3>2. DOMAIN f = 0..(n + 1)
      OBVIOUS
    <3>3. \A i \in 0..n : f[i] = g[i]
      OBVIOUS
    <3>4. f[n + 1] = B(g, n + 1)
      OBVIOUS
    <3> HIDE DEF f
    <3>5. ASSUME NEW i \in 0..(n + 1) PROVE f[i] = B(f, i)
      <4>1. i # 0 => i - 1 \in 0..n
        OBVIOUS
      <4>2. B(f, i) = B(g, i)
        BY <3>3, <4>1
      <4>3. i \in 0..n \/ i = n + 1
        OBVIOUS
      <4> HIDE DEF B
      <4> QED
        BY <3>1, <3>3, <3>4, <4>2, <4>3
    <3> QED
      BY <3>2, <3>5, SMTT(30)
  <2>3. c \in A
    <3> HIDE DEF A
    <3> QED
      BY <2>1, <2>2, Induct
  <2>4. PICK f : DOMAIN f = 0..c /\ \A i \in 0..c : f[i] = B(f, i)
    BY <2>3
  <2> DEFINE g == [i \in 0..c |-> f[i]]
  <2>5. \A i \in 0..c : g[i] = f[i]
    OBVIOUS
  <2>6. \A i \in 0..c : B(g, i) = B(f, i)
    <3> TAKE i \in 0..c
    <3>1. i # 0 => i - 1 \in 0..c
      OBVIOUS
    <3> HIDE DEF g
    <3> QED
      BY <2>5, <3>1
  <2>7. g = [i \in 0..c |-> B(g, i)]
    <3>1. \A i \in 0..c : f[i] = B(g, i)
      BY <2>4, <2>6
    <3> HIDE DEF B
    <3> QED
      BY <3>1
  <2>8. P(g)
    BY <2>7
  <2> QED
    BY <2>8
<1>4. \A i \in 0..c : to[i] = B(to, i)
  <2> HIDE DEF P
  <2>1. P(to)
    BY <1>3
  <2> HIDE DEF to
  <2> QED
    BY <2>1 DEF P
<1> HIDE DEF to
\* After i slots, the new table has the pairs of these.
<1> DEFINE Prefix(i) == {x \in Filled(e, c) : x < i}
           Good(i) == /\ IsTable(to[i], d) /\ Reachable(to[i], d)
                      /\ PairsOf(to[i], d) = {e[x] : x \in Prefix(i)}
                      /\ Cardinality(Filled(to[i], d)) = Cardinality(Prefix(i))
<1>5. \A i \in Nat : IsFiniteSet(Prefix(i))
      /\ Cardinality(Prefix(i)) <= Cardinality(Filled(e, c)) /\ Cardinality(Prefix(i)) \in Nat
  <2> TAKE i \in Nat
  <2>1. IsFiniteSet(Filled(e, c)) /\ Prefix(i) \in SUBSET Filled(e, c)
    BY FilledFacts
  <2> QED
    BY <2>1, FS_Subset, FS_CardinalityType
<1>6. Good(0)
  <2>1. to[0] = [j \in 0..(d - 1) |-> NULL]
    <3>1. 0 \in 0..c
      BY <1>0
    <3>2. \A f : B(f, 0) = none
      OBVIOUS
    <3> HIDE DEF B, none
    <3>3. to[0] = none
      BY ONLY <1>4, <3>1, <3>2
    <3> QED
      BY ONLY <1>0, <3>3 DEF none
  <2>2. Filled(to[0], d) = {} /\ Prefix(0) = {}
    BY <2>1, SMTT(30) DEF Filled
  <2>3. IsTable(to[0], d)
    BY <2>1, <2>2 DEF IsTable
  <2>4. Reachable(to[0], d) /\ PairsOf(to[0], d) = {}
    BY <2>2 DEF Reachable, PairsOf
  <2>5. Cardinality(Filled(to[0], d)) = Cardinality(Prefix(0)) /\ {e[x] : x \in Prefix(0)} = {}
    BY <2>2
  <2> QED
    BY <2>3, <2>4, <2>5
<1>7. ASSUME NEW i \in 0..(c - 1), Good(i) PROVE Good(i + 1)
  <2>1. i + 1 \in 0..c /\ i + 1 # 0 /\ (i + 1) - 1 = i /\ i \in Nat /\ i + 1 \in Nat
    OBVIOUS
  <2>2. to[i + 1] = IF e[i] = NULL THEN to[i] ELSE insert_internal(to[i], e[i])
    BY <1>4, <2>1
  <2>3. CASE e[i] = NULL
    <3>1. Prefix(i + 1) = Prefix(i)
      BY <2>3 DEF Filled
    <3>2. to[i + 1] = to[i]
      BY <2>2, <2>3
    <3> HIDE DEF Prefix
    <3> QED
      BY <1>7, <3>1, <3>2
  <2>4. CASE e[i] # NULL
    <3>1. Prefix(i + 1) = Prefix(i) \cup {i} /\ i \notin Prefix(i) /\ i \in Filled(e, c)
      BY <2>4 DEF Filled
    <3>2. e[i] \in Pairs
      BY <2>4 DEF IsTable
    <3>3. e[i] \notin {e[x] : x \in Prefix(i)}
      <4>1. \A x \in Prefix(i) : x \in Filled(e, c) /\ x # i
        OBVIOUS
      <4> QED
        BY <3>1, <4>1 DEF IsTable
    <3>4. Cardinality(Prefix(i + 1)) = Cardinality(Prefix(i)) + 1
      <4>1. IsFiniteSet(Prefix(i))
        BY <1>5, <2>1
      <4> HIDE DEF Prefix
      <4> QED
        BY <3>1, <4>1, FS_AddElement
    <3>5. Cardinality(Filled(to[i], d)) < d
      <4>1. Cardinality(Prefix(i)) <= Cardinality(Filled(e, c)) /\ Cardinality(Prefix(i)) \in Nat
        BY <1>5, <2>1
      <4>2. Cardinality(Filled(e, c)) \in Nat /\ Cardinality(Filled(e, c)) < d
        BY <1>0, FilledFacts
      <4>3. Cardinality(Filled(to[i], d)) = Cardinality(Prefix(i))
        BY <1>7
      <4> HIDE DEF Prefix
      <4> QED
        BY <1>0, <4>1, <4>2, <4>3
    <3>6. {e[x] : x \in Prefix(i + 1)} = {e[x] : x \in Prefix(i)} \cup {e[i]}
      BY <3>1
    <3>7. to[i + 1] = insert_internal(to[i], e[i])
      BY <2>2, <2>4
    <3>8. e[i] \notin PairsOf(to[i], d) /\ IsTable(to[i], d) /\ Reachable(to[i], d)
      BY <1>7, <3>3
    <3>9. /\ IsTable(to[i + 1], d) /\ Reachable(to[i + 1], d)
          /\ PairsOf(to[i + 1], d) = PairsOf(to[i], d) \cup {e[i]}
          /\ Cardinality(Filled(to[i + 1], d)) = Cardinality(Filled(to[i], d)) + 1
      BY <1>0, <3>2, <3>5, <3>7, <3>8, Inserted, SMTT(30)
    <3> HIDE DEF Prefix
    <3> QED
      BY <1>7, <3>4, <3>6, <3>9
  <2> QED
    BY <2>3, <2>4
<1>8. Good(c)
  <2> DEFINE A == {n \in Nat : n <= c => Good(n)}
  <2> HIDE DEF Good
  <2>1. 0 \in A
    BY <1>6
  <2>2. ASSUME NEW n \in Nat, n \in A PROVE n + 1 \in A
    <3>1. ASSUME n + 1 <= c PROVE Good(n + 1)
      <4>1. n \in 0..(c - 1) /\ n <= c
        BY <3>1
      <4> QED
        BY <1>7, <2>2, <4>1
    <3> QED
      BY <3>1
  <2>3. c \in A
    <3> HIDE DEF A
    <3> QED
      BY <2>1, <2>2, Induct
  <2> QED
    BY <2>3
<1>9. Prefix(c) = Filled(e, c)
  BY DEF Filled
<1> HIDE DEF Prefix
<1> QED
  BY <1>0, <1>2, <1>8, <1>9 DEF PairsOf

PutPairs == {<<puts[v], v>> : v \in DOMAIN puts}

\* Tables have an even capacity 2h, which grows with the number of puts only.
TableOf(h) ==
  /\ h >= 2 /\ 2 * h \in Capacities /\ (h = 2 \/ h <= 2 * Len(puts))
  /\ IsTable(elem, 2 * h)
  /\ used = Cardinality(Filled(elem, 2 * h)) /\ used < h /\ used <= Len(puts)
  /\ PairsOf(elem, 2 * h) \subseteq PutPairs
  /\ ~removed => Reachable(elem, 2 * h) /\ PairsOf(elem, 2 * h) = PutPairs

HTableInv ==
  /\ puts \in Seq(HtKeys) /\ Len(puts) <= MaxPuts /\ used \in Nat /\ removed \in BOOLEAN
  /\ \E h \in Nat : TableOf(h)

\* The invariant holds at first.
LEMMA HTableInitInv == HTableInit => HTableInv
<1> SUFFICES ASSUME HTableInit PROVE HTableInv
  OBVIOUS
<1>1. /\ elem = [i \in 0..3 |-> NULL] /\ used = 0 /\ puts = <<>> /\ removed = FALSE /\ Len(puts) = 0
  BY DEF HTableInit, HTABLE_MIN_SIZE
<1>2. Filled(elem, 4) = {} /\ DOMAIN puts = {}
  BY <1>1 DEF Filled
<1>3. IsTable(elem, 4)
  BY <1>1, <1>2 DEF IsTable
<1>4. Reachable(elem, 4) /\ PairsOf(elem, 4) = {} /\ PutPairs = {}
  BY <1>2 DEF Reachable, PairsOf, PutPairs
<1>5. 4 \in Capacities /\ 2 * 2 = 4
  BY HTableAssumption DEF Capacities
<1>6. TableOf(2)
  BY <1>1, <1>2, <1>3, <1>4, <1>5, FS_EmptySet, SMTT(30) DEF TableOf
<1>7. puts \in Seq(HtKeys)
  BY <1>1, EmptySeqFacts
<1>8. Len(puts) <= MaxPuts /\ used \in Nat /\ removed \in BOOLEAN
  <2>1. Len(puts) <= MaxPuts
    <3>1. MaxPuts \in Nat
      BY HTableAssumption
    <3> QED
      BY <1>1, <3>1
  <2>2. used \in Nat
    BY <1>1
  <2>3. removed \in BOOLEAN
    BY <1>1
  <2> QED
    BY <2>1, <2>2, <2>3
<1>9. \E h \in Nat : TableOf(h)
  BY <1>6
<1> QED
  BY <1>7, <1>8, <1>9 DEF HTableInv

\* A pair is put into the first empty slot, after an enlargement if it would be half full.
LEMMA TablePutKeeps ==
  ASSUME HTableInv, NEW k \in HtKeys, htable_put(k)
  PROVE  HTableInv'
<1>1. PICK h \in Nat : TableOf(h)
  BY DEF HTableInv
<1>2. PICK n \in Nat : n = Len(puts) /\ n < MaxPuts /\ MaxPuts \in Nat
  BY SeqIsFcn, HTableAssumption DEF HTableInv, htable_put
<1>3. /\ puts' = Append(puts, k) /\ puts' \in Seq(HtKeys) /\ Len(puts') = n + 1 /\ puts'[n + 1] = k
      /\ \A v \in 1..n : puts'[v] = puts[v]
  BY <1>2, AppendFacts, SMTT(30) DEF HTableInv, htable_put
<1>4. DOMAIN puts = 1..n /\ DOMAIN puts' = 1..(n + 1)
  BY <1>2, <1>3, SeqIsFcn DEF HTableInv
<1>5. PutPairs' = PutPairs \cup {<<k, n + 1>>}
  <2>1. 1..(n + 1) = 1..n \cup {n + 1}
    OBVIOUS
  <2>2. PutPairs' = {<<puts'[v], v>> : v \in 1..(n + 1)} /\ PutPairs = {<<puts[v], v>> : v \in 1..n}
    BY <1>4 DEF PutPairs
  <2> QED
    BY <1>3, <2>1, <2>2
<1> DEFINE p == <<k, n + 1>>
<1>6. p \in Pairs /\ p \notin PutPairs
  <2>1. \A v \in 1..n : v # n + 1
    OBVIOUS
  <2> QED
    BY <1>4, <2>1 DEF Pairs, PutPairs
<1>7. h >= 2 /\ used \in Nat /\ used < h /\ 2 * h \in Capacities /\ IsTable(elem, 2 * h)
      /\ used = Cardinality(Filled(elem, 2 * h))
  BY <1>1 DEF HTableInv, TableOf
<1>8. Capacity(elem) = 2 * h /\ (2 * h) \div 2 = h
  <2>1. 2 * h \in Nat \ {0} /\ DOMAIN elem = 0..(2 * h - 1)
    BY <1>7, SMTT(30) DEF IsTable
  <2>2. Capacity(elem) = 2 * h
    BY <2>1, CapacityIs
  <2> QED
    BY <2>2
<1>9. /\ elem' = insert_internal(IF used + 1 >= h THEN realloc(elem) ELSE elem, p)
      /\ used' = used + 1 /\ removed' = removed
  BY <1>3, <1>8 DEF htable_put, needsRoom
<1> HIDE DEF p
\* The table into which the pair goes.
<1> DEFINE Into(g, e) ==
      /\ elem' = insert_internal(e, p) /\ g >= 2 /\ 2 * g \in Capacities
      /\ g = 2 \/ g <= 2 * (n + 1)
      /\ used + 1 < g
      /\ IsTable(e, 2 * g) /\ Cardinality(Filled(e, 2 * g)) = used
      /\ PairsOf(e, 2 * g) = PairsOf(elem, 2 * h)
      /\ ~removed => Reachable(e, 2 * g)
<1>10. \E g \in Nat : \E e : Into(g, e)
  <2>1. CASE used + 1 >= h
    <3>1. used <= n /\ h = used + 1
      BY <1>1, <1>2, <1>7, <2>1 DEF TableOf
    <3>2. 2 * h \in Nat /\ 2 * (2 * h) \in Capacities
      BY <1>2, <1>7, <3>1 DEF Capacities
    <3>3. Cardinality(Filled(elem, 2 * h)) < 2 * (2 * h)
      BY <1>7
    <3>4. /\ IsTable(realloc(elem), 2 * (2 * h)) /\ Reachable(realloc(elem), 2 * (2 * h))
          /\ PairsOf(realloc(elem), 2 * (2 * h)) = PairsOf(elem, 2 * h)
          /\ Cardinality(Filled(realloc(elem), 2 * (2 * h))) = Cardinality(Filled(elem, 2 * h))
      <4>1. 2 * h \in Nat \ {0}
        BY <1>7
      <4> QED
        BY <1>7, <3>2, <3>3, <4>1, Reallocated
    <3>5. elem' = insert_internal(realloc(elem), p)
      BY <1>9, <2>1
    <3>6. 2 * h >= 2 /\ 2 * h <= 2 * (n + 1) /\ used + 1 < 2 * h
      BY <1>2, <1>7, <3>1
    <3> QED
      BY <1>7, <3>2, <3>4, <3>5, <3>6
  <2>2. CASE ~(used + 1 >= h)
    <3>1. elem' = insert_internal(elem, p) /\ used + 1 < h
      BY <1>7, <1>9, <2>2
    <3>2. (h = 2 \/ h <= 2 * n) /\ (~removed => Reachable(elem, 2 * h))
      BY <1>1, <1>2 DEF TableOf
    <3>3. h = 2 \/ h <= 2 * (n + 1)
      BY <3>2
    <3> QED
      BY <1>7, <3>1, <3>2, <3>3
  <2> QED
    BY <2>1, <2>2
<1>11. PICK g \in Nat : \E e : Into(g, e)
  BY <1>10
<1>111. PICK e : Into(g, e)
  BY <1>11
<1>12. PairsOf(elem, 2 * h) \subseteq PutPairs /\ (~removed => PairsOf(elem, 2 * h) = PutPairs)
  BY <1>1 DEF TableOf
<1>13. p \notin PairsOf(e, 2 * g) /\ Cardinality(Filled(e, 2 * g)) < 2 * g
  BY <1>6, <1>7, <1>11, <1>111, <1>12, SMTT(30)
<1>14. /\ IsTable(elem', 2 * g) /\ PairsOf(elem', 2 * g) = PairsOf(e, 2 * g) \cup {p}
       /\ Cardinality(Filled(elem', 2 * g)) = Cardinality(Filled(e, 2 * g)) + 1
       /\ Reachable(e, 2 * g) => Reachable(elem', 2 * g)
  BY <1>6, <1>11, <1>111, <1>13, Inserted
<1>15. TableOf(g)'
  <2>1. used' = Cardinality(Filled(elem', 2 * g)) /\ used' < g
    BY <1>9, <1>11, <1>111, <1>14
  <2>2. used' <= Len(puts') /\ (g = 2 \/ g <= 2 * Len(puts'))
    <3>1. used <= n
      BY <1>1, <1>2 DEF TableOf
    <3>2. g = 2 \/ g <= 2 * (n + 1)
      BY <1>111
    <3>3. Len(puts') = n + 1 /\ used' = used + 1
      BY <1>3, <1>9
    <3> HIDE DEF Into
    <3> QED
      BY <1>2, <1>7, <1>11, <3>1, <3>2, <3>3, SMTT(30)
  <2>3. PairsOf(elem', 2 * g) \subseteq PutPairs' /\ (~removed => PairsOf(elem', 2 * g) = PutPairs')
    BY <1>5, <1>11, <1>111, <1>12, <1>14 DEF p
  <2>4. ~removed => Reachable(elem', 2 * g)
    BY <1>11, <1>111, <1>14
  <2> QED
    BY <1>9, <1>11, <1>111, <1>14, <2>1, <2>2, <2>3, <2>4, ZenonT(30) DEF TableOf, Filled, IsTable,
       Reachable,
       PairsOf
<1>16. puts' \in Seq(HtKeys) /\ Len(puts') <= MaxPuts /\ used' \in Nat /\ removed' \in BOOLEAN
  BY <1>2, <1>3, <1>7, <1>9, SMTT(30) DEF HTableInv
<1> QED
  BY <1>15, <1>16 DEF HTableInv

\* What a search for k meets before an empty slot.
LEMMA FoundFacts ==
  ASSUME NEW c \in Capacities, IsTable(elem, c), Cardinality(Filled(elem, c)) < c, NEW k \in HtKeys
  PROVE  /\ Found(k) = {n \in 0..(c - 1) : Slot(k, c, n) \in Filled(elem, c)
            /\ elem[Slot(k, c, n)][1] = k}
         /\ Stop(k) \in 0..(c - 1) /\ elem[Slot(k, c, Stop(k))] = NULL
         /\ \A n \in 0..(c - 1) : n < Stop(k) => elem[Slot(k, c, n)] # NULL
         /\ get_internal(k) # {} => \E n \in Found(k) : n < Stop(k)
            /\ get_internal(k) = {Slot(k, c, n)}
         /\ (\E n \in Found(k) : n < Stop(k)) => get_internal(k) # {}
<1>1. c \in Nat \ {0} /\ DOMAIN elem = 0..(c - 1)
      /\ \A n \in 0..(c - 1) : Slot(k, c, n) \in 0..(c - 1)
  BY SlotFacts, SMTT(30) DEF IsTable
<1>2. Capacity(elem) = c /\ \A n : Probe(elem, k, n) = Slot(k, c, n)
  BY <1>1, CapacityIs, SMTT(30)
<1>3. Found(k) = {n \in 0..(c - 1) : Slot(k, c, n) \in Filled(elem, c)
      /\ elem[Slot(k, c, n)][1] = k}
  BY <1>1, <1>2 DEF Found, Filled
<1>4. /\ Stop(k) \in 0..(c - 1) /\ elem[Slot(k, c, Stop(k))] = NULL
      /\ \A n \in 0..(c - 1) : n < Stop(k) => elem[Slot(k, c, n)] # NULL
  BY FirstEmptyIs DEF Stop
<1>5. Found(k) \in SUBSET Nat
  BY <1>1, <1>3, SMTT(30)
<1>6. ASSUME Found(k) # {} PROVE Min(Found(k)) \in Found(k)
             /\ \A n \in Found(k) : Min(Found(k)) <= n
  <2>1. \E x \in Found(k) : \A y \in Found(k) : x <= y
    BY <1>5, <1>6, LeastNat
  <2> QED
    BY <2>1 DEF Min
<1>7. ASSUME get_internal(k) # {} PROVE \E n \in Found(k) : n < Stop(k)
             /\ get_internal(k) = {Slot(k, c, n)}
  <2>1. Found(k) # {} /\ Min(Found(k)) < Stop(k) /\ get_internal(k) = {Slot(k, c, Min(Found(k)))}
    BY <1>2, <1>7 DEF get_internal
  <2> QED
    BY <1>6, <2>1
<1>8. ASSUME NEW n \in Found(k), n < Stop(k) PROVE get_internal(k) # {}
  <2>1. Min(Found(k)) \in Nat /\ n \in Nat /\ Stop(k) \in Nat /\ Min(Found(k)) <= n
    BY <1>1, <1>4, <1>5, <1>6, SMTT(30)
  <2>2. Min(Found(k)) < Stop(k) /\ Found(k) # {}
    BY <1>8, <2>1
  <2> QED
    BY <2>2 DEF get_internal
<1> QED
  BY <1>3, <1>4, <1>7, <1>8

\* The pairs of the key move up by one, and the last of their slots becomes empty.
LEMMA TablePopKeeps ==
  ASSUME HTableInv, NEW k \in HtKeys, htable_pop(k)
  PROVE  HTableInv'
<1>1. PICK h \in Nat : TableOf(h)
  BY DEF HTableInv
<1>2. PICK c \in Capacities : c = 2 * h /\ c \in Nat /\ c >= 4
  BY <1>1 DEF TableOf
<1>3. IsTable(elem, c) /\ used \in Nat /\ used = Cardinality(Filled(elem, c))
      /\ Cardinality(Filled(elem, c)) < c /\ used < h
  BY <1>1, <1>2 DEF TableOf, HTableInv
<1>4. DOMAIN elem = 0..(c - 1) /\ Capacity(elem) = c /\ \A n : Probe(elem, k, n) = Slot(k, c, n)
  BY <1>2, <1>3, CapacityIs, SMTT(30) DEF IsTable
<1>5. /\ Found(k) = {n \in 0..(c - 1) : Slot(k, c, n) \in Filled(elem, c)
         /\ elem[Slot(k, c, n)][1] = k}
      /\ Stop(k) \in 0..(c - 1)
      /\ \E n \in Found(k) : n < Stop(k)
  BY <1>3, FoundFacts DEF htable_pop
<1>6. PICK M : M = {n \in Found(k) : n < Stop(k)}
  OBVIOUS
<1>7. M # {} /\ M \subseteq 0..(c - 1) /\ \A n \in M : Slot(k, c, n) \in Filled(elem, c)
  BY <1>5, <1>6
<1>7a. \A n \in M : n \in Nat /\ n < c
  <2>1. \A n \in 0..(c - 1) : n \in Nat /\ n < c
    BY <1>2
  <2> QED
    BY <1>7, <2>1
<1> DEFINE after(n) == {m \in M : m > n}
<1>8. elem' = [i \in DOMAIN elem |->
                 IF \E n \in M : Slot(k, c, n) = i
                 THEN LET n == CHOOSE m \in M : Slot(k, c, m) = i
                      IN  IF after(n) = {} THEN NULL ELSE elem[Slot(k, c, Min(after(n)))]
                 ELSE elem[i]]
  BY <1>4, <1>6 DEF htable_pop
<1>9. \A n, m \in 0..(c - 1) : Slot(k, c, n) = Slot(k, c, m) => n = m
  BY SlotFacts
<1>10. \A n \in 0..(c - 1) : Slot(k, c, n) \in 0..(c - 1)
  BY SlotFacts
<1>11. ASSUME NEW n \in M
       PROVE  elem'[Slot(k, c, n)] = IF after(n) = {} THEN NULL ELSE elem[Slot(k, c, Min(after(n)))]
  <2>1. Slot(k, c, n) \in DOMAIN elem
    BY <1>4, <1>7, <1>10
  <2>2. (CHOOSE m \in M : Slot(k, c, m) = Slot(k, c, n)) = n
    <3>1. \A m \in M : Slot(k, c, m) = Slot(k, c, n) => m = n
      BY <1>7, <1>9
    <3> QED
      BY <3>1
  <2> HIDE DEF after
  <2> QED
    BY <1>8, <2>1, <2>2
<1>12. ASSUME NEW i \in 0..(c - 1), \A n \in M : Slot(k, c, n) # i PROVE elem'[i] = elem[i]
  BY <1>4, <1>8, <1>12
<1>13. DOMAIN elem' = 0..(c - 1) /\ elem' = [i \in 0..(c - 1) |-> elem'[i]]
  BY <1>4, <1>8
<1>14. \A n \in M : after(n) # {} => Min(after(n)) \in M /\ Min(after(n)) > n
       /\ \A m \in M : m > n => Min(after(n)) <= m
  <2> SUFFICES ASSUME NEW n \in M, after(n) # {}
               PROVE  Min(after(n)) \in after(n) /\ \A m \in after(n) : Min(after(n)) <= m
    OBVIOUS
  <2>1. after(n) \in SUBSET Nat
    BY <1>7a
  <2> HIDE DEF after
  <2>2. \E x \in after(n) : \A y \in after(n) : x <= y
    BY <2>1, LeastNat
  <2> QED
    BY <2>2 DEF Min
\* One of the slots has none of them after it.
<1>15. PICK last \in M : after(last) = {} /\ \A n \in M : n # last => after(n) # {}
  <2> DEFINE T == {c - n : n \in M}
  <2>1. T # {} /\ T \in SUBSET Nat
    <3>1. \A n \in M : c - n \in Nat
      BY <1>2, <1>7a
    <3> QED
      BY <1>7, <3>1
  <2>2. PICK x \in T : \A y \in T : x <= y
    BY <2>1, LeastNat
  <2>3. PICK l \in M : x = c - l
    BY <2>2
  <2>4. \A n \in M : n <= l /\ n \in Nat
    <3> TAKE n \in M
    <3>1. c - n \in T /\ n \in Nat /\ l \in Nat
      BY <1>7a
    <3>2. c - l <= c - n
      BY <2>2, <2>3, <3>1
    <3> QED
      BY <1>2, <3>1, <3>2, SMTT(30)
  <2>5. after(l) = {} /\ \A n \in M : n # l => l \in after(n)
    BY <2>4
  <2> QED
    BY <2>5
\* Where the pair of a slot was.
<1> DEFINE src(i) == IF \E n \in M : Slot(k, c, n) = i
                     THEN Slot(k, c, Min(after(CHOOSE m \in M : Slot(k, c, m) = i))) ELSE i
<1>16. Filled(elem', c) = Filled(elem, c) \ {Slot(k, c, last)}
  <2>1. ASSUME NEW i \in 0..(c - 1) PROVE elem'[i] # NULL <=> elem[i] # NULL /\ i # Slot(k, c, last)
    <3>1. CASE \A n \in M : Slot(k, c, n) # i
      BY <1>12, <1>15, <3>1
    <3>2. CASE \E n \in M : Slot(k, c, n) = i
      <4>1. PICK n \in M : Slot(k, c, n) = i
        BY <3>2
      <4>2. elem[i] # NULL
        BY <1>7, <4>1 DEF Filled
      <4>3. CASE n = last
        BY <1>11, <1>15, <4>1, <4>3
      <4>4. CASE n # last
        <5>1. after(n) # {} /\ i # Slot(k, c, last)
          BY <1>7, <1>9, <1>15, <4>1, <4>4
        <5>2. Min(after(n)) \in M
          BY <1>14, <5>1
        <5> HIDE DEF after
        <5>3. elem'[i] = elem[Slot(k, c, Min(after(n)))]
          BY <1>11, <4>1, <5>1
        <5>4. elem[Slot(k, c, Min(after(n)))] # NULL
          BY <1>7, <5>2 DEF Filled
        <5> QED
          BY <4>2, <5>1, <5>3, <5>4
      <4> QED
        BY <4>3, <4>4
    <3> QED
      BY <3>1, <3>2
  <2> QED
    BY <2>1 DEF Filled
\* A pair of the new table was in a slot of the old one, other pairs in other slots.
<1>17. ASSUME NEW i \in Filled(elem', c)
       PROVE  \/ (\A n \in M : Slot(k, c, n) # i) /\ i \in Filled(elem, c) /\ elem'[i] = elem[i]
              \/ \E n, m \in M : /\ i = Slot(k, c, n) /\ n < m /\ elem'[i] = elem[Slot(k, c, m)]
                                 /\ \A l \in M : l > n => m <= l
  <2>1. i \in 0..(c - 1) /\ i \in Filled(elem, c) /\ i # Slot(k, c, last)
    BY <1>16 DEF Filled
  <2>2. CASE \A n \in M : Slot(k, c, n) # i
    BY <1>12, <2>1, <2>2
  <2>3. CASE \E n \in M : Slot(k, c, n) = i
    <3>1. PICK n \in M : Slot(k, c, n) = i
      BY <2>3
    <3>2. n # last
      BY <2>1, <3>1
    <3>3. after(n) # {}
      BY <1>15, <3>2
    <3>4. PICK m \in M : m = Min(after(n)) /\ m > n /\ \A l \in M : l > n => m <= l
      BY <1>14, <3>3
    <3>5. elem'[i] = elem[Slot(k, c, m)]
      <4> HIDE DEF after
      <4> QED
        BY <1>11, <3>1, <3>3, <3>4
    <3>6. n < m
      BY <1>2, <1>7, <3>4
    <3> QED
      BY <3>1, <3>4, <3>5, <3>6
  <2> QED
    BY <2>2, <2>3
<1> HIDE DEF after, src
<1>18. ASSUME NEW i \in Filled(elem', c), NEW j \in Filled(elem', c), elem'[i] = elem'[j]
              PROVE i = j
  <2>0. \A x, y \in Filled(elem, c) : elem[x] = elem[y] => x = y
    BY <1>3 DEF IsTable
  <2>1. CASE (\A n \in M : Slot(k, c, n) # i) /\ i \in Filled(elem, c) /\ elem'[i] = elem[i]
    <3>1. CASE (\A n \in M : Slot(k, c, n) # j) /\ j \in Filled(elem, c) /\ elem'[j] = elem[j]
      BY <1>18, <2>0, <2>1, <3>1
    <3>2. ASSUME NEW m \in M, elem'[j] = elem[Slot(k, c, m)] PROVE FALSE
      BY <1>7, <1>18, <2>0, <2>1, <3>2, ZenonT(30)
    <3> QED
      BY <1>17, <3>1, <3>2
  <2>2. ASSUME NEW n \in M, NEW m \in M, i = Slot(k, c, n), n < m, elem'[i] = elem[Slot(k, c, m)],
               \A l \in M : l > n => m <= l
        PROVE  i = j
    <3>1. CASE (\A l \in M : Slot(k, c, l) # j) /\ j \in Filled(elem, c) /\ elem'[j] = elem[j]
      BY <1>7, <1>18, <2>0, <2>2, <3>1
    <3>2. ASSUME NEW n2 \in M, NEW m2 \in M, j = Slot(k, c, n2), n2 < m2, elem'[j] = elem[Slot(k,
                 c, m2)],
                 \A l \in M : l > n2 => m2 <= l
          PROVE  i = j
      <4>1. Slot(k, c, m) = Slot(k, c, m2)
        BY <1>7, <1>18, <2>0, <2>2, <3>2
      <4>2. m = m2
        BY <1>7, <1>9, <4>1
      <4>3. n \in Nat /\ n2 \in Nat /\ m \in Nat
        BY <1>2, <1>7
      <4>4. n = n2
        BY <2>2, <3>2, <4>2, <4>3
      <4> QED
        BY <2>2, <3>2, <4>4
    <3> QED
      BY <1>17, <3>1, <3>2
  <2> QED
    BY <1>17, <2>1, <2>2
<1>19. \A i \in Filled(elem', c) : elem'[i] \in PairsOf(elem, c)
  BY <1>7, <1>17 DEF PairsOf
<1>20. IsTable(elem', c) /\ PairsOf(elem', c) \subseteq PairsOf(elem, c)
  <2>1. PairsOf(elem, c) \subseteq Pairs
    BY <1>3 DEF PairsOf, IsTable, Filled
  <2>2. \A i \in 0..(c - 1) : elem'[i] \in {NULL} \cup Pairs
    BY <1>19, <2>1 DEF Filled
  <2>3. elem' \in [0..(c - 1) -> {NULL} \cup Pairs]
    BY <1>13, <2>2
  <2> QED
    BY <1>18, <1>19, <2>3 DEF IsTable, PairsOf
<1>21. Cardinality(Filled(elem', c)) = Cardinality(Filled(elem, c)) - 1
  BY <1>2, <1>7, <1>15, <1>16, FilledFacts, FS_RemoveElement
<1>22. used' = used - 1 /\ removed' = TRUE /\ puts' = puts
  BY DEF htable_pop
<1>23. used >= 1
  <2>1. Filled(elem, c) # {} /\ IsFiniteSet(Filled(elem, c))
    BY <1>2, <1>7, FilledFacts
  <2>2. Cardinality(Filled(elem, c)) # 0
    BY <2>1, FS_EmptySet
  <2> QED
    BY <1>3, <2>2
<1>24. TableOf(h)'
  <2>1. h >= 2 /\ 2 * h \in Capacities /\ (h = 2 \/ h <= 2 * Len(puts)) /\ used <= Len(puts)
        /\ PairsOf(elem, 2 * h) \subseteq PutPairs
    BY <1>1 DEF TableOf
  <2>2. PutPairs' = PutPairs
    BY <1>22 DEF PutPairs
  <2>3. Len(puts) \in Nat
    BY SeqIsFcn DEF HTableInv
  <2>4. used' = Cardinality(Filled(elem', c)) /\ used' < h /\ used' <= Len(puts)
    BY <1>3, <1>21, <1>22, <2>1, <2>3, SMTT(30)
  <2>5. PairsOf(elem', c) \subseteq PutPairs'
    BY <1>2, <1>20, <2>1, <2>2
  <2> QED
    BY <1>2, <1>20, <1>22, <2>1, <2>4, <2>5 DEF TableOf, Filled, IsTable, PairsOf
<1> QED
  BY <1>3, <1>22, <1>23, <1>24 DEF HTableInv

\* Every step of the table, and a stutter, preserves the invariant.
LEMMA HTableStep == HTableInv /\ [HTableNext]_tableVars => HTableInv'
<1>1. ASSUME HTableInv, HTableNext PROVE HTableInv'
  BY <1>1, TablePutKeeps, TablePopKeeps DEF HTableNext
<1>2. ASSUME HTableInv, UNCHANGED tableVars PROVE HTableInv'
  <2>0. elem' = elem /\ used' = used /\ puts' = puts /\ removed' = removed
    BY <1>2 DEF tableVars
  <2>1. PICK h \in Nat : TableOf(h)
    BY <1>2 DEF HTableInv
  <2>2. TableOf(h)'
    <3>1. IsTable(elem', 2 * h) /\ Filled(elem', 2 * h) = Filled(elem, 2 * h)
          /\ PairsOf(elem', 2 * h) = PairsOf(elem, 2 * h)
          /\ (Reachable(elem', 2 * h) <=> Reachable(elem, 2 * h))
      BY <2>0, <2>1 DEF TableOf
    <3>2. PutPairs' = PutPairs
      BY <2>0 DEF PutPairs
    <3> QED
      BY <2>0, <2>1, <3>1, <3>2 DEF TableOf
  <2> QED
    BY <1>2, <2>0, <2>2 DEF HTableInv
<1> QED
  BY <1>1, <1>2

\* The invariant implies what the run checks: a search ends, it returns a value put for its key,
\* and until something is removed it finds every key that was put.
LEMMA HTableInvProperties == HTableInv => TableIsAFunction /\ SearchesStop
<1> SUFFICES ASSUME HTableInv PROVE TableIsAFunction /\ SearchesStop
  OBVIOUS
<1>1. PICK h \in Nat : TableOf(h)
  BY DEF HTableInv
<1>2. PICK c \in Capacities : c = 2 * h /\ c \in Nat \ {0}
  BY <1>1 DEF TableOf
<1>3. IsTable(elem, c) /\ used \in Nat /\ used = Cardinality(Filled(elem, c))
      /\ Cardinality(Filled(elem, c)) < c /\ used < h
  BY <1>1, <1>2 DEF TableOf, HTableInv
<1>4. DOMAIN elem = 0..(c - 1) /\ Capacity(elem) = c
  BY <1>2, <1>3, CapacityIs DEF IsTable
<1>5. PairsOf(elem, c) \subseteq PutPairs /\ (~removed => Reachable(elem, c)
      /\ PairsOf(elem, c) = PutPairs)
  BY <1>1, <1>2 DEF TableOf
<1>6. ASSUME NEW k \in HtKeys PROVE htable_get(k) \subseteq PutFor(k)
  <2> SUFFICES ASSUME NEW i \in get_internal(k) PROVE elem[i][2] \in PutFor(k)
    BY DEF htable_get
  <2>1. PICK n \in Found(k) : get_internal(k) = {Slot(k, c, n)}
    BY <1>3, FoundFacts, SMTT(30)
  <2>2. i \in Filled(elem, c) /\ elem[i][1] = k
    BY <1>3, <2>1, FoundFacts, SMTT(30)
  <2>3. elem[i] \in PutPairs
    BY <1>5, <2>2 DEF PairsOf
  <2>4. PICK v \in DOMAIN puts : elem[i] = <<puts[v], v>>
    BY <2>3 DEF PutPairs
  <2> QED
    BY <2>2, <2>4 DEF PutFor
<1>7. SearchesStop
  <2>1. used = Cardinality({i \in DOMAIN elem : elem[i] # NULL})
    BY <1>3, <1>4 DEF Filled
  <2>2. (2 * h) \div 2 = h
    OBVIOUS
  <2>3. used < Capacity(elem) \div 2
    BY <1>2, <1>3, <1>4, <2>2
  <2> QED
    BY <1>6, <2>1, <2>3 DEF SearchesStop
<1>8. ASSUME ~removed, NEW k \in HtKeys, PutFor(k) # {} PROVE htable_get(k) # {}
  <2>1. PICK v \in DOMAIN puts : puts[v] = k
    BY <1>8 DEF PutFor
  <2>2. <<puts[v], v>> \in PairsOf(elem, c)
    BY <1>5, <1>8 DEF PutPairs
  <2>3. PICK i \in Filled(elem, c) : elem[i] = <<puts[v], v>>
    BY <2>2 DEF PairsOf
  <2>4. elem[i][1] = k
    BY <2>1, <2>3
  <2>5. PICK n \in 0..(c - 1) : Slot(k, c, n) = i
             /\ \A m \in 0..(n - 1) : elem[Slot(k, c, m)] # NULL
    BY <1>5, <1>8, <2>4 DEF Reachable
  <2>6. n \in Found(k)
    BY <1>3, <2>3, <2>4, <2>5, FoundFacts, SMTT(30)
  <2>7. Stop(k) \in 0..(c - 1) /\ elem[Slot(k, c, Stop(k))] = NULL
    BY <1>3, FoundFacts
  <2>8. elem[Slot(k, c, n)] # NULL
    BY <2>3, <2>5 DEF Filled
  <2>9. n < Stop(k)
    <3>1. Stop(k) # n /\ Stop(k) \notin 0..(n - 1)
      BY <2>5, <2>7, <2>8
    <3>2. \A s \in 0..(c - 1) : s # n /\ s \notin 0..(n - 1) => n < s
      BY <1>2
    <3> QED
      BY <2>7, <3>1, <3>2
  <2>10. get_internal(k) # {}
    BY <1>3, <2>6, <2>9, FoundFacts
  <2> QED
    BY <2>10 DEF htable_get
<1>9. ASSUME ~removed PROVE Entries = {<<puts[v], v>> : v \in DOMAIN puts}
  <2>1. Entries = PairsOf(elem, c)
    BY <1>4 DEF Entries, PairsOf, Filled
  <2> QED
    BY <1>5, <1>9, <2>1 DEF PutPairs
<1>10. ASSUME NEW k \in HtKeys, PutFor(k) = {} PROVE htable_get(k) = {}
  BY <1>6, <1>10
<1> QED
  BY <1>6, <1>7, <1>8, <1>9, <1>10 DEF TableIsAFunction
-----------------------------------------------------------------------------
(* Loader *)

ShardInfos == [DaemonId : Nat, TotalShards : Nat, ShardIndex : Nat]
InfoOf(n, total, k) == [DaemonId |-> n, TotalShards |-> total, ShardIndex |-> k]

LoaderTypes ==
  /\ disk \in [LdDirs -> ShardInfos] /\ storedIn \in [LdDirs -> SUBSET (Nat \X Nat)]
     /\ unsynced \subseteq LdDirs
  /\ shards \in Seq(LdDirs) /\ done \in Nat /\ daemonIds \in Nat
  /\ daemon \in {"down", "clearing", "loading", "opening", "writing", "serving"}

\* The infos on disk are of datastores made so far, in which no shard is twice.
InfosRight ==
  /\ \A d \in LdDirs : /\ disk[d].DaemonId <= daemonIds
                       /\ disk[d].DaemonId = 0 <=> disk[d] \in {Empty, NoInfo}
                       /\ disk[d].DaemonId # 0 => disk[d].ShardIndex \in 1..disk[d].TotalShards
  /\ \A d, e \in LdDirs : d # e /\ disk[d].DaemonId = disk[e].DaemonId /\ disk[d].DaemonId # 0
                            => disk[d].ShardIndex # disk[e].ShardIndex
                              /\ disk[d].TotalShards = disk[e].TotalShards

\* Spans are where their shard is.
StoredRight ==
  \A d \in LdDirs : /\ storedIn[d] \subseteq {<<disk[d].DaemonId, disk[d].ShardIndex>>}
                    /\ disk[d].DaemonId = 0 => storedIn[d] = {}

\* A loop of the daemon goes over shards of different directories.
LoopRight ==
  /\ daemon # "down" => Len(shards) >= 1 /\ IsInjective(shards)
  /\ daemon \in {"clearing", "opening", "writing"} => done < Len(shards)
  /\ daemon \in {"loading", "serving"} => done = 0

\* While a datastore is made, its first shards have their infos, nothing else has its id, and
\* nothing is stored in its directories.
MakingRight ==
  daemon \in {"opening", "writing"} =>
    /\ daemonIds > 0
    /\ \A i \in 1..Len(shards) :
         /\ storedIn[shards[i]] = {}
         /\ i <= done => disk[shards[i]] = InfoOf(daemonIds, Len(shards), i)
    /\ \A d \in LdDirs : disk[d].DaemonId = daemonIds => \E i \in 1..done : d = shards[i]

ServingRight ==
  daemon = "serving" =>
    \E id \in Nat \ {0} : \A i \in 1..Len(shards) : disk[shards[i]] = InfoOf(id, Len(shards), i)

LoaderInv == LoaderTypes /\ InfosRight /\ StoredRight /\ LoopRight /\ MakingRight /\ ServingRight

\* The invariant holds at first.
LEMMA LoaderInitInv == LoaderInit => LoaderInv
<1> SUFFICES ASSUME LoaderInit PROVE LoaderInv
  OBVIOUS
<1>1. Empty \in ShardInfos /\ Empty.DaemonId = 0 /\ Empty.ShardIndex = 0
  BY DEF Empty, ShardInfos
<1>2. LoaderTypes
  BY <1>1, EmptySeqFacts DEF LoaderInit, LoaderTypes
<1>3. InfosRight
  BY <1>1 DEF LoaderInit, InfosRight
<1>4. StoredRight
  BY DEF LoaderInit, StoredRight
<1> QED
  BY <1>2, <1>3, <1>4 DEF LoaderInit, LoaderInv, LoopRight, MakingRight, ServingRight

\* What the invariant says about the sequence of shards and the directories.
LEMMA LoaderFacts ==
  ASSUME LoaderInv
  PROVE  /\ Len(shards) \in Nat /\ DOMAIN shards = 1..Len(shards)
            /\ \A i \in 1..Len(shards) : shards[i] \in LdDirs
         /\ \A d \in LdDirs : disk[d] \in ShardInfos
         /\ daemon # "down" => \A i, j \in 1..Len(shards) : shards[i] = shards[j] => i = j
<1>1. Len(shards) \in Nat /\ DOMAIN shards = 1..Len(shards)
      /\ \A i \in 1..Len(shards) : shards[i] \in LdDirs
  BY SeqIsFcn DEF LoaderInv, LoaderTypes
<1>2. daemon # "down" => \A i, j \in 1..Len(shards) : shards[i] = shards[j] => i = j
  BY <1>1 DEF LoaderInv, LoopRight, IsInjective
<1> QED
  BY <1>1, <1>2 DEF LoaderInv, LoaderTypes

\* The infos of the two kinds of directories without one.
LEMMA InfoFields ==
  \A n, total, k : InfoOf(n, total, k).DaemonId = n /\ InfoOf(n, total, k).TotalShards = total
    /\ InfoOf(n, total, k).ShardIndex = k
BY DEF InfoOf

\* Shard infos, and what directories hold in place of them.
LEMMA NoInfos ==
  /\ Empty \in ShardInfos /\ NoInfo \in ShardInfos /\ Empty.DaemonId = 0 /\ NoInfo.DaemonId = 0
  /\ \A n, total, k \in Nat : /\ InfoOf(n, total, k) \in ShardInfos
     /\ InfoOf(n, total, k).DaemonId = n
                              /\ InfoOf(n, total, k).TotalShards = total
                                 /\ InfoOf(n, total, k).ShardIndex = k
BY DEF Empty, NoInfo, ShardInfos, InfoOf

\* A directory loses what it had.
LEMMA WipingKeeps ==
  ASSUME LoaderInv, NEW D \in SUBSET LdDirs, NEW w \in {Empty, NoInfo},
         disk' = [d \in LdDirs |-> IF d \in D THEN w ELSE disk[d]],
         storedIn' = [d \in LdDirs |-> IF d \in D THEN {} ELSE storedIn[d]],
         daemonIds' = daemonIds
  PROVE  /\ disk' \in [LdDirs -> ShardInfos] /\ storedIn' \in [LdDirs -> SUBSET (Nat \X Nat)]
         /\ InfosRight' /\ StoredRight'
<1>1. w \in ShardInfos /\ w.DaemonId = 0
  BY NoInfos
<1>2. \A d \in LdDirs : /\ disk[d] \in ShardInfos /\ disk'[d] = IF d \in D THEN w ELSE disk[d]
                        /\ storedIn'[d] = IF d \in D THEN {} ELSE storedIn[d]
  BY LoaderFacts
<1>3. disk' \in [LdDirs -> ShardInfos]
  BY <1>1, <1>2
<1>4. storedIn' \in [LdDirs -> SUBSET (Nat \X Nat)]
  BY DEF LoaderInv, LoaderTypes
<1>5. InfosRight'
  <2>1. \A d \in LdDirs : /\ disk'[d].DaemonId <= daemonIds'
                          /\ disk'[d].DaemonId = 0 <=> disk'[d] \in {Empty, NoInfo}
                          /\ disk'[d].DaemonId # 0
                             => disk'[d].ShardIndex \in 1..disk'[d].TotalShards
    BY <1>1, <1>2, SMTT(30) DEF LoaderInv, InfosRight, LoaderTypes
  <2>2. \A d, e \in LdDirs : d # e /\ disk'[d].DaemonId = disk'[e].DaemonId /\ disk'[d].DaemonId # 0
                               => disk'[d].ShardIndex # disk'[e].ShardIndex
                                 /\ disk'[d].TotalShards = disk'[e].TotalShards
    BY <1>1, <1>2 DEF LoaderInv, InfosRight
  <2> QED
    BY <2>1, <2>2 DEF InfosRight
<1>6. StoredRight'
  BY <1>1, <1>2 DEF LoaderInv, StoredRight
<1> QED
  BY <1>3, <1>4, <1>5, <1>6

\* A start with other directories, or the same in another order.
LEMMA ConfigureKeeps ==
  ASSUME LoaderInv, NEW dirs \in Orders, NEW c \in BOOLEAN, NewDataStoreLoader(dirs, c)
  PROVE  LoaderInv'
<1>1. dirs \in Seq(LdDirs) /\ Len(dirs) \in Nat /\ Len(dirs) >= 1 /\ IsInjective(dirs)
  <2>1. PICK n \in 1..Cardinality(LdDirs) : dirs \in [1..n -> LdDirs] /\ IsInjective(dirs)
    BY DEF Orders
  <2>2. Cardinality(LdDirs) \in Nat
    BY LoaderAssumption, FS_CardinalityType
  <2>3. n \in Nat /\ n >= 1
    BY <2>1, <2>2
  <2> QED
    BY <2>1, <2>3, SeqIsFcn, SMTT(30)
<1>2. /\ shards' = dirs /\ done' = 0 /\ daemon' \in {"clearing", "loading"}
      /\ disk' = disk /\ unsynced' = unsynced /\ daemonIds' = daemonIds /\ storedIn' = storedIn
  BY DEF NewDataStoreLoader
<1>3. LoaderTypes'
  BY <1>1, <1>2 DEF LoaderInv, LoaderTypes
<1>4. LoopRight' /\ MakingRight' /\ ServingRight'
  BY <1>1, <1>2 DEF LoopRight, MakingRight, ServingRight
<1>5. InfosRight' /\ StoredRight'
  BY <1>2 DEF LoaderInv, InfosRight, StoredRight
<1> QED
  BY <1>3, <1>4, <1>5 DEF LoaderInv

\* data.store.clear wipes a directory with all its spans.
LEMMA ClearStoredKeeps ==
  ASSUME LoaderInv, clearStored
  PROVE  LoaderInv'
<1>1. /\ daemon = "clearing" /\ shards' = shards /\ daemonIds' = daemonIds
      /\ Len(shards) \in Nat /\ done < Len(shards) /\ done \in Nat /\ done + 1 \in 1..Len(shards)
  BY LoaderFacts, SMTT(30) DEF clearStored, LoaderInv, LoopRight, LoaderTypes
<1> DEFINE d == shards[done + 1]
<1>2. d \in LdDirs
  BY <1>1, LoaderFacts
<1>3. PICK x \in LdDirs : x = d
  BY <1>2
<1>4. /\ disk' = [y \in LdDirs |-> IF y \in {x} THEN Empty ELSE disk[y]]
      /\ storedIn' = [y \in LdDirs |-> IF y \in {x} THEN {} ELSE storedIn[y]]
      /\ unsynced' = unsynced \ {x}
  <2>1. disk' = [disk EXCEPT ![x] = Empty] /\ storedIn' = [storedIn EXCEPT ![x] = {}]
        /\ unsynced' = unsynced \ {x}
    BY <1>3 DEF clearStored
  <2> QED
    BY <2>1 DEF LoaderInv, LoaderTypes
<1>5. /\ disk' \in [LdDirs -> ShardInfos] /\ storedIn' \in [LdDirs -> SUBSET (Nat \X Nat)]
      /\ InfosRight' /\ StoredRight'
  BY <1>1, <1>4, WipingKeeps
<1>6. /\ daemon' = IF done + 1 = Len(shards) THEN "loading" ELSE "clearing"
      /\ done' = IF done + 1 = Len(shards) THEN 0 ELSE done + 1
  <2>1. done' = (done + 1) % Len(shards)
    BY DEF clearStored
  <2>2. CASE done + 1 = Len(shards)
    BY <1>1, <2>1, <2>2 DEF clearStored
  <2>3. CASE done + 1 # Len(shards)
    <3>1. (done + 1) % Len(shards) = done + 1
      BY <1>1, <2>3
    <3> QED
      BY <2>1, <2>3, <3>1 DEF clearStored
  <2> QED
    BY <2>2, <2>3
<1>7. LoaderTypes'
  <2>1. unsynced' \subseteq LdDirs /\ shards' \in Seq(LdDirs) /\ daemonIds' \in Nat
    BY <1>1, <1>4 DEF LoaderInv, LoaderTypes
  <2>2. done' \in Nat /\ daemon' \in {"loading", "clearing"}
    BY <1>1, <1>6
  <2> QED
    BY <1>5, <2>1, <2>2 DEF LoaderTypes
<1>8. LoopRight' /\ MakingRight' /\ ServingRight'
  BY <1>1, <1>6, SMTT(30) DEF LoaderInv, LoopRight, MakingRight, ServingRight
<1> QED
  BY <1>5, <1>7, <1>8 DEF LoaderInv

\* Shards whose infos agree have each index once: the order the daemon puts them in is there.
LEMMA ReorderedShards ==
  ASSUME LoaderInv, daemon = "loading", InfosAgree
  PROVE  /\ reorderedShards \in Seq(LdDirs) /\ Len(reorderedShards) = Len(shards)
            /\ IsInjective(reorderedShards)
         /\ \E id \in Nat \ {0} : \A i \in 1..Len(shards) : disk[reorderedShards[i]] = InfoOf(id,
            Len(shards), i)
<1>1. PICK n \in Nat : n = Len(shards) /\ n >= 1 /\ DOMAIN shards = 1..n
           /\ \A i \in 1..n : shards[i] \in LdDirs
  BY LoaderFacts DEF LoaderInv, LoopRight
<1>2. PICK id \in Nat : id = disk[shards[1]].DaemonId
  BY <1>1, LoaderFacts, SMTT(30) DEF ShardInfos
<1>3. \A i \in 1..n : /\ disk[shards[i]] \in ShardInfos /\ disk[shards[i]].DaemonId = id
                      /\ disk[shards[i]].TotalShards = n /\ disk[shards[i]].ShardIndex \in 1..n
  <2> TAKE i \in 1..n
  <2>1. disk[shards[i]] \in ShardInfos
    BY <1>1, LoaderFacts
  <2>2. disk[shards[i]] \in Infos /\ disk[shards[i]] \notin {Empty, NoInfo}
    BY <1>1 DEF InfosAgree, Infos
  <2>3. disk[shards[i]].DaemonId = id
    BY <1>1, <1>2, SMTT(30) DEF InfosAgree
  <2>4. disk[shards[i]].TotalShards = n
    BY <1>1, <2>2 DEF InfosAgree
  <2>5. disk[shards[i]].ShardIndex \in 1..n
    BY <1>1, <2>2, <2>4 DEF LoaderInv, InfosRight
  <2> QED
    BY <2>1, <2>3, <2>4, <2>5
<1>4. id # 0
  <2>1. disk[shards[1]] \in Infos /\ disk[shards[1]] \notin {Empty, NoInfo}
    BY <1>1, SMTT(30) DEF InfosAgree, Infos
  <2> QED
    BY <1>1, <1>2, <2>1, SMTT(30) DEF LoaderInv, InfosRight
<1>5. \A i, j \in 1..n : i # j => disk[shards[i]].ShardIndex # disk[shards[j]].ShardIndex
  BY <1>1 DEF InfosAgree
<1> DEFINE f == [i \in 1..n |-> disk[shards[i]].ShardIndex]
<1>6. f \in [1..n -> 1..n] /\ \A i, j \in 1..n : f[i] = f[j] => i = j
  BY <1>3, <1>5
<1>7. \A k \in 1..n : \E i \in 1..n : f[i] = k
  <2> HIDE DEF f
  <2>1. f \in Injection(1..n, 1..n)
    BY <1>6 DEF Injection, IsInjective
  <2>2. IsFiniteSet(1..n)
    BY FS_Interval
  <2>3. f \in Surjection(1..n, 1..n)
    BY <2>1, <2>2, FS_Injection
  <2> QED
    BY <2>3 DEF Surjection
<1>8. ASSUME NEW k \in 1..n
      PROVE  /\ reorderedShards[k] \in Range(shards) /\ reorderedShards[k] \in LdDirs
             /\ disk[reorderedShards[k]] = InfoOf(id, n, k)
  <2> DEFINE Q(d) == d \in Range(shards) /\ disk[d].ShardIndex = k
  <2>1. PICK i \in 1..n : f[i] = k
    BY <1>7
  <2>2. Q(shards[i])
    BY <1>1, <2>1 DEF Range
  <2>3. reorderedShards[k] = CHOOSE d \in Range(shards) : disk[d].ShardIndex = k
    BY <1>1 DEF reorderedShards
  <2>4. Q(reorderedShards[k])
    BY <2>2, <2>3
  <2>5. PICK j \in 1..n : reorderedShards[k] = shards[j]
    BY <1>1, <2>4 DEF Range
  <2>6. disk[reorderedShards[k]] = InfoOf(id, n, k)
    BY <1>3, <2>4, <2>5 DEF ShardInfos, InfoOf
  <2> QED
    BY <1>1, <2>4, <2>5, <2>6
<1>9. DOMAIN reorderedShards = 1..n /\ reorderedShards = [k \in 1..n |-> reorderedShards[k]]
  BY <1>1 DEF reorderedShards
<1>10. reorderedShards \in Seq(LdDirs) /\ Len(reorderedShards) = n
  BY <1>8, <1>9
<1>11. IsInjective(reorderedShards)
  <2>1. \A k, m \in 1..n : reorderedShards[k] = reorderedShards[m] => k = m
    <3> SUFFICES ASSUME NEW k \in 1..n, NEW m \in 1..n,
                        reorderedShards[k] = reorderedShards[m] PROVE k = m
      OBVIOUS
    <3>1. InfoOf(id, n, k) = InfoOf(id, n, m)
      BY <1>8
    <3> QED
      BY <3>1 DEF InfoOf
  <2> QED
    BY <1>9, <2>1 DEF IsInjective
<1> QED
  BY <1>1, <1>4, <1>8, <1>10, <1>11

\* What is found in the directories is served, made anew or refused.
LEMMA LoadAndVerifyKeeps ==
  ASSUME LoaderInv, LoadAndVerify
  PROVE  LoaderInv'
<1>1. /\ daemon = "loading" /\ disk' = disk /\ done' = done /\ storedIn' = storedIn /\ done = 0
      /\ unsynced' \subseteq unsynced
  BY DEF LoadAndVerify, LoaderInv, LoopRight
<1>2. \/ InfosAgree /\ shards' = reorderedShards /\ daemon' = "serving" /\ daemonIds' = daemonIds
      \/ Infos = {Empty} /\ daemon' = "opening" /\ daemonIds' = daemonIds + 1 /\ shards' = shards
      \/ daemon' = "down" /\ shards' = <<>> /\ daemonIds' = daemonIds
  BY DEF LoadAndVerify
<1>3. /\ disk' \in [LdDirs -> ShardInfos] /\ storedIn' \in [LdDirs -> SUBSET (Nat \X Nat)]
         /\ unsynced' \subseteq LdDirs
      /\ done' \in Nat /\ daemonIds \in Nat /\ daemonIds' \in Nat /\ daemonIds <= daemonIds'
  BY <1>1, <1>2 DEF LoaderInv, LoaderTypes
<1>4. InfosRight'
  <2>1. \A d \in LdDirs : disk[d].DaemonId \in Nat
    BY LoaderFacts DEF ShardInfos
  <2> QED
    BY <1>1, <1>3, <2>1, SMTT(30) DEF LoaderInv, InfosRight
<1>5. StoredRight'
  BY <1>1 DEF LoaderInv, StoredRight
<1>6. CASE InfosAgree /\ shards' = reorderedShards /\ daemon' = "serving" /\ daemonIds' = daemonIds
  <2>1. /\ shards' \in Seq(LdDirs) /\ Len(shards') = Len(shards) /\ IsInjective(shards')
        /\ \E id \in Nat \ {0} : \A i \in 1..Len(shards') : disk[shards'[i]] = InfoOf(id,
           Len(shards'), i)
    BY <1>1, <1>6, ReorderedShards
  <2>2. ServingRight'
    BY <1>1, <2>1, ZenonT(30) DEF ServingRight
  <2>3. MakingRight'
    BY <1>6 DEF MakingRight
  <2>4. LoopRight'
    BY <1>1, <1>6, <2>1 DEF LoaderInv, LoopRight
  <2>5. LoaderTypes'
    BY <1>3, <1>6, <2>1 DEF LoaderTypes
  <2> QED
    BY <1>4, <1>5, <2>2, <2>3, <2>4, <2>5 DEF LoaderInv
<1>7. CASE Infos = {Empty} /\ daemon' = "opening" /\ daemonIds' = daemonIds + 1 /\ shards' = shards
  <2>1. \A i \in 1..Len(shards) : storedIn[shards[i]] = {}
    <3> TAKE i \in 1..Len(shards)
    <3>1. disk[shards[i]] \in Infos /\ shards[i] \in LdDirs
      BY LoaderFacts DEF Infos
    <3> QED
      BY <1>7, <3>1, NoInfos DEF LoaderInv, StoredRight
  <2>2. \A d \in LdDirs : disk[d].DaemonId # daemonIds + 1
    <3>1. \A d \in LdDirs : disk[d].DaemonId \in Nat /\ disk[d].DaemonId <= daemonIds
      BY LoaderFacts DEF ShardInfos, LoaderInv, InfosRight
    <3> QED
      BY <1>3, <3>1
  <2>3. MakingRight'
    <3>1. \A i \in 1..Len(shards) : ~(i <= done)
      BY <1>1
    <3>2. daemonIds' > 0
      BY <1>3, <1>7
    <3> QED
      BY <1>1, <1>7, <2>1, <2>2, <3>1, <3>2 DEF MakingRight
  <2>4. LoopRight'
    <3>1. Len(shards) \in Nat /\ Len(shards) >= 1 /\ IsInjective(shards) /\ 0 < Len(shards)
      BY <1>1, LoaderFacts, SMTT(30) DEF LoaderInv, LoopRight
    <3> QED
      BY <1>1, <1>7, <3>1 DEF LoopRight
  <2>5. LoaderTypes' /\ ServingRight'
    BY <1>3, <1>7 DEF LoaderInv, LoaderTypes, ServingRight
  <2> QED
    BY <1>4, <1>5, <2>3, <2>4, <2>5 DEF LoaderInv
<1>8. CASE daemon' = "down" /\ shards' = <<>> /\ daemonIds' = daemonIds
  <2>1. LoaderTypes' /\ LoopRight' /\ MakingRight' /\ ServingRight'
    BY <1>3, <1>8, EmptySeqFacts DEF LoaderTypes, LoopRight, MakingRight, ServingRight
  <2> QED
    BY <1>4, <1>5, <2>1 DEF LoaderInv
<1> QED
  BY <1>2, <1>6, <1>7, <1>8

\* A leveldb instance is made in an empty directory.
LEMMA CreateShardKeeps ==
  ASSUME LoaderInv, createShard
  PROVE  LoaderInv'
<1>1. /\ daemon = "opening" /\ daemon' = "writing" /\ unsynced' = unsynced /\ shards' = shards
      /\ done' = done /\ daemonIds' = daemonIds /\ storedIn' = storedIn
      /\ Len(shards) \in Nat /\ done < Len(shards) /\ done \in Nat /\ done + 1 \in 1..Len(shards)
  BY LoaderFacts, SMTT(30) DEF createShard, LoaderInv, LoopRight, LoaderTypes
<1>2. PICK x \in LdDirs : x = shards[done + 1]
  BY <1>1, LoaderFacts
<1>3. storedIn[x] = {}
  BY <1>1, <1>2 DEF LoaderInv, MakingRight
<1>4. /\ disk' = [y \in LdDirs |-> IF y \in {x} THEN NoInfo ELSE disk[y]]
      /\ storedIn' = [y \in LdDirs |-> IF y \in {x} THEN {} ELSE storedIn[y]]
  <2>1. disk' = [disk EXCEPT ![x] = NoInfo] /\ storedIn' = storedIn
    BY <1>2 DEF createShard
  <2>2. disk' = [y \in LdDirs |-> IF y \in {x} THEN NoInfo ELSE disk[y]]
    BY <2>1 DEF LoaderInv, LoaderTypes
  <2>3. storedIn = [y \in LdDirs |-> storedIn[y]]
    BY DEF LoaderInv, LoaderTypes
  <2>4. storedIn' = [y \in LdDirs |-> IF y \in {x} THEN {} ELSE storedIn[y]]
    BY <1>3, <2>1, <2>3
  <2> QED
    BY <2>2, <2>4
<1>5. /\ disk' \in [LdDirs -> ShardInfos] /\ storedIn' \in [LdDirs -> SUBSET (Nat \X Nat)]
      /\ InfosRight' /\ StoredRight'
  BY <1>1, <1>4, WipingKeeps, ZenonT(30)
<1>6. LoaderTypes' /\ LoopRight' /\ ServingRight'
  BY <1>1, <1>5 DEF LoaderInv, LoaderTypes, LoopRight, ServingRight
<1>7. MakingRight'
  <2>1. /\ daemonIds > 0
        /\ \A i \in 1..Len(shards) : /\ storedIn[shards[i]] = {}
                                     /\ i <= done => disk[shards[i]] = InfoOf(daemonIds,
                                        Len(shards), i)
        /\ \A d \in LdDirs : disk[d].DaemonId = daemonIds => \E i \in 1..done : d = shards[i]
    BY <1>1 DEF LoaderInv, MakingRight
  <2>2. \A i \in 1..Len(shards) : i <= done => shards[i] \in LdDirs /\ shards[i] # x
    BY <1>1, <1>2, LoaderFacts, SMTT(30)
  <2>3. \A i \in 1..Len(shards) : i <= done => disk'[shards[i]] = InfoOf(daemonIds, Len(shards), i)
    BY <1>4, <2>1, <2>2
  <2>4. daemonIds \in Nat /\ NoInfo.DaemonId = 0
    BY NoInfos DEF LoaderInv, LoaderTypes
  <2>5. \A d \in LdDirs : disk'[d].DaemonId = daemonIds => \E i \in 1..done : d = shards[i]
    BY <1>4, <2>1, <2>4, SMTT(30)
  <2> QED
    BY <1>1, <2>1, <2>3, <2>5 DEF MakingRight
<1> QED
  BY <1>5, <1>6, <1>7 DEF LoaderInv

\* A new shard gets the info that makes it one of the new datastore.
LEMMA WriteShardInfoKeeps ==
  ASSUME LoaderInv, writeShardInfo
  PROVE  LoaderInv'
<1>1. /\ daemon = "writing" /\ shards' = shards /\ daemonIds' = daemonIds /\ storedIn' = storedIn
      /\ Len(shards) \in Nat /\ done < Len(shards) /\ done \in Nat /\ done + 1 \in 1..Len(shards)
      /\ daemonIds \in Nat
  BY LoaderFacts, SMTT(30) DEF writeShardInfo, LoaderInv, LoopRight, LoaderTypes
<1>2. PICK x \in LdDirs : x = shards[done + 1]
  BY <1>1, LoaderFacts
<1>3. PICK n \in Nat : n = Len(shards)
  BY <1>1
<1> DEFINE info == InfoOf(daemonIds, n, done + 1)
<1>4. info \in ShardInfos /\ info.DaemonId = daemonIds /\ info.TotalShards = n
      /\ info.ShardIndex = done + 1
  <2>1. info \in ShardInfos
    BY <1>1 DEF InfoOf, ShardInfos
  <2> QED
    BY <2>1, InfoFields, SMTT(30)
<1>5. unsynced' = unsynced \cup {x} /\ disk' = [disk EXCEPT ![x] = info]
  BY <1>2, <1>3 DEF writeShardInfo, InfoOf
<1> HIDE DEF info
<1>6. \A y \in LdDirs : disk'[y] = IF y = x THEN info ELSE disk[y]
  BY <1>5 DEF LoaderInv, LoaderTypes
<1>7. /\ daemonIds > 0
      /\ \A i \in 1..n : /\ storedIn[shards[i]] = {}
                         /\ i <= done => disk[shards[i]] = InfoOf(daemonIds, n, i)
      /\ \A d \in LdDirs : disk[d].DaemonId = daemonIds => \E i \in 1..done : d = shards[i]
  BY <1>1, <1>3 DEF LoaderInv, MakingRight
<1>8. \A d \in LdDirs : d # x /\ disk[d].DaemonId = daemonIds =>
        disk[d].TotalShards = n /\ disk[d].ShardIndex # done + 1
  <2> SUFFICES ASSUME NEW d \in LdDirs, d # x, disk[d].DaemonId = daemonIds
               PROVE  disk[d].TotalShards = n /\ disk[d].ShardIndex # done + 1
    OBVIOUS
  <2>1. PICK i \in 1..done : d = shards[i]
    BY <1>7
  <2>2. i \in 1..n /\ i <= done /\ i \in Nat
    BY <1>1, <1>3
  <2>3. disk[d] = InfoOf(daemonIds, n, i)
    BY <1>7, <2>1, <2>2
  <2>4. disk[d].TotalShards = n /\ disk[d].ShardIndex = i
    <3>1. InfoOf(daemonIds, n, i).TotalShards = n /\ InfoOf(daemonIds, n, i).ShardIndex = i
      BY DEF InfoOf
    <3> QED
      BY <2>3, <3>1
  <2> QED
    BY <1>1, <2>2, <2>4, SMTT(30)
<1>9. InfosRight'
  <2>1. ASSUME NEW d \in LdDirs
        PROVE  /\ disk'[d].DaemonId <= daemonIds'
               /\ disk'[d].DaemonId = 0 <=> disk'[d] \in {Empty, NoInfo}
               /\ disk'[d].DaemonId # 0 => disk'[d].ShardIndex \in 1..disk'[d].TotalShards
    <3>1. CASE d = x
      <4>1. disk'[d] = info
        BY <1>6, <3>1
      <4>2. daemonIds # 0 /\ daemonIds <= daemonIds /\ info \notin {Empty, NoInfo}
        <5>1. daemonIds # 0 /\ daemonIds <= daemonIds
          BY <1>1, <1>7, SMTT(30)
        <5>2. Empty.DaemonId = 0 /\ NoInfo.DaemonId = 0
          BY NoInfos
        <5> QED
          BY <1>4, <5>1, <5>2
      <4> QED
        BY <1>1, <1>3, <1>4, <4>1, <4>2
    <3>2. CASE d # x
      BY <1>1, <1>6, <3>2 DEF LoaderInv, InfosRight
    <3> QED
      BY <3>1, <3>2
  <2>2. ASSUME NEW d \in LdDirs, NEW e \in LdDirs, d # e, disk'[d].DaemonId = disk'[e].DaemonId,
               disk'[d].DaemonId # 0
        PROVE  disk'[d].ShardIndex # disk'[e].ShardIndex
               /\ disk'[d].TotalShards = disk'[e].TotalShards
    <3>1. CASE d = x
      <4>1. disk'[d] = info /\ disk'[e] = disk[e]
        BY <1>6, <2>2, <3>1
      <4>2. disk[e].DaemonId = daemonIds
        BY <1>4, <2>2, <4>1
      <4> QED
        BY <1>4, <1>8, <2>2, <3>1, <4>1, <4>2
    <3>2. CASE e = x
      <4>1. disk'[e] = info /\ disk'[d] = disk[d]
        BY <1>6, <2>2, <3>2
      <4>2. disk[d].DaemonId = daemonIds
        BY <1>4, <2>2, <4>1
      <4> QED
        BY <1>4, <1>8, <2>2, <3>2, <4>1, <4>2
    <3>3. CASE d # x /\ e # x
      <4>1. disk'[e] = disk[e] /\ disk'[d] = disk[d]
        BY <1>6, <3>3
      <4> QED
        BY <2>2, <4>1, ZenonT(60) DEF LoaderInv, InfosRight
    <3> QED
      BY <3>1, <3>2, <3>3
  <2> QED
    BY <2>1, <2>2 DEF InfosRight
<1>10. StoredRight'
  <2>1. storedIn[x] = {}
    BY <1>1, <1>2, <1>3, <1>7
  <2> QED
    BY <1>1, <1>6, <2>1 DEF LoaderInv, StoredRight
<1>11. /\ daemon' = IF done + 1 = n THEN "serving" ELSE "opening"
       /\ done' = IF done + 1 = n THEN 0 ELSE done + 1
  <2>1. done' = (done + 1) % n
    BY <1>3 DEF writeShardInfo
  <2>2. CASE done + 1 = n
    BY <1>1, <1>3, <2>1, <2>2, SMTT(30) DEF writeShardInfo
  <2>3. CASE done + 1 # n
    <3>1. (done + 1) % n = done + 1
      BY <1>1, <1>3, <2>3
    <3> QED
      BY <1>3, <2>1, <2>3, <3>1 DEF writeShardInfo
  <2> QED
    BY <2>2, <2>3
<1>12. \A i \in 1..n : i <= done + 1 => disk'[shards[i]] = InfoOf(daemonIds, n, i)
  <2> SUFFICES ASSUME NEW i \in 1..n, i <= done + 1 PROVE disk'[shards[i]] = InfoOf(daemonIds, n, i)
    OBVIOUS
  <2>1. CASE i = done + 1
    BY <1>2, <1>6, <2>1 DEF info
  <2>2. CASE i # done + 1
    <3>1. i <= done /\ shards[i] \in LdDirs /\ shards[i] # x
      BY <1>1, <1>2, <1>3, <2>2, LoaderFacts, SMTT(30)
    <3> QED
      BY <1>6, <1>7, <3>1
  <2> QED
    BY <2>1, <2>2
<1>13. LoaderTypes'
  <2>1. disk' \in [LdDirs -> ShardInfos] /\ unsynced' \subseteq LdDirs
    BY <1>4, <1>5 DEF LoaderInv, LoaderTypes
  <2>2. done' \in Nat /\ daemon' \in {"opening", "serving"}
    BY <1>1, <1>11
  <2> QED
    BY <1>1, <2>1, <2>2 DEF LoaderInv, LoaderTypes
<1>14. LoopRight'
  BY <1>1, <1>3, <1>11 DEF LoaderInv, LoopRight
<1>15. CASE done + 1 = n
  <2>1. \A i \in 1..n : disk'[shards[i]] = InfoOf(daemonIds, n, i)
    BY <1>12, <1>15, SMTT(30)
  <2>2. ServingRight' /\ MakingRight'
    BY <1>1, <1>3, <1>7, <1>11, <1>15, <2>1, SMTT(30) DEF ServingRight, MakingRight
  <2> QED
    BY <1>9, <1>10, <1>13, <1>14, <2>2 DEF LoaderInv
<1>16. CASE done + 1 # n
  <2>1. done' = done + 1 /\ daemon' = "opening"
    BY <1>11, <1>16
  <2>2. \A d \in LdDirs : disk'[d].DaemonId = daemonIds => \E i \in 1..done' : d = shards[i]
    <3> SUFFICES ASSUME NEW d \in LdDirs, disk'[d].DaemonId = daemonIds
                        PROVE \E i \in 1..done' : d = shards[i]
      OBVIOUS
    <3>1. CASE d = x
      <4>1. done + 1 \in 1..done'
        BY <1>1, <2>1
      <4> QED
        BY <1>2, <3>1, <4>1
    <3>2. CASE d # x
      <4>1. PICK i \in 1..done : d = shards[i]
        BY <1>6, <1>7, <3>2
      <4>2. i \in 1..done'
        BY <1>1, <2>1
      <4> QED
        BY <4>1, <4>2
    <3> QED
      BY <3>1, <3>2
  <2>3. MakingRight' /\ ServingRight'
    BY <1>1, <1>3, <1>7, <1>12, <2>1, <2>2 DEF MakingRight, ServingRight
  <2> QED
    BY <1>9, <1>10, <1>13, <1>14, <2>3 DEF LoaderInv
<1> QED
  BY <1>15, <1>16

\* A span is stored in a shard that is served.
LEMMA StoreSpansKeeps ==
  ASSUME LoaderInv, NEW i \in DOMAIN shards, StoreSpans(i)
  PROVE  LoaderInv'
<1>1. /\ daemon = "serving" /\ disk' = disk /\ unsynced' = unsynced /\ daemon' = daemon
         /\ shards' = shards
      /\ done' = done /\ daemonIds' = daemonIds
  BY DEF StoreSpans
<1>2. PICK n \in Nat : n = Len(shards) /\ i \in 1..n /\ i \in Nat
  <2>1. Len(shards) \in Nat /\ DOMAIN shards = 1..Len(shards)
    BY LoaderFacts
  <2>2. i \in 1..Len(shards)
    BY <2>1
  <2>3. i \in Nat
    BY <2>1, <2>2
  <2> QED
    BY <2>1, <2>2, <2>3
<1>3. PICK x \in LdDirs : x = shards[i]
  BY <1>2, LoaderFacts
<1>4. PICK id \in Nat \ {0} : \A j \in 1..n : disk[shards[j]] = InfoOf(id, n, j)
  BY <1>1, <1>2 DEF LoaderInv, ServingRight
<1>5. disk[shards[1]].DaemonId = id /\ disk[x].DaemonId = id /\ disk[x].ShardIndex = i
  <2>1. 1 \in 1..n
    BY <1>2
  <2>2. disk[shards[1]] = InfoOf(id, n, 1) /\ disk[x] = InfoOf(id, n, i)
    BY <1>2, <1>3, <1>4, <2>1
  <2> QED
    BY <2>2, InfoFields, SMTT(30)
<1>6. storedIn' = [storedIn EXCEPT ![x] = storedIn[x] \cup {<<id, i>>}]
  BY <1>3, <1>5 DEF StoreSpans
<1>7. storedIn' \in [LdDirs -> SUBSET (Nat \X Nat)]
      /\ \A d \in LdDirs : storedIn'[d] = IF d = x THEN storedIn[x] \cup {<<id,
         i>>} ELSE storedIn[d]
  BY <1>2, <1>6, SMTT(30) DEF LoaderInv, LoaderTypes
<1>8. StoredRight'
  <2>1. \A d \in LdDirs : storedIn'[d] \subseteq {<<disk[d].DaemonId, disk[d].ShardIndex>>}
    <3>1. storedIn[x] \subseteq {<<id, i>>}
      BY <1>5 DEF LoaderInv, StoredRight
    <3> QED
      BY <1>5, <1>7, <3>1 DEF LoaderInv, StoredRight
  <2>2. \A d \in LdDirs : disk[d].DaemonId = 0 => storedIn'[d] = {}
    BY <1>4, <1>5, <1>7 DEF LoaderInv, StoredRight
  <2> QED
    BY <1>1, <2>1, <2>2 DEF StoredRight
<1>9. InfosRight' /\ LoopRight' /\ ServingRight' /\ MakingRight'
  BY <1>1, ZenonT(30) DEF LoaderInv, InfosRight, LoopRight, ServingRight, MakingRight
<1>10. LoaderTypes'
  BY <1>1, <1>7 DEF LoaderInv, LoaderTypes
<1> QED
  BY <1>8, <1>9, <1>10 DEF LoaderInv

\* The daemon ends, or a power failure takes what was not synced.
LEMMA LoaderEndsKeep ==
  ASSUME LoaderInv, DaemonEnds \/ PowerFails
  PROVE  LoaderInv'
<1>1. /\ daemon' = "down" /\ shards' = <<>> /\ done' = 0 /\ daemonIds' = daemonIds
      /\ unsynced' \subseteq unsynced
  BY DEF DaemonEnds, PowerFails
<1>2. PICK D \in SUBSET LdDirs :
        /\ disk' = [d \in LdDirs |-> IF d \in D THEN NoInfo ELSE disk[d]]
        /\ storedIn' = [d \in LdDirs |-> IF d \in D THEN {} ELSE storedIn[d]]
  <2>1. CASE DaemonEnds
    <3>1. disk' = [d \in LdDirs |-> disk[d]] /\ storedIn' = [d \in LdDirs |-> storedIn[d]]
      BY <2>1 DEF DaemonEnds, LoaderInv, LoaderTypes
    <3> WITNESS {} \in SUBSET LdDirs
    <3> QED
      BY <3>1
  <2>2. CASE PowerFails
    BY <2>2 DEF PowerFails, LoaderInv, LoaderTypes
  <2> QED
    BY <2>1, <2>2
<1>3. /\ disk' \in [LdDirs -> ShardInfos] /\ storedIn' \in [LdDirs -> SUBSET (Nat \X Nat)]
      /\ InfosRight' /\ StoredRight'
  BY <1>1, <1>2, WipingKeeps
<1>4. LoaderTypes' /\ LoopRight' /\ MakingRight' /\ ServingRight'
  BY <1>1, <1>3, EmptySeqFacts DEF LoaderInv, LoaderTypes, LoopRight, MakingRight, ServingRight
<1> QED
  BY <1>3, <1>4 DEF LoaderInv

\* Every step of the loader, and a stutter, preserves the invariant.
LEMMA LoaderStep == LoaderInv /\ [LoaderNext]_loaderVars => LoaderInv'
<1> SUFFICES ASSUME LoaderInv, [LoaderNext]_loaderVars PROVE LoaderInv'
  OBVIOUS
<1>1. CASE LoaderNext
  BY <1>1, ConfigureKeeps, ClearStoredKeeps, LoadAndVerifyKeeps, CreateShardKeeps,
     WriteShardInfoKeeps,
     StoreSpansKeeps, LoaderEndsKeep DEF LoaderNext
<1>2. CASE UNCHANGED loaderVars
  BY <1>2 DEF loaderVars, LoaderInv, LoaderTypes, InfosRight, StoredRight, LoopRight,
     MakingRight,
     ServingRight
<1> QED
  BY <1>1, <1>2

\* What is served is whole: a shard of the datastore that has spans has an index of it, and the
\* directory with that index is served in its place.
LEMMA LoaderInvProperties == LoaderInv => ServedStoreIsWhole
<1> SUFFICES ASSUME LoaderInv, daemon = "serving"
             PROVE  LET id == disk[shards[1]].DaemonId IN
                      /\ \A i \in DOMAIN shards : storedIn[shards[i]] \subseteq {<<id, i>>}
                      /\ {d \in LdDirs : \E p \in storedIn[d] : p[1] = id} \subseteq Range(shards)
  BY DEF ServedStoreIsWhole
<1>1. PICK n \in Nat : n = Len(shards) /\ n >= 1 /\ DOMAIN shards = 1..n
           /\ \A i \in 1..n : shards[i] \in LdDirs
  BY LoaderFacts DEF LoaderInv, LoopRight
<1>2. PICK id \in Nat \ {0} : \A j \in 1..n : disk[shards[j]] = InfoOf(id, n, j)
  BY <1>1 DEF LoaderInv, ServingRight
<1>3. \A i \in 1..n : disk[shards[i]].DaemonId = id /\ disk[shards[i]].ShardIndex = i
      /\ disk[shards[i]].TotalShards = n
  BY <1>2, InfoFields, SMTT(30)
<1>4. \A i \in 1..n : storedIn[shards[i]] \subseteq {<<id, i>>}
  BY <1>1, <1>3 DEF LoaderInv, StoredRight
<1>5. ASSUME NEW d \in LdDirs, NEW p \in storedIn[d], p[1] = id PROVE d \in Range(shards)
  <2>1. disk[d].DaemonId = id
    <3>1. p = <<disk[d].DaemonId, disk[d].ShardIndex>>
      BY DEF LoaderInv, StoredRight
    <3> QED
      BY <1>5, <3>1
  <2>2. disk[d].TotalShards = n
    BY <1>1, <1>3, <2>1, SMTT(30) DEF LoaderInv, InfosRight
  <2>3. disk[d].ShardIndex \in 1..n
    BY <2>1, <2>2 DEF LoaderInv, InfosRight
  <2>4. PICK i \in 1..n : i = disk[d].ShardIndex
    BY <2>3
  <2>5. d = shards[i]
    BY <1>1, <1>3, <2>1, <2>4 DEF LoaderInv, InfosRight
  <2> QED
    BY <1>1, <2>5 DEF Range
<1>6. disk[shards[1]].DaemonId = id
  BY <1>1, <1>3, SMTT(30)
<1> QED
  BY <1>1, <1>4, <1>5, <1>6

\* Stored spans go with clearing or a power failure only.
LEMMA LoaderStepRemoves ==
  LoaderInv /\ [LoaderNext]_loaderVars =>
    [/\ \A d \in LdDirs : storedIn[d] # {} /\ storedIn'[d] = {} =>
          daemon = "clearing" \/ d \in unsynced
     /\ daemon \in {"opening", "writing"}
        => \A i \in DOMAIN shards : storedIn[shards[i]] = {}]_loaderVars
<1> SUFFICES ASSUME LoaderInv, LoaderNext
             PROVE  /\ \A d \in LdDirs : storedIn[d] # {} /\ storedIn'[d] = {} =>
                         daemon = "clearing" \/ d \in unsynced
                    /\ daemon \in {"opening", "writing"}
                       => \A i \in DOMAIN shards : storedIn[shards[i]] = {}
  OBVIOUS
<1>1. daemon \in {"opening", "writing"} => \A i \in DOMAIN shards : storedIn[shards[i]] = {}
  BY LoaderFacts DEF LoaderInv, MakingRight
<1>2. ASSUME NEW d \in LdDirs, storedIn[d] # {}, storedIn'[d] = {}
             PROVE daemon = "clearing" \/ d \in unsynced
  <2>1. storedIn' # storedIn
    BY <1>2
  <2>2. CASE clearStored
    BY <2>2 DEF clearStored
  <2>3. CASE PowerFails
    BY <1>2, <2>3 DEF PowerFails
  <2>4. ASSUME NEW i \in DOMAIN shards, StoreSpans(i) PROVE FALSE
    <3>1. storedIn \in [LdDirs -> SUBSET (Nat \X Nat)]
      BY DEF LoaderInv, LoaderTypes
    <3>2. storedIn[d] \subseteq storedIn'[d]
      BY <2>4, <3>1 DEF StoreSpans
    <3> QED
      BY <1>2, <3>2
  <2> QED
    BY <2>1, <2>2, <2>3, <2>4 DEF LoaderNext, NewDataStoreLoader, LoadAndVerify,
       createShard,
       writeShardInfo, DaemonEnds
<1> QED
  BY <1>1, <1>2
=============================================================================
