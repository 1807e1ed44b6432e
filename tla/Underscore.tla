----------------------------- MODULE Underscore ----------------------------
(***************************************************************************)
(* Underscore's algorithms on arrays, and its comparison of objects that   *)
(* may be cyclic.  Arrays are sequences, but positions are counted from 0, *)
(* as in the code.                                                         *)
(***************************************************************************)
EXTENDS Integers, Sequences, FiniteSets, SequencesExt

CONSTANTS Elements,        \* of the arrays: 0 .. n
          MaxArray,        \* bound: elements of both arrays together
          Objects          \* of the heap

VARIABLES xs, ys,          \* two arrays
          heap             \* per object its members: a value or an object, by key

arrayVars == <<xs, ys, heap>>

at(a, i) == a[i + 1]
Positions(a) == 0 .. (Len(a) - 1)
-----------------------------------------------------------------------------
\* The loop of sortedIndex is a binary search.
Search(a, v) ==
  LET between[low \in 0 .. Len(a), high \in 0 .. Len(a)] ==
        LET mid == (low + high) \div 2 IN
        IF low >= high THEN low ELSE IF at(a, mid) < v THEN between[mid + 1, high] ELSE between[low, mid]
  IN  between[0, Len(a)]

\* Mutant: past the elements that are equal.
sortedIndexPast(a, v) == Search(a, v + 1)

sortedIndex(a, v) == Search(a, v)

IndexFrom(a, item, from) ==
  LET found == {i \in Positions(a) : i >= from /\ at(a, i) = item} IN IF found = {} THEN -1 ELSE Min(found)
indexOf(a, item, from) ==
  IndexFrom(a, item, IF from < 0 THEN (IF Len(a) + from > 0 THEN Len(a) + from ELSE 0) ELSE from)
indexOfSorted(a, item) ==
  LET i == sortedIndex(a, item) IN IF i < Len(a) /\ at(a, i) = item THEN i ELSE -1
lastIndexOf(a, item, from) ==
  LET idx   == IF from < 0 THEN Len(a) + from + 1 ELSE IF from + 1 < Len(a) THEN from + 1 ELSE Len(a)
      found == {i \in Positions(a) : i < idx /\ at(a, i) = item}
  IN  IF found = {} THEN -1 ELSE Max(found)

contains(a, item) == indexOf(a, item, 0) >= 0

\* uniq(array), uniq(array, true) and uniq(array, iteratee); an iteratee is a function.
uniq(a) == FoldLeft(LAMBDA r, v : IF contains(r, v) THEN r ELSE Append(r, v), <<>>, a)
uniqSorted(a) ==
  FoldLeft(LAMBDA r, i : IF i = 1 \/ a[i - 1] # a[i] THEN Append(r, a[i]) ELSE r, <<>>, [i \in DOMAIN a |-> i])
uniqBy(a, F) ==
  FoldLeft(LAMBDA r, v : IF contains(r.seen, F[v]) THEN r
                         ELSE [seen |-> Append(r.seen, F[v]), result |-> Append(r.result, v)],
           [seen |-> <<>>, result |-> <<>>], a).result

intersection(a, b) ==
  FoldLeft(LAMBDA r, v : IF contains(r, v) \/ ~contains(b, v) THEN r ELSE Append(r, v), <<>>, a)
difference(a, b) == SelectSeq(a, LAMBDA v : ~contains(b, v))
union(a, b) == uniq(a \o b)

range(start, stop, step) ==
  LET n == IF step > 0 THEN (stop - start + step - 1) \div step ELSE (start - stop - step - 1) \div (-step)
  IN  [i \in 1 .. (IF n > 0 THEN n ELSE 0) |-> start + (i - 1) * step]

\* The comparator of sortBy; a criterion of -1 is undefined.
CompareLess(left, right) ==
  IF left.criteria # right.criteria
    THEN left.criteria # -1 /\ (left.criteria < right.criteria \/ right.criteria = -1)
  ELSE left.index < right.index
Criteria(a, F) == [i \in DOMAIN a |-> [value |-> a[i], index |-> i, criteria |-> F[a[i]]]]
sortBy(a, F) ==
  LET s == SortSeq(Criteria(a, F), CompareLess) IN [i \in DOMAIN a |-> s[i].value]

groupBy(a, F) ==
  FoldLeft(LAMBDA r, v : IF F[v] \in DOMAIN r THEN [r EXCEPT ![F[v]] = Append(@, v)]
                         ELSE [k \in DOMAIN r \cup {F[v]} |-> IF k \in DOMAIN r THEN r[k] ELSE <<v>>], <<>>, a)
partition(a, P) ==
  FoldLeft(LAMBDA r, v : IF P[v] THEN [r EXCEPT ![1] = Append(@, v)] ELSE [r EXCEPT ![2] = Append(@, v)],
           <<<<>>, <<>>>>, a)

\* initial, last, rest and first with a number.
first(a, n) == IF n < 0 THEN <<>> ELSE SubSeq(a, 1, IF n < Len(a) THEN n ELSE Len(a))
initial(a, n) == SubSeq(a, 1, IF Len(a) - n > 0 THEN Len(a) - n ELSE 0)
last(a, n) == SubSeq(a, 1 + (IF Len(a) - n > 0 THEN Len(a) - n ELSE 0), Len(a))
rest(a, n) == SubSeq(a, n + 1, Len(a))

\* shuffle: the arrays it may return, over all the random numbers.
shuffle(a) ==
  FoldLeft(LAMBDA results, i : UNION {{[k \in 1 .. i |-> IF k = r THEN a[i] ELSE IF k = i THEN s[r] ELSE s[k]]
                                         : r \in 1 .. i} : s \in results}, {<<>>}, [i \in DOMAIN a |-> i])
\* max and min with an iteratee: the first element with the greatest, the least value.
max(a, F) == FoldLeft(LAMBDA r, v : IF r = <<>> \/ F[v] > F[r[1]] THEN <<v>> ELSE r, <<>>, a)
min(a, F) == FoldLeft(LAMBDA r, v : IF r = <<>> \/ F[v] < F[r[1]] THEN <<v>> ELSE r, <<>>, a)
-----------------------------------------------------------------------------
(* Objects with numbers as keys are functions; None is undefined. *)

None == -1
Get(o, key) == IF key \in DOMAIN o THEN o[key] ELSE None
Put(o, key, v) == [k \in DOMAIN o \cup {key} |-> IF k = key THEN v ELSE o[k]]
NewObject == [k \in {} |-> None]
Keys(o) == SetToSortSeq(DOMAIN o, <)

zip(a, b) == [i \in 1 .. (IF Len(a) > Len(b) THEN Len(a) ELSE Len(b)) |-> <<Get(a, i), Get(b, i)>>]
object(list, values) == FoldLeft(LAMBDA r, i : Put(r, list[i], Get(values, i)), NewObject, [i \in DOMAIN list |-> i])
pairs(o) == [i \in DOMAIN Keys(o) |-> <<Keys(o)[i], o[Keys(o)[i]]>>]
invert(o) == FoldLeft(LAMBDA r, k : Put(r, o[k], k), NewObject, Keys(o))
extend(o, source) == FoldLeft(LAMBDA r, k : Put(r, k, source[k]), o, Keys(source))
defaults(o, source) ==
  FoldLeft(LAMBDA r, k : IF Get(r, k) = None THEN Put(r, k, source[k]) ELSE r, o, Keys(source))
pick(o, keys) == FoldLeft(LAMBDA r, k : IF k \in DOMAIN o THEN Put(r, k, o[k]) ELSE r, NewObject, keys)
omit(o, keys) == pick(o, SelectSeq(Keys(o), LAMBDA k : ~contains(keys, k)))
-----------------------------------------------------------------------------
\* eq(a, b, aStack, bStack) on objects; values are compared by value.
eq[a \in Elements \cup Objects, b \in Elements \cup Objects, aStack \in Seq(Objects), bStack \in Seq(Objects)] ==
  LET seen == {i \in DOMAIN aStack : aStack[i] = a} IN
  IF a = b THEN TRUE
  ELSE IF a \notin Objects \/ b \notin Objects THEN FALSE
  ELSE IF seen # {} THEN bStack[Max(seen)] = b
  ELSE /\ Cardinality(DOMAIN heap[a]) = Cardinality(DOMAIN heap[b])
       /\ \A key \in DOMAIN heap[a] :
            key \in DOMAIN heap[b] /\ eq[heap[a][key], heap[b][key], Append(aStack, a), Append(bStack, b)]
isEqual(a, b) == eq[a, b, <<>>, <<>>]
-----------------------------------------------------------------------------
Members == [{"k"} -> Elements \cup Objects] \cup [{"k", "l"} -> {0} \cup Objects]

ArrayInit == xs = <<>> /\ ys = <<>> /\ heap = [o \in Objects |-> [k \in {"k"} |-> 0]]

Push(v) ==
  /\ Len(xs) + Len(ys) < MaxArray /\ \A o \in Objects : heap[o] = [k \in {"k"} |-> 0]
  /\ \/ xs' = Append(xs, v) /\ UNCHANGED ys
     \/ ys' = Append(ys, v) /\ UNCHANGED xs
  /\ UNCHANGED heap

Assign(o, members) ==
  /\ xs = <<>> /\ ys = <<>>
  /\ heap' = [heap EXCEPT ![o] = members]
  /\ UNCHANGED <<xs, ys>>

ArrayNext == (\E v \in Elements : Push(v)) \/ (\E o \in Objects, members \in Members : Assign(o, members))
-----------------------------------------------------------------------------
Ascending(a) == \A i, j \in DOMAIN a : i < j => a[i] <= a[j]
Half == [v \in Elements |-> v \div 2]
HalfOrNone == [v \in Elements |-> IF v = 1 THEN -1 ELSE v \div 2]

\* Searching: in a sorted array sortedIndex is the first place where the item can be inserted,
\* and the search by halves finds what the search from the start finds; a negative start counts
\* from the end.
SearchesFind ==
  \A v \in Elements :
    /\ Ascending(xs) =>
         LET i == sortedIndex(xs, v) IN
         /\ \A j \in Positions(xs) : at(xs, j) < v <=> j < i
         /\ indexOfSorted(xs, v) = indexOf(xs, v, 0)
    /\ indexOf(Reverse(xs), v, 0) = (LET l == lastIndexOf(xs, v, Len(xs)) IN IF l < 0 THEN -1 ELSE Len(xs) - 1 - l)
    /\ \A n \in 1 .. Len(xs) : /\ indexOf(xs, v, -n) = indexOf(xs, v, Len(xs) - n)
                               /\ lastIndexOf(xs, v, -n) = lastIndexOf(xs, v, Len(xs) - n)

\* Arrays as sets: union, intersection and difference have the elements of the sets, the first
\* two each of them once; on a sorted array the two ways to make an array unique agree.
ArraysAsSets ==
  /\ ToSet(union(xs, ys)) = ToSet(xs) \cup ToSet(ys) /\ IsInjective(union(xs, ys))
  /\ ToSet(intersection(xs, ys)) = ToSet(xs) \cap ToSet(ys) /\ IsInjective(intersection(xs, ys))
  /\ ToSet(difference(xs, ys)) = ToSet(xs) \ ToSet(ys)
  /\ Len(difference(xs, ys)) + Len(SelectSeq(xs, LAMBDA v : contains(ys, v))) = Len(xs)
  /\ Ascending(xs) => uniqSorted(xs) = uniq(xs)
  /\ LET halves == {Half[v] : v \in ToSet(xs)}
         u      == uniqBy(xs, Half)
     IN  {Half[v] : v \in ToSet(u)} = halves /\ Len(u) = Cardinality(halves)

\* sortBy is stable and puts the elements without a criterion last; groups and partitions keep
\* the order and lose nothing; range stops before its end; shuffle can return every order.
OrderIsKept ==
  /\ LET s == sortBy(xs, HalfOrNone)
         c == Criteria(s, HalfOrNone)
     IN  /\ \A i, j \in DOMAIN s : i < j => c[i].criteria = c[j].criteria \/ CompareLess(c[i], c[j])
         /\ \A k \in {HalfOrNone[v] : v \in Elements} :
              SelectSeq(s, LAMBDA v : HalfOrNone[v] = k) = SelectSeq(xs, LAMBDA v : HalfOrNone[v] = k)
  /\ LET g == groupBy(xs, Half) IN
       xs # <<>> => \A k \in DOMAIN g : g[k] = SelectSeq(xs, LAMBDA v : Half[v] = k) /\ g[k] # <<>>
  /\ partition(xs, [v \in Elements |-> v > 0]) = <<SelectSeq(xs, LAMBDA v : v > 0), SelectSeq(xs, LAMBDA v : v <= 0)>>
  /\ \A n \in 0 .. Len(xs) : first(xs, n) \o rest(xs, n) = xs /\ initial(xs, n) \o last(xs, n) = xs
  /\ \A start, stop \in Elements, step \in {-2, 1, 2} :
       LET r == range(start, stop, step) IN
       /\ \A i \in DOMAIN r : r[i] = start + (i - 1) * step /\ (IF step > 0 THEN r[i] < stop ELSE r[i] > stop)
       /\ LET next == start + Len(r) * step IN IF step > 0 THEN next >= stop ELSE next <= stop
  /\ IsInjective(xs) => shuffle(xs) = {s \in [DOMAIN xs -> ToSet(xs)] : IsInjective(s)}

\* Objects: what is left out by pick is kept by omit; filling in defaults is extending the
\* defaults, but for members that are undefined; inverting twice gives the object back when its
\* values differ; a list of pairs and the object made of it say the same; of equally great
\* elements the first one is the greatest.
ObjectsAreMerged ==
  LET o    == object(xs, ys)
      p    == object(ys, xs)
      full == \A k \in DOMAIN o : o[k] # None
  IN  /\ extend(pick(o, ys), omit(o, ys)) = o /\ DOMAIN pick(o, ys) \cap DOMAIN omit(o, ys) = {}
      /\ full => defaults(o, p) = extend(p, o)
      /\ (\A j, k \in DOMAIN o : o[j] = o[k] => j = k) => invert(invert(o)) = o
      /\ LET q == pairs(o) IN object([i \in DOMAIN q |-> q[i][1]], [i \in DOMAIN q |-> q[i][2]]) = o
      /\ Len(xs) = Len(ys) => \A i \in DOMAIN xs : zip(xs, ys)[i] = <<xs[i], ys[i]>>
      /\ max(xs, Half) = first(SelectSeq(xs, LAMBDA v : \A w \in ToSet(xs) : Half[w] <= Half[v]), 1)
      /\ min(xs, Half) = first(SelectSeq(xs, LAMBDA v : \A w \in ToSet(xs) : Half[w] >= Half[v]), 1)

\* Two objects are alike when no path of keys tells them apart; n is the length of the paths.
\* Each length may split more classes of objects, which are at most as many as objects.
Bisimilar[n \in Nat] ==
  IF n = 0 THEN Objects \X Objects
  ELSE LET related == Bisimilar[n - 1] IN
       {p \in related : /\ DOMAIN heap[p[1]] = DOMAIN heap[p[2]]
                        /\ \A k \in DOMAIN heap[p[1]] :
                             heap[p[1]][k] = heap[p[2]][k] \/ <<heap[p[1]][k], heap[p[2]][k]>> \in related}

\* isEqual ends on cyclic objects; objects that it finds equal are alike, and without cycles it
\* finds all of those.
EqualIsAlike ==
  LET alike  == Bisimilar[Cardinality(Objects)]
      cyclic == \E S \in SUBSET Objects \ {{}} : \A o \in S : \E k \in DOMAIN heap[o] : heap[o][k] \in S
  IN  \A a, b \in Objects :
        /\ isEqual(a, b) => <<a, b>> \in alike
        /\ <<a, b>> \in alike /\ ~cyclic => isEqual(a, b)
=============================================================================
