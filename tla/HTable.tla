------------------------------- MODULE HTable -------------------------------
(***************************************************************************)
(* The C hash table with linear probing.  A key may be put several times,  *)
(* which keeps all its entries.  An entry is <<key, value>>, where the     *)
(* value is the number of the put.                                         *)
(***************************************************************************)
EXTENDS Integers, Sequences, FiniteSets, FiniteSetsExt

CONSTANTS HtKeys,
          HtHash(_, _),   \* hash_fun: key and capacity
          MaxPuts         \* bound: calls of htable_put

\* "The hash slot.  Must be less than the capacity." (htable.h)
ASSUME HTableAssumption ==
  MaxPuts \in Nat /\ \A k \in HtKeys, c \in 1 .. 4 * (MaxPuts + 1) : HtHash(k, c) \in 0 .. c - 1

HTABLE_MIN_SIZE == 4
NULL == <<>>

VARIABLES elem,           \* by slot, from 0: an entry or NULL
          used,
          puts,           \* ghost: calls of htable_put so far
          removed         \* ghost: whether htable_pop has removed an entry

tableVars == <<elem, used, puts, removed>>

Capacity(e) == Cardinality(DOMAIN e)

HTableInit ==
  /\ elem = [i \in 0 .. HTABLE_MIN_SIZE - 1 |-> NULL]
  /\ used = 0 /\ puts = <<>> /\ removed = FALSE

\* The slot n places after the one key k hashes to.
Probe(e, k, n) == (HtHash(k, Capacity(e)) + n) % Capacity(e)

\* The first empty place after the hash of k; there is one.
FirstEmpty(e, k) == Min({n \in 0 .. Capacity(e) - 1 : e[Probe(e, k, n)] = NULL})

insert_internal(e, p) == [e EXCEPT ![Probe(e, p[1], FirstEmpty(e, p[1]))] = p]

\* All entries, in the order of their slots, are inserted into a table of twice the size.
realloc(e) ==
  LET capacity == Capacity(e)
      to[i \in 0 .. capacity] ==
        IF i = 0 THEN [j \in 0 .. 2 * capacity - 1 |-> NULL]
        ELSE IF e[i - 1] = NULL THEN to[i - 1] ELSE insert_internal(to[i - 1], e[i - 1])
  IN  to[capacity]

\* The table is enlarged when it would be half full.
needsRoom(nused, capacity) == nused >= capacity \div 2

htable_put(k) ==
  /\ Len(puts) < MaxPuts
  /\ puts' = Append(puts, k)
  /\ elem' = insert_internal(IF needsRoom(used + 1, Capacity(elem)) THEN realloc(elem) ELSE elem, <<k, Len(puts')>>)
  /\ used' = used + 1
  /\ UNCHANGED removed

Found(k) == {n \in 0 .. Capacity(elem) - 1 : LET e == elem[Probe(elem, k, n)] IN e # NULL /\ e[1] = k}
Stop(k) == FirstEmpty(elem, k)

\* htable_get_internal: the place of k, unless an empty slot comes first.
get_internal(k) == IF Found(k) # {} /\ Min(Found(k)) < Stop(k) THEN {Probe(elem, k, Min(Found(k)))} ELSE {}

htable_get(k) == {elem[i][2] : i \in get_internal(k)}

\* Entries of the key between the hole and the next empty slot move up, each to the place of the
\* one before; the last one is returned, and its place becomes the hole.
htable_pop(k) ==
  /\ get_internal(k) # {}
  /\ LET moved == {n \in Found(k) : n < Stop(k)}
         slot(n) == Probe(elem, k, n)
         after(n) == {m \in moved : m > n}
     IN  elem' = [i \in DOMAIN elem |->
                       IF \E n \in moved : slot(n) = i
                       THEN LET n == CHOOSE m \in moved : slot(m) = i
                            IN  IF after(n) = {} THEN NULL ELSE elem[slot(Min(after(n)))]
                       ELSE elem[i]]
  /\ used' = used - 1
  /\ removed' = TRUE
  /\ UNCHANGED puts

HTableNext == \E k \in HtKeys : htable_put(k) \/ htable_pop(k)
-----------------------------------------------------------------------------
Entries == {elem[i] : i \in DOMAIN elem} \ {NULL}
PutFor(k) == {v \in DOMAIN puts : puts[v] = k}

\* The table as its users see it, who never remove: a key that was put is found with a value that
\* was put for it, whatever the collisions, wrap-arounds and enlargements on the way, and all that
\* was put is there.
TableIsAFunction ==
  ~removed =>
    /\ \A k \in HtKeys : htable_get(k) \subseteq PutFor(k) /\ (htable_get(k) = {} <=> PutFor(k) = {})
    /\ Entries = {<<puts[v], v>> : v \in DOMAIN puts}

\* Removal or not: the count of entries is right, there is always an empty slot to end a search,
\* and a search finds no other key's value.
SearchesStop ==
  /\ used = Cardinality({i \in DOMAIN elem : elem[i] # NULL})
  /\ used < Capacity(elem) \div 2
  /\ \A k \in HtKeys : htable_get(k) \subseteq PutFor(k)
=============================================================================
