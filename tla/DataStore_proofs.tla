-------------------------- MODULE DataStore_proofs --------------------------
(***************************************************************************)
(* Proofs about DataStore for every number of shards, every set of         *)
(* requests and spans, every batch and channel size, with and without      *)
(* failures of LevelDB.                                                    *)
(***************************************************************************)
EXTENDS DataStore, FiniteSetTheorems, TLAPS

\* A leaf that names no prover is tried with Zenon and then with the SMT solver.
USE ZenonT(20), SMTT(30)
-----------------------------------------------------------------------------
(* Sequences *)

\* A sequence is a function.
LEMMA SeqFacts ==
  ASSUME NEW S, NEW s \in Seq(S)
  PROVE  Len(s) \in Nat /\ s \in [1..Len(s) -> S] /\ DOMAIN s = 1..Len(s)
         /\ \A i \in 1..Len(s) : s[i] \in S
OBVIOUS

\* A sequence over a set is one over a larger set.
LEMMA SeqSuperset ==
  ASSUME NEW S, NEW T, NEW s \in Seq(S), S \subseteq T
  PROVE  s \in Seq(T)
<1>1. s \in [1..Len(s) -> S] /\ Len(s) \in Nat
  OBVIOUS
<1> QED
  BY <1>1

\* The empty sequence.
LEMMA EmptySeqFacts ==
  ASSUME NEW S
  PROVE  <<>> \in Seq(S) /\ Len(<<>>) = 0 /\ \A s \in Seq(S) : s # <<>> => Len(s) \in Nat \ {0}
OBVIOUS

\* The first element of a sequence, and the others.
LEMMA HeadTailFacts ==
  ASSUME NEW S, NEW s \in Seq(S), s # <<>>
  PROVE  /\ Head(s) \in S /\ Tail(s) \in Seq(S) /\ Len(Tail(s)) = Len(s) - 1
         /\ \A i \in 1..Len(Tail(s)) : Tail(s)[i] = s[i + 1]
OBVIOUS

\* A sequence with an element more.
LEMMA AppendFacts ==
  ASSUME NEW S, NEW s \in Seq(S), NEW e \in S
  PROVE  /\ Append(s, e) \in Seq(S) /\ Append(s, e) # <<>> /\ Len(Append(s, e)) = Len(s) + 1
         /\ (\A i \in 1..Len(s) : Append(s, e)[i] = s[i]) /\ Append(s, e)[Len(s) + 1] = e
OBVIOUS

\* The spans that belong to shard d.
Mine(d) == {x \in Sent : x.id \in Ids /\ GetShardIndex(x.id) = d}

\* Batches only hold valid spans, and of their own shard.
Routed ==
  \A d \in Shards :
    /\ \A r \in Requests : batches[r][d] \in Seq(Mine(d))
    /\ incoming[d] \in Seq(Seq(Mine(d))) /\ writing[d] \in Seq(Mine(d))

\* Index entries come from spans that were sent.
EntriesWereSent ==
  \A d \in Shards : \A e \in beginIndex[d] : [id |-> e[2], begin |-> e[1]] \in Sent

\* Close() has told the goroutine of shard d to exit.
Told(d) == closing[1] = "closed" \/ closing[2] > d \/ closing = <<"wait", d>>

\* Close() begins after the last request; its nil is the last thing in a shard's channel,
\* and a goroutine that exited left nothing there.
NilIsLast ==
  /\ closing # Open => \A r \in Requests : hpc[r] # "decode"
  /\ \A d \in Shards :
       /\ \A k \in 1..Len(incoming[d]) : incoming[d][k] = Nil => k = Len(incoming[d]) /\ Told(d)
       /\ spc[d] = "exited" => incoming[d] = <<>> /\ Told(d)

\* An idle goroutine holds no batch, and neither does an answered request.
DoneIsEmpty ==
  /\ \A d \in Shards : spc[d] # "write" => writing[d] = <<>>
  /\ \A r \in Requests : hpc[r] = "answered" =>
       decoded[r] = Len(SpansOf[r]) /\ \A d \in Shards : batches[r][d] = <<>>

Holds(batch, id) == \E i \in 1..Len(batch) : batch[i].id = id
InChannel(c, id) == \E k \in 1..Len(c) : Holds(c[k], id)

\* The span with this id is on its way from the handler of r to LevelDB.
UnderWay(r, id) ==
  LET d == GetShardIndex(id)
  IN  Holds(batches[r][d], id) \/ InChannel(incoming[d], id) \/ Holds(writing[d], id)

\* The span with this id is invalid, was refused by LevelDB, reaped, or is stored.
Settled(id) ==
  id = INVALID_SPAN_ID \/ id \in failed \union reaped \/ stored[GetShardIndex(id)][id] # None

\* What was decoded is settled or under way.
Accounted ==
  \A r \in Requests : \A i \in 1..decoded[r] :
    Settled(SpansOf[r][i].id) \/ UnderWay(r, SpansOf[r][i].id)

TypeInv == StateTypes /\ Routed
IndexInv == IndexCoversStored /\ IndexIsExact /\ EntriesWereSent
OrderInv == NilIsLast /\ DoneIsEmpty

-----------------------------------------------------------------------------
(* Types and routing *)

\* Sent spans have an id and a begin time.
LEMMA SentType == \A x \in Sent : x \in [id : Ids \union {INVALID_SPAN_ID}, begin : Int]
<1> SUFFICES ASSUME NEW x \in Sent
             PROVE  x \in [id : Ids \union {INVALID_SPAN_ID}, begin : Int]
  OBVIOUS
<1>1. PICK r \in Requests : \E i \in DOMAIN SpansOf[r] : x = SpansOf[r][i]
  BY DEF Sent
<1>2. SpansOf[r] \in Seq([id : Ids \union {INVALID_SPAN_ID}, begin : Int])
  BY StoreAssumption
<1>3. PICK i \in DOMAIN SpansOf[r] : x = SpansOf[r][i]
  BY <1>1
<1>4. i \in 1..Len(SpansOf[r])
  BY <1>2, SeqFacts
<1> QED
  BY <1>2, <1>3, <1>4, SeqFacts

\* getShardIndex() yields a shard.
LEMMA ShardIndex == \A id \in Ids : GetShardIndex(id) \in Shards
BY StoreAssumption, SMTT(30) DEF GetShardIndex, Shards

\* The span a handler decodes next was sent, and if valid belongs to its shard.
LEMMA NextSpan ==
  ASSUME StateTypes, NEW r \in Requests, decoded[r] < Len(SpansOf[r])
  PROVE  /\ Span(r) \in Sent
         /\ Span(r).id # INVALID_SPAN_ID =>
              /\ Span(r).id \in Ids /\ GetShardIndex(Span(r).id) \in Shards
              /\ Span(r) \in Mine(GetShardIndex(Span(r).id))
<1>1. SpansOf[r] \in Seq([id : Ids \union {INVALID_SPAN_ID}, begin : Int])
  BY StoreAssumption
<1>2. DOMAIN SpansOf[r] = 1..Len(SpansOf[r]) /\ Len(SpansOf[r]) \in Nat
  BY <1>1, SeqFacts
<1>3. decoded[r] + 1 \in DOMAIN SpansOf[r]
  BY <1>2, SMTT(30) DEF StateTypes
<1>4. Span(r) \in Sent
  BY <1>3, SMTT(30) DEF Span, Sent
<1> QED
  BY <1>4, SentType, ShardIndex DEF Mine

\* Batches of a shard are batches of sent spans.
LEMMA MineIsSent ==
  /\ \A d \in Shards : Mine(d) \subseteq Sent
  /\ \A d \in Shards : \A s \in Seq(Mine(d)) : s \in Batch
<1>1. \A d \in Shards : Mine(d) \subseteq Sent
  BY DEF Mine
<1> QED
  BY <1>1, SeqSuperset DEF Batch

\* Tail of a sequence that is not empty.
LEMMA TailIn ==
  ASSUME NEW S, NEW s \in Seq(S), s # <<>>
  PROVE  Head(s) \in S /\ Tail(s) \in Seq(S) /\ Len(Tail(s)) = Len(s) - 1 /\ Len(s) \in Nat \ {0}
BY HeadTailFacts, EmptySeqFacts

\* IngestSpan() keeps types and routing.
LEMMA TypeIngestSpan == ASSUME TypeInv, NEW r \in Requests, IngestSpan(r) PROVE TypeInv'
<1> USE StoreAssumption DEF TypeInv
<1> DEFINE x == Span(r)
           d == GetShardIndex(x.id)
           full == Len(batches[r][d]) + 1 = WRITESPANS_BATCH_SIZE
<1>1. /\ x.id # INVALID_SPAN_ID /\ decoded[r] < Len(SpansOf[r])
      /\ full => CanSend(d)
      /\ incoming' = IF full THEN [incoming EXCEPT ![d] = Append(@, batches[r][d])] ELSE incoming
      /\ batches' = [batches EXCEPT ![r][d] = IF full THEN <<x>> ELSE Append(@, x)]
      /\ decoded' = [decoded EXCEPT ![r] = @ + 1]
      /\ totalIngested' = [totalIngested EXCEPT ![r] = @ + 1]
      /\ UNCHANGED <<hpc, serverDropped, heartbeats, shardVars, ldbVars, reaperDate,
                     ReapedSpans, sinkVars, closing, histVars>>
  BY DEF IngestSpan
<1>2. x.id \in Ids /\ d \in Shards /\ x \in Mine(d) /\ x \in Sent
  BY <1>1, NextSpan
<1> HIDE DEF x, d
<1>3. batches[r][d] \in Seq(Mine(d)) /\ batches[r][d] \in Batch /\ Len(batches[r][d]) \in Nat
  BY <1>2, MineIsSent, SeqFacts DEF Routed
<1>4. \A S : x \in S => <<x>> \in Seq(S) /\ Len(<<x>>) = 1
  BY SMTT(30)
<1>5. LET b == IF full THEN <<x>> ELSE Append(batches[r][d], x)
      IN  b \in Seq(Mine(d)) /\ b \in Batch /\ Len(b) < WRITESPANS_BATCH_SIZE
  <2>1. CASE full
    BY <2>1, <1>2, <1>4, SMTT(30) DEF Batch
  <2>2. CASE ~full
    <3>1. /\ Append(batches[r][d], x) \in Seq(Mine(d)) /\ Append(batches[r][d], x) \in Seq(Sent)
          /\ Len(Append(batches[r][d], x)) = Len(batches[r][d]) + 1
      BY <1>2, <1>3, AppendFacts, SMTT(30) DEF Batch
    <3>2. Len(batches[r][d]) < WRITESPANS_BATCH_SIZE
      BY <1>2 DEF StateTypes
    <3> QED
      BY <2>2, <3>1, <3>2, <1>3, SMTT(30) DEF Batch
  <2> QED
    BY <2>1, <2>2
<1>6. /\ batches' \in [Requests -> [Shards -> Batch]]
      /\ \A q \in Requests, e \in Shards : /\ Len(batches'[q][e]) < WRITESPANS_BATCH_SIZE
                                          /\ batches'[q][e] \in Seq(Mine(e))
  BY <1>1, <1>2, <1>5 DEF StateTypes, Routed
<1>7. LET q == Append(incoming[d], batches[r][d])
      IN  /\ q \in Seq(Batch) /\ q \in Seq(Seq(Mine(d)))
          /\ full => Len(q) <= SpanBufferSize
  BY <1>1, <1>2, <1>3, AppendFacts, SeqFacts, SMTT(30) DEF StateTypes, Routed, CanSend
<1>8. /\ incoming' \in [Shards -> Seq(Batch)]
      /\ \A e \in Shards : /\ Len(incoming'[e]) <= SpanBufferSize
                           /\ incoming'[e] \in Seq(Seq(Mine(e)))
  BY <1>1, <1>2, <1>7 DEF StateTypes, Routed
<1>9. /\ decoded' \in [Requests -> Nat] /\ totalIngested' \in [Requests -> Nat]
      /\ \A q \in Requests : decoded'[q] <= Len(SpansOf[q])
  <2>1. \A q \in Requests : Len(SpansOf[q]) \in Nat
    BY SeqFacts, SMTT(30)
  <2>2. /\ decoded \in [Requests -> Nat] /\ totalIngested \in [Requests -> Nat]
        /\ \A q \in Requests : decoded[q] <= Len(SpansOf[q])
    BY DEF StateTypes
  <2>3. decoded[r] + 1 <= Len(SpansOf[r])
    BY <1>1, <2>1, <2>2, SMTT(30)
  <2>4. /\ decoded' = [decoded EXCEPT ![r] = decoded[r] + 1]
        /\ totalIngested' = [totalIngested EXCEPT ![r] = totalIngested[r] + 1]
    BY <1>1
  <2> HIDE DEF TypeInv, full
  <2> QED
    BY ONLY <2>1, <2>2, <2>3, <2>4, r \in Requests
<1> HIDE DEF full
<1>10. StateTypes'
  BY <1>1, <1>6, <1>8, <1>9 DEF StateTypes, shardVars, ldbVars, sinkVars, histVars, Batch
<1>11. Routed'
  BY <1>1, <1>6, <1>8 DEF Routed, shardVars, Mine, Sent
<1> QED
  BY <1>10, <1>11

\* Counting one more.
LEMMA Increment ==
  ASSUME NEW S, NEW f \in [S -> Nat], NEW x \in S
  PROVE  [f EXCEPT ![x] = f[x] + 1] \in [S -> Nat]
BY SMTT(30)

\* Routing only concerns the batches.
LEMMA RoutedStable ==
  ASSUME Routed, batches' = batches, incoming' = incoming, writing' = writing
  PROVE  Routed'
BY DEF Routed, Mine, Sent

\* A handler that drops an invalid span, breaks off or is done keeps types and routing.
LEMMA TypeHandler ==
  ASSUME TypeInv, NEW r \in Requests, IngestInvalid(r) \/ BreakOff(r) \/ CloseIngestor(r)
  PROVE  TypeInv'
<1> USE DEF TypeInv, shardVars, ldbVars, sinkVars, histVars
<1>1. Routed'
  BY RoutedStable DEF IngestInvalid, BreakOff, CloseIngestor
<1>2. CASE IngestInvalid(r)
  <2>1. \A q \in Requests : Len(SpansOf[q]) \in Nat
    BY StoreAssumption, SeqFacts, SMTT(30)
  <2>2. /\ decoded \in [Requests -> Nat] /\ \A q \in Requests : decoded[q] <= Len(SpansOf[q])
        /\ decoded[r] < Len(SpansOf[r]) /\ decoded' = [decoded EXCEPT ![r] = decoded[r] + 1]
    BY <1>2 DEF IngestInvalid, StateTypes
  <2>3. /\ decoded' \in [Requests -> Nat]
        /\ \A q \in Requests : decoded'[q] <= Len(SpansOf[q])
    BY ONLY <2>1, <2>2, r \in Requests
  <2>4. totalIngested' \in [Requests -> Nat] /\ serverDropped' \in [Requests -> Nat]
    <3>1. /\ totalIngested' = [totalIngested EXCEPT ![r] = totalIngested[r] + 1]
          /\ serverDropped' = [serverDropped EXCEPT ![r] = serverDropped[r] + 1]
      BY <1>2 DEF IngestInvalid
    <3>2. totalIngested \in [Requests -> Nat] /\ serverDropped \in [Requests -> Nat]
      BY DEF StateTypes
    <3> QED
      BY ONLY <3>1, <3>2, r \in Requests, Increment
  <2>5. UNCHANGED <<hpc, batches, incoming, heartbeats, shardVars, ldbVars, reaperDate,
                    ReapedSpans, sinkVars, closing, histVars>>
    BY <1>2 DEF IngestInvalid
  <2>6. StateTypes'
    BY <2>3, <2>4, <2>5 DEF StateTypes, Batch
  <2> QED
    BY <1>1, <2>6
<1>3. CASE BreakOff(r)
  BY <1>1, <1>3 DEF BreakOff, StateTypes, Batch
<1>4. CASE CloseIngestor(r)
  <2>1. IngestedSpans' \in Nat /\ ServerDropped' \in Nat
    <3>1. IngestedSpans \in Nat /\ ServerDropped \in Nat
          /\ totalIngested[r] \in Nat /\ serverDropped[r] \in Nat
      BY DEF StateTypes
    <3>2. IngestedSpans' = IngestedSpans + totalIngested[r]
          /\ ServerDropped' = ServerDropped + serverDropped[r]
      BY <1>4 DEF CloseIngestor
    <3> QED
      BY ONLY <3>1, <3>2, SMTT(30)
  <2>2. hpc' \in [Requests -> {"decode", "brokenOff", "answered"}]
    BY <1>4 DEF CloseIngestor, StateTypes
  <2>3. UNCHANGED <<decoded, batches, totalIngested, serverDropped, incoming, heartbeats,
                    shardVars, ldbVars, reaperDate, ReapedSpans, WrittenSpans, closing,
                    histVars>>
    BY <1>4 DEF CloseIngestor
  <2>4. StateTypes'
    BY <2>1, <2>2, <2>3 DEF StateTypes, Batch
  <2> QED
    BY <1>1, <2>4
<1> QED
  BY <1>2, <1>3, <1>4

\* SpanIngestor.Close() keeps types and routing when it hands over a batch.
LEMMA TypeCloseIngestorBatch ==
  ASSUME TypeInv, NEW r \in Requests, CloseIngestorBatch(r)
  PROVE  TypeInv'
<1> USE DEF TypeInv
<1>1. PICK d \in Shards :
        /\ CanSend(d)
        /\ incoming' = [incoming EXCEPT ![d] = Append(incoming[d], batches[r][d])]
        /\ batches' = [batches EXCEPT ![r][d] = <<>>]
  BY DEF CloseIngestorBatch
<1>2. /\ Append(incoming[d], batches[r][d]) \in Seq(Batch)
      /\ Append(incoming[d], batches[r][d]) \in Seq(Seq(Mine(d)))
      /\ Len(Append(incoming[d], batches[r][d])) <= SpanBufferSize
  <2>1. /\ incoming[d] \in Seq(Batch) /\ batches[r][d] \in Batch
        /\ incoming[d] \in Seq(Seq(Mine(d))) /\ batches[r][d] \in Seq(Mine(d))
    BY DEF StateTypes, Routed
  <2>2. Len(incoming[d]) < SpanBufferSize /\ SpanBufferSize \in Nat
    BY <1>1, StoreAssumption DEF CanSend
  <2> QED
    BY <2>1, <2>2, AppendFacts, SeqFacts, SMTT(30)
<1>3. /\ incoming' \in [Shards -> Seq(Batch)]
      /\ \A e \in Shards : /\ Len(incoming'[e]) <= SpanBufferSize
                           /\ incoming'[e] \in Seq(Seq(Mine(e)))
  BY <1>1, <1>2 DEF StateTypes, Routed
<1>4. <<>> \in Batch /\ <<>> \in Seq(Mine(d)) /\ Len(<<>>) < WRITESPANS_BATCH_SIZE
  BY StoreAssumption, EmptySeqFacts, SMTT(30) DEF Batch
<1>5. /\ batches' \in [Requests -> [Shards -> Batch]]
      /\ \A q \in Requests, e \in Shards : /\ Len(batches'[q][e]) < WRITESPANS_BATCH_SIZE
                                          /\ batches'[q][e] \in Seq(Mine(e))
  BY <1>1, <1>4 DEF StateTypes, Routed
<1>6. UNCHANGED <<hpc, decoded, totalIngested, serverDropped, heartbeats, shardVars,
                  ldbVars, reaperDate, ReapedSpans, sinkVars, closing, histVars>>
  BY DEF CloseIngestorBatch
<1>7. StateTypes'
  BY <1>3, <1>5, <1>6 DEF StateTypes, Batch, shardVars, ldbVars, sinkVars, histVars
<1>8. Routed'
  BY <1>3, <1>5, <1>6 DEF Routed, Mine, Sent, shardVars
<1> QED
  BY <1>7, <1>8

\* Taking a batch or a nil from the channel keeps types and routing.
LEMMA TypeTake ==
  ASSUME TypeInv, NEW d \in Shards, TakeBatch(d) \/ TakeNil(d)
  PROVE  TypeInv'
<1> USE DEF TypeInv
<1>1. /\ incoming[d] # <<>> /\ incoming' = [incoming EXCEPT ![d] = Tail(incoming[d])]
      /\ writing' = writing \/ writing' = [writing EXCEPT ![d] = Head(incoming[d])]
      /\ UNCHANGED <<ingestVars, heartbeats, ldbVars, reaperDate, ReapedSpans, sinkVars,
                     closing, histVars>>
  BY DEF TakeBatch, TakeNil
<1>2. /\ Tail(incoming[d]) \in Seq(Batch) /\ Head(incoming[d]) \in Batch
      /\ Len(Tail(incoming[d])) <= SpanBufferSize
  BY <1>1, StoreAssumption, TailIn, SMTT(30) DEF StateTypes
<1>3. Tail(incoming[d]) \in Seq(Seq(Mine(d))) /\ Head(incoming[d]) \in Seq(Mine(d))
  BY <1>1, TailIn DEF Routed
<1>4. /\ incoming' \in [Shards -> Seq(Batch)]
      /\ \A e \in Shards : /\ Len(incoming'[e]) <= SpanBufferSize
                           /\ incoming'[e] \in Seq(Seq(Mine(e)))
  BY <1>1, <1>2, <1>3 DEF StateTypes, Routed
<1>5. writing' \in [Shards -> Batch] /\ \A e \in Shards : writing'[e] \in Seq(Mine(e))
  <2>1. writing \in [Shards -> Batch] /\ \A e \in Shards : writing[e] \in Seq(Mine(e))
    BY DEF StateTypes, Routed
  <2> QED
    BY ONLY <1>1, <1>2, <1>3, <2>1, d \in Shards
<1>6. /\ spc' \in [Shards -> {"select", "write", "exited"}]
      /\ totalWritten' \in [Shards -> Nat] /\ totalDropped' \in [Shards -> Nat]
  <2>1. /\ spc \in [Shards -> {"select", "write", "exited"}]
        /\ totalWritten \in [Shards -> Nat] /\ totalDropped \in [Shards -> Nat]
    BY DEF StateTypes
  <2>2. CASE TakeBatch(d)
    BY <2>1, <2>2 DEF TakeBatch
  <2>3. CASE TakeNil(d)
    BY <2>1, <2>3 DEF TakeNil
  <2> QED
    BY <2>2, <2>3
<1>7. StateTypes'
  BY <1>1, <1>4, <1>5, <1>6 DEF StateTypes, Batch, ingestVars, ldbVars, sinkVars, histVars
<1>8. Routed'
  BY <1>1, <1>4, <1>5 DEF Routed, Mine, Sent, ingestVars
<1> QED
  BY <1>7, <1>8

\* The span that is being written is valid and belongs to the shard.
LEMMA WrittenSpan ==
  ASSUME TypeInv, NEW d \in Shards, writing[d] # <<>>
  PROVE  /\ Head(writing[d]) \in Mine(d) /\ Tail(writing[d]) \in Seq(Mine(d))
         /\ Head(writing[d]).id \in Ids /\ Head(writing[d]).begin \in Int
         /\ GetShardIndex(Head(writing[d]).id) = d
<1>1. Head(writing[d]) \in Mine(d) /\ Tail(writing[d]) \in Seq(Mine(d))
  BY TailIn DEF TypeInv, Routed
<1> QED
  BY <1>1, SentType DEF Mine

\* Writing a span, or failing to, keeps types and routing.
LEMMA TypeWriteSpan ==
  ASSUME TypeInv, NEW d \in Shards, WriteSpan(d) \/ WriteSpanFails(d)
  PROVE  TypeInv'
<1> DEFINE x == Head(writing[d])
<1>1. writing[d] # <<>> /\ writing' = [writing EXCEPT ![d] = Tail(writing[d])]
  BY DEF WriteSpan, WriteSpanFails
<1>2. /\ x.id \in Ids /\ x.begin \in Int
      /\ Tail(writing[d]) \in Seq(Mine(d)) /\ Tail(writing[d]) \in Batch
  BY <1>1, WrittenSpan, MineIsSent
<1>3. writing' \in [Shards -> Batch] /\ \A e \in Shards : writing'[e] \in Seq(Mine(e))
  BY <1>1, <1>2 DEF TypeInv, StateTypes, Routed
<1>4. /\ stored \in [Shards -> [Ids -> Int \union {None}]]
      /\ beginIndex \in [Shards -> SUBSET (Int \X Ids)] /\ failed \subseteq Ids
      /\ totalWritten \in [Shards -> Nat] /\ totalDropped \in [Shards -> Nat]
  BY DEF TypeInv, StateTypes
<1> HIDE DEF x
<1>5. CASE WriteSpan(d)
  <2>1. /\ stored' = [stored EXCEPT ![d][x.id] = x.begin]
        /\ beginIndex' = [beginIndex EXCEPT ![d] = beginIndex[d] \union {<<x.begin, x.id>>}]
        /\ totalWritten' = [totalWritten EXCEPT ![d] = totalWritten[d] + 1]
        /\ UNCHANGED <<ingestVars, incoming, heartbeats, spc, totalDropped, reaperDate,
                       ReapedSpans, sinkVars, closing, histVars>>
    BY <1>5 DEF WriteSpan, x
  <2>2. stored' \in [Shards -> [Ids -> Int \union {None}]]
    BY ONLY <1>2, <1>4, <2>1, d \in Shards
  <2>3. beginIndex' \in [Shards -> SUBSET (Int \X Ids)]
    BY ONLY <1>2, <1>4, <2>1, d \in Shards
  <2>4. totalWritten' \in [Shards -> Nat]
    BY ONLY <1>4, <2>1, d \in Shards, Increment
  <2>5. StateTypes'
    BY <1>3, <2>1, <2>2, <2>3, <2>4
       DEF TypeInv, StateTypes, Batch, ingestVars, sinkVars, histVars
  <2>6. Routed'
    BY <1>3, <2>1 DEF TypeInv, Routed, Mine, Sent, ingestVars
  <2> QED
    BY <2>5, <2>6 DEF TypeInv
<1>6. CASE WriteSpanFails(d)
  <2>1. /\ failed' = failed \union {x.id}
        /\ totalDropped' = [totalDropped EXCEPT ![d] = totalDropped[d] + 1]
        /\ UNCHANGED <<ingestVars, incoming, heartbeats, spc, totalWritten, ldbVars,
                       reaperDate, ReapedSpans, sinkVars, closing, reaped>>
    BY <1>6 DEF WriteSpanFails, x
  <2>2. totalDropped' \in [Shards -> Nat] /\ failed' \subseteq Ids
    BY ONLY <1>2, <1>4, <2>1, d \in Shards, Increment
  <2>3. StateTypes'
    BY <1>3, <2>1, <2>2 DEF TypeInv, StateTypes, Batch, ingestVars, ldbVars, sinkVars
  <2>4. Routed'
    BY <1>3, <2>1 DEF TypeInv, Routed, Mine, Sent, ingestVars
  <2> QED
    BY <2>3, <2>4 DEF TypeInv
<1> QED
  BY <1>5, <1>6

\* UpdatePersisted() keeps types and routing.
LEMMA TypeUpdatePersisted == ASSUME TypeInv, NEW d \in Shards, UpdatePersisted(d) PROVE TypeInv'
<1>1. UNCHANGED <<ingestVars, incoming, heartbeats, writing, totalWritten, totalDropped,
                  ldbVars, reaperDate, ReapedSpans, IngestedSpans, closing, histVars>>
  BY DEF UpdatePersisted
<1>2. WrittenSpans' \in Nat /\ ServerDropped' \in Nat
  <2>1. WrittenSpans \in Nat /\ ServerDropped \in Nat
        /\ totalWritten[d] \in Nat /\ totalDropped[d] \in Nat
    BY DEF TypeInv, StateTypes
  <2>2. WrittenSpans' = WrittenSpans + totalWritten[d]
        /\ ServerDropped' = ServerDropped + totalDropped[d]
    BY DEF UpdatePersisted
  <2> QED
    BY ONLY <2>1, <2>2, SMTT(30)
<1>3. spc' \in [Shards -> {"select", "write", "exited"}]
  BY DEF UpdatePersisted, TypeInv, StateTypes
<1>4. StateTypes'
  BY <1>1, <1>2, <1>3 DEF TypeInv, StateTypes, Batch, ingestVars, ldbVars, histVars
<1>5. Routed'
  BY <1>1, RoutedStable DEF TypeInv, ingestVars
<1> QED
  BY <1>4, <1>5 DEF TypeInv

\* Index entries are pairs of a time and an id.
LEMMA EntryType ==
  ASSUME TypeInv, NEW d \in Shards
  PROVE  \A e \in beginIndex[d] : /\ e = <<e[1], e[2]>> /\ e[1] \in Int
                                  /\ e[2] \in Ids /\ e[2] \in Int
<1>1. Ids \subseteq Int
  BY StoreAssumption, SMTT(30)
<1>2. beginIndex[d] \subseteq Int \X Ids
  BY DEF TypeInv, StateTypes
<1> QED
  BY ONLY <1>1, <1>2

\* The entries of which a pass of pruneExpired() deletes the spans: all entries it gets to,
\* or, when a deletion fails, those before some entry.
Pruned(d, P) ==
  /\ P \subseteq Passed(d)
  /\ \A e \in P, f \in Passed(d) : KeyLeq(f, e) => f \in P
  /\ heartbeats' = [heartbeats EXCEPT ![d] = heartbeats[d] - 1]
  /\ DeleteSpans(d, {e[2] : e \in P})
  /\ spc[d] = "select" /\ heartbeats[d] > 0
  /\ UNCHANGED <<ingestVars, incoming, shardVars, reaperDate, sinkVars, closing, failed>>

\* Both ways a pass can go delete the spans of the first entries.
LEMMA PruneStep ==
  ASSUME TypeInv, NEW d \in Shards, PruneExpired(d) \/ PruneFails(d)
  PROVE  \E P \in SUBSET Passed(d) : Pruned(d, P)
<1>1. CASE PruneExpired(d)
  <2>1. Pruned(d, Passed(d))
    BY <1>1 DEF PruneExpired, Pruned
  <2> QED
    BY <2>1
<1>2. CASE PruneFails(d)
  <2>1. PICK e \in Passed(d) :
          DeleteSpans(d, {f[2] : f \in {x \in Passed(d) : x # e /\ KeyLeq(x, e)}})
    BY <1>2 DEF PruneFails
  <2> DEFINE P == {x \in Passed(d) : x # e /\ KeyLeq(x, e)}
  <2>2. \A x \in Passed(d) : x = <<x[1], x[2]>> /\ x[1] \in Int /\ x[2] \in Int
    BY EntryType DEF Passed, ReaperEntries
  <2>3. \A x \in P, f \in Passed(d) : KeyLeq(f, x) => f \in P
    BY <2>2, SMTT(30) DEF KeyLeq
  <2>4. Pruned(d, P)
    BY <1>2, <2>1, <2>3 DEF PruneFails, Pruned
  <2> QED
    BY <2>4
<1> QED
  BY <1>1, <1>2

\* What a pass deletes was stored and had expired.
LEMMA PrunedSpans ==
  ASSUME TypeInv, NEW d \in Shards, NEW P \in SUBSET Passed(d)
  PROVE  \A e \in P : /\ e \in beginIndex[d] /\ e = <<e[1], e[2]>> /\ e[1] \in Int /\ e[2] \in Ids
                      /\ stored[d][e[2]] \in Int /\ stored[d][e[2]] < reaperDate
<1>1. \A e \in P : e \in ReaperEntries(d) /\ Deletable(d, e)
  <2> SUFFICES ASSUME NEW e \in P PROVE e \in ReaperEntries(d) /\ Deletable(d, e)
    OBVIOUS
  <2>1. e \in ReaperEntries(d) /\ (KeyLeq(e, e) => Deletable(d, e))
    BY DEF Passed
  <2>2. e[1] \in Int /\ e[2] \in Int
    BY <2>1, EntryType DEF ReaperEntries
  <2> QED
    BY <2>1, <2>2 DEF KeyLeq
<1>2. \A e \in ReaperEntries(d) : e \in beginIndex[d]
  BY DEF ReaperEntries
<1> QED
  BY <1>1, <1>2, EntryType, SMTT(30) DEF Deletable, TypeInv, StateTypes

\* Pruning keeps types and routing.
LEMMA TypePrune ==
  ASSUME TypeInv, NEW d \in Shards, PruneExpired(d) \/ PruneFails(d)
  PROVE  TypeInv'
<1>1. PICK P \in SUBSET Passed(d) : Pruned(d, P)
  BY PruneStep
<1> DEFINE dead == {e[2] : e \in P}
<1>2. dead \subseteq Ids
  BY PrunedSpans
<1> HIDE DEF dead
<1>3. /\ stored' = [stored EXCEPT ![d] =
                      [id \in Ids |-> IF id \in dead THEN None ELSE stored[d][id]]]
      /\ beginIndex' = [beginIndex EXCEPT ![d] =
                          beginIndex[d] \ {<<stored[d][id], id>> : id \in dead}]
      /\ reaped' = reaped \union dead
  BY <1>1 DEF Pruned, DeleteSpans, dead
<1>4. /\ heartbeats' = [heartbeats EXCEPT ![d] = heartbeats[d] - 1] /\ heartbeats[d] > 0
      /\ UNCHANGED <<ingestVars, incoming, shardVars, reaperDate, sinkVars, closing, failed>>
  BY <1>1 DEF Pruned
<1>5. /\ stored \in [Shards -> [Ids -> Int \union {None}]]
      /\ beginIndex \in [Shards -> SUBSET (Int \X Ids)] /\ reaped \subseteq Ids
      /\ heartbeats \in [Shards -> 0..1]
  BY DEF TypeInv, StateTypes
<1>6. stored' \in [Shards -> [Ids -> Int \union {None}]]
  BY ONLY <1>3, <1>5, d \in Shards
<1>7. beginIndex' \in [Shards -> SUBSET (Int \X Ids)]
  BY ONLY <1>3, <1>5, d \in Shards
<1>8. heartbeats' \in [Shards -> 0..1] /\ reaped' \subseteq Ids
  BY ONLY <1>2, <1>3, <1>4, <1>5, d \in Shards
<1>9. StateTypes'
  BY <1>4, <1>6, <1>7, <1>8 DEF TypeInv, StateTypes, Batch, ingestVars, shardVars, sinkVars
<1>10. Routed'
  BY <1>4, RoutedStable DEF TypeInv, ingestVars, shardVars
<1> QED
  BY <1>9, <1>10 DEF TypeInv

\* Heartbeats, the reaper date and Close() keep types and routing.
LEMMA TypeClosing ==
  ASSUME TypeInv, \/ Heartbeat \/ HandleHeartbeat \/ Close
                  \/ \E d \in Shards : CloseShard(d) \/ ShardClosed(d)
  PROVE  TypeInv'
<1> USE DEF ingestVars, shardVars, ldbVars, sinkVars, histVars
<1>1. CASE Heartbeat
  BY <1>1, RoutedStable, SMTT(30) DEF Heartbeat, TypeInv, StateTypes, Batch
<1>2. CASE HandleHeartbeat
  BY <1>2, RoutedStable DEF HandleHeartbeat, TypeInv, StateTypes, Batch
<1>3. CASE Close
  <2>1. 0 \in Shards
    BY StoreAssumption, SMTT(30) DEF Shards
  <2>2. closing' \in {"send", "wait"} \X Shards
    BY <1>3, <2>1 DEF Close
  <2>3. UNCHANGED <<ingestVars, incoming, heartbeats, shardVars, ldbVars, reaperDate,
                    ReapedSpans, sinkVars, histVars>>
    BY <1>3 DEF Close
  <2> QED
    BY <2>2, <2>3, RoutedStable DEF TypeInv, StateTypes, Batch
<1>4. ASSUME NEW d \in Shards, CloseShard(d) PROVE TypeInv'
  <2>1. /\ CanSend(d) /\ closing' = <<"wait", d>>
        /\ incoming' = [incoming EXCEPT ![d] = Append(incoming[d], Nil)]
        /\ UNCHANGED <<ingestVars, heartbeats, shardVars, ldbVars, reaperDate, ReapedSpans,
                       sinkVars, histVars>>
    BY <1>4 DEF CloseShard
  <2>2. Nil \in Batch /\ Nil \in Seq(Mine(d))
    BY EmptySeqFacts DEF Nil, Batch
  <2>3. /\ Append(incoming[d], Nil) \in Seq(Batch)
        /\ Append(incoming[d], Nil) \in Seq(Seq(Mine(d)))
        /\ Len(Append(incoming[d], Nil)) <= SpanBufferSize
    BY <2>1, <2>2, StoreAssumption, AppendFacts, SeqFacts, SMTT(30)
       DEF TypeInv, StateTypes, Routed, CanSend
  <2>4. /\ incoming' \in [Shards -> Seq(Batch)]
        /\ \A e \in Shards : /\ Len(incoming'[e]) <= SpanBufferSize
                             /\ incoming'[e] \in Seq(Seq(Mine(e)))
    BY <2>1, <2>3 DEF TypeInv, StateTypes, Routed
  <2>5. closing' \in {"send", "wait"} \X Shards
    BY <2>1
  <2>6. StateTypes'
    BY <2>1, <2>4, <2>5 DEF TypeInv, StateTypes, Batch
  <2>7. Routed'
    BY <2>1, <2>4 DEF TypeInv, Routed, Mine, Sent
  <2> QED
    BY <2>6, <2>7 DEF TypeInv
<1>5. ASSUME NEW d \in Shards, ShardClosed(d) PROVE TypeInv'
  <2>1. closing' \in {Open, Closed} \union ({"send", "wait"} \X Shards)
    BY <1>5 DEF ShardClosed
  <2>2. UNCHANGED <<ingestVars, incoming, heartbeats, shardVars, ldbVars, reaperDate,
                    ReapedSpans, sinkVars, histVars>>
    BY <1>5 DEF ShardClosed
  <2> QED
    BY <2>1, <2>2, RoutedStable DEF TypeInv, StateTypes, Batch
<1> QED
  BY <1>1, <1>2, <1>3, <1>4, <1>5

\* Types and routing are invariant.
THEOREM TypeInvariance == Spec => []TypeInv
<1>1. Init => TypeInv
  <2> SUFFICES ASSUME Init PROVE TypeInv
    OBVIOUS
  <2>1. \A S : <<>> \in Seq(S) /\ Len(<<>>) = 0
    BY EmptySeqFacts
  <2>2. \A q \in Requests : Len(SpansOf[q]) \in Nat
    BY StoreAssumption, SeqFacts, SMTT(30)
  <2>3. StateTypes
    BY <2>1, <2>2, StoreAssumption, SMTT(30) DEF Init, StateTypes, Batch
  <2>4. Routed
    BY <2>1 DEF Init, Routed
  <2> QED
    BY <2>3, <2>4 DEF TypeInv
<1>2. TypeInv /\ [Next]_vars => TypeInv'
  <2> SUFFICES ASSUME TypeInv, [Next]_vars PROVE TypeInv'
    OBVIOUS
  <2>1. ASSUME NEW r \in Requests, HandlerStep(r) PROVE TypeInv'
    BY <2>1, TypeIngestSpan, TypeHandler, TypeCloseIngestorBatch DEF HandlerStep
  <2>2. ASSUME NEW d \in Shards, BatchStep(d) PROVE TypeInv'
    BY <2>2, TypeTake, TypeWriteSpan, TypeUpdatePersisted DEF BatchStep
  <2>3. ASSUME NEW d \in Shards, PruneExpired(d) \/ PruneFails(d) PROVE TypeInv'
    BY <2>3, TypePrune
  <2>4. CASE UNCHANGED vars
    <3>1. StateTypes'
      BY <2>4 DEF vars, ingestVars, shardVars, ldbVars, sinkVars, histVars, TypeInv, StateTypes,
         Batch
    <3> QED
      BY <2>4, <3>1, RoutedStable DEF vars, ingestVars, shardVars, TypeInv
  <2> QED
    BY <2>1, <2>2, <2>3, <2>4, TypeClosing DEF Next
<1> QED
  BY <1>1, <1>2, PTL DEF Spec

-----------------------------------------------------------------------------
(* The begin time index *)

\* A LevelDB batch that stores a span leaves at most the entries of its older versions.
LEMMA IndexWriteSpan ==
  ASSUME TypeInv, IndexInv, NEW d \in Shards, WriteSpan(d)
  PROVE  IndexInv'
<1> DEFINE x == Head(writing[d])
<1>1. writing[d] # <<>>
  BY DEF WriteSpan
<1>2. x \in Sent /\ x.id \in Ids /\ x.begin \in Int /\ GetShardIndex(x.id) = d
  BY <1>1, WrittenSpan DEF Mine
<1>3. /\ stored' = [stored EXCEPT ![d][x.id] = x.begin]
      /\ beginIndex' = [beginIndex EXCEPT ![d] = beginIndex[d] \union {<<x.begin, x.id>>}]
  BY DEF WriteSpan
<1>4. [id |-> x.id, begin |-> x.begin] = x
  BY <1>2, SentType
<1> HIDE DEF x
<1>5. /\ stored \in [Shards -> [Ids -> Int \union {None}]]
      /\ beginIndex \in [Shards -> SUBSET (Int \X Ids)]
  BY DEF TypeInv, StateTypes
<1>6. /\ \A e \in Shards, id \in Ids :
           stored'[e][id] = IF e = d /\ id = x.id THEN x.begin ELSE stored[e][id]
      /\ \A e \in Shards :
           beginIndex'[e] = IF e = d THEN beginIndex[d] \union {<<x.begin, x.id>>}
                            ELSE beginIndex[e]
  BY ONLY <1>2, <1>3, <1>5, d \in Shards
<1>7. EntriesWereSent'
  BY <1>2, <1>4, <1>6, SMTT(30) DEF IndexInv, EntriesWereSent, Sent
<1>8. IndexCoversStored'
  BY <1>2, <1>6, SMTT(30) DEF IndexInv, IndexCoversStored, GetShardIndex
<1>9. IndexIsExact'
  <2> SUFFICES ASSUME NEW e \in Shards, NEW f \in beginIndex'[e],
                      stored'[e][f[2]] # f[1]
               PROVE  Rewritten(f[2])
    BY DEF IndexIsExact, Rewritten, Sent
  <2>1. f # <<x.begin, x.id>> \/ e # d
    BY <1>2, <1>6, SMTT(30)
  <2>2. f \in beginIndex[e] /\ f[2] \in Ids /\ f[1] \in Int
    BY <1>6, <2>1, EntryType, SMTT(30)
  <2>3. CASE e = d /\ f[2] = x.id
    <3>1. f[1] # x.begin
      BY <2>2, <2>3, <1>6
    <3>2. [id |-> f[2], begin |-> f[1]] \in Sent
      BY <2>2 DEF IndexInv, EntriesWereSent
    <3> QED
      BY <3>1, <3>2, <2>3, <1>2 DEF Rewritten
  <2>4. CASE ~(e = d /\ f[2] = x.id)
    BY <2>2, <2>4, <1>6 DEF IndexInv, IndexIsExact
  <2> QED
    BY <2>3, <2>4
<1> QED
  BY <1>7, <1>8, <1>9 DEF IndexInv

\* DeleteSpan() removes a span with its entry.
LEMMA IndexPrune ==
  ASSUME TypeInv, IndexInv, NEW d \in Shards, PruneExpired(d) \/ PruneFails(d)
  PROVE  IndexInv'
<1>1. PICK P \in SUBSET Passed(d) : Pruned(d, P)
  BY PruneStep
<1> DEFINE dead == {e[2] : e \in P}
<1>2. \A id \in dead : id \in Ids /\ stored[d][id] \in Int
  BY PrunedSpans
<1>3. /\ stored' = [stored EXCEPT ![d] =
                      [id \in Ids |-> IF id \in dead THEN None ELSE stored[d][id]]]
      /\ beginIndex' = [beginIndex EXCEPT ![d] =
                          beginIndex[d] \ {<<stored[d][id], id>> : id \in dead}]
  BY <1>1 DEF Pruned, DeleteSpans
<1> HIDE DEF dead
<1>4. /\ stored \in [Shards -> [Ids -> Int \union {None}]]
      /\ beginIndex \in [Shards -> SUBSET (Int \X Ids)]
  BY DEF TypeInv, StateTypes
<1>5. /\ \A e \in Shards, id \in Ids :
           stored'[e][id] = IF e = d /\ id \in dead THEN None ELSE stored[e][id]
      /\ \A e \in Shards :
           beginIndex'[e] = IF e = d THEN beginIndex[d] \ {<<stored[d][id], id>> : id \in dead}
                            ELSE beginIndex[e]
  BY ONLY <1>3, <1>4, d \in Shards
<1>6. EntriesWereSent'
  BY <1>5 DEF IndexInv, EntriesWereSent, Sent
<1>7. IndexCoversStored'
  <2> SUFFICES ASSUME NEW e \in Shards, NEW id \in Ids, stored'[e][id] # None
               PROVE  <<stored'[e][id], id>> \in beginIndex'[e] /\ e = GetShardIndex(id)
    BY DEF IndexCoversStored, GetShardIndex
  <2>1. stored'[e][id] = stored[e][id] /\ ~(e = d /\ id \in dead)
    BY <1>5
  <2>2. <<stored[e][id], id>> \in beginIndex[e] /\ e = GetShardIndex(id)
    BY <2>1 DEF IndexInv, IndexCoversStored
  <2>3. e = d => <<stored[e][id], id>> \notin {<<stored[d][j], j>> : j \in dead}
    BY <2>1
  <2> QED
    BY <1>5, <2>1, <2>2, <2>3
<1>8. IndexIsExact'
  <2> SUFFICES ASSUME NEW e \in Shards, NEW f \in beginIndex'[e],
                      stored'[e][f[2]] # f[1]
               PROVE  Rewritten(f[2])
    BY DEF IndexIsExact, Rewritten, Sent
  <2>1. f \in beginIndex[e] /\ f[2] \in Ids /\ f = <<f[1], f[2]>>
    BY <1>5, EntryType
  <2>2. stored[e][f[2]] # f[1]
    <3>1. CASE e = d /\ f[2] \in dead
      <4>1. f \notin {<<stored[d][id], id>> : id \in dead}
        BY <3>1, <1>5
      <4> QED
        BY <3>1, <4>1, <2>1
    <3>2. CASE ~(e = d /\ f[2] \in dead)
      BY <3>2, <2>1, <1>5
    <3> QED
      BY <3>1, <3>2
  <2> QED
    BY <2>1, <2>2 DEF IndexInv, IndexIsExact
<1> QED
  BY <1>6, <1>7, <1>8 DEF IndexInv

\* Every other step leaves LevelDB alone.
LEMMA IndexStable == ASSUME IndexInv, UNCHANGED ldbVars PROVE IndexInv'
BY DEF IndexInv, ldbVars, IndexCoversStored, IndexIsExact, EntriesWereSent, Rewritten, Sent,
   GetShardIndex

\* Only writing and pruning change LevelDB.
LEMMA LdbSteps ==
  ASSUME [Next]_vars
  PROVE  \/ UNCHANGED ldbVars
         \/ \E d \in Shards : WriteSpan(d) \/ PruneExpired(d) \/ PruneFails(d)
BY DEF Next, HandlerStep, BatchStep, IngestInvalid, IngestSpan, BreakOff, CloseIngestorBatch,
   CloseIngestor, TakeBatch, TakeNil, WriteSpanFails, UpdatePersisted, Heartbeat,
   HandleHeartbeat, Close, CloseShard, ShardClosed, vars

\* The invariant of the index holds.
THEOREM IndexInvariance == Spec => []IndexInv
<1>1. Init => IndexInv
  BY SMTT(30) DEF Init, IndexInv, IndexCoversStored, IndexIsExact, EntriesWereSent
<1>2. TypeInv /\ IndexInv /\ [Next]_vars => IndexInv'
  BY LdbSteps, IndexStable, IndexWriteSpan, IndexPrune
<1> QED
  BY <1>1, <1>2, TypeInvariance, PTL DEF Spec

\* Every stored span can be found by its begin time, in the shard its id hashes to.
THEOREM StoredSpansAreIndexed == Spec => []IndexCoversStored
BY IndexInvariance, PTL DEF IndexInv

\* No index entry dangles, except those of spans sent with several begin times.
THEOREM NoEntryDangles == Spec => []IndexIsExact
BY IndexInvariance, PTL DEF IndexInv

-----------------------------------------------------------------------------
(* The reaper *)

\* A step that removes a span is a pass of pruneExpired() over one of its entries.
LEMMA RemovingStep ==
  ASSUME TypeInv, [Next]_vars, NEW d \in Shards, NEW id \in Ids,
         stored[d][id] # None, stored'[d][id] = None
  PROVE  \E P \in SUBSET Passed(d) : Pruned(d, P) /\ \E e \in P : e[2] = id
<1>1. stored \in [Shards -> [Ids -> Int \union {None}]]
  BY DEF TypeInv, StateTypes
<1>2. ~UNCHANGED ldbVars
  BY DEF ldbVars
<1>3. \A c \in Shards : ~WriteSpan(c)
  <2> SUFFICES ASSUME NEW c \in Shards, WriteSpan(c) PROVE FALSE
    OBVIOUS
  <2>1. writing[c] # <<>> /\ stored' = [stored EXCEPT ![c][Head(writing[c]).id] =
                                          Head(writing[c]).begin]
    BY DEF WriteSpan
  <2>2. Head(writing[c]).id \in Ids /\ Head(writing[c]).begin \in Int
    BY <2>1, WrittenSpan
  <2>3. Head(writing[c]).begin # None
    BY <2>2, StoreAssumption
  <2> QED
    BY <1>1, <2>1, <2>2, <2>3
<1>4. PICK c \in Shards : PruneExpired(c) \/ PruneFails(c)
  BY <1>2, <1>3, LdbSteps
<1>5. PICK P \in SUBSET Passed(c) : Pruned(c, P)
  BY <1>4, PruneStep
<1>6. stored' = [stored EXCEPT ![c] =
                   [j \in Ids |-> IF j \in {e[2] : e \in P} THEN None ELSE stored[c][j]]]
  BY <1>5 DEF Pruned, DeleteSpans
<1>7. c = d /\ id \in {e[2] : e \in P}
  BY <1>1, <1>6, SMTT(30)
<1> QED
  BY <1>5, <1>7

\* A deleted span began before the reaper date.
LEMMA SparesStep ==
  ASSUME TypeInv, [Next]_vars, NEW d \in Shards, NEW id \in Ids,
         stored[d][id] # None, stored'[d][id] = None
  PROVE  stored[d][id] < reaperDate
BY RemovingStep, PrunedSpans, SMTT(30)

\* The reaper only deletes spans that began before the reaper date, also ones it reaches
\* through the entry of an older version.
THEOREM UnexpiredSpansStay == Spec => ReaperSparesUnexpired
<1>1. TypeInv /\ [Next]_vars =>
        [\A d \in Shards, id \in Ids : stored[d][id] # None /\ stored'[d][id] = None =>
           stored[d][id] < reaperDate]_vars
  BY SparesStep
<1> QED
  BY <1>1, TypeInvariance, PTL DEF Spec, ReaperSparesUnexpired

\* A span that stays although a younger one is deleted has no entry before that one's.
LEMMA OldestStep ==
  ASSUME TypeInv, IndexInv, [Next]_vars, NEW d \in Shards, NEW id \in Ids, NEW j \in Ids,
         stored[d][id] # None, stored'[d][id] = None, stored'[d][j] # None
  PROVE  stored'[d][j] <= 0 \/ stored'[d][j] >= stored[d][id] \/ Rewritten(id)
<1>1. PICK P \in SUBSET Passed(d) : Pruned(d, P) /\ \E e \in P : e[2] = id
  BY RemovingStep
<1>2. PICK e \in P : e[2] = id
  BY <1>1
<1>3. /\ e \in beginIndex[d] /\ e = <<e[1], e[2]>> /\ e[1] \in Int
      /\ stored[d][id] \in Int
  BY <1>2, PrunedSpans
<1>4. stored \in [Shards -> [Ids -> Int \union {None}]]
  BY DEF TypeInv, StateTypes
<1>5. stored' = [stored EXCEPT ![d] =
                   [k \in Ids |-> IF k \in {f[2] : f \in P} THEN None ELSE stored[d][k]]]
  BY <1>1 DEF Pruned, DeleteSpans
<1>6. stored'[d][j] = stored[d][j] /\ j \notin {f[2] : f \in P} /\ stored[d][j] \in Int
  <2>1. stored'[d] = [k \in Ids |-> IF k \in {f[2] : f \in P} THEN None ELSE stored[d][k]]
    BY ONLY <1>4, <1>5, d \in Shards
  <2>2. stored'[d][j] = IF j \in {f[2] : f \in P} THEN None ELSE stored[d][j]
    BY ONLY <2>1, j \in Ids
  <2>3. stored[d][j] \in Int \union {None}
    BY ONLY <1>4, d \in Shards, j \in Ids
  <2>4. stored'[d][j] # None
    OBVIOUS
  <2> QED
    BY ONLY <2>2, <2>3, <2>4
<1> SUFFICES ASSUME stored[d][j] > 0, stored[d][j] < stored[d][id], ~Rewritten(id)
             PROVE  FALSE
  BY <1>3, <1>6
<1>7. stored[d][id] = e[1]
  BY <1>2, <1>3 DEF IndexInv, IndexIsExact
<1> DEFINE f == <<stored[d][j], j>>
<1>8. f \in beginIndex[d] /\ f[1] = stored[d][j] /\ f[2] = j /\ j \in Int
  BY <1>6, EntryType DEF IndexInv, IndexCoversStored
<1>9. f \in ReaperEntries(d)
  BY <1>6, <1>8, StoreAssumption DEF ReaperEntries, KeyLeq
<1>10. KeyLeq(f, e)
  BY <1>6, <1>7, <1>8 DEF KeyLeq
<1>11. e \in Passed(d)
  BY <1>2
<1>12. \A g \in ReaperEntries(d) : KeyLeq(g, f) => KeyLeq(g, e)
  <2> SUFFICES ASSUME NEW g \in ReaperEntries(d), KeyLeq(g, f) PROVE KeyLeq(g, e)
    OBVIOUS
  <2>1. g[1] \in Int /\ g[2] \in Int
    BY EntryType DEF ReaperEntries
  <2>2. g[1] <= f[1]
    BY <2>1, <1>6, <1>8 DEF KeyLeq
  <2> QED
    BY <2>1, <2>2, <1>3, <1>6, <1>7, <1>8 DEF KeyLeq
<1>13. f \in Passed(d)
  BY <1>9, <1>11, <1>12 DEF Passed
<1>14. f \in P
  BY <1>1, <1>2, <1>10, <1>13 DEF Pruned
<1> QED
  BY <1>6, <1>8, <1>14

\* The reaper deletes the oldest spans first, even when a deletion fails half-way.
THEOREM OldestSpansGoFirst == Spec => ReapsOldestFirst
<1>1. TypeInv /\ IndexInv /\ [Next]_vars =>
        [\A d \in Shards, id, j \in Ids :
           stored[d][id] # None /\ stored'[d][id] = None /\ stored'[d][j] # None =>
             \/ stored'[d][j] <= 0 \/ stored'[d][j] >= stored[d][id]
             \/ Rewritten(id)]_vars
  BY OldestStep
<1> QED
  BY <1>1, TypeInvariance, IndexInvariance, PTL DEF Spec, ReapsOldestFirst

-----------------------------------------------------------------------------
(* Close() and the order of the channels *)

\* An open store has told no shard to exit.
LEMMA OpenUntold == closing = Open => \A d \in Shards : ~Told(d)
<1>1. \A d \in Shards : d \in Int /\ d >= 0
  BY StoreAssumption, SMTT(30) DEF Shards
<1>2. closing = Open => closing[1] = "open" /\ closing[2] = 0
  BY DEF Open
<1> QED
  BY ONLY <1>1, <1>2 DEF Told, Open

\* While a request is in progress no shard has been told to exit.
LEMMA DecodingUntold ==
  ASSUME TypeInv, OrderInv, NEW r \in Requests, hpc[r] = "decode"
  PROVE  /\ \A d \in Shards : ~Told(d) /\ spc[d] # "exited"
         /\ \A d \in Shards : \A k \in 1..Len(incoming[d]) : incoming[d][k] # Nil
<1>1. closing = Open
  BY DEF OrderInv, NilIsLast
<1>2. \A d \in Shards : ~Told(d)
  BY <1>1, OpenUntold
<1> QED
  BY <1>2 DEF OrderInv, NilIsLast

\* Handing over a batch that is not empty puts no nil into the channel.
LEMMA OrderHandOver ==
  ASSUME TypeInv, OrderInv, NEW r \in Requests, hpc[r] = "decode", NEW d \in Shards,
         batches[r][d] # <<>>,
         incoming' = [incoming EXCEPT ![d] = Append(incoming[d], batches[r][d])],
         UNCHANGED <<hpc, spc, closing>>
  PROVE  NilIsLast'
<1>1. /\ \A e \in Shards : ~Told(e) /\ spc[e] # "exited"
      /\ \A e \in Shards : \A k \in 1..Len(incoming[e]) : incoming[e][k] # Nil
  BY DecodingUntold
<1>2. incoming \in [Shards -> Seq(Batch)] /\ batches[r][d] \in Batch
  BY DEF TypeInv, StateTypes
<1>3. \A k \in 1..Len(incoming'[d]) : incoming'[d][k] # Nil
  <2>1. incoming[d] \in Seq(Batch) /\ Len(incoming[d]) \in Nat
    BY <1>2, SeqFacts
  <2>2. /\ Len(Append(incoming[d], batches[r][d])) = Len(incoming[d]) + 1
        /\ \A i \in 1..Len(incoming[d]) : Append(incoming[d], batches[r][d])[i] = incoming[d][i]
        /\ Append(incoming[d], batches[r][d])[Len(incoming[d]) + 1] = batches[r][d]
    BY ONLY <1>2, <2>1, AppendFacts
  <2>3. incoming'[d] = Append(incoming[d], batches[r][d])
    BY <1>2
  <2>4. \A k \in 1..(Len(incoming[d]) + 1) : k \in 1..Len(incoming[d]) \/ k = Len(incoming[d]) + 1
    BY ONLY <2>1
  <2> QED
    BY ONLY <1>1, <2>2, <2>3, <2>4, d \in Shards, batches[r][d] # <<>> DEF Nil
<1>4. \A e \in Shards : \A k \in 1..Len(incoming'[e]) : incoming'[e][k] # Nil
  BY <1>1, <1>2, <1>3
<1> QED
  BY <1>1, <1>4 DEF OrderInv, NilIsLast

\* A handler hands over batches that are not empty, and holds none once it has answered.
LEMMA OrderHandler == ASSUME TypeInv, OrderInv, NEW r \in Requests, HandlerStep(r) PROVE OrderInv'
<1> USE DEF shardVars
<1>0. /\ batches \in [Requests -> [Shards -> Batch]]
      /\ hpc \in [Requests -> {"decode", "brokenOff", "answered"}]
  BY DEF TypeInv, StateTypes
<1>1. CASE IngestSpan(r)
  <2> DEFINE d == GetShardIndex(Span(r).id)
             full == Len(batches[r][d]) + 1 = WRITESPANS_BATCH_SIZE
  <2>1. /\ hpc[r] = "decode" /\ UNCHANGED <<hpc, spc, writing, closing>>
        /\ incoming' = IF full THEN [incoming EXCEPT ![d] = Append(incoming[d], batches[r][d])]
                       ELSE incoming
        /\ decoded' = [decoded EXCEPT ![r] = decoded[r] + 1]
        /\ batches' = [batches EXCEPT ![r][d] =
                         IF full THEN <<Span(r)>> ELSE Append(batches[r][d], Span(r))]
    BY <1>1 DEF IngestSpan
  <2>2. d \in Shards
    BY <1>1, NextSpan DEF IngestSpan, TypeInv
  <2> HIDE DEF d
  <2>3. full => batches[r][d] # <<>>
    BY StoreAssumption, EmptySeqFacts, SMTT(30)
  <2>4. NilIsLast'
    <3>1. CASE full
      BY <2>1, <2>2, <2>3, <3>1, OrderHandOver
    <3>2. CASE ~full
      BY <2>1, <3>2 DEF OrderInv, NilIsLast, Told
    <3> QED
      BY <3>1, <3>2
  <2>5. DoneIsEmpty'
    <3>1. decoded \in [Requests -> Nat]
      BY DEF TypeInv, StateTypes
    <3>2. \A q \in Requests : q # r => decoded'[q] = decoded[q] /\ batches'[q] = batches[q]
      BY ONLY <1>0, <2>1, <3>1, r \in Requests
    <3> QED
      BY <2>1, <3>2, SMTT(30) DEF OrderInv, DoneIsEmpty
  <2> QED
    BY <2>4, <2>5 DEF OrderInv
<1>2. CASE IngestInvalid(r)
  <2>1. decoded \in [Requests -> Nat]
    BY DEF TypeInv, StateTypes
  <2>2. \A q \in Requests : hpc[q] = "answered" => decoded'[q] = decoded[q]
    BY <1>2, <2>1 DEF IngestInvalid
  <2> QED
    BY <1>2, <2>2 DEF IngestInvalid, OrderInv, NilIsLast, DoneIsEmpty, Told
<1>3. CASE BreakOff(r)
  BY <1>0, <1>3 DEF BreakOff, OrderInv, NilIsLast, DoneIsEmpty, Told
<1>4. CASE CloseIngestorBatch(r)
  <2>1. PICK d \in Shards :
          /\ batches[r][d] # <<>>
          /\ incoming' = [incoming EXCEPT ![d] = Append(incoming[d], batches[r][d])]
          /\ batches' = [batches EXCEPT ![r][d] = <<>>]
    BY <1>4 DEF CloseIngestorBatch
  <2>2. hpc[r] = "decode" /\ UNCHANGED <<hpc, decoded, spc, writing, closing>>
    BY <1>4 DEF CloseIngestorBatch
  <2>3. NilIsLast'
    BY <2>1, <2>2, OrderHandOver
  <2>4. \A q \in Requests : q # r => batches'[q] = batches[q]
    BY <1>0, <2>1
  <2> QED
    BY <2>2, <2>3, <2>4 DEF OrderInv, DoneIsEmpty
<1>5. CASE CloseIngestor(r)
  BY <1>0, <1>5 DEF CloseIngestor, OrderInv, NilIsLast, DoneIsEmpty, Told
<1> QED
  BY <1>1, <1>2, <1>3, <1>4, <1>5 DEF HandlerStep

\* A shard exits on the nil, which is the last thing in its channel.
LEMMA OrderBatch == ASSUME TypeInv, OrderInv, NEW d \in Shards, BatchStep(d) PROVE OrderInv'
<1>0. /\ incoming \in [Shards -> Seq(Batch)] /\ writing \in [Shards -> Batch]
      /\ spc \in [Shards -> {"select", "write", "exited"}]
  BY DEF TypeInv, StateTypes
<1>1. ASSUME incoming[d] # <<>>
      PROVE  /\ Len(Tail(incoming[d])) = Len(incoming[d]) - 1
             /\ \A k \in 1..Len(Tail(incoming[d])) : Tail(incoming[d])[k] = incoming[d][k + 1]
             /\ Len(incoming[d]) \in Nat \ {0}
  BY <1>0, <1>1
<1>2. ASSUME incoming[d] # <<>>, incoming' = [incoming EXCEPT ![d] = Tail(incoming[d])]
      PROVE  \A e \in Shards : \A k \in 1..Len(incoming'[e]) :
               incoming'[e][k] = Nil => k = Len(incoming'[e]) /\ Told(e)
  <2>1. \A k \in 1..Len(incoming[d]) : incoming[d][k] = Nil => k = Len(incoming[d]) /\ Told(d)
    BY DEF OrderInv, NilIsLast
  <2>2. incoming'[d] = Tail(incoming[d])
    BY <1>0, <1>2
  <2>3. \A k \in 1..Len(incoming'[d]) : incoming'[d][k] = Nil => k = Len(incoming'[d]) /\ Told(d)
    BY ONLY <1>1, <1>2, <2>1, <2>2
  <2>4. \A e \in Shards : e # d => incoming'[e] = incoming[e]
    BY <1>0, <1>2
  <2> QED
    BY <2>3, <2>4 DEF OrderInv, NilIsLast
<1>3. CASE TakeBatch(d)
  <2>1. /\ incoming[d] # <<>> /\ incoming' = [incoming EXCEPT ![d] = Tail(incoming[d])]
        /\ writing' = [writing EXCEPT ![d] = Head(incoming[d])]
        /\ spc' = [spc EXCEPT ![d] = "write"]
        /\ spc[d] = "select" /\ UNCHANGED <<hpc, closing, decoded, batches>>
    BY <1>3 DEF TakeBatch, ingestVars
  <2>2. \A e \in Shards : spc'[e] # "write" => e # d /\ spc[e] = spc'[e] /\ writing'[e] = writing[e]
    BY <1>0, <2>1
  <2>3. \A e \in Shards : spc'[e] = "exited" => Told(e) /\ incoming'[e] = <<>>
    BY <1>0, <2>1, <2>2 DEF OrderInv, NilIsLast
  <2>4. NilIsLast'
    BY <1>2, <2>1, <2>3 DEF OrderInv, NilIsLast, Told
  <2> QED
    BY <2>1, <2>2, <2>4 DEF OrderInv, DoneIsEmpty
<1>4. CASE TakeNil(d)
  <2>1. /\ incoming[d] # <<>> /\ incoming' = [incoming EXCEPT ![d] = Tail(incoming[d])]
        /\ Head(incoming[d]) = Nil /\ spc[d] = "select"
        /\ spc' = [spc EXCEPT ![d] = "exited"]
        /\ UNCHANGED <<hpc, closing, decoded, batches, writing>>
    BY <1>4 DEF TakeNil, ingestVars
  <2>2. Len(incoming[d]) = 1 /\ Told(d)
    <3>1. 1 \in 1..Len(incoming[d]) /\ incoming[d][1] = Nil
      BY <1>0, <1>1, <2>1, SMTT(30)
    <3> QED
      BY <3>1 DEF OrderInv, NilIsLast
  <2>3. Tail(incoming[d]) = <<>>
    BY <1>0, <1>1, <2>1, <2>2, SMTT(30)
  <2>4. /\ incoming'[d] = <<>>
        /\ \A e \in Shards : e # d => spc'[e] = spc[e] /\ incoming'[e] = incoming[e]
    BY <1>0, <2>1, <2>3
  <2>5. NilIsLast'
    BY <1>2, <2>1, <2>2, <2>4 DEF OrderInv, NilIsLast, Told
  <2> QED
    BY <1>0, <2>1, <2>5 DEF OrderInv, DoneIsEmpty
<1>5. CASE WriteSpan(d) \/ WriteSpanFails(d)
  <2>1. /\ spc[d] = "write" /\ writing' = [writing EXCEPT ![d] = Tail(writing[d])]
        /\ UNCHANGED <<hpc, decoded, batches, incoming, spc, closing>>
    BY <1>5 DEF WriteSpan, WriteSpanFails, ingestVars
  <2>2. \A e \in Shards : spc[e] # "write" => writing'[e] = writing[e]
    BY <1>0, <2>1
  <2> QED
    BY <2>1, <2>2 DEF OrderInv, NilIsLast, DoneIsEmpty, Told
<1>6. CASE UpdatePersisted(d)
  <2>1. /\ spc[d] = "write" /\ writing[d] = <<>> /\ spc' = [spc EXCEPT ![d] = "select"]
        /\ UNCHANGED <<hpc, decoded, batches, incoming, writing, closing>>
    BY <1>6 DEF UpdatePersisted, ingestVars
  <2>2. spc'[d] = "select" /\ \A e \in Shards : e # d => spc'[e] = spc[e]
    BY <1>0, <2>1
  <2> QED
    BY <2>1, <2>2 DEF OrderInv, NilIsLast, DoneIsEmpty, Told
<1> QED
  BY <1>3, <1>4, <1>5, <1>6 DEF BatchStep

\* Close() sends each shard one nil, after everything a request handed over, and goes on to
\* the next shard when this one has exited.
LEMMA OrderClose ==
  ASSUME TypeInv, OrderInv, Close \/ \E d \in Shards : CloseShard(d) \/ ShardClosed(d)
  PROVE  OrderInv'
<1>0. /\ incoming \in [Shards -> Seq(Batch)]
      /\ Shards \subseteq Int /\ \A d \in Shards : d >= 0
      /\ hpc \in [Requests -> {"decode", "brokenOff", "answered"}]
  <2>1. Shards \subseteq Int /\ \A d \in Shards : d >= 0
    BY StoreAssumption, SMTT(30) DEF Shards
  <2> QED
    BY <2>1 DEF TypeInv, StateTypes
<1>1. CASE Close
  <2>1. \A d \in Shards : ~Told(d)
    BY <1>1, OpenUntold DEF Close
  <2> QED
    BY <1>1, <2>1 DEF Close, OrderInv, NilIsLast, DoneIsEmpty, Told, ingestVars, shardVars
<1>2. ASSUME NEW d \in Shards, CloseShard(d) PROVE OrderInv'
  <2>1. /\ closing = <<"send", d>> /\ closing' = <<"wait", d>>
        /\ incoming' = [incoming EXCEPT ![d] = Append(incoming[d], Nil)]
        /\ UNCHANGED <<hpc, decoded, batches, spc, writing>>
    BY <1>2 DEF CloseShard, ingestVars, shardVars
  <2>2. ~Told(d) /\ Told(d)' /\ \A e \in Shards : Told(e) => Told(e)'
    BY <1>0, <2>1 DEF Told
  <2>3. \A k \in 1..Len(incoming[d]) : incoming[d][k] # Nil
    BY <2>2 DEF OrderInv, NilIsLast
  <2>4. /\ Len(incoming[d]) \in Nat
        /\ Len(Append(incoming[d], Nil)) = Len(incoming[d]) + 1
        /\ \A i \in 1..Len(incoming[d]) : Append(incoming[d], Nil)[i] = incoming[d][i]
    <3>1. incoming[d] \in Seq(Batch) /\ Nil \in Batch
      BY <1>0, EmptySeqFacts DEF Batch, Nil
    <3> QED
      BY ONLY <3>1, AppendFacts, SeqFacts
  <2>5. \A k \in 1..Len(incoming'[d]) : incoming'[d][k] = Nil => k = Len(incoming'[d])
    <3>1. incoming'[d] = Append(incoming[d], Nil)
      BY <1>0, <2>1
    <3>2. \A k \in 1..(Len(incoming[d]) + 1) :
            k \in 1..Len(incoming[d]) \/ k = Len(incoming[d]) + 1
      BY ONLY <2>4
    <3> QED
      BY ONLY <2>3, <2>4, <3>1, <3>2
  <2>6. \A e \in Shards : e # d => incoming'[e] = incoming[e]
    BY <1>0, <2>1
  <2>7. NilIsLast
    BY DEF OrderInv
  <2>8. closing # Open
    BY ONLY <2>1 DEF Open
  <2>9. /\ \A r \in Requests : hpc'[r] # "decode"
        /\ \A e \in Shards :
             /\ \A k \in 1..Len(incoming'[e]) :
                  incoming'[e][k] = Nil => k = Len(incoming'[e]) /\ Told(e)'
             /\ spc'[e] = "exited" => incoming'[e] = <<>> /\ Told(e)'
    BY ONLY <2>1, <2>2, <2>5, <2>6, <2>7, <2>8 DEF NilIsLast
  <2>10. NilIsLast'
    BY <2>9 DEF NilIsLast
  <2> QED
    BY <2>1, <2>10 DEF OrderInv, DoneIsEmpty
<1>3. ASSUME NEW d \in Shards, ShardClosed(d) PROVE OrderInv'
  <2>1. /\ closing = <<"wait", d>>
        /\ closing' = IF d + 1 \in Shards THEN <<"send", d + 1>> ELSE Closed
        /\ UNCHANGED <<hpc, decoded, batches, incoming, spc, writing>>
    BY <1>3 DEF ShardClosed, ingestVars, shardVars
  <2>2. \A e \in Shards : Told(e) => Told(e)'
    <3> SUFFICES ASSUME NEW e \in Shards, Told(e) PROVE Told(e)'
      OBVIOUS
    <3>1. d >= e /\ d \in Int /\ e \in Int
      <4>1. d \in Int /\ e \in Int
        BY <1>0
      <4>2. closing[1] # "closed" /\ closing[2] = d
        BY ONLY <2>1
      <4>3. closing = <<"wait", e>> => e = d
        BY ONLY <2>1
      <4> QED
        BY ONLY <4>1, <4>2, <4>3, Told(e) DEF Told
    <3>2. CASE d + 1 \in Shards
      BY <2>1, <3>1, <3>2 DEF Told
    <3>3. CASE d + 1 \notin Shards
      BY <2>1, <3>3 DEF Told, Closed
    <3> QED
      BY <3>2, <3>3
  <2>3. closing # Open
    BY <2>1 DEF Open
  <2>4. NilIsLast'
    BY <2>1, <2>2, <2>3 DEF OrderInv, NilIsLast
  <2> QED
    BY <2>1, <2>4 DEF OrderInv, DoneIsEmpty
<1> QED
  BY <1>1, <1>2, <1>3

\* Requests, channels and Close() stay in step.
THEOREM OrderInvariance == Spec => []OrderInv
<1>1. Init => OrderInv
  BY SMTT(30) DEF Init, OrderInv, NilIsLast, DoneIsEmpty
<1>2. TypeInv /\ OrderInv /\ [Next]_vars => OrderInv'
  <2> SUFFICES ASSUME TypeInv, OrderInv, [Next]_vars PROVE OrderInv'
    OBVIOUS
  <2>1. ASSUME UNCHANGED <<hpc, decoded, batches, incoming, spc, writing, closing>>
        PROVE  OrderInv'
    BY <2>1 DEF OrderInv, NilIsLast, DoneIsEmpty, Told
  <2>2. ASSUME NEW d \in Shards, PruneExpired(d) \/ PruneFails(d) PROVE OrderInv'
    BY <2>1, <2>2 DEF PruneExpired, PruneFails, ingestVars, shardVars
  <2>3. CASE Heartbeat \/ HandleHeartbeat \/ UNCHANGED vars
    BY <2>1, <2>3 DEF Heartbeat, HandleHeartbeat, vars, ingestVars, shardVars
  <2> QED
    BY <2>2, <2>3, OrderHandler, OrderBatch, OrderClose DEF Next
<1> QED
  BY <1>1, <1>2, TypeInvariance, PTL DEF Spec

-----------------------------------------------------------------------------
(* The way of a span from the handler to LevelDB *)

\* What a batch holds it holds after an append, and the appended span too.
LEMMA HoldsAppend ==
  ASSUME NEW S, NEW s \in Seq(S), NEW x \in S, NEW id, Holds(s, id) \/ x.id = id
  PROVE  Holds(Append(s, x), id)
<1>1. /\ Len(s) \in Nat /\ Len(Append(s, x)) = Len(s) + 1
      /\ \A i \in 1..Len(s) : Append(s, x)[i] = s[i]
      /\ Append(s, x)[Len(s) + 1] = x
  BY AppendFacts, SeqFacts, SMTT(30)
<1>2. CASE Holds(s, id)
  <2>1. PICK i \in 1..Len(s) : s[i].id = id
    BY <1>2 DEF Holds
  <2>2. i \in 1..Len(Append(s, x)) /\ Append(s, x)[i].id = id
    BY <1>1, <2>1
  <2> QED
    BY <2>2 DEF Holds
<1>3. CASE x.id = id
  <2>1. Len(s) + 1 \in 1..Len(Append(s, x)) /\ Append(s, x)[Len(s) + 1].id = id
    BY <1>1, <1>3
  <2> QED
    BY <2>1 DEF Holds
<1> QED
  BY <1>2, <1>3

\* What a batch holds is its head or held by its tail.
LEMMA HoldsTail ==
  ASSUME NEW S, NEW s \in Seq(S), s # <<>>, NEW id, Holds(s, id), Head(s).id # id
  PROVE  Holds(Tail(s), id)
<1>1. /\ Len(s) \in Nat \ {0} /\ Len(Tail(s)) = Len(s) - 1 /\ Head(s) = s[1]
      /\ \A j \in 1..Len(Tail(s)) : Tail(s)[j] = s[j + 1]
  OBVIOUS
<1>2. PICK i \in 1..Len(s) : s[i].id = id
  BY DEF Holds
<1>3. i - 1 \in 1..Len(Tail(s)) /\ (i - 1) + 1 = i
  BY ONLY <1>1, <1>2, Head(s).id # id
<1>4. Tail(s)[i - 1] = s[i]
  BY ONLY <1>1, <1>3
<1> QED
  BY <1>2, <1>3, <1>4 DEF Holds

\* Sending a batch leaves the batches of the channel in it.
LEMMA ChannelAppend ==
  ASSUME NEW S, NEW c \in Seq(S), NEW b \in S, NEW id, InChannel(c, id) \/ Holds(b, id)
  PROVE  InChannel(Append(c, b), id)
<1>1. /\ Len(c) \in Nat /\ Len(Append(c, b)) = Len(c) + 1
      /\ \A i \in 1..Len(c) : Append(c, b)[i] = c[i]
      /\ Append(c, b)[Len(c) + 1] = b
  BY AppendFacts, SeqFacts, SMTT(30)
<1>2. CASE InChannel(c, id)
  <2>1. PICK i \in 1..Len(c) : Holds(c[i], id)
    BY <1>2 DEF InChannel
  <2>2. i \in 1..Len(Append(c, b)) /\ Holds(Append(c, b)[i], id)
    BY <1>1, <2>1
  <2> QED
    BY <2>2 DEF InChannel
<1>3. CASE Holds(b, id)
  <2>1. Len(c) + 1 \in 1..Len(Append(c, b)) /\ Holds(Append(c, b)[Len(c) + 1], id)
    BY <1>1, <1>3
  <2> QED
    BY <2>1 DEF InChannel
<1> QED
  BY <1>2, <1>3

\* What a channel holds is in the batch received next or in what remains.
LEMMA ChannelTail ==
  ASSUME NEW S, NEW c \in Seq(S), c # <<>>, NEW id, InChannel(c, id), ~Holds(Head(c), id)
  PROVE  InChannel(Tail(c), id)
<1>1. /\ Len(c) \in Nat \ {0} /\ Len(Tail(c)) = Len(c) - 1 /\ Head(c) = c[1]
      /\ \A j \in 1..Len(Tail(c)) : Tail(c)[j] = c[j + 1]
  OBVIOUS
<1>2. PICK i \in 1..Len(c) : Holds(c[i], id)
  BY DEF InChannel
<1>3. i - 1 \in 1..Len(Tail(c)) /\ (i - 1) + 1 = i
  BY ONLY <1>1, <1>2, ~Holds(Head(c), id)
<1>4. Tail(c)[i - 1] = c[i]
  BY ONLY <1>1, <1>3
<1> QED
  BY <1>2, <1>3, <1>4 DEF InChannel

\* A settled span stays settled: what the reaper deletes counts as reaped.
LEMMA SettledStays ==
  ASSUME TypeInv, [Next]_vars, NEW id \in Ids, Settled(id)
  PROVE  Settled(id)'
<1>1. GetShardIndex(id) \in Shards
  BY ShardIndex
<1>2. failed \subseteq failed' /\ reaped \subseteq reaped'
  BY DEF Next, HandlerStep, BatchStep, IngestInvalid, IngestSpan, BreakOff,
     CloseIngestorBatch, CloseIngestor, TakeBatch, TakeNil, WriteSpan, WriteSpanFails,
     UpdatePersisted, PruneExpired, PruneFails, DeleteSpans, Heartbeat, HandleHeartbeat, Close,
     CloseShard, ShardClosed, vars, histVars
<1>3. CASE stored[GetShardIndex(id)][id] # None /\ stored'[GetShardIndex(id)][id] = None
  <2>1. PICK P \in SUBSET Passed(GetShardIndex(id)) :
          Pruned(GetShardIndex(id), P) /\ \E e \in P : e[2] = id
    BY <1>1, <1>3, RemovingStep
  <2>2. id \in reaped'
    BY <2>1 DEF Pruned, DeleteSpans
  <2> QED
    BY <2>2 DEF Settled
<1>4. CASE ~(stored[GetShardIndex(id)][id] # None /\ stored'[GetShardIndex(id)][id] = None)
  BY <1>2, <1>4 DEF Settled, GetShardIndex
<1> QED
  BY <1>3, <1>4

\* A handler that hands its batch to the shard passes the spans on: what was in the channel
\* or in the batch is in the channel.
LEMMA HandOver ==
  ASSUME TypeInv, NEW q \in Requests, NEW e \in Shards, NEW r \in Requests, NEW id \in Ids,
         incoming' = [incoming EXCEPT ![e] = Append(incoming[e], batches[q][e])],
         writing' = writing,
         \A s \in Requests, d \in Shards : <<s, d>> # <<q, e>> => batches'[s][d] = batches[s][d],
         UnderWay(r, id)
  PROVE  UnderWay(r, id)'
<1> DEFINE d == GetShardIndex(id)
<1>1. d \in Shards
  BY ShardIndex
<1>2. incoming \in [Shards -> Seq(Batch)] /\ batches[q][e] \in Batch
  BY ONLY TypeInv, q \in Requests, e \in Shards DEF TypeInv, StateTypes
<1>3. /\ d # e => incoming'[d] = incoming[d]
      /\ d = e => incoming'[d] = Append(incoming[d], batches[q][d])
  BY <1>1, <1>2
<1>4. Holds(batches[r][d], id) \/ InChannel(incoming[d], id) \/ Holds(writing[d], id)
  BY DEF UnderWay
<1>5. GetShardIndex(id)' = d
  BY DEF GetShardIndex
<1>6. InChannel(incoming[d], id) => InChannel(incoming'[d], id)
  BY <1>1, <1>2, <1>3, ChannelAppend
<1>7. Holds(batches[r][d], id) => Holds(batches'[r][d], id) \/ InChannel(incoming'[d], id)
  <2>1. CASE r = q /\ d = e
    BY <1>1, <1>2, <1>3, <2>1, ChannelAppend
  <2>2. CASE ~(r = q /\ d = e)
    BY <1>1, <2>2
  <2> QED
    BY <2>1, <2>2
<1> HIDE DEF d
<1> QED
  BY <1>4, <1>5, <1>6, <1>7 DEF UnderWay, Holds, InChannel, d

\* A span under way stays so in every step of a handler.
LEMMA UnderWayHandler ==
  ASSUME TypeInv, NEW q \in Requests, HandlerStep(q), NEW r \in Requests, NEW id \in Ids,
         UnderWay(r, id)
  PROVE  UnderWay(r, id)'
<1>0. batches \in [Requests -> [Shards -> Batch]]
  BY DEF TypeInv, StateTypes
<1>1. CASE IngestSpan(q)
  <2> DEFINE e == GetShardIndex(Span(q).id)
             full == Len(batches[q][e]) + 1 = WRITESPANS_BATCH_SIZE
  <2>1. /\ writing' = writing
        /\ incoming' = IF full THEN [incoming EXCEPT ![e] = Append(incoming[e], batches[q][e])]
                       ELSE incoming
        /\ batches' = [batches EXCEPT ![q][e] =
                         IF full THEN <<Span(q)>> ELSE Append(batches[q][e], Span(q))]
    BY <1>1 DEF IngestSpan, shardVars
  <2>2. e \in Shards /\ Span(q) \in Sent
    BY <1>1, NextSpan DEF IngestSpan, TypeInv
  <2> HIDE DEF e
  <2>3. \A s \in Requests, d \in Shards : <<s, d>> # <<q, e>> => batches'[s][d] = batches[s][d]
    BY <1>0, <2>1, <2>2
  <2>4. CASE full
    BY <2>1, <2>2, <2>3, <2>4, HandOver
  <2>5. CASE ~full
    <3>1. batches'[q][e] = Append(batches[q][e], Span(q)) /\ batches[q][e] \in Seq(Sent)
      BY <1>0, <2>1, <2>2, <2>5 DEF Batch
    <3>2. \A s \in Requests, d \in Shards : Holds(batches[s][d], id) => Holds(batches'[s][d], id)
      <4> SUFFICES ASSUME NEW s \in Requests, NEW d \in Shards, Holds(batches[s][d], id)
                   PROVE  Holds(batches'[s][d], id)
        OBVIOUS
      <4>1. CASE s = q /\ d = e
        BY <2>2, <3>1, <4>1, HoldsAppend, ZenonT(30)
      <4>2. CASE ~(s = q /\ d = e)
        BY <2>3, <4>2
      <4> QED
        BY <4>1, <4>2
    <3> QED
      BY <2>1, <2>5, <3>2, ShardIndex DEF UnderWay, GetShardIndex, Holds, InChannel
  <2> QED
    BY <2>4, <2>5
<1>2. CASE CloseIngestorBatch(q)
  <2>1. PICK e \in Shards :
          /\ incoming' = [incoming EXCEPT ![e] = Append(incoming[e], batches[q][e])]
          /\ batches' = [batches EXCEPT ![q][e] = <<>>]
    BY <1>2 DEF CloseIngestorBatch
  <2>2. \A s \in Requests, d \in Shards : <<s, d>> # <<q, e>> => batches'[s][d] = batches[s][d]
    BY <1>0, <2>1
  <2>3. writing' = writing
    BY <1>2 DEF CloseIngestorBatch, shardVars
  <2> QED
    BY <2>1, <2>2, <2>3, HandOver
<1>3. CASE IngestInvalid(q) \/ BreakOff(q) \/ CloseIngestor(q)
  <2>1. UNCHANGED <<batches, incoming, writing>>
    BY <1>3 DEF IngestInvalid, BreakOff, CloseIngestor, shardVars
  <2> QED
    BY <2>1 DEF UnderWay, GetShardIndex, Holds, InChannel
<1> QED
  BY <1>1, <1>2, <1>3 DEF HandlerStep

\* A shard writes what it takes from its channel, span by span.
LEMMA UnderWayBatch ==
  ASSUME TypeInv, OrderInv, NEW e \in Shards, BatchStep(e), NEW r \in Requests, NEW id \in Ids,
         UnderWay(r, id)
  PROVE  UnderWay(r, id)' \/ Settled(id)'
<1> DEFINE d == GetShardIndex(id)
<1>0. /\ incoming \in [Shards -> Seq(Batch)] /\ writing \in [Shards -> Batch]
      /\ stored \in [Shards -> [Ids -> Int \union {None}]]
  BY DEF TypeInv, StateTypes
<1>1. d \in Shards /\ GetShardIndex(id)' = d
  BY ShardIndex DEF GetShardIndex
<1>2. Holds(batches[r][d], id) \/ InChannel(incoming[d], id) \/ Holds(writing[d], id)
  BY DEF UnderWay
<1>3. Holds(batches'[r][d], id) \/ InChannel(incoming'[d], id) \/ Holds(writing'[d], id)
        => UnderWay(r, id)'
  BY DEF UnderWay, GetShardIndex, Holds, InChannel
<1>4. id \in failed' \/ stored'[d][id] # None => Settled(id)'
  BY DEF Settled, GetShardIndex
<1> HIDE DEF d
<1>5. CASE TakeBatch(e)
  <2>1. /\ incoming[e] # <<>> /\ incoming' = [incoming EXCEPT ![e] = Tail(incoming[e])]
        /\ writing' = [writing EXCEPT ![e] = Head(incoming[e])]
        /\ spc[e] = "select" /\ batches' = batches
    BY <1>5 DEF TakeBatch, ingestVars
  <2>2. CASE d # e
    <3>1. incoming'[d] = incoming[d] /\ writing'[d] = writing[d]
      BY <1>0, <1>1, <2>1, <2>2
    <3> QED
      BY <1>2, <1>3, <2>1, <3>1
  <2>3. CASE d = e
    <3>1. incoming'[d] = Tail(incoming[d]) /\ writing'[d] = Head(incoming[d]) /\ incoming[d] # <<>>
      BY <1>0, <1>1, <2>1, <2>3
    <3>2. writing[d] = <<>>
      BY <2>1, <2>3, e \in Shards DEF OrderInv, DoneIsEmpty
    <3>3. ~Holds(writing[d], id)
      BY <3>2 DEF Holds
    <3>4. InChannel(incoming[d], id) => InChannel(incoming'[d], id) \/ Holds(writing'[d], id)
      BY <1>0, <1>1, <3>1, ChannelTail
    <3> QED
      BY <1>2, <1>3, <2>1, <3>3, <3>4
  <2> QED
    BY <2>2, <2>3
<1>6. CASE TakeNil(e)
  <2>1. /\ incoming[e] # <<>> /\ incoming' = [incoming EXCEPT ![e] = Tail(incoming[e])]
        /\ Head(incoming[e]) = Nil /\ UNCHANGED <<batches, writing>>
    BY <1>6 DEF TakeNil, ingestVars
  <2>2. ~Holds(Head(incoming[e]), id)
    BY <2>1 DEF Nil, Holds
  <2>3. InChannel(incoming[d], id) => InChannel(incoming'[d], id)
    BY <1>0, <1>1, <2>1, <2>2, ChannelTail
  <2> QED
    BY <1>2, <1>3, <2>1, <2>3
<1>7. CASE WriteSpan(e) \/ WriteSpanFails(e)
  <2>1. /\ writing[e] # <<>> /\ writing' = [writing EXCEPT ![e] = Tail(writing[e])]
        /\ UNCHANGED <<batches, incoming>>
    BY <1>7 DEF WriteSpan, WriteSpanFails, ingestVars
  <2>2. CASE d # e \/ Head(writing[e]).id # id
    <3>1. Holds(writing[d], id) => Holds(writing'[d], id)
      BY <1>0, <1>1, <2>1, <2>2, HoldsTail DEF Batch
    <3> QED
      BY <1>2, <1>3, <2>1, <3>1
  <2>3. CASE d = e /\ Head(writing[e]).id = id
    <3>1. Head(writing[e]).begin \in Int
      BY <2>1, WrittenSpan
    <3>2. CASE WriteSpan(e)
      <4>1. stored' = [stored EXCEPT ![e][id] = Head(writing[e]).begin]
        BY <2>3, <3>2 DEF WriteSpan
      <4>2. stored'[d][id] = Head(writing[e]).begin
        BY <1>0, <1>1, <2>3, <4>1
      <4> QED
        BY <1>4, <3>1, <4>2, StoreAssumption
    <3>3. CASE WriteSpanFails(e)
      BY <1>4, <2>3, <3>3 DEF WriteSpanFails
    <3> QED
      BY <1>7, <3>2, <3>3
  <2> QED
    BY <2>2, <2>3
<1>8. CASE UpdatePersisted(e)
  BY <1>2, <1>3, <1>8 DEF UpdatePersisted, ingestVars
<1> QED
  BY <1>5, <1>6, <1>7, <1>8 DEF BatchStep

\* Whatever happens, a span under way stays so until it is settled.
LEMMA UnderWayStep ==
  ASSUME TypeInv, OrderInv, [Next]_vars, NEW r \in Requests, NEW id \in Ids, UnderWay(r, id)
  PROVE  UnderWay(r, id)' \/ Settled(id)'
<1>1. ASSUME UNCHANGED <<batches, incoming, writing>> PROVE UnderWay(r, id)'
  BY <1>1 DEF UnderWay, GetShardIndex, Holds, InChannel
<1>2. ASSUME NEW d \in Shards, CloseShard(d) PROVE UnderWay(r, id)'
  <2>1. /\ incoming' = [incoming EXCEPT ![d] = Append(incoming[d], Nil)]
        /\ UNCHANGED <<batches, writing>>
    BY <1>2 DEF CloseShard, ingestVars, shardVars
  <2>2. incoming \in [Shards -> Seq(Batch)] /\ Nil \in Batch
    BY EmptySeqFacts DEF TypeInv, StateTypes, Batch, Nil
  <2>3. /\ incoming'[d] = Append(incoming[d], Nil)
        /\ \A e \in Shards : e # d => incoming'[e] = incoming[e]
    BY <2>1, <2>2
  <2>4. \A e \in Shards : InChannel(incoming[e], id) => InChannel(incoming'[e], id)
    <3>1. InChannel(incoming[d], id) => InChannel(incoming'[d], id)
      BY <2>2, <2>3, ChannelAppend, SMTT(30)
    <3> QED
      BY <2>3, <3>1
  <2> QED
    BY <2>1, <2>4, ShardIndex DEF UnderWay, GetShardIndex, Holds, InChannel
<1>3. ASSUME NEW d \in Shards, PruneExpired(d) \/ PruneFails(d) \/ ShardClosed(d)
      PROVE  UnderWay(r, id)'
  BY <1>1, <1>3 DEF PruneExpired, PruneFails, ShardClosed, ingestVars, shardVars
<1>4. CASE Heartbeat \/ HandleHeartbeat \/ Close \/ UNCHANGED vars
  BY <1>1, <1>4 DEF Heartbeat, HandleHeartbeat, Close, vars, ingestVars, shardVars
<1> QED
  BY <1>2, <1>3, <1>4, UnderWayHandler, UnderWayBatch DEF Next

\* A span that is decoded is invalid, or joins the ingestor's batch.
LEMMA Decoded ==
  ASSUME TypeInv, NEW r \in Requests, IngestInvalid(r) \/ IngestSpan(r), NEW id, id = Span(r).id
  PROVE  Settled(id)' \/ UnderWay(r, id)'
<1>1. CASE IngestInvalid(r)
  BY <1>1 DEF IngestInvalid, Settled
<1>2. CASE IngestSpan(r)
  <2> DEFINE e == GetShardIndex(id)
             full == Len(batches[r][e]) + 1 = WRITESPANS_BATCH_SIZE
  <2>1. batches' = [batches EXCEPT ![r][e] =
                      IF full THEN <<Span(r)>> ELSE Append(batches[r][e], Span(r))]
    BY <1>2 DEF IngestSpan
  <2>2. e \in Shards /\ Span(r) \in Sent
    BY <1>2, NextSpan DEF IngestSpan, TypeInv
  <2>3. batches \in [Requests -> [Shards -> Seq(Sent)]]
    BY DEF TypeInv, StateTypes, Batch
  <2>4. GetShardIndex(id)' = e
    BY DEF GetShardIndex
  <2> HIDE DEF e
  <2>5. batches'[r][e] = IF full THEN <<Span(r)>> ELSE Append(batches[r][e], Span(r))
    BY <2>1, <2>2, <2>3
  <2>6. Holds(<<Span(r)>>, id)
    BY DEF Holds
  <2>7. Holds(Append(batches[r][e], Span(r)), id)
    BY <2>2, <2>3, HoldsAppend, SMTT(30)
  <2>8. Holds(batches'[r][e], id)
    BY <2>5, <2>6, <2>7
  <2> QED
    BY <2>4, <2>8 DEF UnderWay, Holds, e
<1> QED
  BY <1>1, <1>2

\* Every decoded span is settled or under way.
THEOREM FlowInvariance == Spec => []Accounted
<1>1. Init => Accounted
  <2> SUFFICES ASSUME Init, NEW r \in Requests, NEW i \in 1..decoded[r] PROVE FALSE
    BY DEF Accounted
  <2> QED
    BY DEF Init
<1>2. TypeInv /\ TypeInv' /\ OrderInv /\ Accounted /\ [Next]_vars => Accounted'
  <2> SUFFICES ASSUME TypeInv, TypeInv', OrderInv, Accounted, [Next]_vars,
                      NEW r \in Requests, NEW i \in 1..decoded'[r]
               PROVE  Settled(SpansOf[r][i].id)' \/ UnderWay(r, SpansOf[r][i].id)'
    BY DEF Accounted
  <2>1. /\ decoded \in [Requests -> Nat] /\ decoded'[r] \in Nat
        /\ decoded'[r] <= Len(SpansOf[r])
    BY DEF TypeInv, StateTypes
  <2>2. PICK id : id = SpansOf[r][i].id
    OBVIOUS
  <2>3. id \in Ids \union {INVALID_SPAN_ID}
    <3>1. SpansOf[r] \in Seq([id : Ids \union {INVALID_SPAN_ID}, begin : Int])
      BY StoreAssumption
    <3>2. i \in 1..Len(SpansOf[r])
      BY <2>1, <3>1, SeqFacts, SMTT(30)
    <3>3. SpansOf[r][i] \in [id : Ids \union {INVALID_SPAN_ID}, begin : Int]
      BY <3>1, <3>2, SeqFacts
    <3> QED
      BY <2>2, <3>3
  <2>4. CASE i \in 1..decoded[r]
    <3>1. Settled(id) \/ UnderWay(r, id)
      BY <2>2, <2>4 DEF Accounted
    <3>2. CASE id = INVALID_SPAN_ID
      BY <2>2, <3>2 DEF Settled
    <3>3. CASE id \in Ids
      <4>1. Settled(id)' \/ UnderWay(r, id)'
        BY <3>1, <3>3, SettledStays, UnderWayStep
      <4> QED
        BY <2>2, <4>1 DEF Settled, UnderWay, GetShardIndex
    <3> QED
      BY <2>3, <3>2, <3>3
  <2>5. CASE i \notin 1..decoded[r]
    <3>1. decoded'[r] # decoded[r]
      BY <2>5
    <3>2. IngestInvalid(r) \/ IngestSpan(r)
      <4>1. UNCHANGED decoded \/ \E q \in Requests : IngestInvalid(q) \/ IngestSpan(q)
        BY DEF Next, HandlerStep, BatchStep, BreakOff, CloseIngestorBatch, CloseIngestor,
           TakeBatch, TakeNil, WriteSpan, WriteSpanFails, UpdatePersisted, PruneExpired,
           PruneFails, Heartbeat, HandleHeartbeat, Close, CloseShard, ShardClosed, vars,
           ingestVars
      <4>2. PICK q \in Requests : IngestInvalid(q) \/ IngestSpan(q)
        BY <3>1, <4>1
      <4>3. decoded' = [decoded EXCEPT ![q] = decoded[q] + 1]
        BY <4>2 DEF IngestInvalid, IngestSpan
      <4>4. q = r
        BY <2>1, <3>1, <4>3
      <4> QED
        BY <4>2, <4>4
    <3>3. decoded' = [decoded EXCEPT ![r] = decoded[r] + 1]
      BY <3>2 DEF IngestInvalid, IngestSpan
    <3>4. i = decoded[r] + 1
      BY <2>1, <2>5, <3>3
    <3>5. id = Span(r).id
      BY <2>2, <3>4 DEF Span
    <3>6. Settled(id)' \/ UnderWay(r, id)'
      BY <3>2, <3>5, Decoded
    <3> QED
      BY <2>2, <3>6 DEF Settled, UnderWay, GetShardIndex
  <2> QED
    BY <2>4, <2>5
<1> QED
  BY <1>1, <1>2, TypeInvariance, OrderInvariance, PTL DEF Spec

\* Once the shards are done, every valid span of a request that was answered is in the
\* store, was reaped, or was refused by LevelDB: none is lost between the ingestor, the
\* channel and the shard, or left behind the nil that Close() sends.
THEOREM AnsweredSpansArrive == Spec => []AnsweredSpansAreStored
<1>1. TypeInv /\ OrderInv /\ Accounted => AnsweredSpansAreStored
  <2> SUFFICES ASSUME TypeInv, OrderInv, Accounted, Quiet,
                      NEW r \in Requests, hpc[r] = "answered", NEW i \in DOMAIN SpansOf[r]
               PROVE  Settled(SpansOf[r][i].id)
    BY DEF AnsweredSpansAreStored, Settled
  <2> DEFINE id == SpansOf[r][i].id
             d == GetShardIndex(id)
  <2>1. SpansOf[r] \in Seq([id : Ids \union {INVALID_SPAN_ID}, begin : Int])
    BY StoreAssumption
  <2>2. i \in 1..Len(SpansOf[r]) /\ id \in Ids \union {INVALID_SPAN_ID}
    <3>1. i \in 1..Len(SpansOf[r])
      BY <2>1, SeqFacts
    <3>2. SpansOf[r][i] \in [id : Ids \union {INVALID_SPAN_ID}, begin : Int]
      BY <2>1, <3>1, SeqFacts
    <3> QED
      BY <3>1, <3>2
  <2>3. i \in 1..decoded[r] /\ \A e \in Shards : batches[r][e] = <<>>
    BY <2>2 DEF OrderInv, DoneIsEmpty
  <2>4. \A e \in Shards : incoming[e] = <<>> /\ writing[e] = <<>>
    BY DEF OrderInv, NilIsLast, DoneIsEmpty, Quiet
  <2>5. CASE id = INVALID_SPAN_ID
    BY <2>5 DEF Settled
  <2>6. CASE id \in Ids
    <3>1. d \in Shards
      BY <2>6, ShardIndex
    <3>2. batches[r][d] = <<>> /\ incoming[d] = <<>> /\ writing[d] = <<>>
      BY <2>3, <2>4, <3>1
    <3>3. ~Holds(<<>>, id) /\ ~InChannel(<<>>, id)
      BY DEF Holds, InChannel
    <3>4. ~UnderWay(r, id)
      BY <3>2, <3>3 DEF UnderWay
    <3> QED
      BY <2>3, <3>4 DEF Accounted
  <2> QED
    BY <2>2, <2>5, <2>6
<1> QED
  BY <1>1, TypeInvariance, OrderInvariance, FlowInvariance, PTL
-----------------------------------------------------------------------------
\* A step of the store adds a number of spans to the reaped ones.
LEMMA ReapedStep ==
  ASSUME TypeInv, ReapedSpans \in Nat, [Next]_vars
  PROVE  ReapedSpans' \in Nat
<1>1. ASSUME NEW d \in Shards, PruneExpired(d) \/ PruneFails(d) PROVE ReapedSpans' \in Nat
  <2>1. PICK P \in SUBSET Passed(d) : Pruned(d, P)
    BY <1>1, PruneStep
  <2> DEFINE dead == {e[2] : e \in P}
  <2>2. dead \subseteq Ids
    BY PrunedSpans
  <2>3. ReapedSpans' = ReapedSpans + Cardinality(dead)
    BY <2>1 DEF Pruned, DeleteSpans
  <2> HIDE DEF dead
  <2>4. Cardinality(dead) \in Nat
    BY <2>2, StoreAssumption, FS_Subset, FS_CardinalityType
  <2> QED
    BY ONLY <2>3, <2>4, ReapedSpans \in Nat
<1>2. CASE UNCHANGED ReapedSpans
  BY <1>2
<1>3. UNCHANGED ReapedSpans \/ \E d \in Shards : PruneExpired(d) \/ PruneFails(d)
  BY DEF Next, HandlerStep, BatchStep, IngestInvalid, IngestSpan, BreakOff,
     CloseIngestorBatch, CloseIngestor, TakeBatch, TakeNil, WriteSpan, WriteSpanFails,
     UpdatePersisted, Heartbeat, HandleHeartbeat, Close, CloseShard, ShardClosed, vars
<1> QED
  BY <1>1, <1>2, <1>3

\* The store is type correct: in particular no channel holds more than its capacity and no
\* ingestor's batch reaches WRITESPANS_BATCH_SIZE.
THEOREM StoreTypeCorrectness == Spec => []TypeOK
<1>1. Init /\ TypeInv => TypeOK
  BY SMTT(30) DEF Init, TypeInv, TypeOK
<1>2. TypeInv /\ TypeInv' /\ TypeOK /\ [Next]_vars => TypeOK'
  <2> SUFFICES ASSUME TypeInv, TypeInv', TypeOK, [Next]_vars PROVE TypeOK'
    OBVIOUS
  <2>1. ReapedSpans' \in Nat
    BY ReapedStep DEF TypeOK
  <2>2. StateTypes'
    BY DEF TypeInv
  <2> QED
    BY <2>1, <2>2 DEF TypeOK
<1> QED
  BY <1>1, <1>2, TypeInvariance, PTL DEF Spec
-----------------------------------------------------------------------------
(* Sums over finite sets *)

\* Every set of numbers has a least one.
LEMMA LeastNat ==
  ASSUME NEW T \in SUBSET Nat, T # {}
  PROVE  \E x \in T : \A y \in T : x <= y
<1>1. PICK x \in T : \A y \in T : ~ (<<y, x>> \in OpToRel(<, Nat))
  BY WFMin, NatLessThanWellFounded
<1>2. ASSUME NEW y \in T PROVE x <= y
  <2>1. ~ (<<y, x>> \in OpToRel(<, Nat))
    BY <1>1, <1>2
  <2> QED
    BY <2>1 DEF OpToRel
<1> QED
  BY <1>1, <1>2

\* Induction, for a set of numbers.
LEMMA Induct ==
  ASSUME NEW S, 0 \in S, \A n \in Nat : n \in S => n + 1 \in S
  PROVE  Nat \subseteq S
<1> DEFINE T == Nat \ S
<1> SUFFICES ASSUME T # {} PROVE FALSE
  OBVIOUS
<1>1. PICK x \in T : \A y \in T : x <= y
  BY LeastNat
<1>2. x - 1 \in Nat /\ x - 1 \notin T
  BY <1>1
<1> QED
  BY <1>1, <1>2

\* The recursion of Functions' sums: the elements of S are taken in an order that is left open.
Chosen(S) == CHOOSE x \in S : TRUE
SumStep(f, g, S) == IF S = {} THEN 0 ELSE f[Chosen(S)] + g[S \ {Chosen(S)}]
IsSum(g, f, D) == g \in [SUBSET D -> Int] /\ \A S \in SUBSET D : g[S] = SumStep(f, g, S)

\* A subset of a finite set without the element that is taken first.
LEMMA ChosenFacts ==
  ASSUME NEW D, IsFiniteSet(D)
  PROVE  \A S \in SUBSET D :
           /\ IsFiniteSet(S) /\ Cardinality(S) \in Nat /\ (Cardinality(S) = 0 <=> S = {})
           /\ Cardinality(S) <= Cardinality(D)
           /\ S # {} => /\ Chosen(S) \in S /\ S \ {Chosen(S)} \in SUBSET D
                        /\ Cardinality(S \ {Chosen(S)}) = Cardinality(S) - 1
<1> TAKE S \in SUBSET D
<1>1. /\ IsFiniteSet(S) /\ Cardinality(S) \in Nat /\ (Cardinality(S) = 0 <=> S = {})
      /\ Cardinality(S) <= Cardinality(D)
  BY FS_Subset, FS_CardinalityType, FS_EmptySet
<1>2. ASSUME S # {} PROVE Chosen(S) \in S
  BY <1>2 DEF Chosen
<1>3. \A c \in S : Cardinality(S \ {c}) = Cardinality(S) - 1
  BY <1>1, FS_RemoveElement
<1> QED
  BY <1>1, <1>2, <1>3

\* The recursion has a solution.
LEMMA SumExists == ASSUME NEW D, IsFiniteSet(D), NEW f \in [D -> Int] PROVE \E g : IsSum(g, f, D)
<1> DEFINE Upto(n, g) == \A S \in SUBSET D : Cardinality(S) <= n => g[S] = SumStep(f, g, S)
           N == {n \in Nat : \E g \in [SUBSET D -> Int] : Upto(n, g)}
<1>3. 0 \in N
  <2>1. [S \in SUBSET D |-> 0] \in [SUBSET D -> Int]
    BY SMTT(30)
  <2>2. ASSUME NEW S \in SUBSET D, Cardinality(S) <= 0 PROVE S = {}
    <3>1. Cardinality(S) \in Nat /\ (Cardinality(S) = 0 <=> S = {})
      BY ChosenFacts
    <3> QED
      BY <2>2, <3>1
  <2> QED
    BY <2>1, <2>2 DEF SumStep
<1>4. ASSUME NEW n \in Nat, n \in N PROVE n + 1 \in N
  <2>1. PICK g \in [SUBSET D -> Int] : Upto(n, g)
    BY <1>4
  <2> DEFINE h == [S \in SUBSET D |-> IF Cardinality(S) <= n THEN g[S] ELSE SumStep(f, g, S)]
  <2>2. ASSUME NEW S \in SUBSET D PROVE SumStep(f, g, S) \in Int
    <3>1. CASE S = {}
      BY <3>1, SMTT(30) DEF SumStep
    <3>2. CASE S # {}
      <4>1. Chosen(S) \in D /\ S \ {Chosen(S)} \in SUBSET D
        BY <3>2, ChosenFacts
      <4> QED
        BY <3>2, <4>1, SMTT(30) DEF SumStep
    <3> QED
      BY <3>1, <3>2
  <2>3. h \in [SUBSET D -> Int]
    BY <2>2
  <2>4. ASSUME NEW S \in SUBSET D, Cardinality(S) <= n + 1 PROVE h[S] = SumStep(f, g, S)
    BY <2>1, <2>4
  <2>5. ASSUME NEW S \in SUBSET D, Cardinality(S) <= n + 1 PROVE SumStep(f, h, S) = SumStep(f, g, S)
    <3>1. CASE S = {}
      BY <3>1 DEF SumStep
    <3>2. CASE S # {}
      <4>1. S \ {Chosen(S)} \in SUBSET D /\ Cardinality(S \ {Chosen(S)}) <= n
        BY <2>5, <3>2, ChosenFacts, SMTT(30)
      <4>2. h[S \ {Chosen(S)}] = g[S \ {Chosen(S)}]
        BY <4>1
      <4> QED
        BY <3>2, <4>2 DEF SumStep
    <3> QED
      BY <3>1, <3>2
  <2> HIDE DEF h
  <2>6. Upto(n + 1, h)
    BY <2>4, <2>5
  <2> QED
    BY <2>3, <2>6, SMTT(30)
<1>5. Cardinality(D) \in Nat
  BY ChosenFacts
<1> HIDE DEF N
<1>6. Cardinality(D) \in N
  BY <1>3, <1>4, <1>5, Induct
<1>7. PICK g \in [SUBSET D -> Int] : Upto(Cardinality(D), g)
  BY <1>6 DEF N
<1>8. \A S \in SUBSET D : Cardinality(S) <= Cardinality(D)
  BY ChosenFacts
<1> QED
  BY <1>7, <1>8 DEF IsSum

\* The sums over subsets that two functions agree on are the same.
LEMMA SumAgrees ==
  ASSUME NEW D, IsFiniteSet(D), NEW f, NEW k, NEW g, IsSum(g, f, D), NEW h,
         \A S \in SUBSET D : h[S] = SumStep(k, h, S),
         NEW T \in SUBSET D, \A x \in T : f[x] = k[x]
  PROVE  g[T] = h[T]
<1> DEFINE N == {n \in Nat : \A S \in SUBSET T : Cardinality(S) <= n => g[S] = h[S]}
<1>1. 0 \in N
  <2>1. ASSUME NEW S \in SUBSET T, Cardinality(S) <= 0 PROVE S = {}
    <3>1. S \in SUBSET D
      OBVIOUS
    <3>2. Cardinality(S) \in Nat /\ (Cardinality(S) = 0 <=> S = {})
      BY <3>1, ChosenFacts
    <3> QED
      BY <2>1, <3>2
  <2>2. g[{}] = 0 /\ h[{}] = 0
    BY DEF IsSum, SumStep
  <2> QED
    BY <2>1, <2>2
<1>2. ASSUME NEW n \in Nat, n \in N PROVE n + 1 \in N
  <2> SUFFICES ASSUME NEW S \in SUBSET T, Cardinality(S) <= n + 1 PROVE g[S] = h[S]
    BY SMTT(30)
  <2>0. S \in SUBSET D
    OBVIOUS
  <2>1. CASE S = {}
    BY <2>1 DEF IsSum, SumStep
  <2>2. CASE S # {}
    <3>1. Chosen(S) \in S /\ S \ {Chosen(S)} \in SUBSET T /\ Cardinality(S \ {Chosen(S)}) <= n
      BY <2>0, <2>2, ChosenFacts, SMTT(30)
    <3>2. g[S \ {Chosen(S)}] = h[S \ {Chosen(S)}]
      BY <1>2, <3>1
    <3>3. f[Chosen(S)] = k[Chosen(S)]
      BY <3>1
    <3>4. g[S] = f[Chosen(S)] + g[S \ {Chosen(S)}] /\ h[S] = k[Chosen(S)] + h[S \ {Chosen(S)}]
      BY <2>0, <2>2 DEF IsSum, SumStep
    <3> QED
      BY <3>2, <3>3, <3>4
  <2> QED
    BY <2>1, <2>2
<1>3. Cardinality(T) \in Nat
  BY ChosenFacts
<1> HIDE DEF N
<1>4. Cardinality(T) \in N
  BY <1>1, <1>2, <1>3, Induct
<1> QED
  BY <1>3, <1>4 DEF N

\* SumFunctionOnSet is that sum.
LEMMA SumUnfolds ==
  ASSUME NEW D, IsFiniteSet(D), NEW f \in [D -> Int]
  PROVE  \E g : IsSum(g, f, D) /\ SumFunctionOnSet(f, D) = g[D]
<1> DEFINE Eq(it) == it = [s \in SUBSET D |-> IF s = {} THEN 0
                ELSE f[CHOOSE x \in s : TRUE] + it[s \ {CHOOSE x \in s : TRUE}]]
           iter == CHOOSE it : Eq(it)
<1>1. SumFunctionOnSet(f, D) = iter[D]
  BY DEF SumFunctionOnSet, FoldFunctionOnSet, MapThenFoldSet
<1>2. PICK g : IsSum(g, f, D)
  BY SumExists
<1>3. g = [s \in SUBSET D |-> SumStep(f, g, s)]
  BY <1>2 DEF IsSum
<1>4. Eq(g)
  BY <1>3 DEF SumStep, Chosen
<1>5. Eq(iter)
  BY <1>4
<1> HIDE DEF iter
<1>6. \A S \in SUBSET D : iter[S] = SumStep(f, iter, S)
  BY <1>5 DEF SumStep, Chosen
<1>7. g[D] = iter[D]
  BY <1>2, <1>6, SumAgrees, SMTT(30)
<1> QED
  BY <1>1, <1>2, <1>7

\* An element more adds its value.
LEMMA SumAdds ==
  ASSUME NEW D, IsFiniteSet(D), NEW f \in [D -> Int], NEW g, IsSum(g, f, D),
         NEW T \in SUBSET D, NEW y \in D \ T
  PROVE  g[T \union {y}] = f[y] + g[T]
<1> DEFINE N == {n \in Nat : \A S \in SUBSET T : \A z \in D \ S : 
                               Cardinality(S) <= n => g[S \union {z}] = f[z] + g[S]}
<1>0. g \in [SUBSET D -> Int] /\ \A S \in SUBSET D : S # {} => g[S] = f[Chosen(S)] + g[S \ {Chosen(S)}]
  BY DEF IsSum, SumStep
<1>1. 0 \in N
  <2> SUFFICES ASSUME NEW S \in SUBSET T, NEW z \in D \ S, Cardinality(S) <= 0
               PROVE  g[S \union {z}] = f[z] + g[S]
    OBVIOUS
  <2>1. S = {}
    <3>1. S \in SUBSET D
      OBVIOUS
    <3>2. Cardinality(S) \in Nat /\ (Cardinality(S) = 0 <=> S = {})
      BY <3>1, ChosenFacts
    <3> QED
      BY <3>2, SMTT(30)
  <2>2. Chosen({z}) = z /\ {z} \ {z} = {}
    BY DEF Chosen
  <2>3. g[{z}] = f[z] + g[{}]
    BY <1>0, <2>2
  <2> QED
    BY <2>1, <2>3
<1>2. ASSUME NEW n \in Nat, n \in N PROVE n + 1 \in N
  <2> SUFFICES ASSUME NEW S \in SUBSET T, NEW z \in D \ S, Cardinality(S) <= n + 1
               PROVE  g[S \union {z}] = f[z] + g[S]
    BY SMTT(30)
  <2>1. PICK U \in SUBSET D : U = S \union {z}
    OBVIOUS
  <2>2. PICK c \in U : c = Chosen(U) /\ g[U] = f[c] + g[U \ {c}]
    BY <1>0, <2>1, ChosenFacts, SMTT(30)
  <2>3. CASE c = z
    <3>1. U \ {c} = S
      BY <2>1, <2>3
    <3> QED
      BY <2>1, <2>2, <2>3, <3>1
  <2>4. CASE c # z
    <3>1. c \in S /\ U \ {c} = (S \ {c}) \union {z} /\ S = (S \ {c}) \union {c}
      BY <2>1, <2>4
    <3>2. S \ {c} \in SUBSET T /\ Cardinality(S \ {c}) <= n
      <4>1. S \in SUBSET D
        OBVIOUS
      <4>2. IsFiniteSet(S) /\ Cardinality(S) \in Nat
        BY <4>1, ChosenFacts
      <4>3. Cardinality(S \ {c}) = Cardinality(S) - 1
        BY <3>1, <4>2, FS_RemoveElement
      <4> QED
        BY <4>2, <4>3, SMTT(30)
    <3>3. g[U \ {c}] = f[z] + g[S \ {c}] /\ g[S] = f[c] + g[S \ {c}]
      BY <1>2, <3>1, <3>2
    <3>4. \A a, b, e \in Int : a + (b + e) = b + (a + e)
      BY SMTT(30)
    <3>5. f[c] \in Int /\ f[z] \in Int /\ g[S \ {c}] \in Int
      BY <1>0, <2>1
    <3> QED
      BY <2>1, <2>2, <3>3, <3>4, <3>5, SMTT(30)
  <2> QED
    BY <2>3, <2>4
<1>3. Cardinality(T) \in Nat
  BY ChosenFacts
<1> HIDE DEF N
<1>4. Cardinality(T) \in N
  BY <1>1, <1>2, <1>3, Induct
<1> QED
  BY <1>3, <1>4, SMTT(30) DEF N

\* A sum of integers is one, and without values other than 0 it is 0.
LEMMA SumType ==
  ASSUME NEW D, IsFiniteSet(D), NEW f \in [D -> Int]
  PROVE  SumFunctionOnSet(f, D) \in Int /\ ((\A x \in D : f[x] = 0) => SumFunctionOnSet(f, D) = 0)
<1>1. PICK g : IsSum(g, f, D) /\ SumFunctionOnSet(f, D) = g[D]
  BY SumUnfolds
<1>2. ASSUME \A x \in D : f[x] = 0 PROVE g[D] = 0
  <2> DEFINE h == [S \in SUBSET D |-> 0]
             k == [x \in D |-> 0]
  <2>1. ASSUME NEW S \in SUBSET D PROVE h[S] = SumStep(k, h, S)
    <3>1. CASE S = {}
      BY <3>1 DEF SumStep
    <3>2. CASE S # {}
      <4>1. Chosen(S) \in D /\ S \ {Chosen(S)} \in SUBSET D
        BY <3>2, ChosenFacts
      <4> QED
        BY <3>2, <4>1 DEF SumStep
    <3> QED
      BY <3>1, <3>2
  <2>2. \A x \in D : f[x] = k[x]
    BY <1>2
  <2>3. h[D] = 0
    OBVIOUS
  <2> HIDE DEF h, k
  <2> QED
    BY <1>1, <2>1, <2>2, <2>3, SumAgrees, SMTT(30)
<1> QED
  BY <1>1, <1>2 DEF IsSum

\* When one value changes, the sum changes by as much.
LEMMA SumChanges ==
  ASSUME NEW D, IsFiniteSet(D), NEW f \in [D -> Int], NEW k \in [D -> Int], NEW d \in D,
         \A x \in D \ {d} : k[x] = f[x]
  PROVE  SumFunctionOnSet(k, D) = SumFunctionOnSet(f, D) - f[d] + k[d]
<1>1. PICK g : IsSum(g, f, D) /\ SumFunctionOnSet(f, D) = g[D]
  BY SumUnfolds
<1>2. PICK h : IsSum(h, k, D) /\ SumFunctionOnSet(k, D) = h[D]
  BY SumUnfolds
<1>3. PICK T \in SUBSET D : T = D \ {d}
  OBVIOUS
<1>4. D = T \union {d} /\ d \in D \ T /\ \A x \in T : f[x] = k[x]
  BY <1>3
<1>5. g[D] = f[d] + g[T] /\ h[D] = k[d] + h[T]
  BY <1>1, <1>2, <1>4, SumAdds, SMTT(30)
<1>6. g[T] = h[T]
  <2>1. \A S \in SUBSET D : h[S] = SumStep(k, h, S)
    BY <1>2 DEF IsSum
  <2>2. \A x \in T : f[x] = k[x]
    BY <1>4
  <2> QED
    BY ONLY <1>1, <2>1, <2>2, T \in SUBSET D, IsFiniteSet(D), SumAgrees
<1>7. g[T] \in Int /\ f[d] \in Int /\ k[d] \in Int
  BY <1>1 DEF IsSum
<1> QED
  BY <1>1, <1>2, <1>5, <1>6, <1>7, SMTT(30)

\* An element more, which a sum is taken over, adds its value.
LEMMA SumExtends ==
  ASSUME NEW D, IsFiniteSet(D), NEW y, y \notin D, NEW f \in [D \union {y} -> Int],
         NEW k \in [D -> Int], \A x \in D : k[x] = f[x]
  PROVE  SumFunctionOnSet(f, D \union {y}) = SumFunctionOnSet(k, D) + f[y]
<1> DEFINE E == D \union {y}
<1>1. IsFiniteSet(E)
  BY FS_AddElement
<1>2. PICK g : IsSum(g, f, E) /\ SumFunctionOnSet(f, E) = g[E]
  BY <1>1, SumUnfolds
<1>3. PICK h : IsSum(h, k, D) /\ SumFunctionOnSet(k, D) = h[D]
  BY SumUnfolds
<1>4. g[E] = f[y] + g[D]
  BY <1>1, <1>2, SumAdds, SMTT(30)
<1>5. \A S \in SUBSET D : g[S] = SumStep(f, g, S)
  BY <1>2 DEF IsSum
<1>6. h[D] = g[D]
  BY <1>3, <1>5, SumAgrees, SMTT(30)
<1>7. g[D] \in Int /\ f[y] \in Int
  BY <1>2 DEF IsSum
<1> QED
  BY <1>2, <1>3, <1>4, <1>6, <1>7, SMTT(30)

\* The last of the numbers that are added up may be taken out.
LEMMA SumNext ==
  ASSUME NEW n \in Nat, NEW f \in [1..(n + 1) -> Int], NEW k \in [1..n -> Int],
         \A i \in 1..n : k[i] = f[i]
  PROVE  SumFunctionOnSet(f, 1..(n + 1)) = SumFunctionOnSet(k, 1..n) + f[n + 1]
<1> DEFINE D == 1..n
           y == n + 1
<1>1. IsFiniteSet(D)
  BY FS_Interval, SMTT(30)
<1>2. 1..(n + 1) = D \union {y} /\ y \notin D
  OBVIOUS
<1>3. f \in [D \union {y} -> Int] /\ k \in [D -> Int] /\ \A x \in D : k[x] = f[x]
  BY <1>2
<1> HIDE DEF D, y
<1>4. SumFunctionOnSet(f, D \union {y}) = SumFunctionOnSet(k, D) + f[y]
  BY ONLY <1>1, <1>2, <1>3, SumExtends
<1> QED
  BY <1>2, <1>4 DEF D, y

\* The first of the numbers that are added up may be taken out.
LEMMA SumShifts ==
  ASSUME NEW n \in Nat, NEW f \in [1..(n + 1) -> Int], NEW k \in [1..n -> Int],
         \A i \in 1..n : k[i] = f[i + 1]
  PROVE  SumFunctionOnSet(f, 1..(n + 1)) = f[1] + SumFunctionOnSet(k, 1..n)
<1> DEFINE Fits(m) == \A p \in [1..(m + 1) -> Int] : \A q \in [1..m -> Int] :
             (\A i \in 1..m : q[i] = p[i + 1]) =>
               SumFunctionOnSet(p, 1..(m + 1)) = p[1] + SumFunctionOnSet(q, 1..m)
           N == {m \in Nat : Fits(m)}
<1>0. \A m \in Nat : IsFiniteSet(1..m)
  BY FS_Interval, SMTT(30)
<1>1. Fits(0)
  <2> SUFFICES ASSUME NEW p \in [1..(0 + 1) -> Int], NEW q \in [1..0 -> Int]
               PROVE  SumFunctionOnSet(p, 1..(0 + 1)) = p[1] + SumFunctionOnSet(q, 1..0)
    OBVIOUS
  <2>1. SumFunctionOnSet(p, 1..(0 + 1)) = SumFunctionOnSet(q, 1..0) + p[0 + 1]
    <3>1. \A i \in 1..0 : q[i] = p[i]
      OBVIOUS
    <3> QED
      BY ONLY <3>1, 0 \in Nat, p \in [1..(0 + 1) -> Int], q \in [1..0 -> Int], SumNext
  <2>2. p[1] \in Int /\ 0 + 1 = 1
    OBVIOUS
  <2>3. SumFunctionOnSet(q, 1..0) \in Int
    BY <1>0, SumType
  <2> QED
    BY <2>1, <2>2, <2>3, SMTT(30)
<1>2. ASSUME NEW m \in Nat, Fits(m) PROVE Fits(m + 1)
  <2> SUFFICES ASSUME NEW p \in [1..(m + 1 + 1) -> Int], NEW q \in [1..(m + 1) -> Int],
                      \A i \in 1..(m + 1) : q[i] = p[i + 1]
               PROVE  SumFunctionOnSet(p, 1..(m + 1 + 1)) = p[1] + SumFunctionOnSet(q, 1..(m + 1))
    OBVIOUS
  <2> DEFINE p0 == [i \in 1..(m + 1) |-> p[i]]
             q0 == [i \in 1..m |-> q[i]]
  <2>1. p0 \in [1..(m + 1) -> Int] /\ q0 \in [1..m -> Int] /\ \A i \in 1..m : q0[i] = p0[i + 1]
    BY SMTT(30)
  <2>2. p0[1] = p[1] /\ (\A i \in 1..(m + 1) : p0[i] = p[i]) /\ (\A i \in 1..m : q0[i] = q[i])
    BY SMTT(30)
  <2> HIDE DEF p0, q0
  <2>3. SumFunctionOnSet(p0, 1..(m + 1)) = p[1] + SumFunctionOnSet(q0, 1..m)
    BY <1>2, <2>1, <2>2
  <2>4. SumFunctionOnSet(p, 1..(m + 1 + 1)) = SumFunctionOnSet(p0, 1..(m + 1)) + p[m + 1 + 1]
    BY <2>1, <2>2, SumNext, m + 1 \in Nat
  <2>5. SumFunctionOnSet(q, 1..(m + 1)) = SumFunctionOnSet(q0, 1..m) + q[m + 1]
    BY <2>1, <2>2, SumNext
  <2>6. q[m + 1] = p[m + 1 + 1] /\ q[m + 1] \in Int /\ p[1] \in Int
    BY SMTT(30)
  <2>7. SumFunctionOnSet(q0, 1..m) \in Int
    BY <1>0, <2>1, SumType
  <2> QED
    BY <2>3, <2>4, <2>5, <2>6, <2>7, SMTT(30)
<1> HIDE DEF Fits
<1>3. 0 \in N /\ \A m \in Nat : m \in N => m + 1 \in N
  BY <1>1, <1>2, SMTT(30)
<1> HIDE DEF N
<1>4. Nat \subseteq N
  BY <1>3, Induct
<1>5. Fits(n)
  BY <1>4 DEF N
<1> QED
  BY <1>5 DEF Fits
-----------------------------------------------------------------------------
(* The statistics *)

\* The spans of the batches in a channel.
Queued(c) == SumFunctionOnSet([k \in 1..Len(c) |-> Len(c[k])], 1..Len(c))

\* The spans in a channel, when a batch is sent and when one is received.
LEMMA QueuedFacts ==
  ASSUME NEW S, NEW c \in Seq(Seq(S))
  PROVE  /\ Queued(c) \in Int /\ (c = <<>> => Queued(c) = 0)
         /\ \A b \in Seq(S) : Queued(Append(c, b)) = Queued(c) + Len(b)
         /\ c # <<>> => Queued(c) = Len(Head(c)) + Queued(Tail(c))
<1> DEFINE f == [k \in 1..Len(c) |-> Len(c[k])]
<1>1. Len(c) \in Nat /\ IsFiniteSet(1..Len(c)) /\ f \in [1..Len(c) -> Int]
  BY SeqFacts, FS_Interval, SMTT(30)
<1>2. Queued(c) \in Int /\ (c = <<>> => Queued(c) = 0)
  BY <1>1, SumType, SMTT(30) DEF Queued
<1>3. ASSUME NEW b \in Seq(S) PROVE Queued(Append(c, b)) = Queued(c) + Len(b)
  <2> DEFINE g == [k \in 1..Len(Append(c, b)) |-> Len(Append(c, b)[k])]
             n == Len(c)
  <2>1. /\ Len(Append(c, b)) = n + 1 /\ g \in [1..(n + 1) -> Int] /\ g[n + 1] = Len(b)
        /\ \A k \in 1..n : f[k] = g[k]
    BY <1>1, AppendFacts, SeqFacts, SMTT(30)
  <2> HIDE DEF f, g
  <2>2. SumFunctionOnSet(g, 1..(n + 1)) = SumFunctionOnSet(f, 1..n) + g[n + 1]
    BY <1>1, <2>1, SumNext
  <2> QED
    BY <2>1, <2>2 DEF Queued, f, g
<1>4. ASSUME c # <<>> PROVE Queued(c) = Len(Head(c)) + Queued(Tail(c))
  <2> DEFINE g == [k \in 1..Len(Tail(c)) |-> Len(Tail(c)[k])]
  <2>1. PICK n \in Nat : Len(c) = n + 1
    <3>1. Len(c) \in Nat \ {0}
      BY <1>4, EmptySeqFacts
    <3>2. Len(c) - 1 \in Nat /\ Len(c) = (Len(c) - 1) + 1
      BY <3>1
    <3> QED
      BY <3>2
  <2>2. /\ Len(Tail(c)) = n /\ Head(c) = c[1] /\ Tail(c) \in Seq(Seq(S))
        /\ \A i \in 1..n : Tail(c)[i] = c[i + 1]
    BY <1>1, <1>4, <2>1, HeadTailFacts, SMTT(30)
  <2>3. g \in [1..n -> Int] /\ f \in [1..(n + 1) -> Int] /\ f[1] = Len(Head(c))
        /\ \A i \in 1..n : g[i] = f[i + 1]
    BY <1>1, <2>1, <2>2, SeqFacts, SMTT(30)
  <2>4. Queued(c) = SumFunctionOnSet(f, 1..(n + 1)) /\ Queued(Tail(c)) = SumFunctionOnSet(g, 1..n)
    BY <2>1, <2>2 DEF Queued
  <2> HIDE DEF f, g
  <2>5. SumFunctionOnSet(f, 1..(n + 1)) = f[1] + SumFunctionOnSet(g, 1..n)
    BY <2>3, SumShifts
  <2> QED
    BY <2>3, <2>4, <2>5
<1> QED
  BY <1>2, <1>3, <1>4

\* The spans the ingestor of r holds, and those it has handed to shards but not reported.
InBatches(r) == SumFunctionOnSet([d \in Shards |-> Len(batches[r][d])], Shards)
Handed(r) == IF hpc[r] = "answered" THEN 0 ELSE totalIngested[r] - serverDropped[r] - InBatches(r)

\* The spans that shard d was handed and has not reported.
InShard(d) ==
  Queued(incoming[d]) + Len(writing[d])
    + (IF spc[d] = "write" THEN totalWritten[d] + totalDropped[d] ELSE 0)

AllHanded == SumFunctionOnSet([r \in Requests |-> Handed(r)], Requests)
AllInShards == SumFunctionOnSet([d \in Shards |-> InShard(d)], Shards)

\* What handlers report as ingested and have handed over is what shards report or still have.
Balanced == IngestedSpans + AllHanded = WrittenSpans + ServerDropped + AllInShards

\* Every part of the sums is a number.
PartsAreNumbers ==
  /\ \A r \in Requests : /\ \A d \in Shards : Len(batches[r][d]) \in Nat
                         /\ InBatches(r) \in Int /\ Handed(r) \in Int
  /\ \A d \in Shards : InShard(d) \in Int /\ Len(writing[d]) \in Nat

\* Shards and requests can be added up.
LEMMA FiniteParts == IsFiniteSet(Shards) /\ IsFiniteSet(Requests)
BY StoreAssumption, FS_Interval, SMTT(30) DEF Shards

\* What is added up are numbers.
LEMMA PartTypes == TypeInv => PartsAreNumbers /\ AllHanded \in Int /\ AllInShards \in Int
<1> SUFFICES ASSUME TypeInv
             PROVE  PartsAreNumbers /\ AllHanded \in Int /\ AllInShards \in Int
  OBVIOUS
<1>1. \A r \in Requests : \A d \in Shards : Len(batches[r][d]) \in Nat
  BY SeqFacts DEF TypeInv, Routed
<1>2. \A r \in Requests : InBatches(r) \in Int
  <2> TAKE r \in Requests
  <2>1. [d \in Shards |-> Len(batches[r][d])] \in [Shards -> Int]
    BY <1>1
  <2> QED
    BY <2>1, FiniteParts, SumType DEF InBatches
<1>3. \A r \in Requests : Handed(r) \in Int
  BY <1>2, SMTT(30) DEF Handed, TypeInv, StateTypes
<1>4. \A d \in Shards : InShard(d) \in Int /\ Len(writing[d]) \in Nat
  <2> TAKE d \in Shards
  <2>1. Queued(incoming[d]) \in Int /\ Len(writing[d]) \in Nat
    BY QueuedFacts, SeqFacts DEF TypeInv, Routed
  <2>2. totalWritten[d] \in Nat /\ totalDropped[d] \in Nat
    BY DEF TypeInv, StateTypes
  <2> QED
    BY <2>1, <2>2 DEF InShard
<1>5. AllHanded \in Int
  <2>1. [r \in Requests |-> Handed(r)] \in [Requests -> Int]
    BY <1>3
  <2> QED
    BY <2>1, FiniteParts, SumType DEF AllHanded
<1>6. AllInShards \in Int
  <2>1. [d \in Shards |-> InShard(d)] \in [Shards -> Int]
    BY <1>4
  <2> QED
    BY <2>1, FiniteParts, SumType DEF AllInShards
<1> QED
  BY <1>1, <1>2, <1>3, <1>4, <1>5, <1>6 DEF PartsAreNumbers

\* So they are after a step.
LEMMA PartTypesNext == TypeInv' => (PartsAreNumbers /\ AllHanded \in Int /\ AllInShards \in Int)'
BY PartTypes, PTL

\* A step of one handler changes the sum over the handlers by what it changes there.
LEMMA HandlerChanges ==
  ASSUME TypeInv, TypeInv', NEW r \in Requests, \A q \in Requests \ {r} : Handed(q)' = Handed(q)
  PROVE  AllHanded' = AllHanded - Handed(r) + Handed(r)'
<1> DEFINE f == [q \in Requests |-> Handed(q)]
           g == [q \in Requests |-> Handed(q)']
<1>1. f \in [Requests -> Int] /\ (\A q \in Requests : Handed(q)' \in Int)
  BY PartTypes, PartTypesNext DEF PartsAreNumbers
<1>2. g \in [Requests -> Int]
  BY <1>1
<1>3. \A q \in Requests \ {r} : g[q] = f[q]
  OBVIOUS
<1>4. f[r] = Handed(r) /\ g[r] = Handed(r)'
  OBVIOUS
<1>5. AllHanded = SumFunctionOnSet(f, Requests) /\ AllHanded' = SumFunctionOnSet(g, Requests)
  BY DEF AllHanded
<1> HIDE DEF f, g
<1> QED
  BY <1>1, <1>2, <1>3, <1>4, <1>5, FiniteParts, SumChanges, SMTT(30)

\* A step of one shard changes the sum over the shards by what it changes there.
LEMMA ShardChanges ==
  ASSUME TypeInv, TypeInv', NEW d \in Shards, \A e \in Shards \ {d} : InShard(e)' = InShard(e)
  PROVE  AllInShards' = AllInShards - InShard(d) + InShard(d)'
<1> DEFINE f == [e \in Shards |-> InShard(e)]
           g == [e \in Shards |-> InShard(e)']
<1>1. f \in [Shards -> Int] /\ (\A e \in Shards : InShard(e)' \in Int)
  BY PartTypes, PartTypesNext DEF PartsAreNumbers
<1>2. g \in [Shards -> Int]
  BY <1>1
<1>3. \A e \in Shards \ {d} : g[e] = f[e]
  OBVIOUS
<1>4. f[d] = InShard(d) /\ g[d] = InShard(d)'
  OBVIOUS
<1>5. AllInShards = SumFunctionOnSet(f, Shards) /\ AllInShards' = SumFunctionOnSet(g, Shards)
  BY DEF AllInShards
<1> HIDE DEF f, g
<1> QED
  BY <1>1, <1>2, <1>3, <1>4, <1>5, FiniteParts, SumChanges, SMTT(30)

\* A changed batch changes what the ingestor holds by as much.
LEMMA BatchChanges ==
  ASSUME TypeInv, TypeInv', NEW r \in Requests, NEW d \in Shards,
         \A e \in Shards \ {d} : batches'[r][e] = batches[r][e]
  PROVE  InBatches(r)' = InBatches(r) - Len(batches[r][d]) + Len(batches'[r][d])
<1> DEFINE f == [e \in Shards |-> Len(batches[r][e])]
           g == [e \in Shards |-> Len(batches'[r][e])]
<1>1. f \in [Shards -> Int] /\ (\A e \in Shards : Len(batches'[r][e]) \in Int)
  BY PartTypes, PartTypesNext DEF PartsAreNumbers
<1>2. g \in [Shards -> Int]
  BY <1>1
<1>3. \A e \in Shards \ {d} : g[e] = f[e]
  OBVIOUS
<1>4. f[d] = Len(batches[r][d]) /\ g[d] = Len(batches'[r][d])
  OBVIOUS
<1>5. InBatches(r) = SumFunctionOnSet(f, Shards) /\ InBatches(r)' = SumFunctionOnSet(g, Shards)
  BY DEF InBatches
<1> HIDE DEF f, g
<1> QED
  BY <1>1, <1>2, <1>3, <1>4, <1>5, FiniteParts, SumChanges, SMTT(30)

\* The sums stay when nothing changes that they are of.
LEMMA SumsStay ==
  /\ UNCHANGED ingestVars => AllHanded' = AllHanded
  /\ UNCHANGED <<incoming, shardVars>> => AllInShards' = AllInShards
<1>1. ASSUME UNCHANGED ingestVars PROVE AllHanded' = AllHanded
  <2>1. \A r : Handed(r)' = Handed(r)
    BY <1>1 DEF Handed, InBatches, ingestVars
  <2> QED
    BY <2>1 DEF AllHanded
<1>2. ASSUME UNCHANGED <<incoming, shardVars>> PROVE AllInShards' = AllInShards
  <2>1. \A d : InShard(d)' = InShard(d)
    BY <1>2 DEF InShard, shardVars
  <2> QED
    BY <2>1 DEF AllInShards
<1> QED
  BY <1>1, <1>2

\* A batch that is handed over goes from what the ingestor has to what the shard has.
LEMMA HandOverMoves ==
  ASSUME TypeInv, TypeInv', NEW r \in Requests, NEW d \in Shards,
         incoming' = [incoming EXCEPT ![d] = Append(incoming[d], batches[r][d])],
         UNCHANGED shardVars
  PROVE  AllInShards' = AllInShards + Len(batches[r][d])
<1>1. \A e \in Shards \ {d} : InShard(e)' = InShard(e)
  BY DEF InShard, shardVars, TypeInv, StateTypes
<1>2. incoming[d] \in Seq(Seq(Mine(d))) /\ batches[r][d] \in Seq(Mine(d))
  BY DEF TypeInv, Routed
<1>3. incoming'[d] = Append(incoming[d], batches[r][d])
  BY DEF TypeInv, StateTypes
<1>4. Queued(incoming'[d]) = Queued(incoming[d]) + Len(batches[r][d]) /\ Queued(incoming[d]) \in Int
  BY <1>2, <1>3, QueuedFacts
<1>5. /\ InShard(d) \in Int /\ Len(writing[d]) \in Nat /\ Len(batches[r][d]) \in Nat
      /\ AllInShards \in Int /\ totalWritten[d] \in Nat /\ totalDropped[d] \in Nat
  BY PartTypes DEF PartsAreNumbers, TypeInv, StateTypes
<1>6. InShard(d)' = InShard(d) + Len(batches[r][d])
  <2>1. PICK t \in Int : t = IF spc[d] = "write" THEN totalWritten[d] + totalDropped[d] ELSE 0
    BY <1>5
  <2>2. PICK q, n, w \in Int : q = Queued(incoming[d]) /\ n = Len(batches[r][d]) /\ w = Len(writing[d])
    BY <1>4, <1>5
  <2>3. InShard(d) = q + w + t
    BY <2>1, <2>2 DEF InShard
  <2>4. Queued(incoming'[d]) = q + n
    BY <1>4, <2>2
  <2>5. InShard(d)' = q + n + w + t
    BY <2>1, <2>2, <2>4 DEF InShard, shardVars
  <2>6. InShard(d)' = InShard(d) + n
    BY <2>3, <2>5
  <2> QED
    BY <2>2, <2>6
<1>7. AllInShards' = AllInShards - InShard(d) + InShard(d)'
  BY <1>1, ShardChanges
<1> QED
  BY <1>5, <1>6, <1>7

\* A handler that decodes a span: the span is dropped and counted, joins the batch, or takes the
\* place of the batch that is handed over.
LEMMA BalancedIngest ==
  ASSUME TypeInv, TypeInv', Balanced, NEW r \in Requests, IngestInvalid(r) \/ IngestSpan(r)
  PROVE  Balanced'
<1>0. /\ \A q \in Requests : Handed(q) \in Int /\ InBatches(q) \in Int
      /\ AllHanded \in Int /\ AllInShards \in Int
      /\ totalIngested[r] \in Nat /\ serverDropped[r] \in Nat
      /\ totalIngested \in [Requests -> Nat] /\ serverDropped \in [Requests -> Nat]
      /\ batches \in [Requests -> [Shards -> Batch]]
  BY PartTypes DEF PartsAreNumbers, TypeInv, StateTypes
<1>1. hpc[r] = "decode" /\ hpc' = hpc /\ UNCHANGED <<sinkVars, shardVars>>
      /\ totalIngested' = [totalIngested EXCEPT ![r] = totalIngested[r] + 1]
  BY DEF IngestInvalid, IngestSpan
<1>2. CASE IngestInvalid(r)
  <2>1. batches' = batches /\ serverDropped' = [serverDropped EXCEPT ![r] = serverDropped[r] + 1]
        /\ incoming' = incoming
    BY <1>2 DEF IngestInvalid
  <2>2. \A q \in Requests : InBatches(q)' = InBatches(q)
    BY <2>1 DEF InBatches
  <2>3. \A q \in Requests : Handed(q)' = Handed(q)
    BY <1>0, <1>1, <2>1, <2>2 DEF Handed
  <2>4. AllHanded' = AllHanded
    BY <2>3 DEF AllHanded
  <2> QED
    BY <1>1, <2>1, <2>4, SumsStay DEF Balanced, sinkVars
<1>3. CASE IngestSpan(r)
  <2> DEFINE x == Span(r)
             d == GetShardIndex(x.id)
             full == Len(batches[r][d]) + 1 = WRITESPANS_BATCH_SIZE
  <2>1. /\ x.id # INVALID_SPAN_ID /\ decoded[r] < Len(SpansOf[r]) /\ serverDropped' = serverDropped
        /\ incoming' = IF full THEN [incoming EXCEPT ![d] = Append(incoming[d], batches[r][d])]
                       ELSE incoming
        /\ batches' = [batches EXCEPT ![r][d] = IF full THEN <<x>> ELSE Append(batches[r][d], x)]
    BY <1>3 DEF IngestSpan
  <2>2. d \in Shards /\ x \in Mine(d)
    BY <2>1, NextSpan DEF TypeInv
  <2> HIDE DEF x, d
  <2>3. PICK n \in Nat : n = Len(batches[r][d])
    BY <2>2, PartTypes DEF PartsAreNumbers
  <2>4. /\ batches'[r][d] = IF full THEN <<x>> ELSE Append(batches[r][d], x)
        /\ \A e \in Shards \ {d} : batches'[r][e] = batches[r][e]
        /\ \A q \in Requests \ {r} : batches'[q] = batches[q]
    BY <1>0, <2>1, <2>2
  <2>5. Len(batches'[r][d]) = IF full THEN 1 ELSE n + 1
    <3>1. batches[r][d] \in Seq(Mine(d))
      BY <2>2 DEF TypeInv, Routed
    <3> QED
      BY <2>2, <2>3, <2>4, <3>1, AppendFacts, SMTT(30)
  <2>6. InBatches(r)' = InBatches(r) - n + (IF full THEN 1 ELSE n + 1)
    BY <2>2, <2>3, <2>4, <2>5, BatchChanges
  <2>7. \A q \in Requests \ {r} : Handed(q)' = Handed(q)
    BY <1>0, <1>1, <2>1, <2>4 DEF Handed, InBatches
  <2>8. Handed(r)' = Handed(r) + (IF full THEN n ELSE 0)
    <3>1. Handed(r) = totalIngested[r] - serverDropped[r] - InBatches(r)
          /\ Handed(r)' = (totalIngested[r] + 1) - serverDropped[r] - InBatches(r)'
      BY <1>0, <1>1, <2>1 DEF Handed
    <3> QED
      BY <1>0, <2>6, <3>1
  <2>9. AllHanded' = AllHanded + (IF full THEN n ELSE 0)
    <3>1. AllHanded' = AllHanded - Handed(r) + Handed(r)'
      BY <2>7, HandlerChanges
    <3> QED
      BY <1>0, <2>8, <3>1
  <2>10. AllInShards' = AllInShards + (IF full THEN n ELSE 0)
    <3>1. CASE full
      BY <1>1, <2>1, <2>2, <2>3, <3>1, HandOverMoves
    <3>2. CASE ~full
      BY <1>0, <1>1, <2>1, <3>2, SumsStay, SMTT(30)
    <3> QED
      BY <3>1, <3>2
  <2>11. /\ IngestedSpans' = IngestedSpans /\ WrittenSpans' = WrittenSpans
         /\ ServerDropped' = ServerDropped /\ IngestedSpans \in Nat /\ WrittenSpans \in Nat
         /\ ServerDropped \in Nat
    BY <1>1 DEF sinkVars, TypeInv, StateTypes
  <2> HIDE DEF full
  <2> QED
    BY <1>0, <2>9, <2>10, <2>11, SMTT(30) DEF Balanced
<1> QED
  BY <1>2, <1>3

\* A handler that hands over what is left, that is done or that gives up.
LEMMA BalancedEnd ==
  ASSUME TypeInv, TypeInv', Balanced, NEW r \in Requests,
         CloseIngestorBatch(r) \/ CloseIngestor(r) \/ BreakOff(r)
  PROVE  Balanced'
<1>0. /\ Handed(r) \in Int /\ InBatches(r) \in Int
      /\ AllHanded \in Int /\ AllInShards \in Int
      /\ totalIngested[r] \in Nat /\ serverDropped[r] \in Nat
      /\ IngestedSpans \in Nat /\ WrittenSpans \in Nat /\ ServerDropped \in Nat
  BY PartTypes DEF PartsAreNumbers, TypeInv, StateTypes
<1>5. /\ batches \in [Requests -> [Shards -> Batch]]
      /\ hpc \in [Requests -> {"decode", "brokenOff", "answered"}]
  BY DEF TypeInv, StateTypes
<1>1. /\ hpc[r] = "decode" /\ UNCHANGED <<totalIngested, serverDropped, shardVars, WrittenSpans>>
      /\ Handed(r) = totalIngested[r] - serverDropped[r] - InBatches(r)
  BY DEF CloseIngestorBatch, CloseIngestor, BreakOff, Handed, sinkVars
<1>2. CASE CloseIngestorBatch(r)
  <2>1. PICK d \in Shards :
          /\ incoming' = [incoming EXCEPT ![d] = Append(incoming[d], batches[r][d])]
          /\ batches' = [batches EXCEPT ![r][d] = <<>>]
    BY <1>2 DEF CloseIngestorBatch
  <2>2. PICK n \in Nat : n = Len(batches[r][d])
    BY PartTypes DEF PartsAreNumbers
  <2>3. hpc' = hpc /\ UNCHANGED sinkVars
    BY <1>2 DEF CloseIngestorBatch
  <2>4. /\ batches'[r][d] = <<>> /\ \A e \in Shards \ {d} : batches'[r][e] = batches[r][e]
        /\ \A q \in Requests \ {r} : batches'[q] = batches[q]
    BY <1>5, <2>1
  <2>5. InBatches(r)' = InBatches(r) - n + Len(<<>>)
    BY <2>2, <2>4, BatchChanges
  <2>6. \A q \in Requests \ {r} : Handed(q)' = Handed(q)
    BY <1>1, <2>3, <2>4 DEF Handed, InBatches
  <2>7. Handed(r)' = totalIngested[r] - serverDropped[r] - InBatches(r)'
    BY <1>1, <2>3 DEF Handed
  <2>8. AllHanded' = AllHanded - Handed(r) + Handed(r)'
    BY <2>6, HandlerChanges
  <2>9. AllHanded' = AllHanded + n
    BY <1>0, <1>1, <2>5, <2>7, <2>8
  <2>10. AllInShards' = AllInShards + n
    BY <1>1, <2>1, <2>2, HandOverMoves
  <2>11. IngestedSpans' = IngestedSpans /\ WrittenSpans' = WrittenSpans
         /\ ServerDropped' = ServerDropped
    BY <2>3 DEF sinkVars
  <2> QED
    BY <1>0, <2>9, <2>10, <2>11 DEF Balanced
<1>3. CASE CloseIngestor(r)
  <2>1. /\ hpc' = [hpc EXCEPT ![r] = "answered"] /\ batches' = batches /\ incoming' = incoming
        /\ IngestedSpans' = IngestedSpans + totalIngested[r]
        /\ ServerDropped' = ServerDropped + serverDropped[r]
        /\ \A d \in Shards : batches[r][d] = <<>>
    BY <1>3 DEF CloseIngestor
  <2>2. InBatches(r) = 0
    <3>1. \A d \in Shards : Len(batches[r][d]) = 0
      BY <2>1
    <3>2. /\ [d \in Shards |-> Len(batches[r][d])] \in [Shards -> Int]
          /\ \A d \in Shards : [e \in Shards |-> Len(batches[r][e])][d] = 0
      BY <3>1
    <3> QED
      BY <3>2, FiniteParts, SumType DEF InBatches
  <2>3. (\A q \in Requests \ {r} : Handed(q)' = Handed(q)) /\ Handed(r)' = 0
    BY <1>1, <1>5, <2>1 DEF Handed, InBatches
  <2>4. AllHanded' = AllHanded - Handed(r) + Handed(r)'
    BY <2>3, HandlerChanges
  <2>5. AllHanded' = AllHanded - (totalIngested[r] - serverDropped[r])
    <3>1. AllHanded' = AllHanded - (totalIngested[r] - serverDropped[r] - 0) + 0
      BY <1>1, <2>2, <2>3, <2>4
    <3>2. AllHanded \in Int /\ totalIngested[r] \in Nat /\ serverDropped[r] \in Nat
      BY <1>0
    <3> QED
      BY ONLY <3>1, <3>2, SMTT(30)
  <2>6. AllInShards' = AllInShards
    BY <1>1, <2>1, SumsStay
  <2>7. /\ IngestedSpans' = IngestedSpans + totalIngested[r] /\ WrittenSpans' = WrittenSpans
        /\ ServerDropped' = ServerDropped + serverDropped[r]
    BY <1>1, <2>1
  <2> QED
    BY <1>0, <2>5, <2>6, <2>7 DEF Balanced
<1>4. CASE BreakOff(r)
  <2>1. hpc' = [hpc EXCEPT ![r] = "brokenOff"] /\ batches' = batches /\ incoming' = incoming
        /\ UNCHANGED sinkVars
    BY <1>4 DEF BreakOff
  <2>2. \A q \in Requests : Handed(q)' = Handed(q)
    BY <1>1, <1>5, <2>1 DEF Handed, InBatches
  <2>3. AllHanded' = AllHanded
    BY <2>2 DEF AllHanded
  <2>4. AllInShards' = AllInShards
    BY <1>1, <2>1, SumsStay
  <2> QED
    BY <2>1, <2>3, <2>4 DEF Balanced, sinkVars
<1> QED
  BY <1>2, <1>3, <1>4

\* A shard's goroutine takes a batch, writes or drops its spans, and reports them.
LEMMA BalancedBatch ==
  ASSUME TypeInv, TypeInv', OrderInv, Balanced, NEW d \in Shards, BatchStep(d)
  PROVE  Balanced'
<1> DEFINE q == Queued(incoming[d])
           t == totalWritten[d] + totalDropped[d]
<1>0. /\ AllHanded \in Int /\ AllInShards \in Int /\ Len(writing[d]) \in Nat /\ q \in Int
      /\ totalWritten[d] \in Nat /\ totalDropped[d] \in Nat /\ InShard(d) \in Int
      /\ IngestedSpans \in Nat /\ WrittenSpans \in Nat /\ ServerDropped \in Nat
  BY PartTypes, QueuedFacts DEF PartsAreNumbers, TypeInv, StateTypes, Routed
<1>1. /\ incoming \in [Shards -> Seq(Batch)] /\ spc \in [Shards -> {"select", "write", "exited"}]
      /\ writing \in [Shards -> Batch] /\ incoming[d] \in Seq(Seq(Mine(d)))
      /\ totalWritten \in [Shards -> Nat] /\ totalDropped \in [Shards -> Nat]
  BY DEF TypeInv, StateTypes, Routed
<1>2. UNCHANGED ingestVars /\ \A e \in Shards \ {d} : InShard(e)' = InShard(e)
  BY <1>1 DEF BatchStep, TakeBatch, TakeNil, WriteSpan, WriteSpanFails, UpdatePersisted, InShard
<1>3. AllHanded' = AllHanded /\ AllInShards' = AllInShards - InShard(d) + InShard(d)'
  BY <1>2, SumsStay, ShardChanges
<1>4. CASE TakeBatch(d) \/ TakeNil(d)
  <2>1. /\ spc[d] = "select" /\ incoming[d] # <<>> /\ UNCHANGED sinkVars
        /\ incoming'[d] = Tail(incoming[d])
    BY <1>1, <1>4 DEF TakeBatch, TakeNil
  <2>2. writing[d] = <<>> /\ InShard(d) = q + 0 + 0
    BY <2>1, SMTT(30) DEF OrderInv, DoneIsEmpty, InShard
  <2>3. q = Len(Head(incoming[d])) + Queued(Tail(incoming[d]))
        /\ Queued(Tail(incoming[d])) \in Int /\ Len(Head(incoming[d])) \in Nat
    <3>1. Tail(incoming[d]) \in Seq(Seq(Mine(d))) /\ Head(incoming[d]) \in Seq(Mine(d))
      BY <1>1, <2>1, TailIn
    <3> QED
      BY <1>1, <2>1, <3>1, QueuedFacts, SeqFacts
  <2>6. IngestedSpans' = IngestedSpans /\ WrittenSpans' = WrittenSpans
        /\ ServerDropped' = ServerDropped
    BY <2>1 DEF sinkVars
  <2>4. CASE TakeBatch(d)
    <3>1. spc'[d] = "write" /\ writing'[d] = Head(incoming[d]) /\ totalWritten'[d] = 0
          /\ totalDropped'[d] = 0
      BY <1>1, <2>4 DEF TakeBatch
    <3>2. InShard(d)' = Queued(Tail(incoming[d])) + Len(Head(incoming[d])) + (0 + 0)
      BY <2>1, <3>1 DEF InShard
    <3>3. InShard(d)' = InShard(d)
      BY <1>0, <2>2, <2>3, <3>2, SMTT(30)
    <3> QED
      BY <1>0, <1>3, <2>6, <3>3 DEF Balanced
  <2>5. CASE TakeNil(d)
    <3>1. spc'[d] = "exited" /\ writing' = writing /\ Len(Head(incoming[d])) = 0
      BY <1>1, <2>5 DEF TakeNil, Nil
    <3>2. InShard(d)' = Queued(Tail(incoming[d])) + 0 + 0
      BY <2>1, <2>2, <3>1 DEF InShard
    <3>3. InShard(d)' = InShard(d)
      BY <1>0, <2>2, <2>3, <3>1, <3>2, SMTT(30)
    <3> QED
      BY <1>0, <1>3, <2>6, <3>3 DEF Balanced
  <2> QED
    BY <1>4, <2>4, <2>5
<1>5. CASE WriteSpan(d) \/ WriteSpanFails(d)
  <2>1. /\ spc[d] = "write" /\ spc' = spc /\ incoming' = incoming /\ UNCHANGED sinkVars
        /\ writing[d] # <<>> /\ writing'[d] = Tail(writing[d])
    BY <1>1, <1>5 DEF WriteSpan, WriteSpanFails
  <2>2. Len(Tail(writing[d])) = Len(writing[d]) - 1
    BY <1>1, <2>1, TailIn DEF Batch
  <2>3. totalWritten'[d] + totalDropped'[d] = t + 1
    <3>1. \/ totalWritten'[d] = totalWritten[d] + 1 /\ totalDropped'[d] = totalDropped[d]
          \/ totalDropped'[d] = totalDropped[d] + 1 /\ totalWritten'[d] = totalWritten[d]
      BY <1>1, <1>5 DEF WriteSpan, WriteSpanFails
    <3> QED
      BY <1>0, <3>1
  <2>4. InShard(d) = q + Len(writing[d]) + t
        /\ InShard(d)' = q + (Len(writing[d]) - 1) + (t + 1)
    BY <2>1, <2>2, <2>3 DEF InShard
  <2>5. InShard(d)' = InShard(d)
    BY <1>0, <2>4
  <2>6. IngestedSpans' = IngestedSpans /\ WrittenSpans' = WrittenSpans
        /\ ServerDropped' = ServerDropped
    BY <2>1 DEF sinkVars
  <2> QED
    BY <1>0, <1>3, <2>5, <2>6, SMTT(30) DEF Balanced
<1>6. CASE UpdatePersisted(d)
  <2>1. PICK w, x, l \in Nat : w = totalWritten[d] /\ x = totalDropped[d] /\ l = Len(writing[d])
    BY <1>0
  <2>2. /\ spc[d] = "write" /\ spc'[d] = "select" /\ incoming' = incoming /\ writing' = writing
        /\ WrittenSpans' = WrittenSpans + w
        /\ ServerDropped' = ServerDropped + x /\ IngestedSpans' = IngestedSpans
    BY <1>1, <1>6, <2>1 DEF UpdatePersisted
  <2>3. InShard(d) = q + l + (w + x) /\ InShard(d)' = q + l + 0
    BY <2>1, <2>2 DEF InShard
  <2>4. AllInShards' = AllInShards - (w + x)
    BY <1>0, <1>3, <2>3
  <2>5. /\ IngestedSpans' = IngestedSpans /\ WrittenSpans' = WrittenSpans + w
        /\ ServerDropped' = ServerDropped + x /\ AllHanded' = AllHanded
    BY <1>3, <2>2
  <2> QED
    BY <1>0, <2>4, <2>5 DEF Balanced
<1> QED
  BY <1>4, <1>5, <1>6 DEF BatchStep

\* The nil that Close() sends is no span.
LEMMA BalancedNil ==
  ASSUME TypeInv, TypeInv', Balanced, NEW d \in Shards, CloseShard(d)
  PROVE  Balanced'
<1>1. /\ incoming' = [incoming EXCEPT ![d] = Append(incoming[d], Nil)]
      /\ UNCHANGED <<ingestVars, shardVars>> /\ UNCHANGED sinkVars
  BY DEF CloseShard
<1>2. incoming \in [Shards -> Seq(Batch)] /\ incoming[d] \in Seq(Seq(Mine(d))) /\ Nil \in Seq(Mine(d))
  BY EmptySeqFacts DEF TypeInv, StateTypes, Routed, Nil
<1>3. incoming'[d] = Append(incoming[d], Nil) /\ \A e \in Shards \ {d} : incoming'[e] = incoming[e]
  BY <1>1, <1>2
<1>4. Queued(incoming'[d]) = Queued(incoming[d]) + Len(Nil) /\ Queued(incoming[d]) \in Int
  BY <1>2, <1>3, QueuedFacts
<1>5. Queued(incoming'[d]) = Queued(incoming[d])
  BY <1>4 DEF Nil
<1>6. \A e \in Shards : InShard(e)' = InShard(e)
  BY <1>1, <1>3, <1>5 DEF InShard, shardVars
<1>7. AllInShards' = AllInShards
  BY <1>6 DEF AllInShards
<1>8. AllHanded' = AllHanded
  BY <1>1, SumsStay
<1> QED
  BY <1>1, <1>7, <1>8 DEF Balanced, sinkVars

\* At the start there is nothing to add up.
LEMMA BalancedInit == ASSUME Init, TypeInv PROVE Balanced
<1>1. \A r \in Requests : InBatches(r) = 0
  <2> TAKE r \in Requests
  <2>1. /\ [d \in Shards |-> Len(batches[r][d])] \in [Shards -> Int]
        /\ \A d \in Shards : [e \in Shards |-> Len(batches[r][e])][d] = 0
    BY DEF Init
  <2> QED
    BY <2>1, FiniteParts, SumType DEF InBatches
<1>2. \A r \in Requests : Handed(r) = 0
  BY <1>1 DEF Handed, Init
<1>3. \A d \in Shards : InShard(d) = 0
  <2> TAKE d \in Shards
  <2>1. Queued(incoming[d]) = 0
    <3>1. incoming[d] = <<>> /\ incoming[d] \in Seq(Seq(Mine(d)))
      BY DEF Init, TypeInv, Routed
    <3> QED
      BY <3>1, QueuedFacts
  <2> QED
    BY <2>1 DEF InShard, Init
<1>4. AllHanded = 0
  <2>1. /\ [r \in Requests |-> Handed(r)] \in [Requests -> Int]
        /\ \A r \in Requests : [q \in Requests |-> Handed(q)][r] = 0
    BY <1>2
  <2> QED
    BY <2>1, FiniteParts, SumType DEF AllHanded
<1>5. AllInShards = 0
  <2>1. /\ [d \in Shards |-> InShard(d)] \in [Shards -> Int]
        /\ \A d \in Shards : [e \in Shards |-> InShard(e)][d] = 0
    BY <1>3
  <2> QED
    BY <2>1, FiniteParts, SumType DEF AllInShards
<1> QED
  BY <1>4, <1>5 DEF Balanced, Init

\* Every step keeps the balance.
LEMMA BalancedStep ==
  ASSUME TypeInv, TypeInv', OrderInv, Balanced, [Next]_vars
  PROVE  Balanced'
<1>1. ASSUME NEW r \in Requests, HandlerStep(r) PROVE Balanced'
  BY <1>1, BalancedIngest, BalancedEnd DEF HandlerStep
<1>2. ASSUME NEW d \in Shards, BatchStep(d) PROVE Balanced'
  BY <1>2, BalancedBatch
<1>3. ASSUME NEW d \in Shards, CloseShard(d) PROVE Balanced'
  BY <1>3, BalancedNil
<1>4. CASE UNCHANGED <<ingestVars, incoming, shardVars, sinkVars>>
  <2>1. UNCHANGED ingestVars /\ UNCHANGED <<incoming, shardVars>> /\ UNCHANGED sinkVars
    BY <1>4
  <2>2. AllHanded' = AllHanded /\ AllInShards' = AllInShards
    BY <2>1, SumsStay
  <2> QED
    BY <2>1, <2>2 DEF Balanced, sinkVars
<1>5. \/ UNCHANGED <<ingestVars, incoming, shardVars, sinkVars>>
      \/ \E r \in Requests : HandlerStep(r)
      \/ \E d \in Shards : BatchStep(d) \/ CloseShard(d)
  BY DEF Next, PruneExpired, PruneFails, ShardClosed, Heartbeat, HandleHeartbeat, Close, vars
<1> QED
  BY <1>1, <1>2, <1>3, <1>4, <1>5

\* When the handlers are answered and the shards idle, nothing is under way.
LEMMA BalancedAtRest == ASSUME TypeInv, OrderInv, Balanced PROVE StatisticsBalance
<1> SUFFICES ASSUME Quiet, \A r \in Requests : hpc[r] = "answered"
             PROVE  IngestedSpans = WrittenSpans + ServerDropped
  BY DEF StatisticsBalance
<1>1. \A d \in Shards : spc[d] # "write" /\ incoming[d] = <<>> /\ writing[d] = <<>>
  BY DEF OrderInv, NilIsLast, DoneIsEmpty, Quiet
<1>2. \A d \in Shards : InShard(d) = 0
  <2> TAKE d \in Shards
  <2>1. Queued(incoming[d]) = 0
    <3>1. incoming[d] = <<>> /\ incoming[d] \in Seq(Seq(Mine(d)))
      BY <1>1 DEF TypeInv, Routed
    <3> QED
      BY <3>1, QueuedFacts
  <2> QED
    BY <1>1, <2>1 DEF InShard
<1>3. \A r \in Requests : Handed(r) = 0
  BY DEF Handed
<1>4. AllHanded = 0
  <2>1. /\ [r \in Requests |-> Handed(r)] \in [Requests -> Int]
        /\ \A r \in Requests : [q \in Requests |-> Handed(q)][r] = 0
    BY <1>3
  <2> QED
    BY <2>1, FiniteParts, SumType DEF AllHanded
<1>5. AllInShards = 0
  <2>1. /\ [d \in Shards |-> InShard(d)] \in [Shards -> Int]
        /\ \A d \in Shards : [e \in Shards |-> InShard(e)][d] = 0
    BY <1>2
  <2> QED
    BY <2>1, FiniteParts, SumType DEF AllInShards
<1>6. IngestedSpans \in Nat /\ WrittenSpans \in Nat /\ ServerDropped \in Nat
  BY DEF TypeInv, StateTypes
<1> QED
  BY <1>4, <1>5, <1>6 DEF Balanced

\* The stored spans of shard d that its goroutine has reported, and those of all shards.
Net(d) == Held(d) - Unreported(d)
AllNet == SumFunctionOnSet([d \in Shards |-> Net(d)], Shards)
Stored(d) == {id \in Ids : stored[d][id] # None}

\* StoredSpansAreCounted in these terms.
LEMMA CountedForm == StoredSpansAreCounted <=> AllNet <= WrittenSpans - ReapedSpans
BY DEF StoredSpansAreCounted, SumFunction, AllNet, Net

\* StoredSpansAreCounted in these terms, after a step.
LEMMA CountedFormNext == StoredSpansAreCounted' <=> AllNet' <= WrittenSpans' - ReapedSpans'
BY DEF StoredSpansAreCounted, SumFunction, AllNet, Net

\* What is counted are numbers.
LEMMA NetTypes ==
  TypeInv => /\ \A d \in Shards : Held(d) \in Nat /\ Unreported(d) \in Nat /\ Net(d) \in Int
             /\ AllNet \in Int
<1> SUFFICES ASSUME TypeInv
             PROVE  /\ \A d \in Shards : Held(d) \in Nat /\ Unreported(d) \in Nat /\ Net(d) \in Int
                    /\ AllNet \in Int
  OBVIOUS
<1>1. \A d \in Shards : Held(d) \in Nat
  <2> TAKE d \in Shards
  <2>1. Stored(d) \subseteq Ids /\ Held(d) = Cardinality(Stored(d))
    BY DEF Stored, Held
  <2> QED
    BY <2>1, StoreAssumption, FS_Subset, FS_CardinalityType
<1>2. \A d \in Shards : Unreported(d) \in Nat
  BY DEF Unreported, TypeInv, StateTypes
<1>3. \A d \in Shards : Net(d) \in Int
  BY <1>1, <1>2 DEF Net
<1>4. [d \in Shards |-> Net(d)] \in [Shards -> Int]
  BY <1>3
<1>5. AllNet \in Int
  BY <1>4, FiniteParts, SumType DEF AllNet
<1> QED
  BY <1>1, <1>2, <1>3, <1>5

\* They are numbers after a step.
LEMMA NetTypesNext ==
  TypeInv' => (/\ \A d \in Shards : Held(d) \in Nat /\ Unreported(d) \in Nat /\ Net(d) \in Int
               /\ AllNet \in Int)'
BY NetTypes, PTL

\* A step of one shard changes the count by what it changes there.
LEMMA NetChanges ==
  ASSUME TypeInv, TypeInv', NEW d \in Shards, \A e \in Shards \ {d} : Net(e)' = Net(e)
  PROVE  AllNet' = AllNet - Net(d) + Net(d)'
<1> DEFINE f == [e \in Shards |-> Net(e)]
           g == [e \in Shards |-> Net(e)']
<1>1. f \in [Shards -> Int] /\ g \in [Shards -> Int]
  BY NetTypes, NetTypesNext
<1>2. \A e \in Shards \ {d} : g[e] = f[e]
  OBVIOUS
<1>3. f[d] = Net(d) /\ g[d] = Net(d)'
  OBVIOUS
<1>4. AllNet = SumFunctionOnSet(f, Shards) /\ AllNet' = SumFunctionOnSet(g, Shards)
  BY DEF AllNet
<1> HIDE DEF f, g
<1>5. SumFunctionOnSet(g, Shards) = SumFunctionOnSet(f, Shards) - f[d] + g[d]
  BY <1>1, <1>2, FiniteParts, SumChanges, SMTT(30)
<1> QED
  BY <1>3, <1>4, <1>5

\* A written span is one more at most, and is counted as written.
LEMMA CountedWrite ==
  ASSUME TypeInv, TypeInv', NEW d \in Shards, WriteSpan(d)
  PROVE  Net(d)' <= Net(d) /\ \A e \in Shards \ {d} : Net(e)' = Net(e)
<1>1. PICK x : x = Head(writing[d])
  OBVIOUS
<1>2. x.id \in Ids /\ x.begin \in Int
  BY <1>1, WrittenSpan DEF WriteSpan
<1>3. /\ stored' = [stored EXCEPT ![d][x.id] = x.begin]
      /\ totalWritten' = [totalWritten EXCEPT ![d] = totalWritten[d] + 1]
      /\ spc[d] = "write" /\ spc' = spc
  BY <1>1 DEF WriteSpan
<1>4. stored \in [Shards -> [Ids -> Int \union {None}]] /\ totalWritten \in [Shards -> Nat]
  BY DEF TypeInv, StateTypes
<1>5. \A e \in Shards \ {d} : stored'[e] = stored[e] /\ totalWritten'[e] = totalWritten[e]
  BY <1>3, <1>4
<1>6. \A e \in Shards \ {d} : Net(e)' = Net(e)
  BY <1>3, <1>5 DEF Net, Held, Unreported
<1>7. Stored(d)' = Stored(d) \union {x.id}
  BY <1>2, <1>3, <1>4, StoreAssumption DEF Stored
<1>8. IsFiniteSet(Stored(d)) /\ Cardinality(Stored(d)) \in Nat
  <2>1. Stored(d) \subseteq Ids
    BY DEF Stored
  <2> QED
    BY <2>1, StoreAssumption, FS_Subset, FS_CardinalityType
<1>9. Cardinality(Stored(d) \union {x.id}) <= Cardinality(Stored(d)) + 1
  <2>1. Cardinality(Stored(d) \union {x.id})
          = IF x.id \in Stored(d) THEN Cardinality(Stored(d)) ELSE Cardinality(Stored(d)) + 1
    BY <1>8, FS_AddElement
  <2> QED
    BY <1>8, <2>1
<1>10. Held(d) = Cardinality(Stored(d)) /\ Held(d)' = Cardinality(Stored(d) \union {x.id})
  BY <1>7 DEF Held, Stored
<1>11. Unreported(d) = totalWritten[d] /\ Unreported(d)' = totalWritten[d] + 1
  BY <1>3, <1>4 DEF Unreported
<1>12. PICK h, k, w \in Nat : h = Held(d) /\ k = Held(d)' /\ w = totalWritten[d]
  BY <1>4, NetTypes, NetTypesNext
<1>13. k <= h + 1
  BY <1>9, <1>10, <1>12
<1>14. Net(d) = h - w /\ Net(d)' = k - (w + 1)
  BY <1>11, <1>12 DEF Net
<1> QED
  BY <1>6, <1>13, <1>14

\* A pass of the reaper takes as many spans from the shard as it reports.
LEMMA CountedPrune ==
  ASSUME TypeInv, TypeInv', ReapedSpans \in Nat, NEW d \in Shards, PruneExpired(d) \/ PruneFails(d)
  PROVE  /\ \A e \in Shards \ {d} : Net(e)' = Net(e)
         /\ Net(d)' + ReapedSpans' = Net(d) + ReapedSpans /\ WrittenSpans' = WrittenSpans
<1>1. PICK P \in SUBSET Passed(d) : Pruned(d, P)
  BY PruneStep
<1> DEFINE dead == {e[2] : e \in P}
<1>2. \A id \in dead : id \in Ids /\ stored[d][id] \in Int
  BY PrunedSpans
<1>3. /\ stored' = [stored EXCEPT ![d] =
                      [id \in Ids |-> IF id \in dead THEN None ELSE stored[d][id]]]
      /\ ReapedSpans' = ReapedSpans + Cardinality(dead)
      /\ UNCHANGED shardVars /\ UNCHANGED sinkVars
  BY <1>1 DEF Pruned, DeleteSpans
<1> HIDE DEF dead
<1>4. stored \in [Shards -> [Ids -> Int \union {None}]]
  BY DEF TypeInv, StateTypes
<1>5. \A e \in Shards \ {d} : Net(e)' = Net(e)
  BY <1>3, <1>4 DEF Net, Held, Unreported, shardVars
<1>6. dead \subseteq Stored(d)
  BY <1>2, StoreAssumption DEF Stored
<1>7. Stored(d)' = Stored(d) \ dead
  BY <1>3, <1>4 DEF Stored
<1>8. IsFiniteSet(Stored(d)) /\ IsFiniteSet(dead) /\ Cardinality(dead) \in Nat
  <2>1. Stored(d) \subseteq Ids
    BY DEF Stored
  <2> QED
    BY <1>6, <2>1, StoreAssumption, FS_Subset, FS_CardinalityType
<1>9. Cardinality(Stored(d) \ dead) = Cardinality(Stored(d)) - Cardinality(dead)
  <2>1. Stored(d) \intersect dead = dead
    BY <1>6
  <2> QED
    BY <1>8, <2>1, FS_Difference
<1>10. Held(d) = Cardinality(Stored(d)) /\ Held(d)' = Cardinality(Stored(d) \ dead)
  BY <1>7 DEF Held, Stored
<1>11. Unreported(d)' = Unreported(d)
  BY <1>3 DEF Unreported, shardVars
<1>12. PICK h, u, n \in Nat : h = Held(d) /\ u = Unreported(d) /\ n = Cardinality(dead)
  BY <1>8, NetTypes
<1>13. Net(d) = h - u /\ Net(d)' = h - n - u /\ ReapedSpans' = ReapedSpans + n
  BY <1>3, <1>9, <1>10, <1>11, <1>12 DEF Net
<1>14. Net(d)' + ReapedSpans' = Net(d) + ReapedSpans
  BY <1>13
<1> QED
  BY <1>3, <1>5, <1>14 DEF sinkVars

\* A shard that takes a batch or reports one keeps the count.
LEMMA CountedReport ==
  ASSUME TypeInv, TypeInv', NEW d \in Shards,
         TakeBatch(d) \/ TakeNil(d) \/ WriteSpanFails(d) \/ UpdatePersisted(d)
  PROVE  /\ \A e \in Shards \ {d} : Net(e)' = Net(e)
         /\ WrittenSpans' - Net(d)' = WrittenSpans - Net(d) /\ ReapedSpans' = ReapedSpans
<1>1. /\ spc \in [Shards -> {"select", "write", "exited"}] /\ totalWritten \in [Shards -> Nat]
  BY DEF TypeInv, StateTypes
<1>2. stored' = stored /\ ReapedSpans' = ReapedSpans
  BY DEF TakeBatch, TakeNil, WriteSpanFails, UpdatePersisted, ldbVars
<1>3. \A e \in Shards \ {d} : spc'[e] = spc[e] /\ totalWritten'[e] = totalWritten[e]
  BY <1>1 DEF TakeBatch, TakeNil, WriteSpanFails, UpdatePersisted
<1>4. \A e \in Shards \ {d} : Net(e)' = Net(e)
  BY <1>2, <1>3 DEF Net, Held, Unreported
<1>5. PICK h, u, w \in Nat : h = Held(d) /\ u = Unreported(d) /\ w = WrittenSpans
  BY NetTypes DEF TypeInv, StateTypes
<1>6. Held(d)' = h
  BY <1>2, <1>5 DEF Held
<1>7. \/ Unreported(d)' = u /\ WrittenSpans' = w
      \/ Unreported(d)' = 0 /\ WrittenSpans' = w + u
  BY <1>1, <1>5 DEF Unreported, TakeBatch, TakeNil, WriteSpanFails, UpdatePersisted, sinkVars
<1>8. Net(d) = h - u /\ (Net(d)' = h - u \/ Net(d)' = h - 0)
  BY <1>5, <1>6, <1>7 DEF Net
<1>9. WrittenSpans' - Net(d)' = WrittenSpans - Net(d)
  <2>1. CASE Unreported(d)' = u /\ WrittenSpans' = w
    BY <1>5, <1>6, <2>1 DEF Net
  <2>2. CASE Unreported(d)' = 0 /\ WrittenSpans' = w + u
    <3>1. Net(d)' = h - 0 /\ Net(d) = h - u
      BY <1>5, <1>6, <2>2 DEF Net
    <3> QED
      BY <1>5, <2>2, <3>1, SMTT(30)
  <2> QED
    BY <1>7, <2>1, <2>2
<1> QED
  BY <1>2, <1>4, <1>9

\* Every step keeps the stored spans counted.
LEMMA CountedStep ==
  ASSUME TypeInv, TypeInv', ReapedSpans \in Nat, ReapedSpans' \in Nat, StoredSpansAreCounted,
         [Next]_vars
  PROVE  StoredSpansAreCounted'
<1>0. /\ AllNet \in Int /\ AllNet' \in Int /\ WrittenSpans \in Nat /\ WrittenSpans' \in Nat
      /\ \A d \in Shards : Net(d) \in Int /\ Net(d)' \in Int
  BY NetTypes, NetTypesNext DEF TypeInv, StateTypes
<1>1. AllNet <= WrittenSpans - ReapedSpans
  BY CountedForm
<1>2. ASSUME NEW d \in Shards, \A e \in Shards \ {d} : Net(e)' = Net(e),
             Net(d)' - WrittenSpans' + ReapedSpans' <= Net(d) - WrittenSpans + ReapedSpans
      PROVE  StoredSpansAreCounted'
  <2>1. AllNet' = AllNet - Net(d) + Net(d)'
    BY <1>2, NetChanges
  <2>2. Net(d) \in Int /\ Net(d)' \in Int
    BY <1>0
  <2>3. AllNet' <= WrittenSpans' - ReapedSpans'
    BY <1>0, <1>1, <1>2, <2>1, <2>2, SMTT(30)
  <2> QED
    BY <2>3, CountedFormNext
<1>3. ASSUME NEW d \in Shards, WriteSpan(d) PROVE StoredSpansAreCounted'
  <2>1. Net(d)' <= Net(d) /\ \A e \in Shards \ {d} : Net(e)' = Net(e)
    BY <1>3, CountedWrite
  <2>2. WrittenSpans' = WrittenSpans /\ ReapedSpans' = ReapedSpans
    BY <1>3 DEF WriteSpan, sinkVars
  <2>3. Net(d)' - WrittenSpans' + ReapedSpans' <= Net(d) - WrittenSpans + ReapedSpans
    BY <1>0, <2>1, <2>2
  <2> QED
    BY <1>2, <2>1, <2>3
<1>4. ASSUME NEW d \in Shards,
             TakeBatch(d) \/ TakeNil(d) \/ WriteSpanFails(d) \/ UpdatePersisted(d)
      PROVE  StoredSpansAreCounted'
  <2>1. /\ \A e \in Shards \ {d} : Net(e)' = Net(e)
        /\ WrittenSpans' - Net(d)' = WrittenSpans - Net(d) /\ ReapedSpans' = ReapedSpans
    BY <1>4, CountedReport
  <2>2. Net(d)' - WrittenSpans' + ReapedSpans' <= Net(d) - WrittenSpans + ReapedSpans
    BY <1>0, <2>1
  <2> QED
    BY <1>2, <2>1, <2>2
<1>5. ASSUME NEW d \in Shards, PruneExpired(d) \/ PruneFails(d) PROVE StoredSpansAreCounted'
  <2>1. /\ \A e \in Shards \ {d} : Net(e)' = Net(e)
        /\ Net(d)' + ReapedSpans' = Net(d) + ReapedSpans /\ WrittenSpans' = WrittenSpans
    BY <1>5, CountedPrune
  <2>2. Net(d)' - WrittenSpans' + ReapedSpans' <= Net(d) - WrittenSpans + ReapedSpans
    BY <1>0, <2>1
  <2> QED
    BY <1>2, <2>1, <2>2
<1>6. CASE UNCHANGED <<shardVars, ldbVars, WrittenSpans, ReapedSpans>>
  <2>1. \A d : Net(d)' = Net(d)
    BY <1>6 DEF Net, Held, Unreported, shardVars, ldbVars
  <2>2. AllNet' = AllNet
    BY <2>1 DEF AllNet
  <2> QED
    BY <1>1, <1>6, <2>2, CountedFormNext
<1>7. \/ UNCHANGED <<shardVars, ldbVars, WrittenSpans, ReapedSpans>>
      \/ \E d \in Shards : BatchStep(d) \/ PruneExpired(d) \/ PruneFails(d)
  BY ZenonT(60) DEF Next, HandlerStep, IngestInvalid, IngestSpan, BreakOff, CloseIngestorBatch,
     CloseIngestor, Heartbeat, HandleHeartbeat, Close, CloseShard, ShardClosed, vars, sinkVars
<1> QED
  BY <1>3, <1>4, <1>5, <1>6, <1>7 DEF BatchStep

\* At the start nothing is stored.
LEMMA CountedInit == ASSUME Init, TypeInv PROVE StoredSpansAreCounted
<1>1. \A d \in Shards : Net(d) = 0
  <2> TAKE d \in Shards
  <2>1. Stored(d) = {}
    BY DEF Stored, Init
  <2>2. Held(d) = 0
    BY <2>1, FS_EmptySet DEF Held, Stored
  <2>3. Unreported(d) = 0
    BY DEF Unreported, Init
  <2> QED
    BY <2>2, <2>3 DEF Net
<1>2. /\ [d \in Shards |-> Net(d)] \in [Shards -> Int]
      /\ \A d \in Shards : [e \in Shards |-> Net(e)][d] = 0
  BY <1>1
<1>3. AllNet = 0
  BY <1>2, FiniteParts, SumType DEF AllNet
<1>4. WrittenSpans = 0 /\ ReapedSpans = 0
  BY DEF Init
<1> QED
  BY <1>3, <1>4, CountedForm

\* The server's statistics add up, whatever handlers, shards, the reaper and Close() do in
\* which order: UpdateIngested() and UpdatePersisted() report each span once, and what
\* pruneExpired() counts as reaped is what it deletes.
THEOREM StatisticsAlwaysAddUp == Spec => []StatisticsAddUp
<1>1. Init /\ TypeInv => Balanced /\ StoredSpansAreCounted
  BY BalancedInit, CountedInit
<1>2. TypeInv /\ TypeInv' /\ OrderInv /\ Balanced /\ [Next]_vars => Balanced'
  BY BalancedStep
<1>3. TypeInv /\ TypeInv' /\ TypeOK /\ TypeOK' /\ StoredSpansAreCounted /\ [Next]_vars
        => StoredSpansAreCounted'
  BY CountedStep DEF TypeOK
<1>4. TypeInv /\ OrderInv /\ Balanced /\ StoredSpansAreCounted => StatisticsAddUp
  BY BalancedAtRest DEF StatisticsAddUp
<1> QED
  BY <1>1, <1>2, <1>3, <1>4, TypeInvariance, OrderInvariance, StoreTypeCorrectness, PTL DEF Spec
=============================================================================
