----------------------------- MODULE DataStore -----------------------------
(***************************************************************************)
(* The span store of htraced (go/src/htrace/htraced/datastore.go): request *)
(* handlers that ingest spans through a SpanIngestor, one goroutine per    *)
(* shard that writes them to the shard's LevelDB and prunes expired ones,  *)
(* the reaper that moves the expiry date, the metrics, and Close().        *)
(*                                                                         *)
(* A shard's LevelDB is the stored spans (primary index) and the begin     *)
(* time index; the parent, end time and duration indices are written and   *)
(* deleted in the same batches and behave alike.  Only the shard's own     *)
(* goroutine writes its LevelDB, so pruning is one step: nothing it reads  *)
(* changes meanwhile, and the reaper date is read once.                    *)
(***************************************************************************)
EXTENDS Integers, Sequences, FiniteSets, Functions

CONSTANTS
  Ids,                    \* span ids, ordered as numbers
  NumShards,              \* storage directories
  HashOf,                 \* HashOf[id]: id.Hash32()
  Requests,               \* WriteSpans requests, REST or HRPC
  SpansOf,                \* SpansOf[r]: the spans of request r, in order
  MayBreakOff,            \* the requests whose body may fail to decode half-way
  WRITESPANS_BATCH_SIZE,
  SpanBufferSize,         \* capacity of a shard's incoming channel, in batches
  MidId,                  \* the id whose first byte is 0x80 and whose others are 0
  MaxDate,                \* bound on the reaper date
  LdbMayFail,             \* may LevelDB writes fail?
  None                    \* stands for "no span is stored under this id"

INVALID_SPAN_ID == 0   \* the id FindProblem() rejects

Shards == 0..(NumShards - 1)

\* The spans the requests carry.
Sent == UNION {{SpansOf[r][i] : i \in DOMAIN SpansOf[r]} : r \in Requests}

ASSUME StoreAssumption ==
  /\ IsFiniteSet(Requests) /\ IsFiniteSet(Ids) /\ Ids \subseteq Nat \ {INVALID_SPAN_ID} /\ None \notin Int
  /\ NumShards \in Nat \ {0} /\ HashOf \in [Ids -> Nat]
  /\ SpansOf \in [Requests -> Seq([id : Ids \union {INVALID_SPAN_ID}, begin : Int])]
  /\ WRITESPANS_BATCH_SIZE \in Nat \ {0, 1} /\ SpanBufferSize \in Nat \ {0}
  /\ MidId \in Nat /\ MaxDate \in Nat /\ MayBreakOff \subseteq Requests /\ LdbMayFail \in BOOLEAN

VARIABLES
  \* request handlers and their SpanIngestors
  hpc, decoded, batches, totalIngested, serverDropped,
  \* shards: channels, goroutine, LevelDB
  incoming, heartbeats, spc, writing, totalWritten, totalDropped, stored, beginIndex,
  \* Reaper and MetricsSink
  reaperDate, ReapedSpans, IngestedSpans, WrittenSpans, ServerDropped,
  \* dataStore.Close(): what it does, and to which shard
  closing,
  \* history: ids whose write failed, ids that were reaped
  failed, reaped

ingestVars == <<hpc, decoded, batches, totalIngested, serverDropped>>
shardVars  == <<spc, writing, totalWritten, totalDropped>>
ldbVars    == <<stored, beginIndex>>
sinkVars   == <<IngestedSpans, WrittenSpans, ServerDropped>>
histVars   == <<failed, reaped>>
vars == <<ingestVars, incoming, heartbeats, shardVars, ldbVars, reaperDate, ReapedSpans,
          sinkVars, closing, histVars>>

Nil == <<>>   \* the empty batch stands for the nil that ends a shard's goroutine

Open == <<"open", 0>>
Closed == <<"closed", 0>>

Init ==
  /\ hpc = [r \in Requests |-> "decode"] /\ decoded = [r \in Requests |-> 0]
  /\ batches = [r \in Requests |-> [d \in Shards |-> <<>>]]
  /\ totalIngested = [r \in Requests |-> 0] /\ serverDropped = [r \in Requests |-> 0]
  /\ incoming = [d \in Shards |-> <<>>] /\ heartbeats = [d \in Shards |-> 0]
  /\ spc = [d \in Shards |-> "select"] /\ writing = [d \in Shards |-> <<>>]
  /\ totalWritten = [d \in Shards |-> 0] /\ totalDropped = [d \in Shards |-> 0]
  /\ stored = [d \in Shards |-> [id \in Ids |-> None]]
  /\ beginIndex = [d \in Shards |-> {}]
  /\ reaperDate = 0 /\ ReapedSpans = 0
  /\ IngestedSpans = 0 /\ WrittenSpans = 0 /\ ServerDropped = 0
  /\ closing = Open /\ failed = {} /\ reaped = {}

GetShardIndex(id) == HashOf[id] % NumShards

\* Mutant: one batch more than the capacity.
CanSendOffByOne(d) == Len(incoming[d]) <= SpanBufferSize

CanSend(d) == Len(incoming[d]) < SpanBufferSize

-----------------------------------------------------------------------------
(* SpanIngestor *)

\* The span the handler of r decodes next.
Span(r) == SpansOf[r][decoded[r] + 1]

\* IngestSpan(): a span with an invalid id is counted and dropped.
IngestInvalid(r) ==
  /\ hpc[r] = "decode" /\ decoded[r] < Len(SpansOf[r])
  /\ Span(r).id = INVALID_SPAN_ID
  /\ decoded' = [decoded EXCEPT ![r] = @ + 1]
  /\ totalIngested' = [totalIngested EXCEPT ![r] = @ + 1]
  /\ serverDropped' = [serverDropped EXCEPT ![r] = @ + 1]
  /\ UNCHANGED <<hpc, batches, incoming, heartbeats, shardVars, ldbVars, reaperDate,
                 ReapedSpans, sinkVars, closing, histVars>>

\* Mutant: the span that finds the batch full is not put in the next one.
IngestSpanForgetting(r) ==
  /\ hpc[r] = "decode" /\ decoded[r] < Len(SpansOf[r])
  /\ Span(r).id # INVALID_SPAN_ID
  /\ LET d == GetShardIndex(Span(r).id)
         full == Len(batches[r][d]) + 1 = WRITESPANS_BATCH_SIZE
     IN  /\ full => CanSend(d)
         /\ incoming' = IF full THEN [incoming EXCEPT ![d] = Append(@, batches[r][d])]
                        ELSE incoming
         /\ batches' = [batches EXCEPT ![r][d] =
                          IF full THEN <<>> ELSE Append(@, Span(r))]
  /\ decoded' = [decoded EXCEPT ![r] = @ + 1]
  /\ totalIngested' = [totalIngested EXCEPT ![r] = @ + 1]
  /\ UNCHANGED <<hpc, serverDropped, heartbeats, shardVars, ldbVars, reaperDate,
                 ReapedSpans, sinkVars, closing, histVars>>

\* IngestSpan(): the span joins its shard's batch; a batch about to reach its capacity
\* is handed to the shard first, which blocks while the channel is full.  Encoding the span does
\* not fail: its data are numbers, strings, byte slices and maps of strings, written to memory.
IngestSpan(r) ==
  /\ hpc[r] = "decode" /\ decoded[r] < Len(SpansOf[r])
  /\ Span(r).id # INVALID_SPAN_ID
  /\ LET d == GetShardIndex(Span(r).id)
         full == Len(batches[r][d]) + 1 = WRITESPANS_BATCH_SIZE
     IN  /\ full => CanSend(d)
         /\ incoming' = IF full THEN [incoming EXCEPT ![d] = Append(@, batches[r][d])]
                        ELSE incoming
         /\ batches' = [batches EXCEPT ![r][d] =
                          IF full THEN <<Span(r)>> ELSE Append(@, Span(r))]
  /\ decoded' = [decoded EXCEPT ![r] = @ + 1]
  /\ totalIngested' = [totalIngested EXCEPT ![r] = @ + 1]
  /\ UNCHANGED <<hpc, serverDropped, heartbeats, shardVars, ldbVars, reaperDate,
                 ReapedSpans, sinkVars, closing, histVars>>

\* A span fails to decode: the handler returns an error and abandons the ingestor.
BreakOff(r) ==
  /\ hpc[r] = "decode" /\ r \in MayBreakOff /\ decoded[r] < Len(SpansOf[r])
  /\ hpc' = [hpc EXCEPT ![r] = "brokenOff"]
  /\ UNCHANGED <<decoded, batches, totalIngested, serverDropped, incoming, heartbeats,
                 shardVars, ldbVars, reaperDate, ReapedSpans, sinkVars, closing,
                 histVars>>

\* SpanIngestor.Close(): hand over the remaining batches in shard order ...
CloseIngestorBatch(r) ==
  /\ hpc[r] = "decode" /\ decoded[r] = Len(SpansOf[r])
  /\ \E d \in Shards :
       /\ batches[r][d] # <<>> /\ \A e \in 0..(d - 1) : batches[r][e] = <<>>
       /\ CanSend(d)
       /\ incoming' = [incoming EXCEPT ![d] = Append(@, batches[r][d])]
       /\ batches' = [batches EXCEPT ![r][d] = <<>>]
  /\ UNCHANGED <<hpc, decoded, totalIngested, serverDropped, heartbeats, shardVars,
                 ldbVars, reaperDate, ReapedSpans, sinkVars, closing, histVars>>

\* ... and then update the metrics; the request is answered.
CloseIngestor(r) ==
  /\ hpc[r] = "decode" /\ decoded[r] = Len(SpansOf[r])
  /\ \A d \in Shards : batches[r][d] = <<>>
  /\ hpc' = [hpc EXCEPT ![r] = "answered"]
  /\ IngestedSpans' = IngestedSpans + totalIngested[r]
  /\ ServerDropped' = ServerDropped + serverDropped[r]
  /\ UNCHANGED <<decoded, batches, totalIngested, serverDropped, incoming, heartbeats,
                 shardVars, ldbVars, reaperDate, ReapedSpans, WrittenSpans, closing,
                 histVars>>

-----------------------------------------------------------------------------
(* The goroutine of a shard: processIncoming() *)

\* A batch is received: its spans are written one by one.
TakeBatch(d) ==
  /\ spc[d] = "select" /\ incoming[d] # <<>> /\ Head(incoming[d]) # Nil
  /\ spc' = [spc EXCEPT ![d] = "write"]
  /\ writing' = [writing EXCEPT ![d] = Head(incoming[d])]
  /\ totalWritten' = [totalWritten EXCEPT ![d] = 0]
  /\ totalDropped' = [totalDropped EXCEPT ![d] = 0]
  /\ incoming' = [incoming EXCEPT ![d] = Tail(@)]
  /\ UNCHANGED <<ingestVars, heartbeats, ldbVars, reaperDate, ReapedSpans, sinkVars,
                 closing, histVars>>

\* A nil batch is received: the goroutine exits.
TakeNil(d) ==
  /\ spc[d] = "select" /\ incoming[d] # <<>> /\ Head(incoming[d]) = Nil
  /\ spc' = [spc EXCEPT ![d] = "exited"]
  /\ incoming' = [incoming EXCEPT ![d] = Tail(@)]
  /\ UNCHANGED <<ingestVars, heartbeats, writing, totalWritten, totalDropped, ldbVars,
                 reaperDate, ReapedSpans, sinkVars, closing, histVars>>

\* Mutant: the span is stored without its index entry.
WriteSpanUnindexed(d) ==
  /\ spc[d] = "write" /\ writing[d] # <<>>
  /\ LET span == Head(writing[d])
     IN  /\ stored' = [stored EXCEPT ![d][span.id] = span.begin]
         /\ beginIndex' = beginIndex
  /\ writing' = [writing EXCEPT ![d] = Tail(@)]
  /\ totalWritten' = [totalWritten EXCEPT ![d] = @ + 1]
  /\ UNCHANGED <<ingestVars, incoming, heartbeats, spc, totalDropped, reaperDate,
                 ReapedSpans, sinkVars, closing, histVars>>

\* writeSpan(): one LevelDB batch stores the span under its id and adds the index
\* entries.  Index entries of a span that was stored under the same id stay.
WriteSpan(d) ==
  /\ spc[d] = "write" /\ writing[d] # <<>>
  /\ LET span == Head(writing[d])
     IN  /\ stored' = [stored EXCEPT ![d][span.id] = span.begin]
         /\ beginIndex' = [beginIndex EXCEPT ![d] = @ \union {<<span.begin, span.id>>}]
  /\ writing' = [writing EXCEPT ![d] = Tail(@)]
  /\ totalWritten' = [totalWritten EXCEPT ![d] = @ + 1]
  /\ UNCHANGED <<ingestVars, incoming, heartbeats, spc, totalDropped, reaperDate,
                 ReapedSpans, sinkVars, closing, histVars>>

\* writeSpan(): LevelDB reports an error and the span is dropped.
WriteSpanFails(d) ==
  /\ LdbMayFail /\ spc[d] = "write" /\ writing[d] # <<>>
  /\ failed' = failed \union {Head(writing[d]).id}
  /\ writing' = [writing EXCEPT ![d] = Tail(@)]
  /\ totalDropped' = [totalDropped EXCEPT ![d] = @ + 1]
  /\ UNCHANGED <<ingestVars, incoming, heartbeats, spc, totalWritten, ldbVars, reaperDate,
                 ReapedSpans, sinkVars, closing, reaped>>

\* Mutant: the two totals are swapped.
UpdatePersistedSwapped(d) ==
  /\ spc[d] = "write" /\ writing[d] = <<>>
  /\ spc' = [spc EXCEPT ![d] = "select"]
  /\ WrittenSpans' = WrittenSpans + totalDropped[d]
  /\ ServerDropped' = ServerDropped + totalWritten[d]
  /\ UNCHANGED <<ingestVars, incoming, heartbeats, writing, totalWritten, totalDropped,
                 ldbVars, reaperDate, ReapedSpans, IngestedSpans, closing, histVars>>

\* Mutant: the goroutine returns after a batch.
UpdatePersistedExiting(d) ==
  /\ spc[d] = "write" /\ writing[d] = <<>>
  /\ spc' = [spc EXCEPT ![d] = "exited"]
  /\ WrittenSpans' = WrittenSpans + totalWritten[d]
  /\ ServerDropped' = ServerDropped + totalDropped[d]
  /\ UNCHANGED <<ingestVars, incoming, heartbeats, writing, totalWritten, totalDropped,
                 ldbVars, reaperDate, ReapedSpans, IngestedSpans, closing, histVars>>

\* The batch is written: UpdatePersisted().
UpdatePersisted(d) ==
  /\ spc[d] = "write" /\ writing[d] = <<>>
  /\ spc' = [spc EXCEPT ![d] = "select"]
  /\ WrittenSpans' = WrittenSpans + totalWritten[d]
  /\ ServerDropped' = ServerDropped + totalDropped[d]
  /\ UNCHANGED <<ingestVars, incoming, heartbeats, writing, totalWritten, totalDropped,
                 ldbVars, reaperDate, ReapedSpans, IngestedSpans, closing, histVars>>

-----------------------------------------------------------------------------
(* pruneExpired() *)

\* Mutant: the id comes before the time in the key.
KeyLeqIdFirst(e, f) == e[2] < f[2] \/ (e[2] = f[2] /\ e[1] <= f[1])

\* The order of the keys of the begin time index.
KeyLeq(e, f) == e[1] < f[1] \/ (e[1] = f[1] /\ e[2] <= f[2])

\* CreateReaperSource(): the entries the reaper's iterator passes.  The search key is
\* begin time 0 followed by the same eight bytes again in the place of the id.
ReaperEntries(d) == {e \in beginIndex[d] : KeyLeq(<<0, MidId>>, e)}

\* Mutant: the entry's time decides, not the span's.
DeletableByEntry(d, e) ==
  /\ stored[d][e[2]] # None
  /\ e[1] < reaperDate
  /\ \A f \in ReaperEntries(d) : f # e /\ KeyLeq(f, e) => f[2] # e[2]

\* The span of entry e is deleted when the reaper comes to it: it is still stored (no
\* earlier entry deleted it), its begin time is not negative and before the date.
Deletable(d, e) ==
  /\ stored[d][e[2]] # None
  /\ stored[d][e[2]] >= 0 /\ stored[d][e[2]] < reaperDate
  /\ \A f \in ReaperEntries(d) : f # e /\ KeyLeq(f, e) => f[2] # e[2]

\* The entries whose spans a pass deletes: the first entry that is not deletable, a
\* dangling one included, ends the pass.
Passed(d) ==
  {e \in ReaperEntries(d) : \A f \in ReaperEntries(d) : KeyLeq(f, e) => Deletable(d, f)}

\* Mutant: the index entries stay.
DeleteSpansKeepingEntries(d, dead) ==
  /\ stored' = [stored EXCEPT ![d] =
                  [id \in Ids |-> IF id \in dead THEN None ELSE stored[d][id]]]
  /\ beginIndex' = beginIndex
  /\ ReapedSpans' = ReapedSpans + Cardinality(dead)
  /\ reaped' = reaped \union dead

\* DeleteSpan() of each id in dead: the span and the entries computed from it.
DeleteSpans(d, dead) ==
  /\ stored' = [stored EXCEPT ![d] =
                  [id \in Ids |-> IF id \in dead THEN None ELSE stored[d][id]]]
  /\ beginIndex' = [beginIndex EXCEPT ![d] = @ \ {<<stored[d][id], id>> : id \in dead}]
  /\ ReapedSpans' = ReapedSpans + Cardinality(dead)
  /\ reaped' = reaped \union dead

\* A heartbeat is received: a pass over the index.
PruneExpired(d) ==
  /\ spc[d] = "select" /\ heartbeats[d] > 0
  /\ heartbeats' = [heartbeats EXCEPT ![d] = @ - 1]
  /\ DeleteSpans(d, {e[2] : e \in Passed(d)})
  /\ UNCHANGED <<ingestVars, incoming, shardVars, reaperDate, sinkVars, closing, failed>>

\* DeleteSpan() fails for some span: the pass ends there.
PruneFails(d) ==
  /\ LdbMayFail /\ spc[d] = "select" /\ heartbeats[d] > 0
  /\ heartbeats' = [heartbeats EXCEPT ![d] = @ - 1]
  /\ \E e \in Passed(d) :
       DeleteSpans(d, {f[2] : f \in {x \in Passed(d) : x # e /\ KeyLeq(x, e)}})
  /\ UNCHANGED <<ingestVars, incoming, shardVars, reaperDate, sinkVars, closing, failed>>

-----------------------------------------------------------------------------
(* Heartbeater, Reaper and Close() *)

\* The store's heartbeater beats: a shard that has not cleared the previous heartbeat
\* from its channel gets none.
Heartbeat ==
  /\ closing = Open
  /\ heartbeats' = [d \in Shards |-> 1]
  /\ UNCHANGED <<ingestVars, incoming, shardVars, ldbVars, reaperDate, ReapedSpans,
                 sinkVars, closing, histVars>>

\* Reaper.handleHeartbeat(): the date only moves forward, whatever the clock does.
HandleHeartbeat ==
  /\ closing # Closed
  /\ \E date \in 0..MaxDate : date > reaperDate /\ reaperDate' = date
  /\ UNCHANGED <<ingestVars, incoming, heartbeats, shardVars, ldbVars, ReapedSpans,
                 sinkVars, closing, histVars>>

\* dataStore.Close(), once no request is being handled: stop the heartbeater ...
Close ==
  /\ closing = Open /\ \A r \in Requests : hpc[r] # "decode"
  /\ closing' = <<"send", 0>>
  /\ UNCHANGED <<ingestVars, incoming, heartbeats, shardVars, ldbVars, reaperDate,
                 ReapedSpans, sinkVars, histVars>>

\* Mutant: nothing tells the goroutine to exit.
CloseShardWithoutNil(d) ==
  /\ closing = <<"send", d>> /\ CanSend(d)
  /\ closing' = <<"wait", d>>
  /\ incoming' = incoming
  /\ UNCHANGED <<ingestVars, heartbeats, shardVars, ldbVars, reaperDate, ReapedSpans,
                 sinkVars, histVars>>

\* ... and close the shards one after the other: send nil ...
CloseShard(d) ==
  /\ closing = <<"send", d>> /\ CanSend(d)
  /\ closing' = <<"wait", d>>
  /\ incoming' = [incoming EXCEPT ![d] = Append(@, Nil)]
  /\ UNCHANGED <<ingestVars, heartbeats, shardVars, ldbVars, reaperDate, ReapedSpans,
                 sinkVars, histVars>>

\* ... and wait until its goroutine has exited.
ShardClosed(d) ==
  /\ closing = <<"wait", d>> /\ spc[d] = "exited"
  /\ closing' = IF d + 1 \in Shards THEN <<"send", d + 1>> ELSE Closed
  /\ UNCHANGED <<ingestVars, incoming, heartbeats, shardVars, ldbVars, reaperDate,
                 ReapedSpans, sinkVars, histVars>>

-----------------------------------------------------------------------------
HandlerStep(r) ==
  IngestInvalid(r) \/ IngestSpan(r) \/ BreakOff(r) \/ CloseIngestorBatch(r) \/ CloseIngestor(r)

BatchStep(d) ==
  TakeBatch(d) \/ TakeNil(d) \/ WriteSpan(d) \/ WriteSpanFails(d) \/ UpdatePersisted(d)

Next ==
  \/ \E r \in Requests : HandlerStep(r)
  \/ \E d \in Shards : \/ BatchStep(d) \/ PruneExpired(d) \/ PruneFails(d)
                         \/ CloseShard(d) \/ ShardClosed(d)
  \/ Heartbeat \/ HandleHeartbeat \/ Close

Spec == Init /\ [][Next]_vars

\* The goroutines keep running, the heartbeater keeps beating, and a select that finds
\* both channels ready picks one at random, so neither waits for ever.
Fairness ==
  /\ \A r \in Requests : WF_vars(HandlerStep(r))
  /\ \A d \in Shards : /\ WF_vars(BatchStep(d)) /\ WF_vars(PruneExpired(d))
                        /\ WF_vars(CloseShard(d)) /\ WF_vars(ShardClosed(d))
  /\ WF_vars(Heartbeat)

FairSpec == Spec /\ Fairness

-----------------------------------------------------------------------------
(* Properties *)

Batch == Seq(Sent)

\* The types of everything but the number of reaped spans.
StateTypes ==
  /\ hpc \in [Requests -> {"decode", "brokenOff", "answered"}]
  /\ decoded \in [Requests -> Nat] /\ \A r \in Requests : decoded[r] <= Len(SpansOf[r])
  /\ batches \in [Requests -> [Shards -> Batch]]
  /\ \A r \in Requests, d \in Shards : Len(batches[r][d]) < WRITESPANS_BATCH_SIZE
  /\ totalIngested \in [Requests -> Nat] /\ serverDropped \in [Requests -> Nat]
  /\ incoming \in [Shards -> Seq(Batch)]
  /\ \A d \in Shards : Len(incoming[d]) <= SpanBufferSize
  /\ heartbeats \in [Shards -> 0..1]
  /\ spc \in [Shards -> {"select", "write", "exited"}] /\ writing \in [Shards -> Batch]
  /\ totalWritten \in [Shards -> Nat] /\ totalDropped \in [Shards -> Nat]
  /\ stored \in [Shards -> [Ids -> Int \union {None}]]
  /\ beginIndex \in [Shards -> SUBSET (Int \X Ids)]
  /\ reaperDate \in 0..MaxDate
  /\ IngestedSpans \in Nat /\ WrittenSpans \in Nat /\ ServerDropped \in Nat
  /\ closing \in {Open, Closed} \union ({"send", "wait"} \X Shards)
  /\ failed \subseteq Ids /\ reaped \subseteq Ids

\* Every variable has its type; a shard's channel never holds more than its capacity and
\* an ingestor's batch stays below WRITESPANS_BATCH_SIZE.
TypeOK == StateTypes /\ ReapedSpans \in Nat

\* Every stored span can be found by its begin time: writeSpan() and DeleteSpan() keep the
\* index complete, also for a span that is written again with another begin time, and a
\* span is only in the shard its id hashes to.
IndexCoversStored ==
  \A d \in Shards, id \in Ids : stored[d][id] # None =>
    <<stored[d][id], id>> \in beginIndex[d] /\ d = GetShardIndex(id)

\* Is the span sent again with another begin time?
Rewritten(id) == \E x, y \in Sent : x.id = id /\ y.id = id /\ x.begin # y.begin

\* No index entry dangles: an entry of the begin time index leads to a stored span with
\* that begin time, whatever was written, written again, and reaped in between.  Only the
\* entries of a span that is sent with several begin times may be stale.
IndexIsExact ==
  \A d \in Shards : \A e \in beginIndex[d] : stored[d][e[2]] = e[1] \/ Rewritten(e[2])

\* No request is in progress, and every shard's goroutine has exited or waits for a batch.
Quiet ==
  /\ \A r \in Requests : hpc[r] # "decode"
  /\ \A d \in Shards : spc[d] = "exited" \/ (spc[d] = "select" /\ incoming[d] = <<>>)

\* A request that was answered has all its valid spans in the store once the shards are
\* done, unless LevelDB refused them or they were reaped: no batch is lost between the
\* ingestor, the channel and the shard, and none is left behind the nil that Close() sends.
AnsweredSpansAreStored ==
  Quiet => \A r \in Requests : hpc[r] = "answered" =>
    \A i \in DOMAIN SpansOf[r] :
      LET id == SpansOf[r][i].id
      IN  id = INVALID_SPAN_ID \/ id \in failed \union reaped
            \/ stored[GetShardIndex(id)][id] # None

\* The server's statistics add up once the shards are done: every ingested span was
\* either written or dropped, as long as no request broke off.
StatisticsBalance ==
  Quiet /\ (\A r \in Requests : hpc[r] = "answered") =>
    IngestedSpans = WrittenSpans + ServerDropped

\* The spans in shard d, and those of them that its goroutine has yet to report as written.
Held(d) == Cardinality({id \in Ids : stored[d][id] # None})
Unreported(d) == IF spc[d] = "write" THEN totalWritten[d] ELSE 0

\* The store never holds more spans than were written and not reaped since.
StoredSpansAreCounted ==
  SumFunction([d \in Shards |-> Held(d) - Unreported(d)]) <= WrittenSpans - ReapedSpans

\* The server's statistics agree with each other and with the store.
StatisticsAddUp == StatisticsBalance /\ StoredSpansAreCounted

\* The reaper deletes a span only if it began before the reaper date, also when the span
\* is written again or the date moves while a pass is under way.
ReaperSparesUnexpired ==
  [][\A d \in Shards, id \in Ids : stored[d][id] # None /\ stored'[d][id] = None =>
       stored[d][id] < reaperDate]_vars

\* The reaper deletes the oldest spans of a shard first: it never deletes a span while it
\* leaves one that began earlier (after time 0), even if LevelDB fails half-way.  Only a
\* span that is sent with several begin times may go too early, by a stale index entry.
ReapsOldestFirst ==
  [][\A d \in Shards, id, j \in Ids :
       stored[d][id] # None /\ stored'[d][id] = None /\ stored'[d][j] # None =>
         \/ stored'[d][j] <= 0 \/ stored'[d][j] >= stored[d][id]
         \/ Rewritten(id)]_vars

\* Every request is answered or breaks off: the bounded channels never block a handler
\* for ever.
RequestsEnd == \A r \in Requests : hpc[r] = "decode" ~> hpc[r] # "decode"

\* Close() returns.
CloseReturns == closing # Open ~> closing = Closed

\* A span older than the reaper date is deleted ("The number of milliseconds we should
\* keep spans before discarding them", HTRACE_SPAN_EXPIRY_MS), unless the store closes.
ExpiredSpansAreReaped ==
  \A d \in Shards, span \in {x \in Sent : x.id \in Ids} :
    stored[d][span.id] = span.begin /\ span.begin < reaperDate
      ~> stored[d][span.id] # span.begin \/ closing # Open
=============================================================================
