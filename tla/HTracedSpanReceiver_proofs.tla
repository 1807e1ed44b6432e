--------------------- MODULE HTracedSpanReceiver_proofs ---------------------
(***************************************************************************)
(* Proofs about HTracedSpanReceiver for every number of threads, spans,    *)
(* retries, every buffer size and trigger size, and both buffer managers.  *)
(***************************************************************************)
EXTENDS HTracedSpanReceiver, FiniteSetTheorems, TLAPS

\* A thread inside receiveSpan() has a span of its own, not yet decided on.
HeldSpans ==
  /\ \A t \in Threads : IF pc[t] = "idle" THEN cur[t] = NoSpan
                        ELSE cur[t] \in Spans /\ fate[cur[t]] = "held"
  /\ \A t, u \in Threads : pc[t] # "idle" /\ cur[t] = cur[u] => t = u

\* The buffer being sent and the one being filled are different ones.
BuffersApart ==
  Flushing \/ ppc = "clear" => flushingBuf \in Bufs /\ activeBuf = 1 - flushingBuf

\* While nothing is being sent, the buffer that is not active is empty.
IdleBufferEmpty == ppc \in {"top", "await", "done"} => content[1 - activeBuf] = {}

\* The spans of a buffer about to be cleared are decided on.
ClearedSpansSettled ==
  ppc = "clear" => \A s \in content[flushingBuf] : fate[s] \in {"flushed", "gaveUp"}

\* A buffer that holds a span does not look empty.
PositionCoversContent == \A b \in Bufs : content[b] # {} => position[b] >= 2

ExitedAfterShutdown == ppc = "done" => shutdown /\ content[0] = {} /\ content[1] = {}

RestIngests == ~Packed => FlushedSpansAreIngested

IInv ==
  /\ TypeOK /\ HeldSpans /\ BuffersApart /\ IdleBufferEmpty /\ ClearedSpansSettled
  /\ PositionCoversContent /\ AcceptedSpansAreBuffered /\ NumSpansMatchesContent
  /\ ExitedAfterShutdown /\ RestIngests

\* What is in a buffer is a finite set of spans.
LEMMA FiniteContent == ASSUME TypeOK PROVE \A b \in Bufs : IsFiniteSet(content[b])
BY ReceiverAssumption, FS_Subset DEF TypeOK, Bufs

\* A thread that enters receiveSpan() takes a span nobody else has.
LEMMA ReceiveSpanStep ==
  ASSUME IInv, NEW t \in Threads, NEW s \in Spans, ReceiveSpan(t, s)
  PROVE  IInv'
<1> USE ReceiverAssumption DEF IInv, Bufs, bufVars, threadVars, postVars, logVars
<1> USE DEF ReceiveSpan
<1>1. HeldSpans'
  BY DEF HeldSpans, TypeOK
<1>2. ClearedSpansSettled'
  BY DEF ClearedSpansSettled, TypeOK, HeldSpans, BuffersApart, Flushing
<1>3. AcceptedSpansAreBuffered'
  BY DEF AcceptedSpansAreBuffered, TypeOK, HeldSpans, BuffersApart, ClearedSpansSettled,
     Flushing
<1> QED
  BY <1>1, <1>2, <1>3 DEF TypeOK, BuffersApart, IdleBufferEmpty, PositionCoversContent,
     NumSpansMatchesContent, ExitedAfterShutdown, RestIngests, Fates, Prequels,
     Flushing, FlushedSpansAreIngested

\* Refusing a span leaves the buffers alone.
LEMMA ReceiveRefusedStep == ASSUME IInv, NEW t \in Threads, ReceiveRefused(t) PROVE IInv'
<1> USE ReceiverAssumption DEF IInv, Bufs, bufVars, threadVars, postVars, logVars
<1> USE DEF ReceiveRefused, Return
<1>1. TypeOK'
  BY DEF TypeOK, Fates, HeldSpans
<1>2. HeldSpans'
  BY DEF HeldSpans, TypeOK
<1>3. ClearedSpansSettled'
  BY DEF ClearedSpansSettled, TypeOK, HeldSpans, BuffersApart, Flushing
<1>4. AcceptedSpansAreBuffered'
  BY DEF AcceptedSpansAreBuffered, TypeOK, HeldSpans, BuffersApart, ClearedSpansSettled,
     Flushing
<1> QED
  BY <1>1, <1>2, <1>3, <1>4 DEF BuffersApart, IdleBufferEmpty, PositionCoversContent,
     NumSpansMatchesContent, ExitedAfterShutdown, RestIngests, TypeOK, Fates, Prequels,
     Flushing, FlushedSpansAreIngested

\* Writing a span to the active buffer keeps IInv: the span was in no buffer, and the
\* active buffer is not the one being sent.
LEMMA ReceiveAcceptedStep ==
  ASSUME IInv, NEW t \in Threads, ReceiveAccepted(t)
  PROVE  IInv'
<1> USE ReceiverAssumption DEF IInv, Bufs, bufVars, threadVars, postVars, logVars
<1> USE DEF ReceiveAccepted, Return, WriteSpan, HasRoom
<1>1. TypeOK'
  <2>1. cur[t] \in Spans /\ Len[cur[t]] \in Nat
    BY DEF HeldSpans
  <2>2. position' \in [Bufs -> 0..BufferSize]
    BY <2>1 DEF TypeOK
  <2> QED BY <2>1, <2>2 DEF TypeOK, Fates
<1>2. HeldSpans'
  BY DEF HeldSpans, TypeOK
<1>3. IdleBufferEmpty'
  BY DEF IdleBufferEmpty, TypeOK, BuffersApart
<1>4. ClearedSpansSettled'
  BY DEF ClearedSpansSettled, TypeOK, HeldSpans, BuffersApart, Flushing
<1>5. PositionCoversContent'
  <2>1. Len[cur[t]] \in Nat /\ Len[cur[t]] >= 2
    BY DEF HeldSpans
  <2> QED BY <2>1 DEF PositionCoversContent, TypeOK
<1>6. AcceptedSpansAreBuffered'
  BY DEF AcceptedSpansAreBuffered, TypeOK, HeldSpans, BuffersApart, ClearedSpansSettled,
     Flushing
<1>7. NumSpansMatchesContent'
  <2>1. cur[t] \notin content[activeBuf]
    BY DEF TypeOK, HeldSpans, AcceptedSpansAreBuffered, ClearedSpansSettled
  <2>2. Cardinality(content[activeBuf] \cup {cur[t]}) = Cardinality(content[activeBuf])
     + 1
    BY <2>1, FiniteContent, FS_AddElement, Zenon DEF TypeOK
  <2> QED BY <2>2 DEF NumSpansMatchesContent, TypeOK
<1> QED
  BY <1>1, <1>2, <1>3, <1>4, <1>5, <1>6, <1>7 DEF BuffersApart, ExitedAfterShutdown,
     RestIngests, TypeOK, Fates, Prequels, Flushing, FlushedSpansAreIngested

\* Backing off changes no shared state.
LEMMA ReceiveBackOffStep == ASSUME IInv, NEW t \in Threads, ReceiveBackOff(t) PROVE IInv'
<1> USE ReceiverAssumption DEF IInv, Bufs, bufVars, threadVars, postVars, logVars
<1> USE DEF ReceiveBackOff
<1>1. HeldSpans'
  BY DEF HeldSpans, TypeOK
<1> QED
  BY <1>1 DEF TypeOK, BuffersApart, IdleBufferEmpty, ClearedSpansSettled,
     PositionCoversContent, AcceptedSpansAreBuffered, NumSpansMatchesContent,
     ExitedAfterShutdown, RestIngests, Fates, Prequels, Flushing,
     FlushedSpansAreIngested

\* Nor does waking up.
LEMMA WakeFromBackOffStep ==
  ASSUME IInv, NEW t \in Threads, WakeFromBackOff(t)
  PROVE  IInv'
<1> USE ReceiverAssumption DEF IInv, Bufs, bufVars, threadVars, postVars, logVars
<1> USE DEF WakeFromBackOff
<1>1. TypeOK'
  BY DEF TypeOK
<1>2. HeldSpans'
  BY DEF HeldSpans, TypeOK
<1> QED
  BY <1>1, <1>2 DEF BuffersApart, IdleBufferEmpty, ClearedSpansSettled,
     PositionCoversContent, AcceptedSpansAreBuffered, NumSpansMatchesContent,
     ExitedAfterShutdown, RestIngests, TypeOK, Fates, Prequels, Flushing,
     FlushedSpansAreIngested

\* Reading unbufferableSpans for the increment leaves the buffers alone.
LEMMA ReceiveDropReadStep ==
  ASSUME IInv, NEW t \in Threads, ReceiveDropRead(t)
  PROVE  IInv'
<1> USE ReceiverAssumption DEF IInv, Bufs, bufVars, threadVars, postVars, logVars
<1> USE DEF ReceiveDropRead
<1>1. HeldSpans'
  BY DEF HeldSpans, TypeOK
<1> QED
  BY <1>1 DEF TypeOK, BuffersApart, IdleBufferEmpty, ClearedSpansSettled,
     PositionCoversContent, AcceptedSpansAreBuffered, NumSpansMatchesContent,
     ExitedAfterShutdown, RestIngests, Fates, Prequels, Flushing,
     FlushedSpansAreIngested

\* Dropping a span decides on it without touching the buffers.
LEMMA ReceiveDropWriteStep ==
  ASSUME IInv, NEW t \in Threads, ReceiveDropWrite(t)
  PROVE  IInv'
<1> USE ReceiverAssumption DEF IInv, Bufs, bufVars, threadVars, postVars, logVars
<1> USE DEF ReceiveDropWrite, Return
<1>1. TypeOK'
  BY DEF TypeOK, Fates, HeldSpans
<1>2. HeldSpans'
  BY DEF HeldSpans, TypeOK
<1>3. ClearedSpansSettled'
  BY DEF ClearedSpansSettled, TypeOK, HeldSpans, BuffersApart, Flushing
<1>4. AcceptedSpansAreBuffered'
  BY DEF AcceptedSpansAreBuffered, TypeOK, HeldSpans, BuffersApart, ClearedSpansSettled,
     Flushing
<1> QED
  BY <1>1, <1>2, <1>3, <1>4 DEF BuffersApart, IdleBufferEmpty, PositionCoversContent,
     NumSpansMatchesContent, ExitedAfterShutdown, RestIngests, TypeOK, Fates, Prequels,
     Flushing, FlushedSpansAreIngested

\* close() only raises the shutdown flag.
LEMMA CloseStep == ASSUME IInv, Close PROVE IInv'
<1> USE ReceiverAssumption DEF IInv, Bufs, bufVars, threadVars, postVars, logVars
<1> USE DEF Close
<1> QED
  BY DEF TypeOK, HeldSpans, BuffersApart, IdleBufferEmpty, ClearedSpansSettled,
     PositionCoversContent, AcceptedSpansAreBuffered, NumSpansMatchesContent,
     ExitedAfterShutdown, RestIngests, Fates, Prequels, Flushing,
     FlushedSpansAreIngested

\* The join changes no shared state.
LEMMA CloseJoinedStep == ASSUME IInv, CloseJoined PROVE IInv'
<1> USE ReceiverAssumption DEF IInv, Bufs, bufVars, threadVars, postVars, logVars
<1> USE DEF CloseJoined
<1> QED
  BY DEF TypeOK, HeldSpans, BuffersApart, IdleBufferEmpty, ClearedSpansSettled,
     PositionCoversContent, AcceptedSpansAreBuffered, NumSpansMatchesContent,
     ExitedAfterShutdown, RestIngests, Fates, Prequels, Flushing,
     FlushedSpansAreIngested

\* The clock changes no shared state.
LEMMA TimeElapsesStep == ASSUME IInv, TimeElapses PROVE IInv'
<1> USE ReceiverAssumption DEF IInv, Bufs, bufVars, threadVars, postVars, logVars
<1> USE DEF TimeElapses
<1> QED
  BY DEF TypeOK, HeldSpans, BuffersApart, IdleBufferEmpty, ClearedSpansSettled,
     PositionCoversContent, AcceptedSpansAreBuffered, NumSpansMatchesContent,
     ExitedAfterShutdown, RestIngests, Fates, Prequels, Flushing,
     FlushedSpansAreIngested

\* Waiting for spans leaves both buffers as they are.
LEMMA PostAwaitStep == ASSUME IInv, PostAwait PROVE IInv'
<1> USE ReceiverAssumption DEF IInv, Bufs, bufVars, threadVars, postVars, logVars
<1> USE DEF PostAwait
<1>1. IdleBufferEmpty'
  BY DEF IdleBufferEmpty, TypeOK, BuffersApart
<1>2. AcceptedSpansAreBuffered'
  BY DEF AcceptedSpansAreBuffered, TypeOK, HeldSpans, BuffersApart, ClearedSpansSettled,
     Flushing
<1> QED
  BY <1>1, <1>2, Zenon DEF TypeOK, HeldSpans, BuffersApart, ClearedSpansSettled,
     PositionCoversContent, NumSpansMatchesContent, ExitedAfterShutdown, RestIngests,
     Fates, Prequels, Flushing, FlushedSpansAreIngested

\* The thread exits with the active buffer empty, and the other one is empty whenever
\* nothing is being sent.
LEMMA PostExitStep == ASSUME IInv, PostExit PROVE IInv'
<1> USE ReceiverAssumption DEF IInv, Bufs, bufVars, threadVars, postVars, logVars
<1> USE DEF PostExit, CloseBufs, ContentLength
<1>1. AcceptedSpansAreBuffered'
  BY DEF AcceptedSpansAreBuffered, TypeOK, IdleBufferEmpty, PositionCoversContent
<1>2. NumSpansMatchesContent'
  <2>1. CASE Packed
    BY <2>1, FS_EmptySet, SMTT(30) DEF NumSpansMatchesContent
  <2>2. CASE ~Packed
    BY <2>2 DEF NumSpansMatchesContent
  <2> QED BY <2>1, <2>2
<1>3. ExitedAfterShutdown'
  BY DEF ExitedAfterShutdown, TypeOK, IdleBufferEmpty, PositionCoversContent
<1> QED
  BY <1>1, <1>2, <1>3 DEF TypeOK, HeldSpans, BuffersApart, IdleBufferEmpty,
     ClearedSpansSettled, PositionCoversContent, RestIngests, Fates, Prequels, Flushing,
     FlushedSpansAreIngested

\* The swap hands the filled buffer to the flush and an empty one to receiveSpan().
LEMMA PostSwapStep == ASSUME IInv, PostSwap PROVE IInv'
<1> USE ReceiverAssumption DEF IInv, Bufs, bufVars, threadVars, postVars, logVars
<1> USE DEF PostSwap, ShouldWaitForCond, ContentLength
<1>1. BuffersApart'
  BY DEF BuffersApart, Flushing, TypeOK
<1>2. AcceptedSpansAreBuffered'
  BY DEF AcceptedSpansAreBuffered, TypeOK, HeldSpans, BuffersApart, ClearedSpansSettled,
     Flushing
<1> QED
  BY <1>1, <1>2 DEF TypeOK, HeldSpans, IdleBufferEmpty, ClearedSpansSettled,
     PositionCoversContent, NumSpansMatchesContent, ExitedAfterShutdown, RestIngests,
     Fates, Prequels, Flushing, FlushedSpansAreIngested, BuffersApart

\* Preparing the request leaves the spans where they are.
LEMMA PostPrepareStep == ASSUME IInv, PostPrepare PROVE IInv'
<1> USE ReceiverAssumption DEF IInv, Bufs, bufVars, threadVars, postVars, logVars
<1> USE DEF PostPrepare
<1>1. AcceptedSpansAreBuffered'
  BY DEF AcceptedSpansAreBuffered, TypeOK, HeldSpans, BuffersApart, ClearedSpansSettled,
     Flushing
<1> QED
  BY <1>1 DEF TypeOK, HeldSpans, BuffersApart, IdleBufferEmpty, ClearedSpansSettled,
     PositionCoversContent, NumSpansMatchesContent, ExitedAfterShutdown, RestIngests,
     Fates, Prequels, Flushing, FlushedSpansAreIngested

\* So does reporting the dropped spans ...
LEMMA PostLogDroppedStep == ASSUME IInv, PostLogDropped PROVE IInv'
<1> USE ReceiverAssumption DEF IInv, Bufs, bufVars, threadVars, postVars, logVars
<1> USE DEF PostLogDropped
<1>1. AcceptedSpansAreBuffered'
  BY DEF AcceptedSpansAreBuffered, TypeOK, HeldSpans, BuffersApart, ClearedSpansSettled,
     Flushing
<1> QED
  BY <1>1 DEF TypeOK, HeldSpans, BuffersApart, IdleBufferEmpty, ClearedSpansSettled,
     PositionCoversContent, NumSpansMatchesContent, ExitedAfterShutdown, RestIngests,
     Fates, Prequels, Flushing, FlushedSpansAreIngested

\* ... and resetting their count.
LEMMA PostResetDroppedStep == ASSUME IInv, PostResetDropped PROVE IInv'
<1> USE ReceiverAssumption DEF IInv, Bufs, bufVars, threadVars, postVars, logVars
<1> USE DEF PostResetDropped
<1>1. AcceptedSpansAreBuffered'
  BY DEF AcceptedSpansAreBuffered, TypeOK, HeldSpans, BuffersApart, ClearedSpansSettled,
     Flushing
<1> QED
  BY <1>1 DEF TypeOK, HeldSpans, BuffersApart, IdleBufferEmpty, ClearedSpansSettled,
     PositionCoversContent, NumSpansMatchesContent, ExitedAfterShutdown, RestIngests,
     Fates, Prequels, Flushing, FlushedSpansAreIngested

\* A failed send decides on the buffer's spans at most by giving them up.
LEMMA PackedSendFailsStep == ASSUME IInv, PackedSendFails PROVE IInv'
<1> USE ReceiverAssumption DEF IInv, Bufs, bufVars, threadVars, postVars, logVars
<1> USE DEF PackedSendFails, FlushThrows, Settle
<1>1. TypeOK'
  BY DEF TypeOK, Fates, Prequels, Flushing, BuffersApart
<1>2. HeldSpans'
  BY DEF HeldSpans, TypeOK, AcceptedSpansAreBuffered, BuffersApart, Flushing
<1>3. ClearedSpansSettled'
  BY DEF ClearedSpansSettled, TypeOK, HeldSpans, BuffersApart, Flushing
<1>4. AcceptedSpansAreBuffered'
  BY DEF AcceptedSpansAreBuffered, TypeOK, HeldSpans, BuffersApart, ClearedSpansSettled,
     Flushing
<1>5. RestIngests'
  BY DEF RestIngests, FlushedSpansAreIngested, TypeOK
<1> QED
  BY <1>1, <1>2, <1>3, <1>4, <1>5 DEF BuffersApart, IdleBufferEmpty,
     PositionCoversContent, NumSpansMatchesContent, ExitedAfterShutdown, TypeOK, Fates,
     Prequels, Flushing, FlushedSpansAreIngested

\* A response, good or bad, decides on all spans of the buffer or on none.
LEMMA PackedReplyStep == ASSUME IInv, PackedReply PROVE IInv'
<1> USE ReceiverAssumption DEF IInv, Bufs, bufVars, threadVars, postVars, logVars
<1> USE DEF PackedReply, FlushThrows, FlushReturns, Settle, Request, ReadRequestBody
<1>1. TypeOK'
  BY DEF TypeOK, Fates, Prequels, Flushing, BuffersApart
<1>2. HeldSpans'
  BY DEF HeldSpans, TypeOK, AcceptedSpansAreBuffered, BuffersApart, Flushing
<1>3. ClearedSpansSettled'
  BY DEF ClearedSpansSettled, TypeOK, HeldSpans, BuffersApart, Flushing
<1>4. AcceptedSpansAreBuffered'
  BY DEF AcceptedSpansAreBuffered, TypeOK, HeldSpans, BuffersApart, ClearedSpansSettled,
     Flushing
<1>5. RestIngests'
  BY DEF RestIngests, FlushedSpansAreIngested, TypeOK
<1> QED
  BY <1>1, <1>2, <1>3, <1>4, <1>5 DEF BuffersApart, IdleBufferEmpty,
     PositionCoversContent, NumSpansMatchesContent, ExitedAfterShutdown, TypeOK, Fates,
     Prequels, Flushing, FlushedSpansAreIngested

\* So does a lost response.
LEMMA PackedReplyLostStep == ASSUME IInv, PackedReplyLost PROVE IInv'
<1> USE ReceiverAssumption DEF IInv, Bufs, bufVars, threadVars, postVars, logVars
<1> USE DEF PackedReplyLost, FlushThrows, Settle, Request, ReadRequestBody
<1>1. TypeOK'
  BY DEF TypeOK, Fates, Prequels, Flushing, BuffersApart
<1>2. HeldSpans'
  BY DEF HeldSpans, TypeOK, AcceptedSpansAreBuffered, BuffersApart, Flushing
<1>3. ClearedSpansSettled'
  BY DEF ClearedSpansSettled, TypeOK, HeldSpans, BuffersApart, Flushing
<1>4. AcceptedSpansAreBuffered'
  BY DEF AcceptedSpansAreBuffered, TypeOK, HeldSpans, BuffersApart, ClearedSpansSettled,
     Flushing
<1>5. RestIngests'
  BY DEF RestIngests, FlushedSpansAreIngested, TypeOK
<1> QED
  BY <1>1, <1>2, <1>3, <1>4, <1>5 DEF BuffersApart, IdleBufferEmpty,
     PositionCoversContent, NumSpansMatchesContent, ExitedAfterShutdown, TypeOK, Fates,
     Prequels, Flushing, FlushedSpansAreIngested

\* A successful POST decides on all spans of the buffer, and htraced has them.
LEMMA RestReplyStep == ASSUME IInv, RestReply PROVE IInv'
<1> USE ReceiverAssumption DEF IInv, Bufs, bufVars, threadVars, postVars, logVars
<1> USE DEF RestReply, FlushReturns, Settle
<1>1. TypeOK'
  BY DEF TypeOK, Fates, Prequels, Flushing, BuffersApart
<1>2. HeldSpans'
  BY DEF HeldSpans, TypeOK, AcceptedSpansAreBuffered, BuffersApart, Flushing
<1>3. ClearedSpansSettled'
  BY DEF ClearedSpansSettled, TypeOK, HeldSpans, BuffersApart, Flushing
<1>4. AcceptedSpansAreBuffered'
  BY DEF AcceptedSpansAreBuffered, TypeOK, HeldSpans, BuffersApart, ClearedSpansSettled,
     Flushing
<1>5. RestIngests'
  BY DEF RestIngests, FlushedSpansAreIngested, TypeOK
<1> QED
  BY <1>1, <1>2, <1>3, <1>4, <1>5, Zenon DEF BuffersApart, IdleBufferEmpty,
     PositionCoversContent, NumSpansMatchesContent, ExitedAfterShutdown, TypeOK, Fates,
     Prequels, Flushing, FlushedSpansAreIngested

\* A failed POST decides on all spans of the buffer or on none.
LEMMA RestFailsStep == ASSUME IInv, RestFails PROVE IInv'
<1> USE ReceiverAssumption DEF IInv, Bufs, bufVars, threadVars, postVars, logVars
<1> USE DEF RestFails, FlushThrows, Settle
<1>1. TypeOK'
  BY DEF TypeOK, Fates, Prequels, Flushing, BuffersApart
<1>2. HeldSpans'
  BY DEF HeldSpans, TypeOK, AcceptedSpansAreBuffered, BuffersApart, Flushing
<1>3. ClearedSpansSettled'
  BY DEF ClearedSpansSettled, TypeOK, HeldSpans, BuffersApart, Flushing
<1>4. AcceptedSpansAreBuffered'
  BY DEF AcceptedSpansAreBuffered, TypeOK, HeldSpans, BuffersApart, ClearedSpansSettled,
     Flushing
<1>5. RestIngests'
  BY DEF RestIngests, FlushedSpansAreIngested, TypeOK
<1> QED
  BY <1>1, <1>2, <1>3, <1>4, <1>5, Zenon DEF BuffersApart, IdleBufferEmpty,
     PositionCoversContent, NumSpansMatchesContent, ExitedAfterShutdown, TypeOK, Fates,
     Prequels, Flushing, FlushedSpansAreIngested

\* Clearing the flushed buffer removes only spans that were decided on.
LEMMA PostClearStep == ASSUME IInv, PostClear PROVE IInv'
<1> USE ReceiverAssumption DEF IInv, Bufs, bufVars, threadVars, postVars, logVars
<1> USE DEF PostClear, Clear
<1>1. TypeOK'
  <2>1. 0 \in 0..BufferSize
    OBVIOUS
  <2>2. position' \in [Bufs -> 0..BufferSize]
    BY <2>1, Zenon DEF TypeOK
  <2> QED BY <2>2, Zenon DEF TypeOK, Prequels
<1>2. IdleBufferEmpty'
  BY DEF IdleBufferEmpty, TypeOK, BuffersApart
<1>3. AcceptedSpansAreBuffered'
  BY DEF AcceptedSpansAreBuffered, TypeOK, HeldSpans, BuffersApart, ClearedSpansSettled,
     Flushing
<1>4. NumSpansMatchesContent'
  BY FS_EmptySet DEF NumSpansMatchesContent, TypeOK, BuffersApart
<1> QED
  BY <1>1, <1>2, <1>3, <1>4, Zenon DEF HeldSpans, BuffersApart, ClearedSpansSettled,
     PositionCoversContent, ExitedAfterShutdown, RestIngests, TypeOK, Fates, Prequels,
     Flushing, FlushedSpansAreIngested

\* If the thread dies, the packed buffers are wiped with their spans marked lost, the
\* REST buffers stay.
LEMMA PostDiesStep == ASSUME IInv, PostDies PROVE IInv'
<1> USE ReceiverAssumption DEF IInv, Bufs, bufVars, threadVars, postVars, logVars
<1> USE DEF PostDies, CloseBufs
<1>1. HeldSpans'
  BY DEF HeldSpans, TypeOK, AcceptedSpansAreBuffered
<1>2. AcceptedSpansAreBuffered'
  BY DEF AcceptedSpansAreBuffered, TypeOK, HeldSpans, BuffersApart, ClearedSpansSettled,
     Flushing
<1>3. NumSpansMatchesContent'
  <2>1. CASE Packed
    BY <2>1, FS_EmptySet, SMTT(30) DEF NumSpansMatchesContent
  <2>2. CASE ~Packed
    BY <2>2 DEF NumSpansMatchesContent
  <2> QED BY <2>1, <2>2
<1> QED
  BY <1>1, <1>2, <1>3 DEF TypeOK, BuffersApart, IdleBufferEmpty, ClearedSpansSettled,
     PositionCoversContent, ExitedAfterShutdown, RestIngests, Fates, Prequels, Flushing,
     FlushedSpansAreIngested

\* IInv holds initially: both buffers are empty and nobody is inside receiveSpan().
LEMMA InitIInv == Init => IInv
<1> SUFFICES ASSUME Init PROVE IInv
  OBVIOUS
<1> USE ReceiverAssumption DEF Init, Bufs
<1>1. TypeOK
  <2>1. /\ position \in [Bufs -> 0..BufferSize] /\ content \in [Bufs -> SUBSET Spans]
        /\ numSpans \in [Bufs -> Nat] /\ prequel \in [Bufs -> Prequels]
    BY DEF Prequels
  <2>2. /\ pc \in [Threads -> {"idle", "try", "sleep", "drop"}]
        /\ cur \in [Threads -> Spans \cup {NoSpan}]
        /\ late \in [Threads -> BOOLEAN] /\ seen \in [Threads -> Nat]
    OBVIOUS
  <2>3. /\ lock \in Threads \cup {NoThread} /\ activeBuf \in Bufs
        /\ flushingBuf \in Bufs \cup {-1} /\ unbufferableSpans \in Nat
        /\ flushTries \in 0..FlushRetryDelays /\ reported \in Nat /\ unreported \in Nat
        /\ ingested \subseteq Spans /\ fate \in [Spans -> Fates]
    BY DEF Fates
  <2> QED BY <2>1, <2>2, <2>3, Zenon DEF TypeOK
<1>2. NumSpansMatchesContent
  BY FS_EmptySet DEF NumSpansMatchesContent
<1>3. AcceptedSpansAreBuffered
  BY DEF AcceptedSpansAreBuffered
<1> QED
  BY <1>1, <1>2, <1>3 DEF IInv, HeldSpans, BuffersApart, Flushing, IdleBufferEmpty,
     ClearedSpansSettled, PositionCoversContent, ExitedAfterShutdown, RestIngests,
     FlushedSpansAreIngested

\* Every step of the receiver, its threads and its environment keeps IInv.
LEMMA NextIInv == IInv /\ [Next]_vars => IInv'
<1> SUFFICES ASSUME IInv, [Next]_vars PROVE IInv'
  OBVIOUS
<1>1. CASE \E t \in Threads, s \in Spans : ReceiveSpan(t, s)
  BY <1>1, ReceiveSpanStep
<1>2. CASE \E t \in Threads : ThreadStep(t)
  BY <1>2, ReceiveRefusedStep, ReceiveAcceptedStep, ReceiveBackOffStep,
     WakeFromBackOffStep, ReceiveDropReadStep, ReceiveDropWriteStep DEF ThreadStep
<1>3. CASE Close \/ CloseJoined \/ TimeElapses \/ PostDies
  BY <1>3, CloseStep, CloseJoinedStep, TimeElapsesStep, PostDiesStep
<1>4. CASE FlushAttempt
  BY <1>4, PackedSendFailsStep, PackedReplyStep, PackedReplyLostStep, RestReplyStep,
     RestFailsStep DEF FlushAttempt
<1>5. CASE PostStep /\ ~FlushAttempt
  BY <1>5, PostAwaitStep, PostExitStep, PostSwapStep, PostPrepareStep,
     PostLogDroppedStep, PostResetDroppedStep, PostClearStep, SMTT(30) DEF PostStep
<1>6. CASE UNCHANGED vars
  BY <1>6, SMTT(30) DEF vars, bufVars, threadVars, postVars, logVars, IInv, TypeOK, HeldSpans,
     BuffersApart, Flushing, IdleBufferEmpty, ClearedSpansSettled,
     PositionCoversContent, AcceptedSpansAreBuffered, NumSpansMatchesContent,
     ExitedAfterShutdown, RestIngests, FlushedSpansAreIngested
<1> QED
  BY <1>1, <1>2, <1>3, <1>4, <1>5, <1>6 DEF Next, PostStep

\* IInv is an invariant of the receiver.
THEOREM Invariance == Spec => []IInv
BY InitIInv, NextIInv, PTL DEF Spec

\* The receiver's fields, the buffers and the threads' locals keep their types; in
\* particular a buffer is never filled beyond bufferSize and a flush never retried
\* more often than there are delays.
THEOREM TypeCorrectness == Spec => []TypeOK
<1>1. IInv => TypeOK
  BY DEF IInv
<1> QED BY <1>1, Invariance, PTL

\* A span receiveSpan() accepted stays in exactly one buffer until it was sent or
\* given up on.
THEOREM NoAcceptedSpanForgotten == Spec => []AcceptedSpansAreBuffered
<1>1. IInv => AcceptedSpansAreBuffered
  BY DEF IInv
<1> QED BY <1>1, Invariance, PTL

\* The NumSpans of a request is the number of spans in its body.
THEOREM RequestCountsItsSpans == Spec => []NumSpansMatchesContent
<1>1. IInv => NumSpansMatchesContent
  BY DEF IInv
<1> QED BY <1>1, Invariance, PTL

\* The PostSpansThread only ends normally with both buffers drained.
THEOREM ExitDrains == Spec => []GracefulExitDrains
<1>1. IInv => GracefulExitDrains
  BY DEF IInv, GracefulExitDrains, ExitedAfterShutdown, AcceptedSpansAreBuffered, Bufs
<1> QED BY <1>1, Invariance, PTL

\* With the REST buffer manager, a flush that returns normally has delivered every
\* span of its buffer.
THEOREM RestFlushDelivers == ASSUME ~Packed PROVE Spec => []FlushedSpansAreIngested
<1>1. IInv => FlushedSpansAreIngested
  BY DEF IInv, RestIngests
<1> QED BY <1>1, Invariance, PTL

\* Nobody writes to the buffer that is being sent, although it is read without the
\* lock.
THEOREM FlushedBufferUntouched == Spec => FlushedBufferIsStable
<1> DEFINE Stable == Flushing /\ ppc' # "dead" =>
                       /\ flushingBuf' = flushingBuf
                       /\ content'[flushingBuf] = content[flushingBuf]
                       /\ numSpans'[flushingBuf] = numSpans[flushingBuf]
<1>1. ASSUME IInv, Next PROVE Stable
  <2> SUFFICES ASSUME Flushing, ppc' # "dead" PROVE Stable
    BY Zenon
  <2> USE <1>1 DEF IInv, TypeOK, Bufs, BuffersApart, Flushing, bufVars, postVars
  <2>1. CASE \E t \in Threads, s \in Spans : ReceiveSpan(t, s)
    BY <2>1 DEF ReceiveSpan
  <2>2. CASE \E t \in Threads : ThreadStep(t)
    <3> PICK t \in Threads : ThreadStep(t)
      BY <2>2
    <3>1. CASE ReceiveAccepted(t)
      BY <3>1 DEF ReceiveAccepted, WriteSpan
    <3>2. CASE ThreadStep(t) /\ ~ReceiveAccepted(t)
      BY <3>2, Zenon DEF ThreadStep, ReceiveRefused, ReceiveBackOff, WakeFromBackOff,
                  ReceiveDropRead, ReceiveDropWrite
    <3> QED BY <3>1, <3>2, Zenon
  <2>3. CASE Close \/ CloseJoined \/ TimeElapses \/ PostDies
    BY <2>3 DEF Close, CloseJoined, TimeElapses, PostDies
  <2>4. CASE FlushAttempt
    BY <2>4, Zenon DEF FlushAttempt, PackedSendFails, PackedReply, PackedReplyLost, RestReply,
                RestFails
  <2>5. CASE PostStep /\ ~FlushAttempt
    BY <2>5, Zenon DEF PostStep, PostAwait, PostExit, PostSwap, PostPrepare, PostLogDropped,
                PostResetDropped, PostClear
  <2> QED BY <2>1, <2>2, <2>3, <2>4, <2>5, Zenon DEF Next, PostStep
<1>2. IInv /\ [Next]_vars => [Stable]_vars
  BY <1>1
<1> QED BY <1>2, Invariance, PTL DEF Spec, FlushedBufferIsStable

-----------------------------------------------------------------------------
(* Refinement: with the REST buffer manager the receiver implements SpanDelivery. *)

\* receiveSpan() decides on one held span, or changes nothing SpanDelivery sees.
LEMMA ThreadStepDelivers ==
  ASSUME IInv, NEW t \in Threads, ThreadStep(t)
  PROVE  Delivery!Next \/ UNCHANGED <<fate, ingested>>
<1> DEFINE s == cur[t]
<1>1. CASE ReceiveRefused(t) \/ ReceiveAccepted(t) \/ ReceiveDropWrite(t)
  <2>1. s \in Spans /\ fate[s] = "held" /\ UNCHANGED ingested
    BY <1>1, Zenon DEF IInv, HeldSpans, ReceiveRefused, ReceiveAccepted, ReceiveDropWrite
  <2>2. PICK f \in {"refused", "dropped", "buffered"} : fate' = [fate EXCEPT ![s] = f]
    BY <1>1 DEF ReceiveRefused, ReceiveAccepted, ReceiveDropWrite, Return
  <2>3. Delivery!Becomes({s}, f)
    BY <2>1, <2>2, Zenon DEF Delivery!Becomes, IInv, TypeOK
  <2> QED BY <2>1, <2>3, Zenon DEF Delivery!Next, Delivery!Decide
<1>2. CASE ReceiveBackOff(t) \/ WakeFromBackOff(t) \/ ReceiveDropRead(t)
  BY <1>2 DEF ReceiveBackOff, WakeFromBackOff, ReceiveDropRead
<1> QED BY <1>1, <1>2 DEF ThreadStep

\* A REST flush attempt sends the spans of the flushed buffer, all of them in the
\* receiver's charge.
LEMMA RestAttemptDelivers ==
  ASSUME IInv, RestReply \/ RestFails
  PROVE  Delivery!Next \/ UNCHANGED <<fate, ingested>>
<1> DEFINE S == content[flushingBuf]
<1>1. S \in SUBSET Delivery!InCharge
  BY DEF IInv, TypeOK, BuffersApart, Flushing, AcceptedSpansAreBuffered,
         Delivery!InCharge, RestReply, RestFails
<1>2. PICK T \in SUBSET S : ingested' = ingested \cup T
  BY Zenon DEF RestReply, RestFails
<1>3. \/ UNCHANGED fate
      \/ S \subseteq ingested' /\ Delivery!Becomes(S, "flushed")
      \/ Delivery!Becomes(S, "gaveUp")
  <2>1. CASE RestReply
    BY <2>1 DEF RestReply, FlushReturns, Settle, Delivery!Becomes
  <2>2. CASE RestFails
    BY <2>2 DEF RestFails, FlushThrows, Settle, Delivery!Becomes
  <2> QED BY <2>1, <2>2
<1>4. Delivery!Send(S, T)
  BY <1>2, <1>3 DEF Delivery!Send
<1> QED BY <1>1, <1>2, <1>4 DEF Delivery!Next

\* The receiver, sending over REST, implements the at-least-once promise of
\* SpanDelivery.
THEOREM RestRefinesDelivery == ASSUME ~Packed PROVE Spec => ImplementsDelivery
<1>1. Init => Delivery!Init
  BY DEF Init, Delivery!Init
<1>2. ASSUME IInv, [Next]_vars PROVE [Delivery!Next]_<<fate, ingested>>
  <2>1. CASE \E t \in Threads, s \in Spans : ReceiveSpan(t, s)
    <3> PICK t \in Threads, s \in Spans : ReceiveSpan(t, s)
      BY <2>1
    <3>1. Delivery!Offer(s)
      BY <1>2, Zenon DEF ReceiveSpan, Delivery!Offer, Delivery!Becomes, IInv, TypeOK
    <3> QED BY <3>1 DEF Delivery!Next
  <2>2. CASE \E t \in Threads : ThreadStep(t)
    BY <1>2, <2>2, ThreadStepDelivers
  <2>3. CASE PostDies
    BY <2>3, <1>2 DEF PostDies, IInv, TypeOK
  <2>4. CASE FlushAttempt
    BY <1>2, <2>4, RestAttemptDelivers DEF FlushAttempt, PackedSendFails, PackedReply,
       PackedReplyLost
  <2>5. CASE (PostStep /\ ~FlushAttempt) \/ Close \/ CloseJoined \/ TimeElapses
    BY <2>5, Zenon DEF PostStep, PostAwait, PostExit, PostSwap, PostPrepare, PostLogDropped,
                PostResetDropped, PostClear, Close, CloseJoined, TimeElapses
  <2>6. CASE UNCHANGED vars
    BY <2>6 DEF vars
  <2> QED BY <1>2, <2>1, <2>2, <2>3, <2>4, <2>5, <2>6 DEF Next, PostStep
<1> QED BY <1>1, <1>2, Invariance, PTL DEF Spec, ImplementsDelivery, Delivery!Spec
=============================================================================
