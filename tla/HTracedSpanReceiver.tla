------------------------ MODULE HTracedSpanReceiver ------------------------
(***************************************************************************)
(* The Java client that ships spans to htraced                             *)
(* (htrace-htraced/src/main/java/org/apache/htrace/impl).                  *)
(*                                                                         *)
(* Application threads call receiveSpan(), which serialises the span into  *)
(* the active one of two buffers under a lock.  The PostSpansThread swaps  *)
(* the buffers under the lock, and then, without the lock, sends the other *)
(* one to the daemon, retries, gives up or succeeds, and clears it.        *)
(* close() sets the shutdown flag and joins the thread.                    *)
(*                                                                         *)
(* A critical section that neither blocks nor touches state the flushing   *)
(* thread reads without the lock is one action.  The one that does touch   *)
(* such state (unbufferableSpans++) is two, with the lock held in between. *)
(* A span is a model value; what is in a buffer is the set of spans        *)
(* written to it, its position in bytes and its span count.  Times are     *)
(* abstracted to the comparisons the code makes with them.                 *)
(*                                                                         *)
(* The error path of doFlush for a failed prepare() is left out: a body is *)
(* at most Conf.BUFFER_SIZE_MAX (32 MB) plus a prequel of under 2 KB, and  *)
(* prepare() only fails above PackedBuffer.MAX_HRPC_BODY_LENGTH (64 MB).   *)
(***************************************************************************)
EXTENDS Integers, FiniteSets

CONSTANTS
  Threads,           \* application threads that end spans
  Spans,             \* the spans they end, each once
  Len,               \* Len[s]: serialised length of span s in bytes
  BufferSize,        \* conf.bufferSize
  TriggerSize,       \* conf.triggerSize
  FlushRetryDelays,  \* conf.flushRetryDelays.length: retries of a flush
  Packed,            \* conf.packed: PackedBufferManager or RestBufferManager
  MayDie,            \* may an Error or an interrupt end the PostSpansThread?
  NoThread, NoSpan   \* model values: nobody holds the lock; no span at hand

\* A serialised span is at least "{}", Conf bounds the trigger fraction to [0.1, 1].
ASSUME ReceiverAssumption ==
  /\ IsFiniteSet(Spans) /\ NoSpan \notin Spans
  /\ NoThread \notin Threads
  /\ BufferSize \in Nat /\ TriggerSize \in Nat
  /\ Len \in [Spans -> Nat] /\ \A s \in Spans : Len[s] >= 2
  /\ FlushRetryDelays \in Nat
  /\ Packed \in BOOLEAN /\ MayDie \in BOOLEAN

VARIABLES
  \* HTracedSpanReceiver
  lock, shutdown, activeBuf, flushingBuf, unbufferableSpans,
  \* the two BufferManagers: bytes used, spans in them, numSpans, prequel bytes
  position, content, numSpans, prequel,
  \* application threads: where in receiveSpan, the span, deltaMs > spanDropTimeoutMs,
  \* and the value read by unbufferableSpans++
  pc, cur, late, seen,
  \* PostSpansThread: where in run/doFlush, tries so far,
  \* timeSinceLastClearedMs > maxFlushIntervalMs
  ppc, flushTries, overdue,
  \* close(): not called, joining the thread, returned
  closer,
  \* the dropped spans log: the sum of the "Dropped N spans" it reports, and of
  \* the numbers whose message could not be appended
  reported, unreported,
  \* htraced: spans it has ingested; what became of every span
  ingested, fate

bufVars    == <<position, content, numSpans, prequel>>
threadVars == <<pc, cur, late, seen>>
postVars   == <<ppc, flushTries, overdue>>
logVars    == <<reported, unreported>>
vars == <<lock, shutdown, activeBuf, flushingBuf, unbufferableSpans, bufVars,
          threadVars, postVars, closer, logVars, ingested, fate>>

Bufs == {0, 1}

\* "new": not ended yet; "held": inside receiveSpan; "buffered": accepted;
\* "flushed": flush() returned normally; "gaveUp": every try failed;
\* "refused": shutting down; "dropped": no room in time; "lost": wiped when the
\* PostSpansThread died.
Fates == {"new", "held", "buffered", "flushed", "gaveUp", "refused", "dropped", "lost"}

\* The prequel of a request as the next flush() will send it.
Prequels == {"intact", "padded", "overwritten"}

Init ==
  /\ lock = NoThread /\ shutdown = FALSE
  /\ activeBuf = 0 /\ flushingBuf = -1 /\ unbufferableSpans = 0
  /\ position = [b \in Bufs |-> 0] /\ content = [b \in Bufs |-> {}]
  /\ numSpans = [b \in Bufs |-> 0] /\ prequel = [b \in Bufs |-> "intact"]
  /\ pc = [t \in Threads |-> "idle"] /\ cur = [t \in Threads |-> NoSpan]
  /\ late = [t \in Threads |-> FALSE] /\ seen = [t \in Threads |-> 0]
  /\ ppc = "top" /\ flushTries = 0 /\ overdue \in BOOLEAN
  /\ closer = "open" /\ reported = 0 /\ unreported = 0
  /\ ingested = {} /\ fate = [s \in Spans |-> "new"]

-----------------------------------------------------------------------------
(* BufferManager *)

ContentLength(b) ==
  IF Packed THEN position[b] ELSE IF position[b] > 0 THEN position[b] - 1 ELSE 0

\* Mutants of HasRoom and Clear below.
HasRoomOffByOne(b, s) == position[b] + Len[s] <= BufferSize + 1

HasRoom(b, s) == position[b] + Len[s] <= BufferSize

WriteSpan(b, s) ==
  /\ position' = [position EXCEPT ![b] = @ + Len[s]]
  /\ content' = [content EXCEPT ![b] = @ \cup {s}]
  /\ numSpans' = [numSpans EXCEPT ![b] = @ + 1]
  /\ UNCHANGED prequel

\* Mutant: the count of spans is not reset.
ClearKeepingNumSpans(b) ==
  /\ position' = [position EXCEPT ![b] = 0]
  /\ content' = [content EXCEPT ![b] = {}]
  /\ prequel' = [prequel EXCEPT ![b] = "intact"]
  /\ UNCHANGED numSpans

\* clear(): prepare() will write a fresh prequel the next time round.
Clear(b) ==
  /\ position' = [position EXCEPT ![b] = 0]
  /\ content' = [content EXCEPT ![b] = {}]
  /\ numSpans' = [numSpans EXCEPT ![b] = 0]
  /\ prequel' = [prequel EXCEPT ![b] = "intact"]

\* PackedBufferManager.close() clears; RestBufferManager.close() only stops its client.
CloseBufs ==
  IF Packed
  THEN /\ position' = [b \in Bufs |-> 0] /\ content' = [b \in Bufs |-> {}]
       /\ numSpans' = [b \in Bufs |-> 0] /\ prequel' = [b \in Bufs |-> "intact"]
  ELSE UNCHANGED bufVars

-----------------------------------------------------------------------------
(* receiveSpan(): "try" is the top of its loop, "sleep" the back-off at its end,
   "drop" the middle of unbufferableSpans++. *)

ReceiveSpan(t, s) ==
  /\ pc[t] = "idle" /\ fate[s] = "new"
  /\ pc' = [pc EXCEPT ![t] = "try"] /\ cur' = [cur EXCEPT ![t] = s]
  /\ fate' = [fate EXCEPT ![s] = "held"]
  /\ UNCHANGED <<lock, shutdown, activeBuf, flushingBuf, unbufferableSpans, bufVars,
                 late, seen, postVars, closer, logVars, ingested>>

\* Thread t leaves receiveSpan, and what became of its span is f.
Return(t, f) ==
  /\ pc' = [pc EXCEPT ![t] = "idle"] /\ cur' = [cur EXCEPT ![t] = NoSpan]
  /\ late' = [late EXCEPT ![t] = FALSE]
  /\ fate' = [fate EXCEPT ![cur[t]] = f]

ReceiveRefused(t) ==
  /\ pc[t] = "try" /\ lock = NoThread
  /\ shutdown
  /\ Return(t, "refused")
  /\ UNCHANGED <<lock, shutdown, activeBuf, flushingBuf, unbufferableSpans, bufVars,
                 seen, postVars, closer, logVars, ingested>>

ReceiveAccepted(t) ==
  /\ pc[t] = "try" /\ lock = NoThread
  /\ ~shutdown /\ HasRoom(activeBuf, cur[t])
  /\ WriteSpan(activeBuf, cur[t])
  /\ Return(t, "buffered")
  /\ UNCHANGED <<lock, shutdown, activeBuf, flushingBuf, unbufferableSpans,
                 seen, postVars, closer, logVars, ingested>>

ReceiveBackOff(t) ==
  /\ pc[t] = "try" /\ lock = NoThread
  /\ ~shutdown /\ ~HasRoom(activeBuf, cur[t]) /\ ~late[t]
  /\ pc' = [pc EXCEPT ![t] = "sleep"]
  /\ UNCHANGED <<lock, shutdown, activeBuf, flushingBuf, unbufferableSpans, bufVars,
                 cur, late, seen, postVars, closer, logVars, ingested, fate>>

\* Mutant: startTimeMs is set anew on every try.
WakeRestartingDeadline(t) ==
  /\ pc[t] = "sleep"
  /\ pc' = [pc EXCEPT ![t] = "try"]
  /\ UNCHANGED <<lock, shutdown, activeBuf, flushingBuf, unbufferableSpans, bufVars,
                 cur, late, seen, postVars, closer, logVars, ingested, fate>>

\* The sleep ends; deltaMs may have passed spanDropTimeoutMs meanwhile.
WakeFromBackOff(t) ==
  /\ pc[t] = "sleep"
  /\ pc' = [pc EXCEPT ![t] = "try"]
  /\ \E l \in BOOLEAN : late' = [late EXCEPT ![t] = @ \/ l]
  /\ UNCHANGED <<lock, shutdown, activeBuf, flushingBuf, unbufferableSpans, bufVars,
                 cur, seen, postVars, closer, logVars, ingested, fate>>

\* unbufferableSpans++ is under the lock, but doFlush writes the field without it:
\* the read and the write are two steps.
ReceiveDropRead(t) ==
  /\ pc[t] = "try" /\ lock = NoThread
  /\ ~shutdown /\ ~HasRoom(activeBuf, cur[t]) /\ late[t]
  /\ lock' = t /\ seen' = [seen EXCEPT ![t] = unbufferableSpans]
  /\ pc' = [pc EXCEPT ![t] = "drop"]
  /\ UNCHANGED <<shutdown, activeBuf, flushingBuf, unbufferableSpans, bufVars,
                 cur, late, postVars, closer, logVars, ingested, fate>>

ReceiveDropWrite(t) ==
  /\ pc[t] = "drop"
  /\ unbufferableSpans' = seen[t] + 1 /\ lock' = NoThread
  /\ seen' = [seen EXCEPT ![t] = 0]
  /\ Return(t, "dropped")
  /\ UNCHANGED <<shutdown, activeBuf, flushingBuf, bufVars, postVars, closer, logVars,
                 ingested>>

-----------------------------------------------------------------------------
(* close() *)

Close ==
  /\ closer = "open" /\ lock = NoThread
  /\ shutdown' = TRUE /\ closer' = "joining"
  /\ UNCHANGED <<lock, activeBuf, flushingBuf, unbufferableSpans, bufVars, threadVars,
                 postVars, logVars, ingested, fate>>

\* thread.join(MAX_CLOSING_WAIT_MS) returns when the thread has ended or time is up.
CloseJoined ==
  /\ closer = "joining"
  /\ closer' = IF ppc \in {"done", "dead"} THEN "joined" ELSE "timedOut"
  /\ UNCHANGED <<lock, shutdown, activeBuf, flushingBuf, unbufferableSpans, bufVars,
                 threadVars, postVars, logVars, ingested, fate>>

-----------------------------------------------------------------------------
(* PostSpansThread.run(): "top" and "await" are the two places where it (re)takes
   the lock.  The wait is timed, so it may end at any time, signalled or not. *)

\* The clock passes lastBufferClearedTimeMs + maxFlushIntervalMs.
TimeElapses ==
  /\ ~overdue /\ overdue' = TRUE
  /\ UNCHANGED <<lock, shutdown, activeBuf, flushingBuf, unbufferableSpans, bufVars,
                 threadVars, ppc, flushTries, closer, logVars, ingested, fate>>

\* Mutants: the flush interval, or the shutdown flag, is not looked at.
ShouldWaitUntilTriggered == ~shutdown /\ ContentLength(activeBuf) < TriggerSize

\* Mutant: a shutdown does not end the wait.
ShouldWaitIgnoringShutdown ==
  \/ ContentLength(activeBuf) = 0
  \/ ContentLength(activeBuf) < TriggerSize /\ ~overdue

ShouldWaitForCond ==
  /\ ~shutdown
  /\ \/ ContentLength(activeBuf) = 0
     \/ ContentLength(activeBuf) < TriggerSize /\ ~overdue

\* An empty buffer restarts the flush interval (lastBufferClearedTimeMs = now).
PostAwait ==
  /\ ppc \in {"top", "await"} /\ lock = NoThread
  /\ ShouldWaitForCond
  /\ ppc' = "await" /\ flushingBuf' = -1
  /\ overdue' = IF ContentLength(activeBuf) = 0 THEN FALSE ELSE overdue
  /\ UNCHANGED <<lock, shutdown, activeBuf, unbufferableSpans, bufVars, threadVars,
                 flushTries, closer, logVars, ingested, fate>>

\* Mutant: exit as soon as shutdown is seen.
PostExitAtOnce ==
  /\ ppc \in {"top", "await"} /\ lock = NoThread
  /\ ~ShouldWaitForCond /\ shutdown
  /\ ppc' = "done" /\ flushingBuf' = -1
  /\ CloseBufs
  /\ UNCHANGED <<lock, shutdown, activeBuf, unbufferableSpans, threadVars, flushTries,
                 overdue, closer, logVars, ingested, fate>>

PostExit ==
  /\ ppc \in {"top", "await"} /\ lock = NoThread
  /\ ~ShouldWaitForCond /\ shutdown /\ ContentLength(activeBuf) = 0
  /\ ppc' = "done" /\ flushingBuf' = -1
  /\ CloseBufs
  /\ UNCHANGED <<lock, shutdown, activeBuf, unbufferableSpans, threadVars, flushTries,
                 overdue, closer, logVars, ingested, fate>>

\* Mutant: receiveSpan() keeps filling the buffer that is being sent.
PostSwapNothing ==
  /\ ppc \in {"top", "await"} /\ lock = NoThread
  /\ ~ShouldWaitForCond /\ ~(shutdown /\ ContentLength(activeBuf) = 0)
  /\ flushingBuf' = activeBuf
  /\ ppc' = "prepare"
  /\ UNCHANGED <<lock, shutdown, activeBuf, unbufferableSpans, bufVars, threadVars,
                 flushTries, overdue, closer, logVars, ingested, fate>>

PostSwap ==
  /\ ppc \in {"top", "await"} /\ lock = NoThread
  /\ ~ShouldWaitForCond /\ ~(shutdown /\ ContentLength(activeBuf) = 0)
  /\ flushingBuf' = activeBuf /\ activeBuf' = 1 - activeBuf
  /\ ppc' = "prepare"
  /\ UNCHANGED <<lock, shutdown, unbufferableSpans, bufVars, threadVars, flushTries,
                 overdue, closer, logVars, ingested, fate>>

-----------------------------------------------------------------------------
(* doFlush(), all of it without the lock *)

PostPrepare ==
  /\ ppc = "prepare"
  /\ flushTries' = 0
  /\ ppc' = IF unbufferableSpans > 0 THEN "logDropped" ELSE "flush"
  /\ UNCHANGED <<lock, shutdown, activeBuf, flushingBuf, unbufferableSpans, bufVars,
                 threadVars, overdue, closer, logVars, ingested, fate>>

\* appendToDroppedSpansLog("Dropped N spans ..."): the log may be full or unwritable.
PostLogDropped ==
  /\ ppc = "logDropped"
  /\ \/ reported' = reported + unbufferableSpans /\ UNCHANGED unreported
     \/ unreported' = unreported + unbufferableSpans /\ UNCHANGED reported
  /\ ppc' = "resetDropped"
  /\ UNCHANGED <<lock, shutdown, activeBuf, flushingBuf, unbufferableSpans, bufVars,
                 threadVars, flushTries, overdue, closer, ingested, fate>>

PostResetDropped ==
  /\ ppc = "resetDropped"
  /\ unbufferableSpans' = 0
  /\ ppc' = "flush"
  /\ UNCHANGED <<lock, shutdown, activeBuf, flushingBuf, bufVars, threadVars,
                 flushTries, overdue, closer, logVars, ingested, fate>>

\* Every span of the flushed buffer shares the fate f.
Settle(f) == fate' = [s \in Spans |-> IF s \in content[flushingBuf] THEN f ELSE fate[s]]

\* flush() returned normally.
FlushReturns ==
  /\ Settle("flushed") /\ ppc' = "clear"
  /\ UNCHANGED flushTries

\* flush() threw: sleep and try again, or append to the dropped spans log and give up.
FlushThrows ==
  \/ /\ flushTries >= FlushRetryDelays
     /\ Settle("gaveUp") /\ ppc' = "clear"
     /\ UNCHANGED flushTries
  \/ /\ flushTries < FlushRetryDelays
     /\ flushTries' = flushTries + 1
     /\ UNCHANGED <<ppc, fate>>

\* htraced's side of a WriteSpans request that arrived in full: ReadRequestBody
\* ignores a prequel it cannot decode (err is overwritten by SplitHostPort), so
\* NumSpans stays 0 and the request succeeds; a span it cannot decode is an error.
ReadRequestBody(q, S) ==
  CASE q = "intact"      -> [spans |-> S,  error |-> FALSE]
    [] q = "padded"      -> [spans |-> {}, error |-> TRUE]
    [] q = "overwritten" -> [spans |-> {}, error |-> FALSE]

Request == ReadRequestBody(prequel[flushingBuf], content[flushingBuf])

\* doConnect or doSend failed: htraced does not have the whole body and ignores it.
PackedSendFails ==
  /\ Packed /\ ppc = "flush"
  /\ FlushThrows
  /\ UNCHANGED <<lock, shutdown, activeBuf, flushingBuf, unbufferableSpans, bufVars,
                 threadVars, overdue, closer, logVars, ingested>>

\* readAndValidateResponseFrame has a whole response, which it read into the
\* prequel's buffer.
PackedReply ==
  /\ Packed /\ ppc = "flush"
  /\ ingested' = ingested \cup Request.spans
  /\ prequel' = [prequel EXCEPT ![flushingBuf] = "overwritten"]
  /\ IF Request.error THEN FlushThrows ELSE FlushReturns
  /\ UNCHANGED <<lock, shutdown, activeBuf, flushingBuf, unbufferableSpans, position,
                 content, numSpans, threadVars, overdue, closer, logVars>>

\* The request arrived, no response did in time; htraced may have stopped half-way.
\* The prequel's limit is now that of a response frame.
PackedReplyLost ==
  /\ Packed /\ ppc = "flush"
  /\ \E S \in SUBSET Request.spans : ingested' = ingested \cup S
  /\ prequel' = [prequel EXCEPT ![flushingBuf] = IF @ = "intact" THEN "padded" ELSE @]
  /\ FlushThrows
  /\ UNCHANGED <<lock, shutdown, activeBuf, flushingBuf, unbufferableSpans, position,
                 content, numSpans, threadVars, overdue, closer, logVars>>

\* Mutant: the status of the response is not looked at.
RestReplyAnyStatus ==
  /\ ~Packed /\ ppc = "flush"
  /\ \E S \in SUBSET content[flushingBuf] : ingested' = ingested \cup S
  /\ FlushReturns
  /\ UNCHANGED <<lock, shutdown, activeBuf, flushingBuf, unbufferableSpans, bufVars,
                 threadVars, overdue, closer, logVars>>

\* POST /writeSpans: status 200, every span ingested ...
RestReply ==
  /\ ~Packed /\ ppc = "flush"
  /\ ingested' = ingested \cup content[flushingBuf]
  /\ FlushReturns
  /\ UNCHANGED <<lock, shutdown, activeBuf, flushingBuf, unbufferableSpans, bufVars,
                 threadVars, overdue, closer, logVars>>

\* ... or an error or a timeout, and htraced ingested what it had decoded by then.
RestFails ==
  /\ ~Packed /\ ppc = "flush"
  /\ \E S \in SUBSET content[flushingBuf] : ingested' = ingested \cup S
  /\ FlushThrows
  /\ UNCHANGED <<lock, shutdown, activeBuf, flushingBuf, unbufferableSpans, bufVars,
                 threadVars, overdue, closer, logVars>>

PostClear ==
  /\ ppc = "clear"
  /\ Clear(flushingBuf)
  /\ overdue' = FALSE /\ ppc' = "top"
  /\ UNCHANGED <<lock, shutdown, activeBuf, flushingBuf, unbufferableSpans, threadVars,
                 flushTries, closer, logVars, ingested, fate>>

\* An Error from flush() or an interrupt of a wait: run() closes the buffers and ends,
\* and leaves shutdown as it is.
PostDies ==
  /\ MayDie /\ ppc \in {"top", "await", "flush"}
  /\ ppc' = "dead"
  /\ CloseBufs
  /\ fate' = [s \in Spans |->
                IF Packed /\ s \in content[0] \cup content[1] THEN "lost" ELSE fate[s]]
  /\ UNCHANGED <<lock, shutdown, activeBuf, flushingBuf, unbufferableSpans, threadVars,
                 flushTries, overdue, closer, logVars, ingested>>

-----------------------------------------------------------------------------
ThreadStep(t) ==
  \/ ReceiveRefused(t) \/ ReceiveAccepted(t) \/ ReceiveBackOff(t)
  \/ WakeFromBackOff(t) \/ ReceiveDropRead(t) \/ ReceiveDropWrite(t)

FlushAttempt ==
  PackedSendFails \/ PackedReply \/ PackedReplyLost \/ RestReply \/ RestFails

PostStep ==
  \/ PostAwait \/ PostExit \/ PostSwap
  \/ PostPrepare \/ PostLogDropped \/ PostResetDropped
  \/ FlushAttempt \/ PostClear

Next ==
  \/ \E t \in Threads, s \in Spans : ReceiveSpan(t, s)
  \/ \E t \in Threads : ThreadStep(t)
  \/ Close \/ CloseJoined
  \/ TimeElapses \/ PostStep \/ PostDies

Spec == Init /\ [][Next]_vars

\* Running threads are scheduled, the clock advances (a waiting thread's deadline and
\* the flush interval pass), every timed wait ends.  Nobody has to end spans or close.
Fairness ==
  /\ \A t \in Threads : WF_vars(ThreadStep(t))
  /\ \A t \in Threads : SF_vars(WakeFromBackOff(t) /\ late'[t])
  /\ WF_vars(TimeElapses) /\ WF_vars(PostStep) /\ WF_vars(CloseJoined)

FairSpec == Spec /\ Fairness

-----------------------------------------------------------------------------
(* Properties *)

TypeOK ==
  /\ lock \in Threads \cup {NoThread} /\ shutdown \in BOOLEAN
  /\ activeBuf \in Bufs /\ flushingBuf \in Bufs \cup {-1}
  /\ unbufferableSpans \in Nat
  /\ position \in [Bufs -> 0..BufferSize] /\ content \in [Bufs -> SUBSET Spans]
  /\ numSpans \in [Bufs -> Nat] /\ prequel \in [Bufs -> Prequels]
  /\ pc \in [Threads -> {"idle", "try", "sleep", "drop"}]
  /\ cur \in [Threads -> Spans \cup {NoSpan}]
  /\ late \in [Threads -> BOOLEAN] /\ seen \in [Threads -> Nat]
  /\ ppc \in {"top", "await", "prepare", "logDropped", "resetDropped", "flush",
              "clear", "done", "dead"}
  /\ flushTries \in 0..FlushRetryDelays /\ overdue \in BOOLEAN
  /\ closer \in {"open", "joining", "joined", "timedOut"}
  /\ reported \in Nat /\ unreported \in Nat
  /\ ingested \subseteq Spans /\ fate \in [Spans -> Fates]

\* The PostSpansThread is between the swap and the end of its flush.
Flushing == ppc \in {"prepare", "logDropped", "resetDropped", "flush"}

\* The buffer being sent is read without the lock.  From the swap until it is
\* cleared, nobody writes to it: what a retry sends is what the first try sent,
\* and what is cleared afterwards is what was sent.
FlushedBufferIsStable ==
  [][Flushing /\ ppc' # "dead" =>
       /\ flushingBuf' = flushingBuf
       /\ content'[flushingBuf] = content[flushingBuf]
       /\ numSpans'[flushingBuf] = numSpans[flushingBuf]]_vars

\* A span receiveSpan() accepted is in exactly one of the two buffers until a flush
\* has succeeded or been given up on; a buffer holds nothing else.
AcceptedSpansAreBuffered ==
  /\ content[0] \cap content[1] = {}
  /\ \A s \in Spans :
       fate[s] = "buffered" <=>
         \E b \in Bufs : s \in content[b] /\ ~(ppc = "clear" /\ b = flushingBuf)

\* The NumSpans a request announces is the number of spans in its body: htraced
\* decodes exactly that many.
NumSpansMatchesContent == \A b \in Bufs : numSpans[b] = Cardinality(content[b])

\* When flush() returns normally every span of the buffer has been ingested by
\* htraced: the receiver is about to clear the only copy.
FlushedSpansAreIngested == \A s \in Spans : fate[s] = "flushed" => s \in ingested

\* The PostSpansThread ends normally only once no accepted span is left in either
\* buffer, also those accepted while the last flush was under way; and none is
\* accepted afterwards.
GracefulExitDrains == ppc = "done" => \A s \in Spans : fate[s] # "buffered"

\* Every accepted span is eventually sent or given up on, close() or not: no buffer
\* is forgotten.
AcceptedSpansAreSettled == \A s \in Spans : fate[s] = "buffered" ~> fate[s] # "buffered"

\* receiveSpan() returns, also while both buffers are full and htraced is down.
ReceiveSpanReturns == \A t \in Threads : pc[t] # "idle" ~> pc[t] = "idle"

\* After close() the PostSpansThread ends, whatever htraced answers.
CloseEndsThread == shutdown ~> ppc \in {"done", "dead"}

Delivery == INSTANCE SpanDelivery WITH Spans <- Spans, fate <- fate, ingested <- ingested

\* The receiver implements SpanDelivery: every span's fate is decided once, the spans
\* of a buffer share theirs, none is given up or reported sent that was not accepted,
\* and "flushed" means htraced has it.
ImplementsDelivery == Delivery!Spec
=============================================================================
