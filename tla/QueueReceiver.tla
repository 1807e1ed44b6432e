--------------------------- MODULE QueueReceiver ----------------------------
(***************************************************************************)
(* The Zipkin, Flume and HBase receivers.  receiveSpan() adds to a bounded *)
(* queue; workers take batches from it and send them.  After an error the  *)
(* batch goes back to the queue, and stays in the worker's list as well.   *)
(* The receivers differ in how a worker connects:                          *)
(*   - zipkin: the workers share a transport, and a worker that cannot     *)
(*     open it ends with an exception;                                     *)
(*   - flume: without a client the sending fails;                          *)
(*   - hbase: so it does, but flushing an idle worker's missing mutator    *)
(*     ends the worker.  A batch is done when the mutator has buffered it. *)
(***************************************************************************)
EXTENDS Integers, Sequences, Functions, FiniteSets

CONSTANTS QrSpans,        \* the spans received, each once
          QrWorkers,
          QrCapacity,     \* of the queue
          QrBatchSize,    \* spans to take in one round
          QrMaxErrors,    \* MAX_ERRORS
          QrFailures      \* bound: times the collector goes down

ASSUME QueueAssumption == QrCapacity \in Nat /\ QrBatchSize \in Nat /\ QrMaxErrors \in Nat

VARIABLES kind,           \* "zipkin", "flume" or "hbase"
          spanQueue, running,
          worker,         \* by worker: pc, dequeuedSpans, errorCount
          client,         \* by worker: it has an open transport, client or mutator
          up,             \* the collector answers
          failures,
          receiving,      \* spans whose threads saw that the receiver is running
          accepted, refusedSpans, sent  \* ghosts: the spans of each fate

queueVars == <<kind, spanQueue, running, worker, client, up, failures, receiving, accepted, refusedSpans, sent>>

QueueInit ==
  /\ kind \in {"zipkin", "flume", "hbase"}
  /\ spanQueue = <<>> /\ running = TRUE
  /\ worker = [w \in QrWorkers |-> [pc |-> "loop", dequeuedSpans |-> <<>>, errorCount |-> 0]]
  /\ client = [w \in QrWorkers |-> FALSE]
  /\ up = TRUE /\ failures = 0
  /\ receiving = {} /\ accepted = {} /\ refusedSpans = {} /\ sent = {}

\* receiveSpan(): close() may come, and the workers may end, between the check and the add.
checkRunning(s) ==
  /\ s \notin receiving \cup accepted \cup refusedSpans
  /\ IF running THEN receiving' = receiving \cup {s} /\ UNCHANGED refusedSpans
     ELSE refusedSpans' = refusedSpans \cup {s} /\ UNCHANGED receiving
  /\ UNCHANGED <<kind, spanQueue, running, worker, client, up, failures, accepted, sent>>
enqueue(s) ==
  /\ s \in receiving /\ receiving' = receiving \ {s}
  /\ IF Len(spanQueue) < QrCapacity
     THEN spanQueue' = Append(spanQueue, s) /\ accepted' = accepted \cup {s} /\ UNCHANGED refusedSpans
     ELSE refusedSpans' = refusedSpans \cup {s} /\ UNCHANGED <<spanQueue, accepted>>
  /\ UNCHANGED <<kind, running, worker, client, up, failures, sent>>

\* close(); how long it waits for the workers is not modelled.
closeQueue ==
  /\ running /\ running' = FALSE
  /\ UNCHANGED <<kind, spanQueue, worker, client, up, failures, receiving, accepted, refusedSpans, sent>>

Become(w, r) == worker' = [worker EXCEPT ![w] = r]
SetClient(w, c) == client' = [x \in QrWorkers |-> IF x = w \/ kind = "zipkin" THEN c ELSE client[x]]

\* Mutant: the loop ends with the receiver, whatever is left in the queue.
endLoopAtOnce(w) ==
  /\ worker[w].pc = "loop" /\ ~running
  /\ Become(w, [worker[w] EXCEPT !.pc = "ended"])
  /\ SetClient(w, FALSE)
  /\ UNCHANGED <<kind, spanQueue, running, up, failures, receiving, accepted, refusedSpans, sent>>

\* The condition of the loop; then closeClient().
endLoop(w) ==
  /\ worker[w].pc = "loop" /\ ~running /\ spanQueue = <<>>
  /\ Become(w, [worker[w] EXCEPT !.pc = "ended"])
  /\ SetClient(w, FALSE)
  /\ UNCHANGED <<kind, spanQueue, running, up, failures, receiving, accepted, refusedSpans, sent>>

\* poll() takes a span, unless none comes within a second, and drainTo() more, of which another
\* worker may have been faster to take some.
poll(w) ==
  /\ worker[w].pc = "loop" /\ (running \/ spanQueue # <<>>)
  /\ \E n \in 0 .. QrBatchSize :
       /\ n <= Len(spanQueue) /\ (n = 0 => spanQueue = <<>>)
       /\ Become(w, [worker[w] EXCEPT !.pc = "connect", !.dequeuedSpans = @ \o SubSeq(spanQueue, 1, n)])
       /\ spanQueue' = SubSeq(spanQueue, n + 1, Len(spanQueue))
  /\ UNCHANGED <<kind, running, client, up, failures, receiving, accepted, refusedSpans, sent>>

Idle(w) == worker[w].dequeuedSpans = <<>>

\* A worker keeps its connection or gets a new one, if the collector is up; HBase's client may
\* not notice that it is down.  An idle Zipkin worker does not try.
connect(w) ==
  /\ worker[w].pc = "connect"
  /\ \E connected \in BOOLEAN :
       /\ connected => client[w] \/ up \/ kind = "hbase"
       /\ ~connected => ~up \/ (kind = "zipkin" /\ Idle(w))
       /\ kind = "zipkin" /\ (client[w] \/ Idle(w)) => connected = client[w]
       /\ SetClient(w, connected)
       /\ LET dies == ~connected /\ IF kind = "zipkin" THEN ~Idle(w) ELSE kind = "hbase" /\ Idle(w)
          IN  Become(w, [worker[w] EXCEPT !.pc = IF dies THEN "died" ELSE IF Idle(w) THEN "loop" ELSE "send"])
  /\ UNCHANGED <<kind, spanQueue, running, up, failures, receiving, accepted, refusedSpans, sent>>

sendSpans(w) ==
  /\ worker[w].pc = "send" /\ up /\ client[w]
  /\ sent' = sent \cup Range(worker[w].dequeuedSpans)
  /\ Become(w, [pc |-> "loop", dequeuedSpans |-> <<>>, errorCount |-> 0])
  /\ UNCHANGED <<kind, spanQueue, running, client, up, failures, receiving, accepted, refusedSpans>>

\* What addAll() can put back of a batch.
PutBack(batch) == LET all == spanQueue \o batch
                  IN  IF Len(all) > QrCapacity THEN SubSeq(all, 1, QrCapacity) ELSE all

\* Errors in a row; there is no difference between those at and above the limit.
NextError(w) == IF worker[w].errorCount < QrMaxErrors THEN worker[w].errorCount + 1 ELSE QrMaxErrors

\* Mutant: the list is cleared after an error.
forgetBatch(w) ==
  /\ worker[w].pc = "send" /\ ~(up /\ client[w])
  /\ LET errors == NextError(w)
     IN  /\ spanQueue' = IF errors < QrMaxErrors THEN PutBack(worker[w].dequeuedSpans) ELSE spanQueue
         /\ Become(w, [pc |-> "loop", dequeuedSpans |-> <<>>, errorCount |-> errors])
  /\ SetClient(w, FALSE)
  /\ UNCHANGED <<kind, running, up, failures, receiving, accepted, refusedSpans, sent>>

\* handleException: below the limit, the batch is put back.  The list is not cleared.
sendFails(w) ==
  /\ worker[w].pc = "send" /\ ~(up /\ client[w])
  /\ LET errors == NextError(w)
     IN  /\ spanQueue' = IF errors < QrMaxErrors THEN PutBack(worker[w].dequeuedSpans) ELSE spanQueue
         /\ Become(w, [worker[w] EXCEPT !.pc = "loop", !.errorCount = errors])
  /\ SetClient(w, FALSE)
  /\ UNCHANGED <<kind, running, up, failures, receiving, accepted, refusedSpans, sent>>

collectorFails ==
  /\ up /\ failures < QrFailures
  /\ up' = FALSE /\ failures' = failures + 1
  /\ UNCHANGED <<kind, spanQueue, running, worker, client, receiving, accepted, refusedSpans, sent>>
collectorRecovers ==
  /\ ~up /\ up' = TRUE
  /\ UNCHANGED <<kind, spanQueue, running, worker, client, failures, receiving, accepted, refusedSpans, sent>>

WorkerStep(w) == endLoop(w) \/ poll(w) \/ connect(w) \/ sendSpans(w) \/ sendFails(w)

QueueNext ==
  \/ \E s \in QrSpans : checkRunning(s) \/ enqueue(s)
  \/ closeQueue \/ collectorFails \/ collectorRecovers
  \/ \E w \in QrWorkers : WorkerStep(w)
-----------------------------------------------------------------------------
Alive(w) == worker[w].pc \notin {"ended", "died"}
InList(s) == \E w \in QrWorkers : s \in Range(worker[w].dequeuedSpans)

\* A span that was accepted is in the queue, in a worker's list, or sent: an error, a full queue
\* or the limit of errors alone never loses it.
AcceptedSpansAreHeld ==
  /\ \A s \in accepted : s \in Range(spanQueue) \/ InList(s) \/ s \in sent
  /\ Len(spanQueue) <= QrCapacity

\* A worker that is alive when close() is called ends, if the collector is up from some time on.
ClosedWorkersEnd == \A w \in QrWorkers : <>[]up => (~running ~> ~Alive(w))

\* If the collector is up from some time on, a span that was accepted while a worker was alive is
\* sent, unless a worker ended with it in its list, or the last worker died.
AcceptedSpansAreSent ==
  \A s \in QrSpans :
    <>[]up => (s \in accepted /\ (\E w \in QrWorkers : Alive(w)) ~>
                 \/ s \in sent
                 \/ \E w \in QrWorkers : ~Alive(w) /\ s \in Range(worker[w].dequeuedSpans)
                 \/ (\A w \in QrWorkers : ~Alive(w)) /\ \E w \in QrWorkers : worker[w].pc = "died")
=============================================================================
