-------------------------- MODULE MCNative_proofs ---------------------------
(***************************************************************************)
(* Proofs about the receivers that send from threads of their own, the     *)
(* queue of the Zipkin, Flume and HBase receivers (QueueReceiver) and the  *)
(* buffers of the C receiver (CReceiver), and what follows for the         *)
(* specification in which they run side by side with the search of the     *)
(* span store (Query_proofs). For each of them an inductive invariant,     *)
(* which holds at first, which every step preserves, and which implies     *)
(* what the run checks.                                                    *)
(***************************************************************************)
EXTENDS MCNative, Query_proofs, FiniteSetTheorems

\* A leaf that names no prover is tried with Zenon and then with the SMT solver.
USE ZenonT(20), SMTT(30)
-----------------------------------------------------------------------------
(* QueueReceiver *)

WorkerTypes == [pc : {"loop", "connect", "send", "ended", "died"}, dequeuedSpans : Seq(QrSpans),
               errorCount : Nat]

QueueInv ==
  /\ spanQueue \in Seq(QrSpans) /\ worker \in [QrWorkers -> WorkerTypes]
  /\ accepted \subseteq QrSpans
  /\ AcceptedSpansAreHeld

\* The queue and the lists of a worker and the queue only change hands.
LEMMA Held ==
  ASSUME QueueInv, NEW w \in QrWorkers, NEW q \in Seq(QrSpans), NEW r \in WorkerTypes,
         Become(w, r), spanQueue' = q, Len(q) <= QrCapacity, accepted' = accepted, sent' = sent,
         \A s \in QrSpans : s \in Range(spanQueue) \/ s \in Range(worker[w].dequeuedSpans)
                              => s \in Range(q) \/ s \in Range(r.dequeuedSpans)
  PROVE  QueueInv'
<1>1. /\ worker' \in [QrWorkers -> WorkerTypes]
      /\ worker'[w] = r
      /\ \A v \in QrWorkers \ {w} : worker'[v] = worker[v]
  BY DEF QueueInv, Become
<1>2. ASSUME NEW s \in accepted
      PROVE  s \in Range(q) \/ (\E v \in QrWorkers : s \in Range(worker'[v].dequeuedSpans))
             \/ s \in sent
  <2>1. s \in QrSpans /\ (s \in Range(spanQueue) \/ InList(s) \/ s \in sent)
    BY DEF QueueInv, AcceptedSpansAreHeld
  <2>2. CASE s \in Range(spanQueue) \/ s \in Range(worker[w].dequeuedSpans)
    BY <1>1, <2>1, <2>2
  <2>3. CASE \E v \in QrWorkers \ {w} : s \in Range(worker[v].dequeuedSpans)
    BY <1>1, <2>3
  <2> QED
    BY <2>1, <2>2, <2>3 DEF InList
<1> QED
  BY <1>1, <1>2 DEF QueueInv, AcceptedSpansAreHeld, InList

\* What put-back leaves in a queue that was not over its capacity: all that was in it.
LEMMA PutBackKeeps ==
  ASSUME NEW batch \in Seq(QrSpans), QueueInv
  PROVE  /\ PutBack(batch) \in Seq(QrSpans) /\ Len(PutBack(batch)) <= QrCapacity
         /\ \A s : s \in Range(spanQueue) => s \in Range(PutBack(batch))
<1> DEFINE all == spanQueue \o batch
<1>1. /\ all \in Seq(QrSpans) /\ Len(all) = Len(spanQueue) + Len(batch)
      /\ Len(spanQueue) \in Nat /\ Len(batch) \in Nat /\ Len(spanQueue) <= QrCapacity
      /\ spanQueue \in Seq(QrSpans)
  BY ConcatFacts, SeqFacts DEF QueueInv, AcceptedSpansAreHeld
<1>2. \A i \in 1..Len(spanQueue) : all[i] = spanQueue[i]
  BY <1>1, ConcatFacts, SMTT(30)
<1>3. QrCapacity \in Nat
  BY QueueAssumption
<1> HIDE DEF all
<1>4. CASE Len(all) > QrCapacity
  <2>1. QrCapacity \in 0..Len(all)
    BY <1>1, <1>3, <1>4
  <2>2. SubSeq(all, 1, QrCapacity) \in Seq(QrSpans) /\ Len(SubSeq(all, 1, QrCapacity)) = QrCapacity
    BY <1>1, <2>1, Split
  <2>3. \A i \in 1..QrCapacity : SubSeq(all, 1, QrCapacity)[i] = all[i]
    <3>1. \A i \in 1..QrCapacity : all[i] \in QrSpans
      BY <1>1, <2>1, SeqIsFcn, SMTT(30)
    <3>2. \A i \in 1..(QrCapacity - 1 + 1) : SubSeq(all, 1, QrCapacity)[i] = all[1 + i - 1]
      BY <3>1, <1>3, SubSeqFacts, SMTT(30)
    <3> QED
      BY <3>2, <1>3
  <2>4. \A i \in 1..Len(spanQueue) : i \in 1..QrCapacity
        /\ SubSeq(all, 1, QrCapacity)[i] = spanQueue[i]
    BY <1>1, <1>2, <1>3, <2>3
  <2>5. PutBack(batch) = SubSeq(all, 1, QrCapacity)
    BY <1>4 DEF PutBack, all
  <2>6. \A s : s \in Range(spanQueue) => s \in Range(SubSeq(all, 1, QrCapacity))
    <3>1. \A s : s \in Range(spanQueue) <=> \E i \in 1..Len(spanQueue) : spanQueue[i] = s
      BY <1>1, RangeFacts
    <3>2. \A s : s \in Range(SubSeq(all, 1, QrCapacity)) <=> \E i \in 1..QrCapacity : SubSeq(all,
          1, QrCapacity)[i] = s
      BY <2>2, RangeFacts
    <3> QED
      BY <2>4, <3>1, <3>2
  <2> QED
    BY <1>3, <2>2, <2>5, <2>6
<1>5. CASE ~(Len(all) > QrCapacity)
  <2>1. PutBack(batch) = all
    BY <1>5 DEF PutBack, all
  <2>2. \A s : s \in Range(spanQueue) => s \in Range(all)
    BY <1>1, InConcat DEF all
  <2> QED
    BY <1>1, <1>3, <1>5, <2>1, <2>2
<1> QED
  BY <1>4, <1>5

\* The invariant holds at first.
LEMMA QueueInitInv == QueueInit => QueueInv
<1> SUFFICES ASSUME QueueInit PROVE QueueInv
  OBVIOUS
<1>1. spanQueue \in Seq(QrSpans) /\ Len(spanQueue) = 0
  BY EmptySeqFacts DEF QueueInit
<1>2. QrCapacity \in Nat
  BY QueueAssumption
<1>3. worker \in [QrWorkers -> WorkerTypes]
  BY EmptySeqFacts DEF QueueInit, WorkerTypes
<1> QED
  BY <1>1, <1>2, <1>3 DEF QueueInv, AcceptedSpansAreHeld, QueueInit

\* A span that is accepted is in the queue; one that is refused is not accepted.
LEMMA EnqueueKeeps ==
  ASSUME QueueInv, NEW s \in QrSpans, enqueue(s)
  PROVE  QueueInv'
<1>1. CASE Len(spanQueue) < QrCapacity
  <2>1. spanQueue' = Append(spanQueue, s) /\ accepted' = accepted \cup {s} /\ worker' = worker
        /\ sent' = sent
    BY <1>1 DEF enqueue
  <2>2. spanQueue' \in Seq(QrSpans) /\ Len(spanQueue') = Len(spanQueue) + 1
        /\ Len(spanQueue) \in Nat
    BY <2>1, AppendFacts, SeqFacts DEF QueueInv
  <2>3. \A x : x \in Range(spanQueue') <=> x \in Range(spanQueue) \/ s = x
    BY <2>1, InAppend DEF QueueInv
  <2>4. Len(spanQueue') <= QrCapacity
    BY <1>1, <2>2, QueueAssumption
  <2> QED
    BY <2>1, <2>2, <2>3, <2>4 DEF QueueInv, AcceptedSpansAreHeld, InList
<1>2. CASE ~(Len(spanQueue) < QrCapacity)
  <2>1. UNCHANGED <<spanQueue, accepted, worker, sent>>
    BY <1>2 DEF enqueue
  <2> QED
    BY <2>1 DEF QueueInv, AcceptedSpansAreHeld, InList
<1> QED
  BY <1>1, <1>2

\* poll takes spans from the queue into the list of its worker.
LEMMA PollKeeps ==
  ASSUME QueueInv, NEW w \in QrWorkers, poll(w)
  PROVE  QueueInv'
<1> DEFINE list == worker[w].dequeuedSpans
<1>1. PICK n \in 0..QrBatchSize :
        /\ n <= Len(spanQueue)
        /\ Become(w, [worker[w] EXCEPT !.pc = "connect", !.dequeuedSpans = @ \o SubSeq(spanQueue,
           1, n)])
        /\ spanQueue' = SubSeq(spanQueue, n + 1, Len(spanQueue))
  BY DEF poll
<1>2. accepted' = accepted /\ sent' = sent
  BY DEF poll
<1>3. /\ spanQueue \in Seq(QrSpans) /\ Len(spanQueue) \in Nat /\ Len(spanQueue) <= QrCapacity
      /\ worker[w] \in WorkerTypes /\ list \in Seq(QrSpans)
  BY SeqFacts DEF QueueInv, AcceptedSpansAreHeld, WorkerTypes
<1>4. n \in 0..Len(spanQueue)
  BY <1>1, <1>3, QueueAssumption, SMTT(30)
<1> DEFINE polled == SubSeq(spanQueue, 1, n)
           left == SubSeq(spanQueue, n + 1, Len(spanQueue))
           r == [worker[w] EXCEPT !.pc = "connect", !.dequeuedSpans = @ \o polled]
<1>5. /\ polled \in Seq(QrSpans) /\ left \in Seq(QrSpans) /\ spanQueue = polled \o left
      /\ Len(left) = Len(spanQueue) - n
  BY <1>3, <1>4, Split
<1> HIDE DEF polled, left, list
<1>6. list \o polled \in Seq(QrSpans)
  BY <1>3, <1>5, ConcatFacts
<1>7. r \in WorkerTypes /\ r.dequeuedSpans = list \o polled
  BY <1>3, <1>6 DEF WorkerTypes, list
<1>8. \A s : s \in Range(spanQueue) <=> s \in Range(polled) \/ s \in Range(left)
  BY <1>5, InConcat
<1>9. \A s : s \in Range(list \o polled) <=> s \in Range(list) \/ s \in Range(polled)
  BY <1>3, <1>5, InConcat
<1>10. Len(left) <= QrCapacity
  BY <1>3, <1>4, <1>5, QueueAssumption
<1>11. Become(w, r) /\ spanQueue' = left
  BY <1>1 DEF polled, left
<1> HIDE DEF r
<1>12. \A s \in QrSpans : s \in Range(spanQueue) \/ s \in Range(worker[w].dequeuedSpans)
                           => s \in Range(left) \/ s \in Range(r.dequeuedSpans)
  BY <1>7, <1>8, <1>9 DEF list
<1>13. r \in WorkerTypes
  BY <1>7
<1> QED
  BY <1>2, <1>5, <1>10, <1>11, <1>12, <1>13, Held

\* The steps of a worker that leave the queue and its list alone.
LEMMA MovesKeep ==
  ASSUME QueueInv, NEW w \in QrWorkers, NEW p \in {"loop", "connect", "send", "ended", "died"},
         Become(w, [worker[w] EXCEPT !.pc = p]), UNCHANGED <<spanQueue, accepted, sent>>
  PROVE  QueueInv'
<1>1. worker[w] \in WorkerTypes /\ spanQueue \in Seq(QrSpans) /\ Len(spanQueue) <= QrCapacity
  BY DEF QueueInv, AcceptedSpansAreHeld
<1>2. /\ [worker[w] EXCEPT !.pc = p] \in WorkerTypes
      /\ [worker[w] EXCEPT !.pc = p].dequeuedSpans = worker[w].dequeuedSpans
  BY <1>1 DEF WorkerTypes
<1> QED
  BY <1>1, <1>2, Held

\* The spans of the list that were sent are in sent.
LEMMA SendSpansKeeps ==
  ASSUME QueueInv, NEW w \in QrWorkers, sendSpans(w)
  PROVE  QueueInv'
<1> DEFINE r == [pc |-> "loop", dequeuedSpans |-> <<>>, errorCount |-> 0]
           list == worker[w].dequeuedSpans
<1>1. /\ sent' = sent \cup Range(list) /\ worker' = [worker EXCEPT ![w] = r]
      /\ UNCHANGED <<spanQueue, accepted>>
  BY DEF sendSpans, Become
<1>2. r \in WorkerTypes
  BY EmptySeqFacts DEF WorkerTypes
<1>3. list \in Seq(QrSpans)
  BY DEF QueueInv, WorkerTypes
<1>4. \A s : s \in Range(list) => s \in Range(list)
  BY <1>3, SeqIsFcn DEF Range
<1>5. worker' \in [QrWorkers -> WorkerTypes] /\ \A v \in QrWorkers \ {w} : worker'[v] = worker[v]
  BY <1>1, <1>2 DEF QueueInv
<1>6. ASSUME NEW s \in accepted
      PROVE  s \in Range(spanQueue)
             \/ (\E v \in QrWorkers : s \in Range(worker'[v].dequeuedSpans)) \/ s \in sent'
  <2>1. s \in Range(spanQueue) \/ InList(s) \/ s \in sent
    BY DEF QueueInv, AcceptedSpansAreHeld
  <2>2. CASE \E v \in QrWorkers \ {w} : s \in Range(worker[v].dequeuedSpans)
    BY <1>5, <2>2
  <2>3. CASE s \in Range(list)
    BY <1>1, <1>4, <2>3
  <2> QED
    BY <1>1, <2>1, <2>2, <2>3 DEF InList
<1> QED
  BY <1>1, <1>5, <1>6 DEF QueueInv, AcceptedSpansAreHeld, InList

\* After an error a worker keeps its list, or puts it back as far as the queue has room, or gives
\* it up when the receiver says so.
LEMMA SendFailsKeeps ==
  ASSUME QueueInv, NEW w \in QrWorkers, sendFails(w)
  PROVE  QueueInv'
<1> DEFINE errors == NextError(w)
           list == worker[w].dequeuedSpans
           r == [worker[w] EXCEPT !.pc = "loop", !.errorCount = errors]
<1>1. /\ spanQueue' = IF errors < QrMaxErrors THEN PutBack(list) ELSE spanQueue
      /\ Become(w, r) /\ accepted' = accepted /\ sent' = sent
  BY DEF sendFails
<1>2. worker[w] \in WorkerTypes /\ spanQueue \in Seq(QrSpans) /\ Len(spanQueue) <= QrCapacity
  BY DEF QueueInv, AcceptedSpansAreHeld
<1>3. list \in Seq(QrSpans) /\ errors \in Nat
  BY <1>2, QueueAssumption, SMTT(30) DEF WorkerTypes, NextError
<1> HIDE DEF errors
<1>4. r \in WorkerTypes /\ r.dequeuedSpans = list
  BY <1>2, <1>3 DEF WorkerTypes
<1> HIDE DEF list, r
<1>5. /\ spanQueue' \in Seq(QrSpans) /\ Len(spanQueue') <= QrCapacity
      /\ \A s : s \in Range(spanQueue) => s \in Range(spanQueue')
  BY <1>1, <1>2, <1>3, PutBackKeeps
<1> DEFINE q == spanQueue'
<1>6. q \in Seq(QrSpans) /\ Len(q) <= QrCapacity /\ \A s : s \in Range(spanQueue) => s \in Range(q)
  BY <1>5
<1>7. spanQueue' = q
  OBVIOUS
<1> HIDE DEF q
<1> QED
  BY <1>1, <1>4, <1>6, <1>7, Held DEF list

\* What accepted spans rest on is kept by every step of the receivers.
LEMMA QueueStep == QueueInv /\ [QueueNext]_queueVars => QueueInv'
<1> SUFFICES ASSUME QueueInv, [QueueNext]_queueVars PROVE QueueInv'
  OBVIOUS
<1>1. ASSUME NEW s \in QrSpans, checkRunning(s) PROVE QueueInv'
  BY <1>1 DEF checkRunning, QueueInv, AcceptedSpansAreHeld, InList
<1>2. ASSUME NEW s \in QrSpans, enqueue(s) PROVE QueueInv'
  BY <1>2, EnqueueKeeps
<1>3. CASE closeQueue \/ collectorFails \/ collectorRecovers \/ UNCHANGED queueVars
  BY <1>3 DEF closeQueue, collectorFails, collectorRecovers, queueVars, QueueInv,
     AcceptedSpansAreHeld, InList
<1>4. ASSUME NEW w \in QrWorkers, WorkerStep(w) PROVE QueueInv'
  <2>1. CASE endLoop(w)
    BY <2>1, MovesKeep DEF endLoop
  <2>2. CASE poll(w)
    BY <2>2, PollKeeps
  <2>3. CASE connect(w)
    <3>1. PICK p \in {"loop", "send", "died"} : Become(w, [worker[w] EXCEPT !.pc = p])
      BY <2>3 DEF connect
    <3> QED
      BY <2>3, <3>1, MovesKeep DEF connect
  <2>4. CASE sendSpans(w)
    BY <2>4, SendSpansKeeps
  <2>5. CASE sendFails(w)
    BY <2>5, SendFailsKeeps
  <2> QED
    BY <1>4, <2>1, <2>2, <2>3, <2>4, <2>5 DEF WorkerStep
<1> QED
  BY <1>1, <1>2, <1>3, <1>4 DEF QueueNext
-----------------------------------------------------------------------------
(* CReceiver *)

In(b, s) == s \in Range(sbuf[b].spans)

CrTypes ==
  /\ sbuf \in [{0, 1} -> [off : Int, spans : Seq(CrSpans)]] /\ active \in {0, 1}
  /\ adder \in [CrSpans -> [pc : {"new", "added", "continue", "overran"}, buf : {0, 1}]]
  /\ xmit \in [pc : {"check", "again", "wait", "send", "lock", "done"}, now : Int, tries : Int,
     buf : {0, 1}]
  /\ lastSend \in Int /\ flusher \in [pc : {"none", "check", "wait", "done"}, now : Int]
  /\ msec \in Nat /\ addedAt \in [CrSpans -> Int] /\ handled \subseteq CrSpans

\* Where spans are.
PlacesRight ==
  /\ \A b \in {0, 1} : sbuf[b].off = CrLen * Len(sbuf[b].spans) /\ sbuf[b].off <= CrBufLen
  /\ \A s \in CrSpans : WasAdded(s) => (s \in handled <=> ~In(0, s) /\ ~In(1, s)) /\ ~(In(0, s)
     /\ In(1, s))
  /\ \A s \in CrSpans : ~WasAdded(s) => s \notin handled /\ ~In(0, s) /\ ~In(1, s)
  /\ IF xmit.pc = "send" THEN xmit.buf # active ELSE sbuf[Other(active)].off = 0

\* What the times the transmitter and a flush have say of the spans that were added earlier.
TimesRight ==
  /\ xmit.now <= msec /\ lastSend <= msec /\ flusher.now <= msec
  /\ \A s \in CrSpans : WasAdded(s) =>
       /\ 0 <= addedAt[s] /\ addedAt[s] <= msec
       /\ addedAt[s] < xmit.now => s \in handled \/ (xmit.pc = "send" /\ In(xmit.buf, s))
       /\ addedAt[s] < lastSend => s \in handled
       /\ flusher.pc = "done" /\ addedAt[s] < flusher.now => s \in handled

\* The places of the transmitter other than the one where it sends, and what ends a flush's wait.
BetweenSends == {"check", "again", "wait", "done"}
FlusherWakes == flusher.pc = "wait" /\ flusher' = [flusher EXCEPT !.pc = "check"]

CReceiverInv == CrTypes /\ (NeverFull => PlacesRight /\ TimesRight)

\* A buffer without bytes has no spans.
LEMMA EmptyBuffer ==
  ASSUME CrTypes, PlacesRight, NEW b \in {0, 1}, sbuf[b].off = 0, NEW s
  PROVE  ~In(b, s)
<1>1. sbuf[b].spans \in Seq(CrSpans) /\ CrLen * Len(sbuf[b].spans) = 0
  BY DEF CrTypes, PlacesRight
<1>2. Len(sbuf[b].spans) \in Nat
  BY <1>1, SeqFacts
<1>3. Len(sbuf[b].spans) = 0
  BY <1>1, <1>2, CReceiverAssumption
<1> QED
  BY <1>3 DEF In, Range

\* The invariant holds at first.
LEMMA CReceiverInitInv == CReceiverInit => CReceiverInv
<1> SUFFICES ASSUME CReceiverInit PROVE CReceiverInv
  OBVIOUS
<1>1. CrTypes
  BY EmptySeqFacts DEF CReceiverInit, CrTypes
<1>2. \A b \in {0, 1} : sbuf[b].off = 0 /\ Len(sbuf[b].spans) = 0
  BY DEF CReceiverInit
<1>3. \A b \in {0, 1} : \A s : ~In(b, s)
  BY <1>2 DEF In, Range
<1>4. CrLen * 0 = 0
  BY CReceiverAssumption
<1>5. PlacesRight
  BY <1>2, <1>3, <1>4, CReceiverAssumption, SMTT(30) DEF CReceiverInit, PlacesRight, WasAdded, Other
<1>6. TimesRight
  BY DEF CReceiverInit, TimesRight, WasAdded
<1> QED
  BY <1>1, <1>5, <1>6 DEF CReceiverInv

\* A thread that has met a full buffer has met it for ever.
LEMMA FullForEver ==
  ASSUME CrTypes, [CReceiverNext]_crVars, NeverFull'
  PROVE  NeverFull
<1>1. ASSUME NEW s \in CrSpans, adder[s].pc \in {"continue", "overran"}
      PROVE  adder'[s].pc \in {"continue", "overran"}
  <2>1. ASSUME NEW r \in CrSpans, AddSpan(r) PROVE adder'[s].pc \in {"continue", "overran"}
    <3>1. r # s
      BY <1>1, <2>1 DEF AddSpan
    <3> QED
      BY <1>1, <2>1, <3>1 DEF AddSpan, CrTypes
  <2>2. ASSUME NEW r \in CrSpans, AddSpanUnlocked(r) PROVE adder'[s].pc \in {"continue", "overran"}
    BY <1>1, <2>2 DEF AddSpanUnlocked, CrTypes
  <2>3. CASE adder' = adder
    BY <1>1, <2>3
  <2> QED
    BY <2>1, <2>2, <2>3
       DEF CReceiverNext, crVars, ClockTicks, XmitStep, XmitCheck, XmitAgain, XmitWakes, XmitDone,
         XmitEnds,
           XmitFails, FlushBegins, FlushChecks, Free
<1> QED
  BY <1>1 DEF NeverFull

\* The span that is written is added to the buffer it is written to.
LEMMA WriteToBuffer ==
  ASSUME CrTypes, NEW b \in {0, 1}, NEW s \in CrSpans, WriteTo(b, s)
  PROVE  /\ sbuf' \in [{0, 1} -> [off : Int, spans : Seq(CrSpans)]] /\ addedAt' \in [CrSpans -> Int]
         /\ sbuf'[Other(b)] = sbuf[Other(b)]
         /\ sbuf'[b].off = sbuf[b].off + CrLen /\ Len(sbuf'[b].spans) = Len(sbuf[b].spans) + 1
         /\ \A r : r \in Range(sbuf'[b].spans) <=> In(b, r) \/ s = r
         /\ addedAt'[s] = msec /\ \A r \in CrSpans \ {s} : addedAt'[r] = addedAt[r]
<1> DEFINE new == Append(sbuf[b].spans, s)
<1>1. sbuf[b].spans \in Seq(CrSpans) /\ sbuf[b].off \in Int /\ CrLen \in Int
  BY CReceiverAssumption, SMTT(30) DEF CrTypes
<1>2. new \in Seq(CrSpans) /\ Len(new) = Len(sbuf[b].spans) + 1
  BY <1>1, AppendFacts, ZenonT(60)
<1>3. \A r : r \in Range(new) <=> In(b, r) \/ s = r
  BY <1>1, InAppend DEF In
<1>4. sbuf' = [sbuf EXCEPT ![b].off = @ + CrLen, ![b].spans = new]
  BY DEF WriteTo
<1> HIDE DEF new
<1>5. /\ sbuf'[b] = [off |-> sbuf[b].off + CrLen, spans |-> new]
      /\ sbuf'[Other(b)] = sbuf[Other(b)]
      /\ sbuf' \in [{0, 1} -> [off : Int, spans : Seq(CrSpans)]]
  <2>1. sbuf \in [{0, 1} -> [off : Int, spans : Seq(CrSpans)]]
    BY DEF CrTypes
  <2>2. sbuf'[Other(b)] = sbuf[Other(b)] /\ Other(b) \in {0, 1} /\ Other(b) # b
    BY <1>4, <2>1 DEF Other
  <2>3. sbuf'[b] = [off |-> sbuf[b].off + CrLen, spans |-> new]
    BY <1>4, <2>1
  <2>4. sbuf'[b] \in [off : Int, spans : Seq(CrSpans)]
    BY <1>1, <1>2, <2>3, SMTT(30)
  <2>5. sbuf' = [c \in {0, 1} |-> sbuf'[c]]
    BY <1>4, <2>1
  <2>6. \A c \in {0, 1} : sbuf'[c] \in [off : Int, spans : Seq(CrSpans)]
    BY <2>1, <2>2, <2>4, SMTT(30) DEF Other
  <2> QED
    BY <2>2, <2>3, <2>5, <2>6
<1>6. sbuf'[b].off = sbuf[b].off + CrLen /\ sbuf'[b].spans = new
  BY <1>5, SMTT(30)
<1>7. addedAt' \in [CrSpans -> Int] /\ addedAt'[s] = msec
      /\ \A r \in CrSpans \ {s} : addedAt'[r] = addedAt[r]
  BY SMTT(30) DEF CrTypes, WriteTo
<1> QED
  BY <1>2, <1>3, <1>5, <1>6, <1>7

\* An addition, finished or not, leaves the types right.
LEMMA AddSpanTypes ==
  ASSUME CrTypes, NEW s \in CrSpans, AddSpan(s) \/ AddSpanUnlocked(s)
  PROVE  CrTypes'
<1>1. adder' \in [CrSpans -> [pc : {"new", "added", "continue", "overran"}, buf : {0, 1}]]
  <2>1. adder \in [CrSpans -> [pc : {"new", "added", "continue", "overran"}, buf : {0, 1}]]
        /\ active \in {0, 1}
    BY DEF CrTypes
  <2>2. \/ \E p \in {"added", "overran"} : adder' = [adder EXCEPT ![s].pc = p]
        \/ adder' = [adder EXCEPT ![s] = [pc |-> "continue", buf |-> active]]
    BY DEF AddSpan, AddSpanUnlocked
  <2> QED
    BY <2>1, <2>2, SMTT(30)
<1>2. sbuf' \in [{0, 1} -> [off : Int, spans : Seq(CrSpans)]] /\ addedAt' \in [CrSpans -> Int]
  <2>1. CASE \E b \in {0, 1} : WriteTo(b, s)
    BY <2>1, WriteToBuffer
  <2>2. CASE UNCHANGED <<sbuf, addedAt>>
    BY <2>2 DEF CrTypes
  <2> QED
    BY <2>1, <2>2, ZenonT(30) DEF AddSpan, AddSpanUnlocked, CrTypes
<1> QED
  BY <1>1, <1>2 DEF AddSpan, AddSpanUnlocked, CrTypes

\* A span is added to the active buffer, behind a lock.
LEMMA AddSpanKeeps ==
  ASSUME CReceiverInv, NEW s \in CrSpans, AddSpan(s)
  PROVE  CReceiverInv'
<1>1. CrTypes /\ CrTypes'
  BY AddSpanTypes DEF CReceiverInv
<1>2. CASE ~HasSpace(active)
  <2>1. adder'[s].pc = "continue"
    BY <1>1, <1>2, SMTT(30) DEF AddSpan, CrTypes
  <2>2. ~NeverFull'
    BY <2>1 DEF NeverFull
  <2> QED
    BY <1>1, <2>2 DEF CReceiverInv
<1>3. CASE ~NeverFull
  <2>1. [CReceiverNext]_crVars
    BY DEF CReceiverNext
  <2>2. ~NeverFull'
    BY <1>1, <1>3, <2>1, FullForEver
  <2> QED
    BY <1>1, <2>2 DEF CReceiverInv
<1>4. CASE HasSpace(active) /\ NeverFull
  <2>1. PlacesRight /\ TimesRight
    BY <1>4 DEF CReceiverInv
  <2>2. /\ active \in {0, 1} /\ WriteTo(active, s) /\ adder' = [adder EXCEPT ![s].pc = "added"]
           /\ adder[s].pc = "new"
        /\ UNCHANGED <<active, xmit, lastSend, shutdown, flusher, msec, handled>>
    BY <1>1, <1>4 DEF AddSpan, CrTypes
  <2>3. WasAdded(s)' /\ ~WasAdded(s) /\ \A r \in CrSpans \ {s} : WasAdded(r)' <=> WasAdded(r)
    BY <1>1, <2>2, ZenonT(60) DEF WasAdded, CrTypes
  <2>4. /\ sbuf'[Other(active)] = sbuf[Other(active)]
        /\ sbuf'[active].off = sbuf[active].off + CrLen
           /\ Len(sbuf'[active].spans) = Len(sbuf[active].spans) + 1
        /\ \A r : r \in Range(sbuf'[active].spans) <=> In(active, r) \/ s = r
        /\ addedAt'[s] = msec /\ \A r \in CrSpans \ {s} : addedAt'[r] = addedAt[r]
    BY <1>1, <2>2, WriteToBuffer
  <2>5. \A b \in {0, 1} : \A r : In(b, r)' <=> In(b, r) \/ (b = active /\ s = r)
    BY <2>2, <2>4, SMTT(30) DEF In, Other
  <2>6. PlacesRight'
    <3>1. ASSUME NEW b \in {0, 1} PROVE (sbuf[b].off = CrLen * Len(sbuf[b].spans)
                 /\ sbuf[b].off <= CrBufLen)'
      <4>1. CASE b = active
        <5>1. sbuf[b].off = CrLen * Len(sbuf[b].spans) /\ Len(sbuf[b].spans) \in Nat
              /\ sbuf[b].off <= CrBufLen
          BY <1>1, <2>1, SeqFacts DEF PlacesRight, CrTypes
        <5>2. sbuf[b].off + CrLen = CrLen * (Len(sbuf[b].spans) + 1)
          BY <5>1, CReceiverAssumption
        <5>3. sbuf[b].off + CrLen <= CrBufLen
          <6>1. ~(sbuf[b].off > CrBufLen)
            BY <5>1, CReceiverAssumption
          <6> QED
            BY <1>4, <4>1, <6>1 DEF HasSpace
        <5> QED
          BY <2>4, <4>1, <5>2, <5>3
      <4>2. CASE b = Other(active)
        BY <2>1, <2>4, <4>2 DEF PlacesRight
      <4> QED
        BY <2>2, <4>1, <4>2 DEF Other
    <3>2. ASSUME NEW r \in CrSpans
          PROVE /\ WasAdded(r)' => (r \in handled <=> ~In(0, r)' /\ ~In(1, r)') /\ ~(In(0, r)'
                   /\ In(1, r)')
                /\ ~WasAdded(r)' => r \notin handled /\ ~In(0, r)' /\ ~In(1, r)'
      <4>1. CASE r = s
        BY <2>1, <2>2, <2>3, <2>5, <4>1, SMTT(30) DEF PlacesRight, Other
      <4>2. CASE r # s
        BY <2>1, <2>2, <2>3, <2>5, <4>2 DEF PlacesRight, Other
      <4> QED
        BY <4>1, <4>2
    <3>3. IF xmit.pc = "send" THEN xmit.buf # active ELSE sbuf'[Other(active)].off = 0
      BY <2>1, <2>4 DEF PlacesRight
    <3> QED
      BY <2>2, <3>1, <3>2, <3>3 DEF PlacesRight, Other
  <2>7. TimesRight'
    <3>1. xmit.now <= msec /\ lastSend <= msec /\ flusher.now <= msec
      BY <2>1 DEF TimesRight
    <3>2. xmit.now \in Int /\ lastSend \in Int /\ flusher.now \in Int /\ msec \in Nat
      BY <1>1 DEF CrTypes
    <3>3. \A r : In(xmit.buf, r) => In(xmit.buf, r)'
      <4>1. xmit.buf \in {0, 1} /\ xmit' = xmit
        BY <1>1, <2>2 DEF CrTypes
      <4>2. \A b \in {0, 1} : \A r : In(b, r) => r \in Range(sbuf'[b].spans)
        BY <2>5 DEF In
      <4> QED
        BY <4>1, <4>2 DEF In
    <3>4. ASSUME NEW r \in CrSpans, WasAdded(r)'
          PROVE /\ 0 <= addedAt'[r] /\ addedAt'[r] <= msec
                /\ addedAt'[r] < xmit.now => r \in handled \/ (xmit.pc = "send" /\ In(xmit.buf, r)')
                /\ addedAt'[r] < lastSend => r \in handled
                /\ flusher.pc = "done" /\ addedAt'[r] < flusher.now => r \in handled
      <4>1. CASE r = s
        BY <2>4, <3>1, <3>2, <4>1
      <4>2. CASE r # s
        BY <2>1, <2>3, <2>4, <3>3, <3>4, <4>2 DEF TimesRight
      <4> QED
        BY <4>1, <4>2
    <3> QED
      BY <2>2, <3>1, <3>3, <3>4 DEF TimesRight, In
  <2> QED
    BY <1>1, <2>6, <2>7 DEF CReceiverInv
<1> QED
  BY <1>2, <1>3, <1>4

\* When the buffer was sent its spans are handled, and it is empty.
LEMMA XmitDoneKeeps ==
  ASSUME CReceiverInv, XmitDone
  PROVE  CReceiverInv'
<1> DEFINE buf == xmit.buf
<1>1. /\ xmit.pc = "send" /\ handled' = handled \cup Range(sbuf[buf].spans)
      /\ sbuf' = [sbuf EXCEPT ![buf] = [off |-> 0, spans |-> <<>>]]
      /\ xmit' = [xmit EXCEPT !.pc = "lock"]
      /\ UNCHANGED <<active, adder, lastSend, shutdown, flusher, msec, addedAt>>
  BY DEF XmitDone
<1>2. CrTypes /\ buf \in {0, 1} /\ sbuf[buf].spans \in Seq(CrSpans)
  BY DEF CReceiverInv, CrTypes
<1>3. \A r : r \in Range(sbuf[buf].spans) <=> In(buf, r)
  BY <1>2, SeqIsFcn DEF Range, In, Range
<1>4. Range(sbuf[buf].spans) \subseteq CrSpans
  BY <1>2, SeqIsFcn, SMTT(30) DEF Range
<1>5. /\ sbuf'[buf].off = 0 /\ sbuf'[buf].spans = <<>> /\ sbuf'[Other(buf)] = sbuf[Other(buf)]
      /\ sbuf' \in [{0, 1} -> [off : Int, spans : Seq(CrSpans)]]
  BY <1>1, <1>2, EmptySeqFacts, SMTT(30) DEF CrTypes, Other
<1>6. xmit'.pc = "lock" /\ xmit'.now = xmit.now
      /\ xmit' \in [pc : {"check", "again", "wait", "send", "lock", "done"}, now : Int,
         tries : Int, buf : {0, 1}]
  BY <1>1, <1>2 DEF CrTypes
<1>7. CrTypes'
  BY <1>1, <1>2, <1>4, <1>5, <1>6 DEF CrTypes
<1>8. ASSUME NeverFull' PROVE PlacesRight' /\ TimesRight'
  <2>1. PlacesRight /\ TimesRight
    BY <1>1, <1>8 DEF NeverFull, CReceiverInv
  <2>2. \A r : WasAdded(r)' <=> WasAdded(r)
    BY <1>1 DEF WasAdded
  <2>3. \A b \in {0, 1} : \A r : In(b, r)' <=> b # buf /\ In(b, r)
    <3>1. \A r : r \notin Range(sbuf'[buf].spans)
      BY <1>5 DEF Range
    <3>2. \A b \in {0, 1} : b # buf => sbuf'[b] = sbuf[b]
      BY <1>2, <1>5, SMTT(30) DEF Other
    <3> QED
      BY <3>1, <3>2 DEF In
  <2>4. buf = Other(active) /\ active = Other(buf) /\ active \in {0, 1}
    BY <1>1, <1>2, <2>1, SMTT(30) DEF PlacesRight, CrTypes, Other
  <2>5. CrLen * 0 = 0 /\ 0 <= CrBufLen
    BY CReceiverAssumption
  <2>6. \A b \in {0, 1} : (sbuf[b].off = CrLen * Len(sbuf[b].spans) /\ sbuf[b].off <= CrBufLen)'
    <3>1. sbuf'[buf].off = CrLen * Len(sbuf'[buf].spans) /\ sbuf'[buf].off <= CrBufLen
      BY <1>5, <2>5
    <3>2. sbuf'[Other(buf)].off = CrLen * Len(sbuf'[Other(buf)].spans)
          /\ sbuf'[Other(buf)].off <= CrBufLen
      BY <1>2, <1>5, <2>1, SMTT(30) DEF PlacesRight, Other
    <3> QED
      BY <1>2, <3>1, <3>2 DEF Other
  <2>7. ASSUME NEW r \in CrSpans
        PROVE /\ WasAdded(r) => (r \in handled' <=> ~In(0, r)' /\ ~In(1, r)') /\ ~(In(0, r)'
                 /\ In(1, r)')
              /\ ~WasAdded(r) => r \notin handled' /\ ~In(0, r)' /\ ~In(1, r)'
    <3>1. r \in handled' <=> r \in handled \/ In(buf, r)
      BY <1>1, <1>3
    <3> QED
      BY <1>2, <2>1, <2>3, <3>1 DEF PlacesRight
  <2>8. PlacesRight'
    BY <1>1, <1>5, <1>6, <2>2, <2>4, <2>6, <2>7 DEF PlacesRight
  <2>9. TimesRight'
    <3>1. \A r : In(buf, r) => r \in handled'
      BY <1>1, <1>3
    <3>2. \A r \in handled : r \in handled'
      BY <1>1
    <3> QED
      BY <1>1, <1>6, <2>1, <2>2, <3>1, <3>2 DEF TimesRight
  <2> QED
    BY <2>8, <2>9
<1> QED
  BY <1>7, <1>8 DEF CReceiverInv

\* The transmitter takes the active buffer, with a time that is not later than the clock's, and
\* that is the time it had unless the other buffer is empty.
LEMMA FlipKeeps ==
  ASSUME CReceiverInv, xmit.pc \in {"check", "again"}, NEW now \in {msec, xmit.now}, Flip(now),
         UNCHANGED <<sbuf, adder, lastSend, shutdown, flusher, msec, addedAt, handled>>
  PROVE  CReceiverInv'
<1>1. CrTypes /\ active \in {0, 1} /\ now \in Int
  BY SMTT(30) DEF CReceiverInv, CrTypes
<1>2. /\ xmit' = [pc |-> "send", now |-> now, tries |-> 0, buf |-> active]
         /\ active' = Other(active)
      /\ xmit'.pc = "send" /\ xmit'.now = now /\ xmit'.buf = active
  BY DEF Flip
<1>3. CrTypes'
  BY <1>1, <1>2, SMTT(30) DEF CrTypes, Other
<1>4. ASSUME NeverFull' PROVE PlacesRight' /\ TimesRight'
  <2>1. PlacesRight /\ TimesRight
    BY <1>4 DEF NeverFull, CReceiverInv
  <2>2. \A r : (WasAdded(r)' <=> WasAdded(r)) /\ (In(0, r)' <=> In(0, r))
        /\ (In(1, r)' <=> In(1, r))
    BY DEF WasAdded, In
  <2>3. PlacesRight'
    <3>1. \A b \in {0, 1} : sbuf'[b].off = CrLen * Len(sbuf'[b].spans) /\ sbuf'[b].off <= CrBufLen
      BY <2>1 DEF PlacesRight
    <3>2. xmit'.buf # active'
      BY <1>1, <1>2 DEF Other
    <3>3. \A r \in CrSpans :
            /\ WasAdded(r)' => (r \in handled' <=> ~In(0, r)' /\ ~In(1, r)')
                               /\ ~(In(0, r)' /\ In(1, r)')
            /\ ~WasAdded(r)' => r \notin handled' /\ ~In(0, r)' /\ ~In(1, r)'
      BY <2>1, <2>2 DEF PlacesRight
    <3> QED
      BY <1>2, <3>1, <3>2, <3>3, ZenonT(30) DEF PlacesRight
  <2>4. \A r \in CrSpans : WasAdded(r) => r \in handled \/ In(active, r)
    <3>1. sbuf[Other(active)].off = 0
      BY <2>1 DEF PlacesRight
    <3>2. \A r : ~In(Other(active), r)
      BY <1>1, <2>1, <3>1, EmptyBuffer DEF Other
    <3> QED
      BY <1>1, <2>1, <3>2, SMTT(30) DEF PlacesRight, Other
  <2>5. \A r : In(active, r) <=> r \in Range(sbuf'[xmit'.buf].spans)
    BY <1>2 DEF In
  <2>6. now <= msec
    BY <1>1, <2>1, SMTT(30) DEF TimesRight, CrTypes
  <2>7. TimesRight'
    BY <1>2, <2>1, <2>2, <2>4, <2>5, <2>6 DEF TimesRight, In
  <2> QED
    BY <2>3, <2>7
<1> QED
  BY <1>3, <1>4 DEF CReceiverInv

\* The transmitter's steps between two transmissions.
LEMMA XmitMovesKeep ==
  ASSUME CReceiverInv, xmit.pc # "send", NEW p \in BetweenSends,
         xmit' = [xmit EXCEPT !.pc = p],
         UNCHANGED <<sbuf, active, adder, shutdown, msec, addedAt, handled>>,
         lastSend' = lastSend \/ lastSend' = xmit.now,
         flusher' = flusher \/ FlusherWakes
  PROVE  CReceiverInv'
<1>1. CrTypes
  BY DEF CReceiverInv
<1>2. xmit'.pc = p /\ xmit'.now = xmit.now /\ xmit'.buf = xmit.buf /\ flusher'.now = flusher.now
      /\ (flusher'.pc = "done" => flusher.pc = "done")
  BY <1>1 DEF CrTypes, FlusherWakes
<1>3. CrTypes'
  BY <1>1, ZenonT(30) DEF CrTypes, BetweenSends, FlusherWakes
<1>4. ASSUME NeverFull' PROVE PlacesRight' /\ TimesRight'
  <2>1. PlacesRight /\ TimesRight
    BY <1>4 DEF NeverFull, CReceiverInv
  <2>2. \A r : (WasAdded(r)' <=> WasAdded(r)) /\ (In(0, r)' <=> In(0, r))
        /\ (In(1, r)' <=> In(1, r))
    BY DEF WasAdded, In
  <2>3. PlacesRight'
    BY <1>2, <2>1, <2>2 DEF PlacesRight, Other, BetweenSends
  <2>4. TimesRight'
    BY <1>2, <2>1, <2>2 DEF TimesRight, BetweenSends
  <2> QED
    BY <2>3, <2>4
<1> QED
  BY <1>3, <1>4 DEF CReceiverInv

\* The steps of the clock, of flushing threads and of the thread that frees the receiver.
LEMMA FlushChecksKeeps ==
  ASSUME CReceiverInv, FlushChecks
  PROVE  CReceiverInv'
<1>1. CrTypes /\ LongAgo \in Int /\ LongAgo < 0
  BY CReceiverAssumption DEF CReceiverInv, LongAgo
<1>2. UNCHANGED <<sbuf, active, adder, xmit, shutdown, msec, addedAt, handled>>
  BY DEF FlushChecks
<1>3. CrTypes' /\ flusher'.now = flusher.now
  BY <1>1 DEF FlushChecks, CrTypes
<1>4. ASSUME NeverFull' PROVE PlacesRight' /\ TimesRight'
  <2>1. PlacesRight /\ TimesRight
    BY <1>2, <1>4 DEF NeverFull, CReceiverInv
  <2>2. \A r : (WasAdded(r)' <=> WasAdded(r)) /\ (In(0, r)' <=> In(0, r))
        /\ (In(1, r)' <=> In(1, r))
                 /\ (In(xmit.buf, r)' <=> In(xmit.buf, r))
    BY <1>2 DEF WasAdded, In
  <2>3. PlacesRight'
    BY <1>2, <2>1, <2>2 DEF PlacesRight, Other
  <2>4. CASE lastSend >= flusher.now \/ sbufs_empty
    <3>1. flusher'.pc = "done" /\ lastSend' = lastSend
      BY <1>1, <2>4 DEF FlushChecks, CrTypes
    <3>2. ASSUME NEW r \in CrSpans, WasAdded(r), addedAt[r] < flusher.now PROVE r \in handled
      <4>1. CASE lastSend >= flusher.now
        BY <1>1, <2>1, <3>2, <4>1, SMTT(30) DEF TimesRight, CrTypes
      <4>2. CASE sbufs_empty
        <5>1. ~In(0, r) /\ ~In(1, r)
          BY <1>1, <2>1, <4>2, EmptyBuffer, ZenonT(30) DEF sbufs_empty
        <5> QED
          BY <2>1, <3>2, <5>1 DEF PlacesRight
      <4> QED
        BY <2>4, <4>1, <4>2
    <3> QED
      BY <1>2, <1>3, <2>1, <2>2, <2>3, <3>1, <3>2 DEF TimesRight
  <2>5. CASE ~(lastSend >= flusher.now \/ sbufs_empty)
    <3>1. flusher'.pc = "wait" /\ lastSend' = LongAgo
      BY <1>1, <2>5 DEF FlushChecks, CrTypes
    <3>2. \A r \in CrSpans : WasAdded(r) => ~(addedAt[r] < LongAgo)
      BY <1>1, <2>1, SMTT(30) DEF TimesRight, CrTypes
    <3>3. LongAgo <= msec
      BY <1>1, SMTT(30) DEF CrTypes
    <3> QED
      BY <1>2, <1>3, <2>1, <2>2, <2>3, <3>1, <3>2, <3>3 DEF TimesRight
  <2> QED
    BY <2>4, <2>5
<1> QED
  BY <1>3, <1>4 DEF CReceiverInv

\* Steps that leave buffers and spans alone.
LEMMA QuietStepsKeep ==
  ASSUME CReceiverInv, ClockTicks \/ FlushBegins \/ Free \/ XmitFails \/ UNCHANGED crVars
  PROVE  CReceiverInv'
<1>1. CrTypes
  BY DEF CReceiverInv
<1>2. /\ UNCHANGED <<sbuf, active, adder, lastSend, addedAt, handled>>
      /\ msec' \in Nat /\ msec <= msec'
  BY <1>1, SMTT(30) DEF ClockTicks, FlushBegins, Free, XmitFails, crVars, CrTypes
<1>3. xmit' \in [pc : {"check", "again", "wait", "send", "lock", "done"}, now : Int, tries : Int,
      buf : {0, 1}]
      /\ xmit'.pc = xmit.pc /\ xmit'.now = xmit.now /\ xmit'.buf = xmit.buf
  BY <1>1, SMTT(30) DEF ClockTicks, FlushBegins, Free, XmitFails, crVars, CrTypes
<1>4. flusher' \in [pc : {"none", "check", "wait", "done"}, now : Int]
      /\ (flusher' = flusher \/ (flusher'.pc = "check" /\ flusher'.now = msec'))
  BY <1>1, SMTT(30) DEF ClockTicks, FlushBegins, Free, XmitFails, crVars, CrTypes
<1>5. CrTypes'
  BY <1>1, <1>2, <1>3, <1>4 DEF CrTypes
<1>6. ASSUME NeverFull' PROVE PlacesRight' /\ TimesRight'
  <2>1. PlacesRight /\ TimesRight
    BY <1>2, <1>6 DEF NeverFull, CReceiverInv
  <2>2. \A r : (WasAdded(r)' <=> WasAdded(r)) /\ (In(0, r)' <=> In(0, r))
        /\ (In(1, r)' <=> In(1, r))
    BY <1>2 DEF WasAdded, In
  <2>3. PlacesRight'
    BY <1>2, <1>3, <2>1, <2>2 DEF PlacesRight, Other
  <2>4. \A r : r \in Range(sbuf'[xmit'.buf].spans) <=> In(xmit.buf, r)
    BY <1>2, <1>3 DEF In
  <2>5. (xmit.now <= msec /\ lastSend <= msec /\ flusher.now <= msec)'
    BY <1>1, <1>2, <1>3, <1>4, <2>1, SMTT(30) DEF TimesRight, CrTypes
  <2>6. ASSUME NEW r \in CrSpans, WasAdded(r)
        PROVE /\ 0 <= addedAt[r] /\ addedAt[r] <= msec'
              /\ addedAt[r] < xmit.now => r \in handled \/ (xmit.pc = "send" /\ In(xmit.buf, r))
              /\ addedAt[r] < lastSend => r \in handled
              /\ flusher'.pc = "done" /\ addedAt[r] < flusher'.now => r \in handled
    BY <1>1, <1>2, <1>4, <2>1, <2>6, SMTT(30) DEF TimesRight, CrTypes
  <2>7. TimesRight'
    BY <1>2, <1>3, <2>2, <2>4, <2>5, <2>6 DEF TimesRight, In
  <2> QED
    BY <2>3, <2>7
<1> QED
  BY <1>5, <1>6 DEF CReceiverInv

\* What users of the C receiver rely on is kept by every step.
LEMMA CReceiverStep == CReceiverInv /\ [CReceiverNext]_crVars => CReceiverInv'
<1> SUFFICES ASSUME CReceiverInv, [CReceiverNext]_crVars PROVE CReceiverInv'
  OBVIOUS
<1>1. CASE ClockTicks \/ FlushBegins \/ Free \/ XmitFails \/ UNCHANGED crVars
  BY <1>1, QuietStepsKeep
<1>2. CASE XmitCheck \/ XmitAgain
  <2>1. PICK now \in {msec, xmit.now} :
          \/ Flip(now)
          \/ xmit' = [xmit EXCEPT !.pc = "done"] /\ active' = active
          \/ xmit' = [xmit EXCEPT !.pc = "wait"] /\ active' = active
    BY <1>2 DEF XmitCheck, XmitAgain
  <2>2. xmit.pc \in {"check", "again"}
        /\ UNCHANGED <<sbuf, adder, lastSend, shutdown, flusher, msec, addedAt, handled>>
    BY <1>2 DEF XmitCheck, XmitAgain
  <2>3. CASE Flip(now)
    BY <2>2, <2>3, FlipKeeps
  <2>4. CASE ~Flip(now)
    BY <2>1, <2>2, <2>4, XmitMovesKeep DEF BetweenSends
  <2> QED
    BY <2>3, <2>4
<1>3. CASE XmitWakes \/ XmitEnds
  BY <1>3, XmitMovesKeep DEF XmitWakes, XmitEnds, BetweenSends, FlusherWakes
<1>4. CASE XmitDone
  BY <1>4, XmitDoneKeeps
<1>5. CASE FlushChecks
  BY <1>5, FlushChecksKeeps
<1>6. ASSUME NEW s \in CrSpans, AddSpan(s) PROVE CReceiverInv'
  BY <1>6, AddSpanKeeps
<1>7. ASSUME NEW s \in CrSpans, AddSpanUnlocked(s) PROVE CReceiverInv'
  <2>1. CrTypes' /\ CrTypes
    BY <1>7, AddSpanTypes DEF CReceiverInv
  <2>2. adder'[s].pc = "overran"
    BY <1>7, <2>1, ZenonT(60) DEF AddSpanUnlocked, CrTypes
  <2> QED
    BY <2>1, <2>2 DEF CReceiverInv, NeverFull
<1> QED
  BY <1>1, <1>2, <1>3, <1>4, <1>5, <1>6, <1>7 DEF CReceiverNext, XmitStep

\* The invariant implies what the run checks.
LEMMA CReceiverInvProperties == CReceiverInv => BuffersAreApart /\ FlushCoversEarlier
<1> SUFFICES ASSUME CReceiverInv, NeverFull PROVE BuffersAreApart /\ FlushCoversEarlier
  BY DEF BuffersAreApart, FlushCoversEarlier
<1>1. PlacesRight /\ TimesRight
  BY DEF CReceiverInv
<1>2. ASSUME NEW s \in CrSpans, WasAdded(s)
      PROVE  Cardinality({b \in {0,
             1} : s \in Range(sbuf[b].spans)}) = IF s \in handled THEN 0 ELSE 1
  <2>1. CASE s \in handled
    <3>1. {b \in {0, 1} : s \in Range(sbuf[b].spans)} = {}
      BY <1>1, <1>2, <2>1 DEF PlacesRight, In
    <3> QED
      BY <2>1, <3>1, FS_EmptySet
  <2>2. CASE s \notin handled
    <3>1. \E b \in {0, 1} : {c \in {0, 1} : s \in Range(sbuf[c].spans)} = {b}
      BY <1>1, <1>2, <2>2 DEF PlacesRight, In
    <3> QED
      BY <2>2, <3>1, FS_Singleton, ZenonT(30)
  <2> QED
    BY <2>1, <2>2
<1>3. BuffersAreApart
  BY <1>1, <1>2 DEF BuffersAreApart, PlacesRight
<1>4. FlushCoversEarlier
  BY <1>1 DEF FlushCoversEarlier, TimesRight
<1> QED
  BY <1>3, <1>4
-----------------------------------------------------------------------------

ReceiversInv ==
  /\ part = "queue" => QueueInv
  /\ part = "creceiver" => CReceiverInv

\* For all numbers of spans, workers and errors, sizes of queue, batch and buffers, and all times: a
\* span that a queueing receiver accepted is in its queue, in a worker's list, or sent, and as
\* long as no thread has met a full buffer, the C receiver's buffers are apart and a flush that
\* returned covers the spans of earlier milliseconds.
THEOREM ReceiversSafe == Spec => []ReceiversKeepSpans
<1>1. Init => ReceiversInv
  BY QueueInitInv, CReceiverInitInv DEF Init, ReceiversInv
<1>2. ReceiversInv /\ [Next]_allVars => ReceiversInv'
  <2> SUFFICES ASSUME ReceiversInv, [Next]_allVars PROVE ReceiversInv'
    OBVIOUS
  <2>1. part' = part
    BY DEF Next, Rest, allVars
  <2>2. CASE part = "queue"
    <3>1. [QueueNext]_queueVars
      BY <2>2 DEF Next, Rest, allVars
    <3> QED
      BY <2>1, <2>2, <3>1, QueueStep DEF ReceiversInv
  <2>3. CASE part = "creceiver"
    <3>1. [CReceiverNext]_crVars
      BY <2>3 DEF Next, Rest, allVars
    <3> QED
      BY <2>1, <2>3, <3>1, CReceiverStep DEF ReceiversInv
  <2>4. CASE part \notin {"queue", "creceiver"}
    BY <2>1, <2>4 DEF ReceiversInv
  <2> QED
    BY <2>2, <2>3, <2>4
<1>3. ReceiversInv => ReceiversKeepSpans
  BY CReceiverInvProperties DEF ReceiversInv, ReceiversKeepSpans, QueueInv
<1> QED
  BY <1>1, <1>2, <1>3, PTL DEF Spec
-----------------------------------------------------------------------------
(* The search *)

\* The constants of the run Native are those of plain searches: the hypothesis of SearchesSafe is
\* one that the searches TLC takes through HandleQuery() meet.
LEMMA NativeSearchesArePlain ==
  ASSUME Ids = 1..4, MaxId = 6, Searches = AllSearches, ValueOf = OwnTimes
  PROVE  PlainSearches
<1>1. MaxId \notin Ids
  OBVIOUS
<1>2. ASSUME NEW i \in Ids, NEW j \in Ids, ValueOf[i] = ValueOf[j] PROVE i = j
  BY <1>2 DEF OwnTimes
<1>3. ASSUME NEW q \in Searches, ~q.byId PROVE q.op # "le"
  BY <1>3 DEF AllSearches, SearchesById, SearchesByTime, DumpAll, Search
<1> QED
  BY <1>1, <1>2, <1>3 DEF PlainSearches

SearchInv == part = "query" => QueryInv

\* For all sets of spans, numbers of shards, sizes of page, predicates and searches of the plain
\* kind, and whatever is written and reaped while a client goes through the pages of HandleQuery():
\* it is given wanted spans only, each once and in order, and a page that is not full misses no
\* span that was there all along, but in a shard of which a span was missing when it was looked up.
THEOREM SearchesSafe == PlainSearches => (Spec => []SearchesAreRight)
<1> SUFFICES ASSUME PlainSearches PROVE Spec => []SearchesAreRight
  OBVIOUS
<1>1. Init => SearchInv
  BY QueryStarts DEF Init, SearchInv
<1>2. SearchInv /\ [Next]_allVars => SearchInv'
  <2> SUFFICES ASSUME SearchInv, [Next]_allVars PROVE SearchInv'
    OBVIOUS
  <2>1. part' = part
    BY DEF Next, Rest, allVars
  <2>2. CASE part = "query"
    <3>1. [QueryNext]_queryVars
      BY <2>2 DEF Next, Rest, allVars
    <3> QED
      BY <2>1, <2>2, <3>1, QueryStep DEF SearchInv
  <2>3. CASE part # "query"
    BY <2>1, <2>3 DEF SearchInv
  <2> QED
    BY <2>2, <2>3
<1>3. SearchInv => SearchesAreRight
  BY QueryInvSays DEF SearchInv, SearchesAreRight
<1> QED
  BY <1>1, <1>2, <1>3, PTL DEF Spec
=============================================================================
