----------------------------- MODULE LocalFile ------------------------------
(***************************************************************************)
(* LocalFileSpanReceiver: threads put serialized spans into a buffer under *)
(* bufferLock; the one that fills it takes it away, releases that lock,    *)
(* and writes the spans under channelLock.  close() takes what is left.    *)
(* All the work of a thread under one of the locks is one step.            *)
(***************************************************************************)
EXTENDS Integers, Sequences, Functions, FiniteSets

CONSTANTS LfSpans,      \* the spans that threads receive, each in a thread of its own
          LfCapacity    \* local.file.span.receiver.capacity

VARIABLES bufferedSpans,  \* the buffer
          buffering,      \* bufferedSpans is not null: close() was not called
          taken,          \* buffers whose threads wait for channelLock
          stream,         \* "open" or "closed"
          file,           \* the spans in the file
          received,       \* ghost: the spans threads have called receiveSpan for
          refused, lost   \* ghosts: spans the closed receiver ignored, and spans a flush lost

localFileVars == <<bufferedSpans, buffering, taken, stream, file, received, refused, lost>>

LocalFileInit ==
  /\ bufferedSpans = <<>> /\ buffering = TRUE /\ taken = {} /\ stream = "open" /\ file = <<>>
  /\ received = {} /\ refused = {} /\ lost = {}

\* A full buffer is swapped for an empty one.
takeFull(spans) ==
  /\ taken' = taken \cup {[spans |-> spans, closes |-> FALSE]}
  /\ bufferedSpans' = <<>>

bufferSpan(s) ==
  /\ received' = received \cup {s}
  /\ \/ /\ ~buffering
        /\ refused' = refused \cup {s}
        /\ UNCHANGED <<bufferedSpans, taken>>
     \/ /\ buffering
        /\ LET spans == Append(bufferedSpans, s)
           IN  IF Len(spans) = LfCapacity THEN takeFull(spans)
               ELSE bufferedSpans' = spans /\ UNCHANGED taken
        /\ UNCHANGED refused
  /\ UNCHANGED <<buffering, stream, file, lost>>

takeLast ==
  /\ buffering /\ buffering' = FALSE
  /\ taken' = taken \cup {[spans |-> bufferedSpans, closes |-> TRUE]}
  /\ bufferedSpans' = <<>>
  /\ UNCHANGED <<stream, file, received, refused, lost>>

\* doFlush: the channel writes a prefix of the spans, all of them unless it fails; a closed
\* channel writes none.
doFlush(spans) ==
  \E n \in 0 .. Len(spans) :
    /\ stream = "closed" => n = 0
    /\ file' = file \o SubSeq(spans, 1, n)
    /\ lost' = lost \cup Range(SubSeq(spans, n + 1, Len(spans)))

flushTaken(b) ==
  /\ taken' = taken \ {b}
  /\ doFlush(b.spans)
  /\ stream' = IF b.closes THEN "closed" ELSE stream
  /\ UNCHANGED <<bufferedSpans, buffering, received, refused>>

LocalFileNext ==
  \/ \E s \in LfSpans \ received : bufferSpan(s)
  \/ takeLast
  \/ \E b \in taken : flushTaken(b)
-----------------------------------------------------------------------------
Taken == UNION {Range(b.spans) : b \in taken}

\* However threads and close() take turns: a span that was received is in the buffer, in the hands
\* of one thread, in the file, lost by a flush that failed or ignored by the closed receiver, in
\* one of these places and there once; when the file is closed and no thread is left, a span that
\* was not ignored and that no flush has lost is in the file.
FileSpansAreKept ==
  /\ IsInjective(file) /\ IsInjective(bufferedSpans)
  /\ \A b, c \in taken : b # c => Range(b.spans) \cap Range(c.spans) = {}
  /\ received = Range(bufferedSpans) \cup Taken \cup Range(file) \cup lost \cup refused
  /\ Cardinality(received) = Len(bufferedSpans) + Cardinality(Taken) + Len(file)
                              + Cardinality(lost) + Cardinality(refused)
  /\ stream = "closed" /\ taken = {} => received = Range(file) \cup lost \cup refused
=============================================================================
