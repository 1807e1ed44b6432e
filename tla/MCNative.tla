------------------------------ MODULE MCNative ------------------------------
(***************************************************************************)
(* The receivers that send from threads of their own and the search of the *)
(* span store, side by side: a behaviour is one of one part, and the other *)
(* parts stay in an initial state.                                         *)
(***************************************************************************)
EXTENDS Query, QueueReceiver, CReceiver

CONSTANT Parts             \* the parts that run

VARIABLE part

allVars == <<part, queryVars, queueVars, crVars>>

AllParts == {"query", "queue", "creceiver"}

Init ==
  /\ part \in Parts
  /\ QueryInit /\ (part # "query" => query = CHOOSE q \in Searches : TRUE)
  /\ QueueInit /\ (part # "queue" => kind = "hbase")
  /\ CReceiverInit

\* The other parts stand still.
Rest(p) ==
  /\ part = p /\ UNCHANGED part
  /\ p # "query" => UNCHANGED queryVars
  /\ p # "queue" => UNCHANGED queueVars
  /\ p # "creceiver" => UNCHANGED crVars

Next ==
  \/ Rest("query") /\ QueryNext
  \/ Rest("queue") /\ QueueNext
  \/ Rest("creceiver") /\ CReceiverNext

\* The handler and its client go on with a search, every thread of a receiver takes its steps,
\* and time goes on.
Fairness ==
  /\ WF_queryVars(Rest("query") /\ SearchStep)
  /\ \A w \in QrWorkers : WF_queueVars(Rest("queue") /\ WorkerStep(w))
  /\ WF_crVars(Rest("creceiver") /\ ClockTicks)
  /\ WF_crVars(Rest("creceiver") /\ XmitStep)
  /\ WF_crVars(Rest("creceiver") /\ FlushChecks)

Spec == Init /\ [][Next]_allVars /\ Fairness
-----------------------------------------------------------------------------
\* HandleQuery, page by page: the client is given wanted spans only, each once and in order, and a
\* page that is not full says truly that there is nothing more, in the shards where every span was
\* found that the index led to.
SearchesAreRight == part = "query" => ResultsAreRight /\ SearchIsComplete

\* Receivers: a span that was accepted is in the queue, in the hands of a worker or sent, and the
\* C receiver's buffers and flush do what their users rely on.
ReceiversKeepSpans ==
  /\ part = "queue" => AcceptedSpansAreHeld
  /\ part = "creceiver" => BuffersAreApart /\ FlushCoversEarlier

\* What is begun comes to its end: searches, workers of a closed receiver, spans that wait to be
\* sent, a flush and a free of the C receiver.
WorkIsFinished ==
  /\ part = "query" => SearchEnds
  /\ ClosedWorkersEnd /\ AcceptedSpansAreSent /\ SpansAreHandled /\ FlushEnds /\ FreeEnds
-----------------------------------------------------------------------------
\* Spans 1 and 2 share a shard, and so do 3 and 4.
PairHash == [id \in Ids |-> IF id <= 2 THEN 1 ELSE 0]

\* Every span has a time of its own, in another order than the ids ...
OwnTimes == [id \in Ids |-> CASE id = 1 -> 2 [] id = 2 -> -1 [] id = 3 -> 1 [] OTHER -> 3]

\* ... or several spans have the same time.
SharedTimes == [id \in Ids |-> IF id = 1 THEN 1 ELSE 2]

Search(byId, o, k, lim) ==
  [byId |-> byId, op |-> o, key |-> k, lim |-> lim, dump |-> FALSE]

SearchesById ==
  {Search(TRUE, o, k, l) : o \in AllOps, k \in {0, 2, 3, 6}, l \in {1, 2}}
SearchesByTime ==
  {Search(FALSE, o, k, l) : o \in {"eq", "ge", "gt"}, k \in {-1, 1, 2}, l \in {1, 2}}
DumpAll == {[Search(TRUE, "ge", 0, 2) EXCEPT !.dump = TRUE]}

AllSearches == SearchesById \union SearchesByTime \union DumpAll

\* A span of each shard may be reaped during a search.
ReapSome == [q \in Searches |-> {1, 4}]

NoReap == [q \in Searches |-> {}]

\* One page with all spans up to time 2.
UpTo2 == {Search(FALSE, "le", 2, 5)}
=============================================================================
