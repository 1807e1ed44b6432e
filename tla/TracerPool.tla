----------------------------- MODULE TracerPool -----------------------------
(***************************************************************************)
(* TracerPool: tracers are built and closed by several threads, and share  *)
(* the span receivers, which the last tracer to go closes.  The methods    *)
(* that change the pool hold its lock; a closing scope reads the array of  *)
(* receivers without it and delivers its span to them one after another.   *)
(* Receivers are closed one after another, too, under the lock.            *)
(***************************************************************************)
EXTENDS Integers, Sequences, Functions, FiniteSets

CONSTANTS PoolTracers,    \* bound: the tracers that are built
          ClassesOf,      \* by tracer: the receiver classes its configuration names, a sequence
          MaxReceivers,   \* bound: receivers created
          MaxDeliveries   \* bound: spans delivered

ASSUME PoolAssumption == ClassesOf \in [PoolTracers -> Seq(STRING)]

VARIABLES builds,         \* by tracer: how far it is, "none", "loading", "ready" or "closed", and the classes left to load
          curTracers, curReceivers,
          receivers,      \* every receiver: its class, whether a caller took it out, times closed
          closing,        \* receivers still to be closed by the thread that holds the lock, if any
          delivery,       \* a closing scope: the receivers still to be called
          hookRan, delivered,
          strays          \* receivers that a caller added since the last tracer went, while there is none

poolVars == <<builds, curTracers, curReceivers, receivers, closing, delivery, hookRan, delivered, strays>>

Receivers == DOMAIN receivers
Unlocked == closing = <<>>

PoolInit ==
  /\ builds = [t \in PoolTracers |-> [pc |-> "none", left |-> ClassesOf[t]]]
  /\ curTracers = {} /\ curReceivers = <<>> /\ receivers = <<>>
  /\ closing = <<>> /\ delivery = <<>> /\ hookRan = FALSE /\ delivered = 0
  /\ strays = {}

\* Mutant: the tracer is not registered before its receivers are loaded.
buildLoadsFirst(t) ==
  /\ builds[t].pc = "none" /\ Unlocked
  /\ builds' = [builds EXCEPT ![t].pc = "loading"]
  /\ UNCHANGED <<curTracers, curReceivers, receivers, closing, delivery, hookRan, delivered, strays>>

\* build(): the tracer is registered before its receivers are loaded.
addTracer(t) ==
  /\ builds[t].pc = "none" /\ Unlocked
  /\ builds' = [builds EXCEPT ![t].pc = "loading"]
  /\ curTracers' = curTracers \cup {t} /\ strays' = {}
  /\ UNCHANGED <<curReceivers, receivers, closing, delivery, hookRan, delivered>>

OfClass(c) == {i \in DOMAIN curReceivers : receivers[curReceivers[i]].class = c}

\* A new receiver of class c joins the pool.  (A receiver that was taken out is not added again.)
addReceiver(c) ==
  /\ Len(receivers) < MaxReceivers
  /\ receivers' = Append(receivers, [class |-> c, removed |-> FALSE, closed |-> 0])
  /\ curReceivers' = Append(curReceivers, Len(receivers'))
  /\ strays' = IF curTracers = {} THEN strays \cup {Len(receivers')} ELSE strays

\* addReceiver() or loadReceiverType() called by anyone, also before the first tracer and after the last.
callerAdds ==
  /\ Unlocked
  /\ \E t \in PoolTracers : \E c \in Range(ClassesOf[t]) : addReceiver(c)
  /\ UNCHANGED <<builds, curTracers, closing, delivery, hookRan, delivered>>

\* An existing receiver of the class is shared; creating one may fail, which is only logged.
loadReceiverType(t) ==
  /\ builds[t].pc = "loading" /\ builds[t].left # <<>> /\ Unlocked
  /\ builds' = [builds EXCEPT ![t].left = Tail(@)]
  /\ \/ OfClass(Head(builds[t].left)) # {} /\ UNCHANGED <<curReceivers, receivers, strays>>
     \/ OfClass(Head(builds[t].left)) = {} /\ addReceiver(Head(builds[t].left))
     \/ OfClass(Head(builds[t].left)) = {} /\ UNCHANGED <<curReceivers, receivers, strays>>
  /\ UNCHANGED <<curTracers, closing, delivery, hookRan, delivered>>

built(t) ==
  /\ builds[t].pc = "loading" /\ builds[t].left = <<>>
  /\ builds' = [builds EXCEPT ![t].pc = "ready"]
  /\ UNCHANGED <<curTracers, curReceivers, receivers, closing, delivery, hookRan, delivered, strays>>

\* The receivers are taken out of the pool, then closed in turn.
removeAndCloseAll == closing' = curReceivers /\ curReceivers' = <<>>

closeNext ==
  /\ closing # <<>>
  /\ closing' = Tail(closing)
  /\ receivers' = [receivers EXCEPT ![Head(closing)].closed = @ + 1]
  /\ UNCHANGED <<builds, curTracers, curReceivers, delivery, hookRan, delivered, strays>>

\* close() of a tracer, for the first time: later calls find it gone from the pool.
closeTracer(t) ==
  /\ builds[t].pc = "ready" /\ Unlocked
  /\ builds' = [builds EXCEPT ![t].pc = "closed"]
  /\ curTracers' = curTracers \ {t}
  /\ IF curTracers' = {} THEN removeAndCloseAll ELSE UNCHANGED <<curReceivers, closing>>
  /\ UNCHANGED <<receivers, delivery, hookRan, delivered, strays>>

shutdownHook ==
  /\ ~hookRan /\ receivers # <<>> /\ Unlocked
  /\ hookRan' = TRUE
  /\ removeAndCloseAll
  /\ UNCHANGED <<builds, curTracers, receivers, delivery, delivered, strays>>

\* removeAndCloseReceiver: taken out under the lock, closed after it is released.
removeReceiver(r) ==
  /\ Unlocked
  /\ \E i \in DOMAIN curReceivers :
       /\ curReceivers[i] = r
       /\ curReceivers' = SubSeq(curReceivers, 1, i - 1) \o SubSeq(curReceivers, i + 1, Len(curReceivers))
  /\ receivers' = [receivers EXCEPT ![r].removed = TRUE]
  /\ UNCHANGED <<builds, curTracers, closing, delivery, hookRan, delivered, strays>>
closeRemoved(r) ==
  /\ receivers[r].removed /\ receivers[r].closed = 0
  /\ receivers' = [receivers EXCEPT ![r].closed = 1]
  /\ UNCHANGED <<builds, curTracers, curReceivers, closing, delivery, hookRan, delivered, strays>>

\* closeScope: the array is read once; every receiver in it is then called.
getReceivers ==
  /\ delivery = <<>> /\ delivered < MaxDeliveries /\ curReceivers # <<>>
  /\ delivery' = curReceivers /\ delivered' = delivered + 1
  /\ UNCHANGED <<builds, curTracers, curReceivers, receivers, closing, hookRan, strays>>
receiveSpan ==
  /\ delivery # <<>>
  /\ delivery' = Tail(delivery)
  /\ UNCHANGED <<builds, curTracers, curReceivers, receivers, closing, hookRan, delivered, strays>>

PoolNext ==
  \/ \E t \in PoolTracers : addTracer(t) \/ loadReceiverType(t) \/ built(t) \/ closeTracer(t)
  \/ \E r \in Receivers : removeReceiver(r) \/ closeRemoved(r)
  \/ callerAdds \/ closeNext \/ shutdownHook \/ getReceivers \/ receiveSpan
-----------------------------------------------------------------------------
\* A receiver in the pool is open, so a closing scope never picks one that is closed already; one
\* that left the pool is closed, once, or is about to be closed by whoever took it out.
ReceiversCloseOnce ==
  \A r \in Receivers :
    LET closed == receivers[r].closed
    IN  IF r \in Range(curReceivers) THEN closed = 0
        ELSE closed = 1 \/ (closed = 0 /\ (receivers[r].removed \/ r \in Range(closing)))

\* While a tracer is being built or in use, the receivers of the pool stay unless a caller or the
\* shutdown hook takes them out: another tracer's close() does not take them away.
UsedReceiversStay ==
  [][\A r \in Receivers :
       r \in Range(curReceivers) /\ r \notin Range(curReceivers') =>
         \/ receivers'[r].removed
         \/ hookRan' # hookRan
         \/ \A t \in PoolTracers : builds'[t].pc \notin {"loading", "ready"}]_poolVars

\* Once every tracer that was built is closed, no receiver that was there before is left in the pool:
\* the last close() also takes away what callers have added, and only leaves what they add later.
LastTracerClosesReceivers ==
  (\A t \in PoolTracers : builds[t].pc \in {"none", "closed"}) => Range(curReceivers) \subseteq strays
=============================================================================
