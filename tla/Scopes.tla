------------------------------- MODULE Scopes -------------------------------
(***************************************************************************)
(* The Java Tracer's scopes: the current scope of every thread, which all  *)
(* tracers share, the depth every tracer counts for every thread, and      *)
(* scopes that are detached in one thread and reattached in another.       *)
(* A program gives a scope to one thread at a time; it closes the null     *)
(* scopes it was given once, in the thread that opened them.  A call that  *)
(* throws a client error changes nothing and is no step.                   *)
(***************************************************************************)
EXTENDS Integers, Sequences, FiniteSets

CONSTANTS ScThreads, ScTracers,
          MaxScopes,     \* bound: spans begun
          MaxNulls       \* bound: null scopes of a tracer that are open in a thread

ASSUME ScopesAssumption == MaxScopes \in Nat

NoScope == 0

VARIABLES threadLocalScope,  \* by thread: the number of a scope, or NoScope
          depth,             \* by thread and tracer
          scopes,            \* every scope: tracer, parent, detached, how often its span was received
          nulls              \* ghost: null scopes the program holds, by thread and tracer

scopesVars == <<threadLocalScope, depth, scopes, nulls>>

Scope(s) == scopes[s]
KnownScopes == DOMAIN scopes

ScopesInit ==
  /\ threadLocalScope = [t \in ScThreads |-> NoScope]
  /\ depth = [t \in ScThreads |-> [r \in ScTracers |-> 0]]
  /\ scopes = <<>>
  /\ nulls = [t \in ScThreads |-> [r \in ScTracers |-> 0]]

pushScope(t, r) == depth' = [depth EXCEPT ![t][r] = @ + 1]
popScope(t, r) == depth[t][r] > 0 /\ depth' = [depth EXCEPT ![t][r] = @ - 1]

\* A new span, in a scope above the scope `parent`.
pushNewScope(t, r, parent) ==
  /\ Len(scopes) < MaxScopes
  /\ scopes' = Append(scopes, [tracer |-> r, parent |-> parent, detached |-> FALSE, received |-> 0])
  /\ threadLocalScope' = [threadLocalScope EXCEPT ![t] = Len(scopes')]
  /\ pushScope(t, r)
  /\ UNCHANGED nulls

nullScope(t, r) ==
  /\ nulls[t][r] < MaxNulls
  /\ pushScope(t, r)
  /\ nulls' = [nulls EXCEPT ![t][r] = @ + 1]
  /\ UNCHANGED <<threadLocalScope, scopes>>

newScope(t, r) ==
  LET cur == threadLocalScope[t] IN
  \/ cur # NoScope /\ pushNewScope(t, r, cur)
  \/ cur = NoScope /\ depth[t][r] = 0 /\ pushNewScope(t, r, NoScope)   \* sample() said yes
  \/ cur = NoScope /\ nullScope(t, r)                                  \* not the top, or not sampled

\* newScope(description, parentId) with the valid id of a span of this or another thread; so do
\* the wrapped Callables and Runnables.
newScopeOf(t, r) == scopes # <<>> /\ pushNewScope(t, r, threadLocalScope[t])

newNullScope(t, r) == nullScope(t, r)

detach(t, s) ==
  /\ ~Scope(s).detached /\ threadLocalScope[t] = s
  /\ popScope(t, Scope(s).tracer)
  /\ threadLocalScope' = [threadLocalScope EXCEPT ![t] = Scope(s).parent]
  /\ scopes' = [scopes EXCEPT ![s].detached = TRUE, ![s].parent = NoScope]
  /\ UNCHANGED nulls

reattach(t, s) ==
  /\ Scope(s).detached
  /\ threadLocalScope' = [threadLocalScope EXCEPT ![t] = s]
  /\ pushScope(t, Scope(s).tracer)
  /\ scopes' = [scopes EXCEPT ![s].detached = FALSE, ![s].parent = threadLocalScope[t]]
  /\ UNCHANGED nulls

\* closeScope, up to the receivers, which TracerPool delivers to.
closeScope(t, s) ==
  /\ threadLocalScope[t] = s
  /\ popScope(t, Scope(s).tracer)
  /\ threadLocalScope' = [threadLocalScope EXCEPT ![t] = Scope(s).parent]
  /\ scopes' = [scopes EXCEPT ![s].parent = NoScope, ![s].received = @ + 1]
  /\ UNCHANGED nulls

\* Closing a null scope under a scope that is current is a client error.
popNullScope(t, r) ==
  /\ nulls[t][r] > 0 /\ threadLocalScope[t] = NoScope
  /\ popScope(t, r)
  /\ nulls' = [nulls EXCEPT ![t][r] = @ - 1]
  /\ UNCHANGED <<threadLocalScope, scopes>>

ScopesNext ==
  \E t \in ScThreads :
    \/ \E r \in ScTracers :
         newScope(t, r) \/ newScopeOf(t, r) \/ newNullScope(t, r) \/ popNullScope(t, r)
    \/ \E s \in KnownScopes : detach(t, s) \/ reattach(t, s) \/ closeScope(t, s)
-----------------------------------------------------------------------------
\* The scopes of a thread, from the current one outwards.
Chain(t) ==
  LET up[n \in 0 .. MaxScopes] ==
        IF n = 0 THEN <<threadLocalScope[t]>>
        ELSE LET last == up[n - 1][Len(up[n - 1])]
             IN  IF last = NoScope THEN up[n - 1] ELSE Append(up[n - 1], Scope(last).parent)
  IN  up[MaxScopes]
Attached(t) == {Chain(t)[i] : i \in DOMAIN Chain(t)} \ {NoScope}

\* The depth a tracer has in a thread is the number of its scopes in the thread's chain and of its
\* null scopes there, whichever thread opened them: were it more, the tracer would sample nothing
\* in the thread any more, and were it less, a legal close would throw (Tracer.java, popScope).
DepthIsExact ==
  \A t \in ScThreads, r \in ScTracers :
    depth[t][r] = nulls[t][r] + Cardinality({s \in Attached(t) : Scope(s).tracer = r})

\* The chains of the threads end and share no scope; a scope is in a chain, detached or received,
\* and its span was handed to the receivers once if it was closed.
ScopesAreNested ==
  /\ \A t \in ScThreads :
       /\ Chain(t)[Len(Chain(t))] = NoScope
       /\ \A s \in Attached(t) : ~Scope(s).detached /\ Scope(s).received = 0
       /\ \A u \in ScThreads \ {t} : Attached(t) \cap Attached(u) = {}
  /\ \A s \in KnownScopes :
       \/ \E t \in ScThreads : s \in Attached(t)
       \/ Scope(s).detached /\ Scope(s).received = 0
       \/ ~Scope(s).detached /\ Scope(s).received = 1
=============================================================================
