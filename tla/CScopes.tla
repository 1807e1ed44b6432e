------------------------------ MODULE CScopes -------------------------------
(***************************************************************************)
(* Trace scopes of the C client.  Every thread has a stack of scopes of    *)
(* one tracer; a scope holds a span until it is detached, and a detached   *)
(* span is in the hands of the caller, who may restart it in any thread.   *)
(***************************************************************************)
EXTENDS Integers, Sequences, FiniteSets

CONSTANTS CsThreads,
          MaxCSpans,     \* bound: spans started
          MaxCDepth      \* bound: scopes of a thread

ASSUME CScopesAssumption == MaxCSpans \in Nat /\ MaxCDepth \in Nat

Detached == 0            \* scope->span is NULL
CSpans == 1 .. MaxCSpans

VARIABLES cscopes,       \* by thread: the spans of its scopes, innermost first
          cspans,        \* every span started: its trace (span_id.high), its parent and,
                         \* as a ghost, the span of the innermost scope that had one
          disowned,      \* spans returned by htrace_scope_detach
          added,         \* spans handed to the receiver's add_span, in order
          freed,         \* spans freed because their scope could not be made
          crashed        \* whether a NULL scope has been dereferenced

cscopeVars == <<cscopes, cspans, disowned, added, freed, crashed>>

CScopesInit ==
  /\ cscopes = [t \in CsThreads |-> <<>>]
  /\ cspans = <<>> /\ disowned = {} /\ added = <<>> /\ freed = {} /\ crashed = FALSE

Owned(st) == {i \in DOMAIN st : st[i] # Detached}
InnermostOwned(st) == IF Owned(st) = {} THEN Detached ELSE st[CHOOSE i \in Owned(st) : \A j \in Owned(st) : i <= j]

\* The loop that looks for a parent moves on twice for each scope without a span: it looks at
\* every other scope.  Looking for the parent of the outermost scope's parent is a crash.
Looked(st) == {i \in Owned(st) : i % 2 = 1}
ParentFound(st) == IF Looked(st) = {} THEN Detached ELSE st[CHOOSE i \in Looked(st) : \A j \in Looked(st) : i <= j]
LooksPastEnd(st) == Looked(st) = {} /\ Len(st) % 2 = 1

\* A scope whose span is detached does not count as current: the sampler is asked, and
\* the new span belongs to a trace of its own.  Nothing happens when the sampler declines.
htrace_start_span(t) ==
  LET st == cscopes[t]
      s == Len(cspans) + 1
  IN  /\ s \in CSpans /\ Len(st) < MaxCDepth
      /\ crashed' = LooksPastEnd(st)
      /\ cspans' = Append(cspans, [high |-> IF st # <<>> /\ st[1] # Detached THEN cspans[st[1]].high ELSE s,
                                   parent |-> ParentFound(st), enclosing |-> InnermostOwned(st)])
      /\ IF crashed' THEN UNCHANGED cscopes ELSE cscopes' = [cscopes EXCEPT ![t] = <<s>> \o @]
      /\ UNCHANGED <<disowned, added, freed>>

\* Mutant: the scope keeps the span it gave away.
detachShared(t, i) ==
  /\ cscopes[t][i] # Detached
  /\ disowned' = disowned \union {cscopes[t][i]}
  /\ UNCHANGED <<cscopes, cspans, added, freed, crashed>>

\* Any scope can be detached; a second time returns NULL.
htrace_scope_detach(t, i) ==
  /\ cscopes[t][i] # Detached
  /\ disowned' = disowned \union {cscopes[t][i]}
  /\ cscopes' = [cscopes EXCEPT ![t][i] = Detached]
  /\ UNCHANGED <<cspans, added, freed, crashed>>

\* The span is freed when there is no memory for its scope.
htrace_restart_span(t, s) ==
  /\ Len(cscopes[t]) < MaxCDepth
  /\ disowned' = disowned \ {s}
  /\ \/ cscopes' = [cscopes EXCEPT ![t] = <<s>> \o @] /\ UNCHANGED freed
     \/ freed' = freed \union {s} /\ UNCHANGED cscopes
  /\ UNCHANGED <<cspans, added, crashed>>

\* Only the innermost scope can be closed; closing another one does nothing.
htrace_scope_close(t) ==
  /\ cscopes[t] # <<>>
  /\ cscopes' = [cscopes EXCEPT ![t] = Tail(@)]
  /\ LET s == Head(cscopes[t]) IN added' = IF s = Detached THEN added ELSE Append(added, s)
  /\ UNCHANGED <<cspans, disowned, freed, crashed>>

CScopesNext ==
  /\ ~crashed
  /\ \E t \in CsThreads : \/ htrace_start_span(t)
                          \/ \E i \in DOMAIN cscopes[t] : htrace_scope_detach(t, i)
                          \/ \E s \in disowned : htrace_restart_span(t, s)
                          \/ htrace_scope_close(t)
-----------------------------------------------------------------------------
ScopesOf(s) == {p \in CsThreads \X (1 .. MaxCDepth) : p[2] \in DOMAIN cscopes[p[1]] /\ cscopes[p[1]][p[2]] = s}
AddedAt(s) == {i \in DOMAIN added : added[i] = s}

\* However spans are detached, carried to another thread and restarted: a span is in one scope of
\* one thread, or with the caller, or was handed to the receiver once, or was freed, and never two
\* of these (the span of a crash is in none).
CSpansHaveOneOwner ==
  \A s \in DOMAIN cspans :
    Cardinality(ScopesOf(s)) + Cardinality(AddedAt(s)) + Cardinality({s} \intersect disowned)
      + Cardinality({s} \intersect freed) = IF crashed /\ s = Len(cspans) THEN 0 ELSE 1

\* A span whose innermost enclosing scope has its span is of that span's trace and its child.
AttachedParentsAreRight ==
  \A s \in DOMAIN cspans :
    LET p == cspans[s].parent IN
      /\ p # Detached => cspans[p].high = cspans[s].high \/ cspans[s].high = s
      /\ cspans[s].high # s => p # Detached /\ p = cspans[s].enclosing

\* What the comment in htrace_start_span says of the search for a parent: it is the innermost
\* enclosing scope "that hasn't disowned its trace span".
ParentIsInnermostOwned == \A s \in DOMAIN cspans : cspans[s].parent = cspans[s].enclosing
=============================================================================
