--------------------------- MODULE BackboneModel ---------------------------
(***************************************************************************)
(* Backbone.Model: set() with the handlers of its change events, which may *)
(* call set() again, and save() and fetch() with the server's answers.     *)
(*                                                                         *)
(* `sets` is the stack of set() calls under way.  Each has a list of       *)
(* change:attr events to trigger; the outermost one then triggers "change" *)
(* until nothing is pending.                                               *)
(***************************************************************************)
EXTENDS Integers, Sequences, SequencesExt, FiniteSets

CONSTANTS Attrs,    \* names of attributes
          MaxSets,  \* bound: calls of set(), save() and fetch()
          MaxValue  \* the values are 0 .. MaxValue

VARIABLES attributes,
          previous,    \* _previousAttributes
          changed,     \* the attributes in `changed`; their values are those of attributes
          changing, pending,
          sets,
          saving,      \* [attributes before it] while save(.., {wait: true}) is in sync()
          requests,    \* what waits for the server: "fetch", or the attributes of a save
          unseen,      \* an attribute was changed, not silently, after the last "change" event
          setInSave,   \* a handler of the "request" event of such a save called set()
          modelCalls

modelVars == <<attributes, previous, changed, changing, pending, sets, saving, requests,
               unseen, setInSave, modelCalls>>

Values == 0 .. MaxValue
\* The attributes that set() is given: some of them, with values.
Patches == UNION {[S -> Values] : S \in {T \in SUBSET Attrs : T # {}}}

ModelInit ==
  /\ attributes = [a \in Attrs |-> 0]
  /\ previous = attributes
  /\ changed = {} /\ changing = FALSE /\ pending = FALSE
  /\ sets = <<>> /\ saving = <<>> /\ requests = {}
  /\ unseen = FALSE /\ setInSave = FALSE /\ modelCalls = 0

SetTop == Last(sets)
\* User code runs at rest, in a handler of a change event, or in one of the request event.
ModelUserRuns == (sets # <<>> => SetTop.inHandler) /\ modelCalls < MaxSets
CountModelCall == modelCalls' = modelCalls + 1

\* set(patch): assigns, and then has the change events to trigger.
SetAttributes(patch, silent, from) ==
  LET prev == IF changing THEN previous ELSE from
      changes == {a \in DOMAIN patch : attributes[a] # patch[a]}
      now == [a \in Attrs |-> IF a \in DOMAIN patch THEN patch[a] ELSE attributes[a]]
  IN  /\ previous' = prev
      /\ attributes' = now
      /\ changed' = {a \in DOMAIN patch : patch[a] # prev[a]}
                      \union (IF changing THEN changed \ DOMAIN patch ELSE {})
      /\ changing' = TRUE
      /\ pending' = (pending \/ (~silent /\ changes # {}))
      /\ unseen' = (unseen \/ (~silent /\ changes # {}))
      /\ sets' = Append(sets, [events |-> IF silent THEN {} ELSE changes, outer |-> ~changing,
                               silent |-> silent, inHandler |-> FALSE])

ModelSet(patch, silent) ==
  /\ ModelUserRuns /\ CountModelCall
  /\ SetAttributes(patch, silent, attributes)
  /\ setInSave' = (setInSave \/ saving # <<>>)
  /\ UNCHANGED <<saving, requests>>

\* The next change:attr event.
TriggerChangeAttr ==
  /\ sets # <<>> /\ ~SetTop.inHandler /\ SetTop.events # {}
  /\ \E a \in SetTop.events :
       sets' = Append(Front(sets), [SetTop EXCEPT !.events = @ \ {a}, !.inHandler = TRUE])
  /\ UNCHANGED <<attributes, previous, changed, changing, pending, saving, requests, unseen,
                 setInSave, modelCalls>>

\* The "change" event of the outermost set(), as long as there are changes pending.
SetEvents == sets # <<>> /\ ~SetTop.inHandler /\ SetTop.events = {}
TriggerChange ==
  /\ SetEvents /\ SetTop.outer /\ ~SetTop.silent /\ pending
  /\ pending' = FALSE /\ unseen' = FALSE
  /\ sets' = Append(Front(sets), [SetTop EXCEPT !.inHandler = TRUE])
  /\ UNCHANGED <<attributes, previous, changed, changing, saving, requests, setInSave, modelCalls>>

ModelHandlerReturns ==
  /\ sets # <<>> /\ SetTop.inHandler
  /\ sets' = Append(Front(sets), [SetTop EXCEPT !.inHandler = FALSE])
  /\ UNCHANGED <<attributes, previous, changed, changing, pending, saving, requests, unseen,
                 setInSave, modelCalls>>

\* Mutant: changes made by the handlers of "change" are not announced.
SetReturnsEarly ==
  /\ SetEvents
  /\ sets' = Front(sets)
  /\ pending' = (pending /\ ~SetTop.outer)
  /\ changing' = (changing /\ ~SetTop.outer)
  /\ UNCHANGED <<attributes, previous, changed, saving, requests, unseen, setInSave, modelCalls>>

\* set() returns; only the outermost one resets the flags.
SetReturns ==
  /\ SetEvents /\ (SetTop.outer /\ ~SetTop.silent => ~pending)
  /\ sets' = Front(sets)
  /\ pending' = (pending /\ ~SetTop.outer)
  /\ changing' = (changing /\ ~SetTop.outer)
  /\ UNCHANGED <<attributes, previous, changed, saving, requests, unseen, setInSave, modelCalls>>
-----------------------------------------------------------------------------
\* fetch(), and save() without attributes: the answer is set on the model when it comes.
Fetch ==
  /\ ModelUserRuns /\ CountModelCall
  /\ requests' = requests \union {"fetch"}
  /\ UNCHANGED <<attributes, previous, changed, changing, pending, sets, saving, unseen, setInSave>>

\* save(patch, {wait: true}): the patched attributes are there only while sync() sends them.
SaveWait(patch) ==
  /\ ModelUserRuns /\ CountModelCall /\ saving = <<>> /\ sets = <<>>
  /\ saving' = <<attributes>>
  /\ attributes' = [a \in Attrs |-> IF a \in DOMAIN patch THEN patch[a] ELSE attributes[a]]
  /\ requests' = requests \union {"save"}
  /\ UNCHANGED <<previous, changed, changing, pending, sets, unseen, setInSave>>

SyncReturns ==
  /\ saving # <<>> /\ sets = <<>>
  /\ attributes' = saving[1]
  /\ saving' = <<>>
  /\ UNCHANGED <<previous, changed, changing, pending, sets, requests, unseen, setInSave, modelCalls>>

\* The server's answer, or its failure, which changes nothing.
SyncSucceeds(r, patch) ==
  /\ sets = <<>> /\ saving = <<>> /\ r \in requests
  /\ requests' = requests \ {r}
  /\ SetAttributes(patch, FALSE, attributes)
  /\ UNCHANGED <<saving, setInSave, modelCalls>>

SyncFails(r) ==
  /\ sets = <<>> /\ saving = <<>> /\ r \in requests
  /\ requests' = requests \ {r}
  /\ UNCHANGED <<attributes, previous, changed, changing, pending, sets, saving, unseen, setInSave,
                 modelCalls>>

ModelNext ==
  \/ \E p \in Patches : ModelSet(p, TRUE) \/ ModelSet(p, FALSE) \/ SaveWait(p)
  \/ TriggerChangeAttr \/ TriggerChange \/ ModelHandlerReturns \/ SetReturns
  \/ Fetch \/ SyncReturns
  \/ \E r \in {"fetch", "save"} : SyncFails(r) \/ \E p \in Patches : SyncSucceeds(r, p)
-----------------------------------------------------------------------------
\* `changed` holds the attributes that differ from _previousAttributes, however sets are
\* nested.  (What a handler of the request event sets during save(.., {wait: true}) is lost
\* when sync() returns.)
ChangedIsTheDifference ==
  saving = <<>> /\ ~setInSave => changed = {a \in Attrs : attributes[a] # previous[a]}

\* When no set() is under way, every change that was not silent was followed by a "change"
\* event.
ChangesAreAnnounced == sets = <<>> => ~unseen /\ ~pending /\ ~changing

\* A change handler finds the attributes as they were before the outermost set().
PreviousIsKept == [][changing /\ changing' => previous' = previous]_modelVars
=============================================================================
