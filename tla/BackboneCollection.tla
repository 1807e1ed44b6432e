------------------------- MODULE BackboneCollection -------------------------
(***************************************************************************)
(* Backbone.Collection: its list of models, its index _byId, and what      *)
(* keeps them together: add, remove, set, reset, sort, the id changes and  *)
(* the destroy events of the models it listens to.                         *)
(*                                                                         *)
(* A model is named by its cid; ids are numbers, and NoId before the       *)
(* server has given one.  The handlers of the "remove" event run while the *)
(* collection still listens to the model and may change the collection:    *)
(* `removing` is the stack of remove() calls under way.                    *)
(***************************************************************************)
EXTENDS Integers, Sequences, SequencesExt, FiniteSets

CONSTANTS Cids,         \* bound: the models there are
          Ids,          \* ids the server gives
          MaxColCalls   \* bound: calls that change the collection

VARIABLES models,     \* the collection's list
          byCid,      \* _byId, the entries for cids,
          byId,       \* ... and those for ids: NoModel where there is none
          modelId,    \* the id of every model
          heard,      \* the models whose events the collection listens to
          removing,
          loose,      \* models whose id changed silently, unheard, or in a handler
          readded,    \* models that a handler of their own "remove" event added again
          response,   \* the response of the last set(), if nothing was called since
          colCalls

collectionVars == <<models, byCid, byId, modelId, heard, removing, loose, readded, response, colCalls>>

NoId == 0
NoModel == "none"

CollectionInit ==
  /\ models = <<>> /\ byCid = {}
  /\ byId = [i \in Ids |-> NoModel]
  /\ modelId = [c \in Cids |-> NoId]
  /\ heard = {} /\ removing = <<>> /\ loose = {} /\ readded = {} /\ response = <<>>
  /\ colCalls = 0

ColCall == colCalls < MaxColCalls /\ colCalls' = colCalls + 1 /\ response' = <<>>

\* _addReference, and what remove() takes out of the index.
Indexed(index, c, ids) ==
  IF ids[c] = NoId THEN index ELSE [index EXCEPT ![ids[c]] = c]
Unindexed(index, c, ids) ==
  IF ids[c] = NoId THEN index ELSE [index EXCEPT ![ids[c]] = NoModel]

\* add() of a model that exists: one that is in the index already is not added again.
AddModel(c, at) ==
  /\ ColCall
  /\ c \notin byCid /\ (modelId[c] # NoId => byId[modelId[c]] = NoModel)
  /\ models' = InsertAt(models, (IF at > Len(models) THEN Len(models) ELSE at) + 1, c)
  /\ byCid' = byCid \union {c}
  /\ byId' = Indexed(byId, c, modelId)
  /\ heard' = heard \union {c}
  /\ readded' = IF Contains(removing, c) THEN readded \union {c} ELSE readded
  /\ UNCHANGED <<modelId, removing, loose>>

\* remove(), pop() and shift(), up to the "remove" event of the model ...
RemoveModel(c) ==
  /\ ColCall
  /\ c \in byCid
  /\ byCid' = byCid \ {c}
  /\ byId' = Unindexed(byId, c, modelId)
  /\ models' = RemoveFirst(models, c)
  /\ removing' = Append(removing, c)
  /\ UNCHANGED <<modelId, heard, loose, readded>>

\* ... and the rest of it, when the handlers have returned.  A model that a handler added
\* again is in the collection, which no longer listens to it.
RemoveReference ==
  /\ removing # <<>>
  /\ heard' = heard \ {Last(removing)}
  /\ removing' = Front(removing)
  /\ UNCHANGED <<models, byCid, byId, modelId, loose, readded, response, colCalls>>

\* destroy() of a model: a collection that hears of it removes it.
DestroyModel(c) == c \in heard /\ RemoveModel(c)

\* A change of c's id in a handler: c, and the model whose index entry goes with c's old id.
Disturbed(c) == {c} \union (IF modelId[c] = NoId THEN {} ELSE {byId[modelId[c]]} \ {NoModel})

\* The first save gives a model its id, or a set() changes it: the change:id event moves the
\* index entry, unless the change is silent.
SetId(c, id, silent) ==
  /\ ColCall
  /\ \A d \in Cids : modelId[d] # id
  /\ byId[id] = NoModel
  /\ modelId' = [modelId EXCEPT ![c] = id]
  /\ IF c \in heard /\ ~silent
     THEN /\ byId' = [Unindexed(byId, c, modelId) EXCEPT ![id] = c]
          /\ loose' = IF Contains(removing, c) THEN loose \union Disturbed(c) ELSE loose
     ELSE /\ UNCHANGED byId
          /\ loose' = IF c \in byCid THEN loose \union {c} ELSE loose
  /\ UNCHANGED <<models, byCid, heard, removing, readded>>

\* A handler of the "change" event changes the id once more.  previous("id") is still the
\* first one, so that the entry of the second stays in the index.
SetIdTwice(c, id, next) ==
  /\ ColCall
  /\ c \in heard /\ id # next
  /\ \A d \in Cids : modelId[d] \notin {id, next}
  /\ byId[id] = NoModel /\ byId[next] = NoModel
  /\ modelId' = [modelId EXCEPT ![c] = next]
  /\ byId' = [Unindexed(byId, c, modelId) EXCEPT ![id] = c, ![next] = c]
  /\ loose' = loose \union Disturbed(c)
  /\ UNCHANGED <<models, byCid, heard, removing, readded>>
-----------------------------------------------------------------------------
\* The models there is no trace of: a new model is made with one of these cids.
UnusedCids == {c \in Cids : modelId[c] = NoId /\ c \notin byCid /\ c \notin heard}

\* The loop of set() over the response: acc holds the index, the ids so far, `order` for the
\* list, `keep` for the models that were there, modelMap for the ids seen, and the unused cids.
TakeOne(acc, id) ==
  LET existing == acc.index[id]
      c == IF existing # NoModel THEN existing ELSE CHOOSE x \in acc.unused : TRUE
  IN  [index |-> [acc.index EXCEPT ![id] = c],
       ids |-> [acc.ids EXCEPT ![c] = id],
       order |-> IF id \in acc.modelMap THEN acc.order ELSE Append(acc.order, c),
       keep |-> IF existing # NoModel THEN acc.keep \union {c} ELSE acc.keep,
       modelMap |-> acc.modelMap \union {id},
       unused |-> acc.unused \ {c}]

StartOfSet == [index |-> byId, ids |-> modelId, order |-> <<>>, keep |-> {}, modelMap |-> {},
               unused |-> UnusedCids]
TakeResponse(resp) == FoldLeft(TakeOne, StartOfSet, resp)

\* set(response), as fetch() calls it: the models that were there and are not in the response
\* are removed, and the list takes the order of the response.  (Explored while the index is
\* exact, and with handlers that leave the collection alone.)
SetModels(resp) ==
  /\ colCalls < MaxColCalls /\ colCalls' = colCalls + 1
  /\ removing = <<>> /\ loose = {}
  /\ Cardinality({id \in Range(resp) : byId[id] = NoModel}) <= Cardinality(UnusedCids)
  /\ LET t == TakeResponse(resp)
         gone == {c \in byCid : c \notin t.keep}
         added == Range(t.order) \ byCid
     IN  /\ models' = IF t.order # <<>> THEN t.order ELSE SelectSeq(models, LAMBDA c : c \notin gone)
         /\ byCid' = (byCid \ gone) \union added
         /\ heard' = (heard \ gone) \union added
         /\ byId' = [id \in Ids |-> IF t.index[id] \in gone THEN NoModel ELSE t.index[id]]
         /\ modelId' = t.ids
  /\ response' = <<resp>>
  /\ UNCHANGED <<removing, loose, readded>>

\* reset(): references go first, then the index; the models it is given are added.
ResetModels ==
  /\ ColCall
  /\ heard' = heard \ Range(models)
  /\ models' = <<>> /\ byCid' = {} /\ byId' = [i \in Ids |-> NoModel]
  /\ loose' = {} /\ readded' = {}
  /\ UNCHANGED <<modelId, removing>>

SetResponses == UNION {[1 .. n -> Ids] : n \in 0 .. 3}

CollectionNext ==
  \/ \E c \in Cids :
       \/ \E at \in {0, 9} : AddModel(c, at)
       \/ RemoveModel(c) \/ DestroyModel(c)
       \/ \E id \in Ids : \E silent \in BOOLEAN : SetId(c, id, silent)
       \/ \E id, next \in Ids : SetIdTwice(c, id, next)
  \/ RemoveReference \/ ResetModels
  \/ \E resp \in SetResponses : SetModels(resp)
-----------------------------------------------------------------------------
\* The list and the index hold the same models, each once, and get(id) finds every model by
\* its id and no other way.  (An id that is changed silently, by a change or a remove handler,
\* or on a model the collection does not hear, leaves the index behind.)
IndexIsExact ==
  /\ byCid = Range(models) /\ Cardinality(byCid) = Len(models)
  /\ \A c \in byCid \ loose : modelId[c] # NoId => byId[modelId[c]] = c
  /\ \A id \in Ids : byId[id] # NoModel /\ byId[id] \notin loose =>
       byId[id] \in byCid /\ modelId[byId[id]] = id

\* The collection listens to the events of its models and of no other, once remove() has
\* returned; a model that was added again in the middle of it is the exception.
HearsItsModels == removing = <<>> => heard \ readded = byCid \ readded

\* After set() the collection is what the server sent: every id once, in the order in which
\* they came.
MatchesResponse ==
  response # <<>> =>
    LET ids == [i \in DOMAIN models |-> modelId[models[i]]]
        at(id) == CHOOSE i \in DOMAIN response[1] :
                    response[1][i] = id /\ \A j \in 1 .. (i - 1) : response[1][j] # id
    IN  /\ Range(ids) = Range(response[1]) /\ Cardinality(Range(ids)) = Len(ids)
        /\ \A i, j \in DOMAIN ids : i < j => at(ids[i]) < at(ids[j])

\* A model that is in the collection and in the response is not made anew.
SetKeepsModels ==
  [][response' # response /\ response' # <<>> =>
       \A c \in byCid : modelId[c] \in Range(response'[1]) => c \in byCid']_collectionVars
=============================================================================
