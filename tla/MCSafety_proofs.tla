-------------------------- MODULE MCSafety_proofs ---------------------------
(***************************************************************************)
(* What the clients and the loader promise, for the specification in which *)
(* the parts run side by side: from the invariants of Tracers_proofs and   *)
(* Storage_proofs.                                                         *)
(***************************************************************************)
EXTENDS MCSafety, Tracers_proofs, Storage_proofs

\* A leaf that names no prover is tried with Zenon and then with the SMT solver.
USE ZenonT(20), SMTT(30)
-----------------------------------------------------------------------------

\* The parts stand still or take a step of their own.
LEMMA StepOfParts ==
  [Next]_allVars =>
    /\ [LoaderNext]_loaderVars
    /\ [ScopesNext]_scopesVars
    /\ [PoolNext]_poolVars
    /\ [LocalFileNext]_localFileVars
    /\ [CScopesNext]_cscopeVars
    /\ [HTableNext]_tableVars
<1> SUFFICES ASSUME [Next]_allVars
             PROVE  /\ [LoaderNext]_loaderVars
                    /\ [ScopesNext]_scopesVars
                    /\ [PoolNext]_poolVars
                    /\ [LocalFileNext]_localFileVars
                    /\ [CScopesNext]_cscopeVars
                    /\ [HTableNext]_tableVars
  OBVIOUS
<1>1. CASE UNCHANGED allVars
  BY <1>1 DEF allVars
<1>2. CASE Next
  <2>1. [LoaderNext]_loaderVars
    BY <1>2, ZenonT(60) DEF Next, Rest
  <2>2. [ScopesNext]_scopesVars
    BY <1>2, ZenonT(60) DEF Next, Rest
  <2>3. [PoolNext]_poolVars
    BY <1>2, ZenonT(60) DEF Next, Rest
  <2>4. [LocalFileNext]_localFileVars
    BY <1>2, ZenonT(60) DEF Next, Rest
  <2>5. [CScopesNext]_cscopeVars
    BY <1>2, ZenonT(60) DEF Next, Rest
  <2>6. [HTableNext]_tableVars
    BY <1>2, ZenonT(60) DEF Next, Rest
  <2> QED
    BY <2>1, <2>2, <2>3, <2>4, <2>5, <2>6
<1> QED
  BY <1>1, <1>2

ClientsAndLoaderInv == LoaderInv /\ ScopesInv /\ PoolInv /\ LocalFileInv /\ CScopesInv /\ HTableInv

\* The invariants of the parts hold in all reachable states.
THEOREM ClientsAndLoaderInvariant == Spec => []ClientsAndLoaderInv
<1>1. Init => ClientsAndLoaderInv
  BY LoaderInitInv, ScopesInitInv, PoolInitInv, LocalFileInitInv, CScopesInitInv, HTableInitInv DEF Init, ClientsAndLoaderInv
<1>2. ClientsAndLoaderInv /\ [Next]_allVars => ClientsAndLoaderInv'
  BY StepOfParts, LoaderStep, ScopesStep, PoolStep, LocalFileStep, CScopesStep, HTableStep DEF ClientsAndLoaderInv
<1> QED
  BY <1>1, <1>2, PTL DEF Spec

\* The loader, for all directories, daemons and numbers of stores: what is served is all of one
\* datastore with its shards in their places, and stored spans are removed by data.store.clear or a
\* power failure only.
THEOREM LoaderSafe == Spec => LoadedStoreIsWhole
<1>1. ClientsAndLoaderInv => ServedStoreIsWhole
  BY LoaderInvProperties DEF ClientsAndLoaderInv
<1> DEFINE Removes == /\ \A d \in LdDirs : storedIn[d] # {} /\ storedIn'[d] = {} =>
                           daemon = "clearing" \/ d \in unsynced
                      /\ daemon \in {"opening", "writing"} =>
                           \A i \in DOMAIN shards : storedIn[shards[i]] = {}
<1>2. ClientsAndLoaderInv /\ [Next]_allVars => [Removes]_loaderVars
  BY StepOfParts, LoaderStepRemoves DEF ClientsAndLoaderInv
<1> QED
  BY <1>1, <1>2, ClientsAndLoaderInvariant, PTL DEF Spec, LoadedStoreIsWhole, OnlyClearingRemoves

\* The Java client, for all threads, tracers, receiver classes and spans: scopes are nested and
\* counted exactly, a receiver of the pool is closed once, by the last tracer or by who took it
\* out, and stays while a tracer uses it, and the file receiver keeps what it was given.
THEOREM TracersSafe == Spec => TracersAreSound
<1>1. ClientsAndLoaderInv => /\ DepthIsExact /\ ScopesAreNested
                             /\ ReceiversCloseOnce /\ LastTracerClosesReceivers
                             /\ FileSpansAreKept
  BY ScopesInvProperties, PoolInvProperties, LocalFileInvProperties
     DEF ClientsAndLoaderInv
<1> DEFINE Stays == \A r \in Receivers :
                      r \in Range(curReceivers) /\ r \notin Range(curReceivers') =>
                        \/ receivers'[r].removed
                        \/ hookRan' # hookRan
                        \/ \A t \in PoolTracers : builds'[t].pc \notin {"loading", "ready"}
<1>2. ClientsAndLoaderInv /\ ClientsAndLoaderInv' /\ [Next]_allVars => [Stays]_poolVars
  BY StepOfParts, PoolStepStays DEF ClientsAndLoaderInv
<1> QED
  BY <1>1, <1>2, ClientsAndLoaderInvariant, PTL DEF Spec, TracersAreSound, UsedReceiversStay

\* The C client, for all threads, depths and spans and for every hash function: a span has one
\* owner and the parent of its scope, and the table is a function in which every search stops.
THEOREM CClientSafe == Spec => []CClientIsSound
<1>1. ClientsAndLoaderInv => CClientIsSound
  BY CScopesInvProperties, HTableInvProperties DEF ClientsAndLoaderInv, CClientIsSound
<1> QED
  BY <1>1, ClientsAndLoaderInvariant, PTL
=============================================================================
