------------------------------- MODULE Loader -------------------------------
(***************************************************************************)
(* Loading the datastore: at every start the daemon is configured with a   *)
(* sequence of shard directories, perhaps others or in another order than  *)
(* before.  It serves a datastore it finds there, makes a new one when all *)
(* the directories are empty, and refuses to start otherwise.              *)
(***************************************************************************)
EXTENDS Integers, Sequences, FiniteSets, Functions

CONSTANTS LdDirs,
          MaxDaemonIds    \* bound: datastores ever made

ASSUME LoaderAssumption == IsFiniteSet(LdDirs)

\* What a directory can hold but a shard with its info: nothing, or a leveldb instance without info.
Empty == [DaemonId |-> 0, TotalShards |-> 0, ShardIndex |-> 0]
NoInfo == [Empty EXCEPT !.ShardIndex = 1]

VARIABLES disk,           \* by directory: Empty, NoInfo or the shard info
          unsynced,       \* directories whose shard info a power failure may take
          daemon,         \* what the daemon does
          shards,         \* dld.shards: the directories of the shards
          done,           \* how many shards the present loop has done
          daemonIds,      \* DaemonIds given so far
          storedIn        \* ghost: by directory, the <<DaemonId, shard index>> spans were stored under

loaderVars == <<disk, unsynced, daemon, shards, done, daemonIds, storedIn>>

Orders == UNION {{q \in [1 .. n -> LdDirs] : IsInjective(q)} : n \in 1 .. Cardinality(LdDirs)}

LoaderInit ==
  /\ disk = [d \in LdDirs |-> Empty] /\ storedIn = [d \in LdDirs |-> {}]
  /\ unsynced = {} /\ daemon = "down" /\ shards = <<>> /\ done = 0 /\ daemonIds = 0

\* NewDataStoreLoader; ClearStored is configured.
NewDataStoreLoader(dirs, ClearStored) ==
  /\ daemon = "down"
  /\ daemon' = IF ClearStored THEN "clearing" ELSE "loading"
  /\ shards' = dirs /\ done' = 0
  /\ UNCHANGED <<disk, unsynced, daemonIds, storedIn>>

\* One directory after the other is removed.
clearStored ==
  /\ daemon = "clearing"
  /\ LET d == shards[done + 1] IN
       /\ disk' = [disk EXCEPT ![d] = Empty]
       /\ storedIn' = [storedIn EXCEPT ![d] = {}]
       /\ unsynced' = unsynced \ {d}
  /\ daemon' = IF done + 1 = Len(shards) THEN "loading" ELSE "clearing"
  /\ done' = (done + 1) % Len(shards)
  /\ UNCHANGED <<shards, daemonIds>>

Infos == {disk[shards[i]] : i \in DOMAIN shards}

\* Every shard has its info, and the infos are of one datastore of as many shards, each with
\* an index of its own.
InfosAgree ==
  /\ Infos \intersect {Empty, NoInfo} = {}
  /\ \A i, j \in DOMAIN shards : LET a == disk[shards[i]]
                                     b == disk[shards[j]]
                                 IN  /\ a.DaemonId = b.DaemonId /\ a.TotalShards = b.TotalShards
                                     /\ i # j => a.ShardIndex # b.ShardIndex
                                     /\ i # 1 => a.ShardIndex <= a.TotalShards
  /\ \A a \in Infos : a.TotalShards = Len(shards)

\* Mutant: the shards stay in the order they were configured in.
notReordered == shards

\* The shards in the order of their ShardIndex (counted from 1 here).
reorderedShards == [k \in DOMAIN shards |-> CHOOSE d \in Range(shards) : disk[d].ShardIndex = k]

\* LoadShards and VerifyShardInfos.  Opening a leveldb instance makes what was written durable.
LoadAndVerify ==
  /\ daemon = "loading"
  /\ unsynced' = unsynced \ {shards[i] : i \in DOMAIN shards}
  /\ \/ /\ InfosAgree
        /\ shards' = reorderedShards /\ daemon' = "serving" /\ UNCHANGED daemonIds
     \/ /\ Infos = {Empty} /\ daemonIds < MaxDaemonIds
        /\ daemon' = "opening" /\ daemonIds' = daemonIds + 1 /\ UNCHANGED shards
     \/ /\ ~InfosAgree /\ Infos # {Empty}
        /\ daemon' = "down" /\ shards' = <<>> /\ UNCHANGED daemonIds
  /\ UNCHANGED <<disk, done, storedIn>>

\* Load, for a new datastore: each instance is created, then its info is written without a sync.
createShard ==
  /\ daemon = "opening"
  /\ disk' = [disk EXCEPT ![shards[done + 1]] = NoInfo]
  /\ daemon' = "writing"
  /\ UNCHANGED <<unsynced, shards, done, daemonIds, storedIn>>

writeShardInfo ==
  /\ daemon = "writing"
  /\ disk' = [disk EXCEPT ![shards[done + 1]] =
                [DaemonId |-> daemonIds, TotalShards |-> Len(shards), ShardIndex |-> done + 1]]
  /\ unsynced' = unsynced \union {shards[done + 1]}
  /\ daemon' = IF done + 1 = Len(shards) THEN "serving" ELSE "opening"
  /\ done' = (done + 1) % Len(shards)
  /\ UNCHANGED <<shards, daemonIds, storedIn>>

\* Spans whose ids hash to the i-th shard are stored there.
StoreSpans(i) ==
  /\ daemon = "serving"
  /\ storedIn' = [storedIn EXCEPT ![shards[i]] = @ \union {<<disk[shards[1]].DaemonId, i>>}]
  /\ UNCHANGED <<disk, unsynced, daemon, shards, done, daemonIds>>

\* The daemon is stopped, fails a step with an I/O error or is killed.
DaemonEnds ==
  /\ daemon # "down"
  /\ daemon' = "down" /\ shards' = <<>> /\ done' = 0
  /\ UNCHANGED <<disk, unsynced, daemonIds, storedIn>>

\* Power fails: an info that is not durable may be lost, with all that was written after it.
PowerFails ==
  /\ unsynced # {}
  /\ daemon' = "down" /\ shards' = <<>> /\ done' = 0 /\ unsynced' = {}
  /\ \E lost \in SUBSET unsynced :
       /\ disk' = [d \in LdDirs |-> IF d \in lost THEN NoInfo ELSE disk[d]]
       /\ storedIn' = [d \in LdDirs |-> IF d \in lost THEN {} ELSE storedIn[d]]
  /\ UNCHANGED daemonIds

LoaderNext ==
  \/ \E dirs \in Orders, c \in BOOLEAN : NewDataStoreLoader(dirs, c)
  \/ clearStored \/ LoadAndVerify \/ createShard \/ writeShardInfo
  \/ \E i \in DOMAIN shards : StoreSpans(i)
  \/ DaemonEnds \/ PowerFails
-----------------------------------------------------------------------------
\* Whatever directories the daemon was configured with, in whatever order, and wherever it was
\* killed before: it serves all the shards of one datastore, and looks for a span in the
\* shard where spans of that hash have been stored since the datastore was made.
ServedStoreIsWhole ==
  daemon = "serving" =>
    LET id == disk[shards[1]].DaemonId IN
      /\ \A i \in DOMAIN shards : storedIn[shards[i]] \subseteq {<<id, i>>}
      /\ {d \in LdDirs : \E p \in storedIn[d] : p[1] = id} \subseteq Range(shards)

\* Stored spans are only removed when data.store.clear is set, or with a power failure: a new
\* datastore is never made in a directory of an old one.
OnlyClearingRemoves ==
  [][/\ \A d \in LdDirs : storedIn[d] # {} /\ storedIn'[d] = {} => daemon = "clearing" \/ d \in unsynced
     /\ daemon \in {"opening", "writing"} => \A i \in DOMAIN shards : storedIn[shards[i]] = {}]_loaderVars
=============================================================================
