---------------------------- MODULE MCDataStore ----------------------------
(***************************************************************************)
(* Instances of DataStore for TLC.                                         *)
(***************************************************************************)
EXTENDS DataStore, TLC

CONSTANTS r1, r2

IdHash == [id \in Ids |-> id]

At(id, begin) == [id |-> id, begin |-> begin]

\* r1 fills a batch of shard 1 and holds an invalid span; r2 sends span 1 again, as a
\* client does that lost the answer, and span 3 with another begin time.
Overlapping == (r1 :> <<At(1, 1), At(3, 2), At(0, 1), At(5, 3)>>)
            @@ (r2 :> <<At(1, 1), At(2, 2), At(3, 3)>>)

\* Both requests fill a batch of shard 1.
Colliding == (r1 :> <<At(1, 1), At(3, 2)>>) @@ (r2 :> <<At(3, 2), At(1, 1), At(2, 1)>>)

\* r2 sends span 1 again with a later begin time.
Rewriting == (r1 :> <<At(1, 1), At(3, 3)>>) @@ (r2 :> <<At(1, 2)>>)
=============================================================================
