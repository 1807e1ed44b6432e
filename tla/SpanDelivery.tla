---------------------------- MODULE SpanDelivery ----------------------------
(***************************************************************************)
(* What a span receiver promises, without buffers, threads or retries.     *)
(* A span that is ended is offered to the receiver, which refuses it,      *)
(* drops it or takes charge of it.  A span in its charge may reach the     *)
(* daemon any number of times.  It leaves the receiver's charge when the   *)
(* daemon has it ("flushed"), or when the receiver reports that it gave    *)
(* up; it vanishes ("lost") only if the receiver's thread dies.            *)
(* What a span's fate is, is final.                                        *)
(***************************************************************************)
CONSTANT Spans
VARIABLES fate, ingested

Init == fate = [s \in Spans |-> "new"] /\ ingested = {}

InCharge == {s \in Spans : fate[s] = "buffered"}

\* Every span of S now has the fate f.
Becomes(S, f) == fate' = [s \in Spans |-> IF s \in S THEN f ELSE fate[s]]

Offer(s) ==
  /\ fate[s] = "new" /\ Becomes({s}, "held")
  /\ UNCHANGED ingested

Decide(s) ==
  /\ fate[s] = "held"
  /\ \E f \in {"refused", "dropped", "buffered"} : Becomes({s}, f)
  /\ UNCHANGED ingested

\* A batch S goes out, and the daemon ingests the part T of it.
Send(S, T) ==
  /\ ingested' = ingested \cup T
  /\ \/ UNCHANGED fate
     \/ S \subseteq ingested' /\ Becomes(S, "flushed")
     \/ Becomes(S, "gaveUp")

Lose(S) == Becomes(S, "lost") /\ UNCHANGED ingested

Next ==
  \/ \E s \in Spans : Offer(s) \/ Decide(s)
  \/ \E S \in SUBSET InCharge : Lose(S) \/ \E T \in SUBSET S : Send(S, T)

Spec == Init /\ [][Next]_<<fate, ingested>>
=============================================================================
