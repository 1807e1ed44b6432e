----------------------- MODULE MCHTracedSpanReceiver -----------------------
(* Small instances of HTracedSpanReceiver, with buffers of 4 bytes: s1, s2 and s4
   fit two at a time, s3 only alone, big not at all. *)
EXTENDS HTracedSpanReceiver

CONSTANTS s1, s2, s3, s4, big

SmallLen == [s \in Spans |-> IF s = big THEN 5 ELSE IF s = s3 THEN 3 ELSE 2]
=============================================================================
