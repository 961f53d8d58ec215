---------------------------- MODULE MCConsumer ----------------------------
(* Values of the constants of Consumer for TLC. *)
EXTENDS Consumer

CONSTANTS m1, m2, m3, bad, resize, report

Urgency == [m \in Msgs |-> IF m = m1 THEN 5 ELSE 0]
Kinds   == [m \in Msgs |-> IF m = m3 THEN report ELSE resize]
=============================================================================
