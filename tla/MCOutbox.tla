------------------------------ MODULE MCOutbox ------------------------------
(* Values of the constants of OutboxProcessor for TLC. *)
EXTENDS OutboxProcessor

CONSTANTS j1, j2, w1, w2, q1
=============================================================================
