---------------------------- MODULE MCRecurring ----------------------------
(* Values of the constants of Recurring for TLC. *)
EXTENDS Recurring

CONSTANTS hourly, daily, q1

Periods == [s \in Schedules |-> IF s = hourly THEN 2 ELSE 4]
=============================================================================
