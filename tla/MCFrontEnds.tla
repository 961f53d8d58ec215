----------------------------- MODULE MCFrontEnds -----------------------------
(* Values of the constants of FrontEnds for TLC. *)
EXTENDS FrontEnds

CONSTANTS j1, j2, w1, q1, k1

\* A registration with user-service, scenario C of the dashboard, a submission
\* straight to the API with a key, and cmd/enqueue without a type.
MCWishes == {"register", "later", "keyed", "untyped"}

MCWish(i) ==
  [endpoint |-> CASE i = "register" -> Register
                  [] i = "later"    -> RunScenario("C")
                  [] i = "keyed"    -> FormSubmit("sleep")
                  [] i = "untyped"  -> Enqueued("other"),
   key   |-> IF i = "keyed" THEN k1 ELSE NoKey,
   typed |-> i # "untyped"]
=============================================================================
