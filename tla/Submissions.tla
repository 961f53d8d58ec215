---------------------------- MODULE Submissions ----------------------------
(***************************************************************************)
(* The body of POST /jobs for what the front ends submit.                  *)
(***************************************************************************)
EXTENDS JobStore, Payloads

CONSTANT Second   \* bound: a delay of run_at is this many seconds, whatever it is

ASSUME SecondAssumption == Second \in Nat \ {0}

OfferType == [payload: PayloadType, maxRetry: Nat, delay: Nat]

EndpointType == [offer: OfferType, lenient: BOOLEAN]

\* The type of a payload as JobSystem has it.
TypeOf(p) ==
  IF p.kind = "email" THEN "email" ELSE IF p.kind = "other" THEN "unknown" ELSE "task"

\* The front ends name no queue.
BodyOf(o, key) ==
  [work |-> [type  |-> TypeOf(o.payload), valid |-> o.payload.good,
             queue |-> DefaultQueue, key |-> key,
             runAt |-> IF o.delay = 0 THEN 0 ELSE now + Second],
   maxRetry |-> o.maxRetry]
=============================================================================
