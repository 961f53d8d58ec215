------------------------------ MODULE MCHandlers ------------------------------
(* Values of the constants of Handlers for TLC. *)
EXTENDS Handlers

CONSTANTS j1, j2, w1, w2, q1

\* One retry instead of two keeps the number of redelivered messages small.
OneRetry(o) == IF o.maxRetry > 1 THEN [o EXCEPT !.maxRetry = 1] ELSE o

\* The scenarios can end as the dashboard announces (scenarioSteps).
ASSUME ScenariosAsAnnounced ==
  \A id \in {"A", "B", "C", "D", "E"} :
    MustFail(Scenario(id).payload, Scenario(id).maxRetry)
      <=> ScenarioEndsIn(id) = "archived"

\* Of what the generator draws, only images can fail, and for want of a source.
ASSUME FakesAreUnderstood ==
  \A kind \in FakeKinds : \A o \in Fake(kind) :
    /\ o \in OfferType
    /\ MustFail(o.payload, o.maxRetry) => o.payload = Bad("image")

\* One job takes the ways through the handlers, with and without a file and with a
\* second attempt, while the other is simple.
Pair ==
  [j \in Jobs |->
     IF j = j1 THEN {OneRetry(o) : o \in {Scenario("A"), Scenario("B"), BillingReport.offer}}
     ELSE {Scenario("E")}]

\* Images of the generator without a source; its other jobs are like scenarios A and E.
FakeImages ==
  [j \in Jobs |->
     IF j = j1 THEN {OneRetry(o) : o \in {f \in Fake("image") : ~f.payload.good}} ELSE {}]

\* Those that the replay of another job may concern.
Archivable ==
  [j \in Jobs |->
     {OneRetry(o) :
        o \in {Scenario("A"), Scenario("B"), Scenario("D"), BillingReport.offer,
               Enqueued("email").offer, FormSubmit("other").offer}}]

NothingGenerated == [j \in Jobs |-> {}]
=============================================================================
