------------------------------ MODULE FrontEnds ------------------------------
(***************************************************************************)
(* The programs that submit jobs over HTTP (cmd/dashboard, cmd/user-       *)
(* service, cmd/billing-service, cmd/enqueue) and the people who use them, *)
(* in front of the API server.  Every try of a wish is one exchange, named *)
(* by the job id that it would create.  Requests and answers get lost, and *)
(* whoever is told of an error may try again.                              *)
(***************************************************************************)
EXTENDS Rest, Submissions

CONSTANTS
  Wishes,     \* what the users want: a set of names
  Wish(_)     \* for each the endpoint they use, and what the body says besides

ASSUME FrontEndsAssumption ==
  \A i \in Wishes :
    Wish(i) \in [endpoint: EndpointType, key: Keys \cup {NoKey}, typed: BOOLEAN]

VARIABLE call  \* what the user knows of each try: [wish, view, id]

frontVars == <<vars, limiterVars, http, call>>

Calls == [wish: Wishes \cup {"none"}, view: {"none", "waiting", "success", "error"},
          id: SUBSET Jobs]

FrontEndsTypeOK == /\ TypeOK /\ LimiterTypeOK /\ RestTypeOK
                   /\ call \in [Jobs -> Calls]

FrontEndsInit ==
  /\ Init /\ LimiterInit /\ RestInit
  /\ call = [j \in Jobs |-> [wish |-> "none", view |-> "none", id |-> {}]]

See(j, view, id) == call' = [call EXCEPT ![j].view = view, ![j].id = id]

Tries(i) == {j \in Jobs : call[j].wish = i}

Unused == {j \in Jobs : call[j].view = "none"}

-----------------------------------------------------------------------------

\* The user asks for i, for the first time or after an error, and the front end
\* posts the job.  (Ids are arbitrary, so any unused one will do; a delayed
\* job is asked for only while the bound on the clock lets it become due.)  When the
\* request does not get through, the front end reports an error.
Ask(i) ==
  LET j == CHOOSE k \in Unused : TRUE
      body == BodyOf(Wish(i).endpoint.offer, Wish(i).key)
  IN
  /\ Unused # {}
  /\ body.work.runAt <= MaxTime
  /\ \A k \in Tries(i) : call[k].view = "error"
  /\ \/ /\ Arrive(j, body, Wish(i).typed)
        /\ call' = [call EXCEPT ![j].wish = i, ![j].view = "waiting"]
        /\ UNCHANGED storeVars
     \/ /\ Fault
        /\ call' = [call EXCEPT ![j].wish = i, ![j].view = "error"]
        /\ UNCHANGED <<http, jobs, outbox, paused, log, now>>
  /\ UNCHANGED <<apiVars, limiterVars>>

\* Mutant: only 200 counts as a success.
Deliver_OnlyOK(j) ==
  /\ call[j].view = "waiting" /\ http[j].pc = "answered"
  /\ See(j, "error", {})
  /\ UNCHANGED <<storeVars, apiVars, limiterVars, http>>

\* The answer reaches the front end, which accepts 201.  An answer that arrives
\* damaged is an error for the dashboard and for cmd/enqueue; user-service and
\* billing-service ignore that and report an empty job_id.
Deliver(j) ==
  /\ call[j].view = "waiting" /\ http[j].pc = "answered"
  /\ \/ http[j].code = 201 /\ See(j, "success", http[j].id) /\ UNCHANGED storeVars
     \/ http[j].code # 201 /\ See(j, "error", {}) /\ UNCHANGED storeVars
     \/ /\ http[j].code = 201 /\ Fault
        /\ See(j, IF Wish(call[j].wish).endpoint.lenient THEN "success" ELSE "error", {})
        /\ UNCHANGED <<jobs, outbox, paused, log, now>>
  /\ UNCHANGED <<apiVars, limiterVars, http>>

\* The connection breaks, whatever the server is doing for it.
LoseContact(j) ==
  /\ call[j].view = "waiting"
  /\ \/ http[j].pc = "dead" /\ UNCHANGED faults
     \/ http[j].pc # "dead" /\ Fault
  /\ See(j, "error", {})
  /\ UNCHANGED <<jobs, outbox, paused, log, now, apiVars, limiterVars, http>>

-----------------------------------------------------------------------------

CallStep(j) ==
  \/ ServeStep(j) /\ UNCHANGED call
  \/ Deliver(j)
  \/ http[j].pc = "dead" /\ LoseContact(j)

FrontEndsNext ==
  \/ Tick /\ UNCHANGED <<apiVars, workerVars, promoVars, limiterVars, http, call>>
  \/ /\ \/ \E i \in Wishes : Ask(i)
        \/ \E j \in Jobs : CallStep(j) \/ LoseContact(j)
        \/ RestartAPI /\ UNCHANGED call
     /\ UNCHANGED <<workerVars, promoVars>>
  \/ PromoterNext /\ UNCHANGED <<apiVars, workerVars, limiterVars, http, call>>

FrontEndsSpec == FrontEndsInit /\ [][FrontEndsNext]_frontVars

\* The server and the front ends go on with what they have begun, the promoter's
\* ticker fires, and time passes.  That anybody asks, or asks again, is left to
\* chance.
FairFrontEndsSpec ==
  /\ FrontEndsSpec
  /\ WF_frontVars(Tick /\ UNCHANGED <<apiVars, workerVars, promoVars, limiterVars, http, call>>)
  /\ \A j \in Jobs : WF_frontVars(CallStep(j) /\ UNCHANGED <<workerVars, promoVars>>)
  /\ WF_frontVars(PromoterStep /\ UNCHANGED <<apiVars, workerVars, limiterVars, http, call>>)

-----------------------------------------------------------------------------
(* Properties *)

\* A user who is told of success has a job of the type that was wanted, under the
\* id that was shown if one was, and when it is the job of this very try it is on
\* the topic or waits for the promoter.  A try that was refused, for its body or its
\* rate, has left no job and no message.
AnswersAreTrue ==
  \A j \in Jobs :
    /\ call[j].view = "success" =>
         \E k \in req[j].reply :
           /\ call[j].id \subseteq {k}
           /\ Exists(k) /\ jobs[k].work.type = TypeOf(Wish(call[j].wish).endpoint.offer.payload)
           /\ k = j => MessagesOf(j) # {} \/ jobs[j].status = "scheduled"
    /\ http[j].code \in {400, 429} => ~Exists(j) /\ MessagesOf(j) = {}

\* A wish that is tried again after an error has at most one job more than
\* failures: an answer that was lost, a server that was stopped, an Enqueue that
\* failed after the row was written.  With an idempotency key it has one at most.
DuplicatesAreBounded ==
  \A i \in Wishes :
    Cardinality({j \in Tries(i) : Exists(j)})
      <= IF Wish(i).key = NoKey THEN 1 + faults ELSE 1

\* Whoever asked is told of success or of an error, whatever is lost or stopped.
EveryCallEnds == \A j \in Jobs : call[j].view = "waiting" ~> call[j].view # "waiting"
=============================================================================
