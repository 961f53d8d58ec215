-------------------------------- MODULE Rest --------------------------------
(***************************************************************************)
(* POST /jobs as the API server serves it (internal/api/rest.go): it       *)
(* decodes the body, asks the rate limiter about everything and then about *)
(* the queue, calls the backend, and answers.  Requests are served at the  *)
(* same time, and the process may end while it serves them: cmd/api does   *)
(* not shut its server down (http.Server.Shutdown).                        *)
(***************************************************************************)
EXTENDS JobSystem, RateLimiter

VARIABLE http  \* the exchange that would create each job

\* id is the job_id of the answer, a set of at most one job.
Exchanges == [pc: {"none", "received", "global", "serving", "answered", "dead"},
              body: [work: Works, maxRetry: Int], typed: BOOLEAN,
              code: {0, 201, 400, 429, 500}, id: SUBSET Jobs]

RestTypeOK ==
  /\ http \in [Jobs -> Exchanges]
  /\ \A j \in Jobs :
       /\ http[j].pc = "serving" => req[j].pc # "idle"
       /\ http[j].code # 0 <=> http[j].pc = "answered"
       /\ http[j].code = 201 <=> http[j].id # {}

RestInit ==
  http = [j \in Jobs |-> [pc |-> "none", body |-> [work |-> Blank, maxRetry |-> 0],
                          typed |-> TRUE, code |-> 0, id |-> {}]]

AtStage(j, p) == http' = [http EXCEPT ![j].pc = p]

Answer(j, code, id) ==
  http' = [http EXCEPT ![j].pc = "answered", ![j].code = code, ![j].id = id]

\* A request reaches the server.  typed says whether its body has a type.
Arrive(j, body, typed) ==
  /\ http[j].pc = "none"
  /\ http' = [http EXCEPT ![j].pc = "received", ![j].body = body, ![j].typed = typed]

-----------------------------------------------------------------------------

\* A body that is no JSON, or has no type, is refused before anything is counted.
RejectBody(j) ==
  /\ http[j].pc = "received" /\ ~http[j].typed
  /\ Answer(j, 400, {})
  /\ UNCHANGED <<storeVars, apiVars, limiterVars>>

\* Allow, about everything.
AskGlobal(j) ==
  /\ http[j].pc = "received" /\ http[j].typed
  /\ \/ Admits(Everything) /\ AtStage(j, "global")
     \/ Refuses(Everything) /\ Answer(j, 429, {})
  /\ UNCHANGED <<storeVars, apiVars>>

\* Mutant: the answer 429 does not end the request.
AskQueue_NoReturn(j) ==
  /\ http[j].pc = "global"
  /\ \/ Admits(http[j].body.work.queue) /\ AtStage(j, "serving")
     \/ Refuses(http[j].body.work.queue) /\ Answer(j, 429, {})
  /\ Submit(j, http[j].body)

\* Allow, about the queue; a refusal does not return the token of the first
\* question.  The backend is called when both answers are yes.
AskQueue(j) ==
  LET q == http[j].body.work.queue IN
  /\ http[j].pc = "global"
  /\ \/ Admits(q) /\ AtStage(j, "serving") /\ Submit(j, http[j].body)
     \/ Refuses(q) /\ Answer(j, 429, {}) /\ UNCHANGED <<storeVars, apiVars>>

\* Mutant: the error of the backend is not looked at.
Respond_NoErrorCheck(j) ==
  /\ http[j].pc = "serving" /\ req[j].pc \in {"done", "failed"}
  /\ Answer(j, 201, req[j].reply)
  /\ UNCHANGED <<storeVars, apiVars, limiterVars>>

\* Mutant: an error of the backend is not answered.
Respond_Silent(j) ==
  /\ http[j].pc = "serving"
  /\ req[j].pc = "done" /\ Answer(j, 201, req[j].reply)
  /\ UNCHANGED <<storeVars, apiVars, limiterVars>>

\* The backend has returned.  writeBackendError answers 500 to the errors that a
\* submission can end with, a violated unique index among them.
Respond(j) ==
  /\ http[j].pc = "serving"
  /\ \/ req[j].pc = "done" /\ Answer(j, 201, req[j].reply)
     \/ req[j].pc = "failed" /\ Answer(j, 500, {})
  /\ UNCHANGED <<storeVars, apiVars, limiterVars>>

ServeStep(j) ==
  \/ RejectBody(j) \/ AskGlobal(j) \/ AskQueue(j) \/ Respond(j)
  \/ RequestStep(j) /\ UNCHANGED <<limiterVars, http>>

\* The exchanges that the server has not finished.
Open == {j \in Jobs : http[j].pc \in {"received", "global", "serving"}}

\* The API process is stopped and started again: what it was doing is left where
\* it is, and the new limiter is full.
RestartAPI ==
  /\ Open # {}
  /\ Fault
  /\ http' = [j \in Jobs |-> IF j \in Open THEN [http[j] EXCEPT !.pc = "dead"] ELSE http[j]]
  /\ req' = [j \in Jobs |->
               IF req[j].pc \in {"lookup", "create", "dispatch"}
               THEN [req[j] EXCEPT !.pc = "failed"] ELSE req[j]]
  /\ NewLimiter
  /\ UNCHANGED <<jobs, outbox, paused, log, now, cancel>>
=============================================================================
