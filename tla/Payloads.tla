------------------------------- MODULE Payloads -------------------------------
(***************************************************************************)
(* What the jobs of this system carry: the payloads that the front ends    *)
(* (cmd/dashboard, cmd/user-service, cmd/billing-service, cmd/enqueue) and *)
(* the generator of demonstration jobs (internal/scheduler) submit, and    *)
(* what the handlers (internal/jobs) make of them.  A payload is reduced   *)
(* to what decides the outcome of its handler and where its output goes.   *)
(***************************************************************************)
EXTENDS Integers

\* The handlers in the registry.
Registered == {"hello", "email", "image", "invoice", "report", "sleep"}

\* "other" stands for every type that has no handler.
Kinds == Registered \cup {"other"}

NoPath == "none"

Paths == {"sample-report.csv", "delayed-report.csv", "billing-report.csv",
          "invoice.txt", NoPath}

\* good: the handler accepts it.  empty: it is the text {}.  outside: the handler
\* reads an image from a URL or a local file, which may fail.  until: the number
\* of attempts that _demo_fail_until_attempt has fail.  path: its out_path.
PayloadType == [kind: Kinds, good: BOOLEAN, empty: BOOLEAN, outside: BOOLEAN,
                until: Nat, path: Paths]

Good(kind) == [kind |-> kind, good |-> TRUE, empty |-> FALSE, outside |-> FALSE,
               until |-> 0, path |-> NoPath]

Bad(kind) == [Good(kind) EXCEPT !.good = FALSE]

\* Reports and sleep have a default for everything, and hello looks at nothing; an
\* e-mail needs a recipient, an image a source and an invoice a template.
Empty(kind) ==
  [Good(kind) EXCEPT !.good = kind \in {"report", "sleep", "hello"}, !.empty = TRUE]

Into(path, p) == [p EXCEPT !.path = path]

-----------------------------------------------------------------------------
(* What is submitted: a payload, max_retry and the delay of run_at_unix_sec *)

Offer(p, maxRetry, delay) == [payload |-> p, maxRetry |-> maxRetry, delay |-> delay]

\* getDefaultPayload of the dashboard.
DefaultPayload(kind) ==
  CASE kind = "report" -> Into("sample-report.csv", Good(kind))
    [] kind = "other"  -> Empty(kind)
    [] OTHER           -> Good(kind)

\* The five scenarios of the dashboard.
Scenario(id) ==
  CASE id = "A" -> Offer(DefaultPayload("email"), 0, 0)
    [] id = "B" -> Offer([Good("invoice") EXCEPT !.until = 1], 2, 0)
    [] id = "C" -> Offer(Into("delayed-report.csv", Good("report")), 0, 60)
    [] id = "D" -> Offer(Empty("image"), 2, 0)
    [] id = "E" -> Offer(Good("sleep"), 0, 0)

\* The status in which the dashboard says each of them ends (scenarioSteps).
ScenarioEndsIn(id) == IF id = "D" THEN "archived" ELSE "completed"

\* A handler of a front end: what it submits, and whether it reports success when
\* it cannot read the job_id of an answer 201.
Strict(offer) == [offer |-> offer, lenient |-> FALSE]

Lenient(p) == [offer |-> Offer(p, 0, 0), lenient |-> TRUE]

\* user-service: /register and /password-reset.
Register      == Lenient(Good("email"))
PasswordReset == Lenient(Good("email"))

\* billing-service: /invoice, /report and /invoice-ready.
MakeInvoice   == Lenient(Into("invoice.txt", Good("invoice")))
BillingReport == Lenient(Into("billing-report.csv", Good("report")))
InvoiceReady  == Lenient(Good("email"))

\* dashboard: /api/submit and /api/scenario.
FormSubmit(kind) == Strict(Offer(DefaultPayload(kind), 0, 0))
RunScenario(id)  == Strict(Scenario(id))

\* cmd/enqueue, which sends its payload as a JSON string, whatever the type.
Enqueued(kind) == Strict(Offer(IF kind = "hello" THEN Good(kind) ELSE Bad(kind), 0, 0))

\* The payloads that the generator may draw for a kind.  An image has a demo URL,
\* or a local file, or neither, which is not the text {}.
FakePayloads(kind) ==
  IF kind = "image" THEN {Good(kind), [Good(kind) EXCEPT !.outside = TRUE], Bad(kind)}
  ELSE {Good(kind)}

\* GenerateFake.
Fake(kind) == {Offer(p, 2, 0) : p \in FakePayloads(kind)}

\* JobTypes of the generator.
FakeKinds == {"email", "image", "invoice", "report"}

-----------------------------------------------------------------------------
(* What becomes of it *)

\* RetryArchivedJob: the payload of the replay.
Repaired(p) == IF p = Empty("image") THEN Good("image") ELSE p

\* Handle returns an error for this attempt (counted from 0), whatever happens.  Only
\* the invoice handler looks at _demo_fail_until_attempt.
MustFail(p, attempt) == ~p.good \/ (p.kind = "invoice" /\ attempt < p.until)

\* The other handlers know no out_path.
Writes(p) == p.kind \in {"image", "invoice", "report"} /\ p.path # NoPath
=============================================================================
