------------------------------- MODULE Handlers -------------------------------
(***************************************************************************)
(* The job system with the payloads that are submitted to it and the       *)
(* handlers that process them: whether an attempt succeeds is decided by   *)
(* the payload, and reports and invoices write a file in two steps,        *)
(* truncation and contents (os.WriteFile), between which other handlers    *)
(* run and processes die.  Jobs are submitted for now: the promoter and    *)
(* the clock have nothing to do here, and are part of FrontEnds.           *)
(***************************************************************************)
EXTENDS JobSystem, Submissions

CONSTANTS
  Offers,    \* what the front ends may submit as each job
  Generated  \* what the generator of demonstration jobs may

ASSUME HandlersAssumption ==
  /\ Offers \in [Jobs -> SUBSET OfferType]
  /\ Generated \in [Jobs -> SUBSET OfferType]

VARIABLES
  payload,  \* the column payload of each job
  file,     \* the output files: "absent", "cut", "mixed" or whole, by a job
  stage,    \* what each goroutine has done to its file
  orphaned  \* whether a process died while it worked on a message that had been
            \* delivered again (an auxiliary variable)

handlerVars == <<payload, file, stage, orphaned>>

allVars == <<vars, handlerVars>>

HandlersTypeOK ==
  /\ payload \in [Jobs -> PayloadType]
  /\ file \in [Paths -> {"absent", "cut", "mixed"} \cup Jobs]
  /\ stage \in [Tasks -> {"none", "open", "written", "broken"}]
  /\ orphaned \in BOOLEAN
  /\ \A t \in Tasks : stage[t] = "open" => task[t] \in {"handle", "killed"}

HandlersInit ==
  /\ Init
  /\ payload = [j \in Jobs |-> Bad("other")]
  /\ file = [p \in Paths |-> "absent"]
  /\ stage = [t \in Tasks |-> "none"]
  /\ orphaned = FALSE

PayloadOf(t) == payload[Msg(t).job]

-----------------------------------------------------------------------------
(* Submissions *)

SubmitOffer(j, o) ==
  /\ o.delay = 0
  /\ Submit(j, BodyOf(o, NoKey))
  /\ payload' = [payload EXCEPT ![j] = o.payload]
  /\ UNCHANGED <<file, stage, orphaned>>

\* The generator's submit creates a row and enqueues, as the API does for a body
\* without key and delay.
SubmitFake(j, o) == SubmitOffer(j, o)

\* One job of a round of the generator; an error leaves the others alone.
RunRound(j) == \E o \in Generated[j] : SubmitFake(j, o)

\* A replay from the dashboard, which repairs an empty image.
ReplayArchived(j, src) ==
  /\ RetryArchivedJob(j, src, DefaultQueue)
  /\ payload' = [payload EXCEPT ![j] = Repaired(payload[src])]
  /\ UNCHANGED <<file, stage, orphaned>>

-----------------------------------------------------------------------------
(* Handle *)

Handling(t) == task[t] = "handle" /\ Msg(t).type = "task"

\* os.WriteFile opens the file and truncates it.  When it cannot, the handler has
\* failed and the file is as it was.
OpenFile(t) ==
  LET p == PayloadOf(t)
      cut == [file EXCEPT ![p.path] = "cut"]
  IN
  /\ Handling(t) /\ stage[t] = "none"
  /\ ~MustFail(p, Msg(t).attempt) /\ Writes(p)
  /\ \/ stage' = [stage EXCEPT ![t] = "open"] /\ file' = cut
     \/ stage' = [stage EXCEPT ![t] = "broken"] /\ UNCHANGED file
  /\ UNCHANGED <<payload, orphaned, vars>>

\* What is in a file when j writes all of its output from the start: another job
\* may have written something longer since j truncated the file.
Overwritten(f, j) == IF f \in {"cut", j} THEN {j} ELSE {j, "mixed"}

\* The contents are written.  An error (a full disk) leaves the file cut short.
WriteFile(t) ==
  LET path == PayloadOf(t).path
      j == Msg(t).job
  IN
  /\ Handling(t) /\ stage[t] = "open"
  /\ \/ /\ \E c \in Overwritten(file[path], j) : file' = [file EXCEPT ![path] = c]
        /\ stage' = [stage EXCEPT ![t] = "written"]
     \/ /\ file' = [file EXCEPT ![path] = "cut"]
        /\ stage' = [stage EXCEPT ![t] = "broken"]
  /\ UNCHANGED <<payload, orphaned, vars>>

\* Mutant: the file is written after the handler has returned.
HandleOk_Deferred(t) ==
  /\ Handling(t)
  /\ ~MustFail(PayloadOf(t), Msg(t).attempt)
  /\ Complete(t)
  /\ UNCHANGED handlerVars

\* Handle returns nil.
HandleOk(t) ==
  /\ Handling(t)
  /\ ~MustFail(PayloadOf(t), Msg(t).attempt)
  /\ Writes(PayloadOf(t)) => stage[t] = "written"
  /\ Complete(t)
  /\ UNCHANGED handlerVars

\* Mutant: a handler is given up while it writes.
HandleError_Abandons(t) ==
  /\ task[t] = "handle"
  /\ \/ MustFail(PayloadOf(t), Msg(t).attempt)
     \/ PayloadOf(t).outside /\ stage[t] = "none"
     \/ stage[t] \in {"open", "broken"}
  /\ Fail(t)
  /\ UNCHANGED handlerVars

\* Handle, or the validation of an e-mail, returns an error.  An image is read
\* before its file is opened.
HandleError(t) ==
  /\ task[t] = "handle"
  /\ \/ MustFail(PayloadOf(t), Msg(t).attempt)
     \/ PayloadOf(t).outside /\ stage[t] = "none"
     \/ stage[t] = "broken"
  /\ Fail(t)
  /\ UNCHANGED handlerVars

\* The process of w ends, whatever its handlers are doing.
Die(w) ==
  /\ Crash(w)
  /\ orphaned' =
       \/ orphaned
       \/ \E t, u \in Tasks : /\ Running(t) /\ member[t[1]] = w
                              /\ u # t /\ u[2] = t[2] /\ task[u] # "none"
  /\ UNCHANGED <<payload, file, stage>>

-----------------------------------------------------------------------------

\* A step of the goroutine t.
HandlerStep(t) ==
  \/ OpenFile(t) \/ WriteFile(t)
  \/ /\ \/ HandleOk(t)
        \/ HandleError(t)
        \/ /\ \/ Admit(t) \/ Load(t) \/ Start(t) \/ CompleteEmail(t)
              \/ RejectUnknown(t) \/ Retry(t) \/ Archive(t) \/ Commit(t)
           /\ UNCHANGED handlerVars
     /\ UNCHANGED <<apiVars, promoVars>>

HandlersNext ==
  \/ /\ \E j \in Jobs :
          \/ \E o \in Offers[j] : SubmitOffer(j, o)
          \/ RunRound(j)
          \/ \E src \in Jobs : ReplayArchived(j, src)
          \/ (RequestStep(j) \/ CancelCheck(j) \/ CancelWrite(j)) /\ UNCHANGED handlerVars
     /\ UNCHANGED <<workerVars, promoVars>>
  \/ /\ \E q \in Queues : PauseQueue(q) \/ UnpauseQueue(q)
     /\ UNCHANGED <<workerVars, promoVars, handlerVars>>
  \/ /\ \/ \E w \in Workers : Die(w) \/ (Join(w) /\ UNCHANGED handlerVars)
        \/ Fetch /\ UNCHANGED handlerVars
     /\ UNCHANGED <<apiVars, promoVars>>
  \/ \E t \in Tasks : HandlerStep(t)

HandlersSpec == HandlersInit /\ [][HandlersNext]_allVars

\* The fairness of JobSystem: requests, goroutines, the consumer loop and the group
\* coordinator go on.
FairHandlersSpec ==
  /\ HandlersSpec
  /\ \A j \in Jobs :
       WF_allVars(RequestStep(j) /\ UNCHANGED <<workerVars, promoVars, handlerVars>>)
  /\ WF_allVars(/\ ~live /\ \E w \in Workers : Join(w)
                /\ UNCHANGED <<apiVars, promoVars, handlerVars>>)
  /\ WF_allVars(Fetch /\ UNCHANGED <<apiVars, promoVars, handlerVars>>)
  /\ \A t \in Tasks : WF_allVars(HandlerStep(t))

-----------------------------------------------------------------------------
(* Properties *)

\* A job may be the only one whose output goes where its own does.
Alone(j) ==
  \A k \in Jobs : k # j => payload[k].path # payload[j].path

\* The file of j is being written, or was when its process was killed.
Unfinished(j) ==
  \E t \in Tasks : stage[t] \in {"open", "broken"} /\ Msg(t).job = j

\* A completed job that shares its out_path with no other has its whole output
\* there, although it was delivered and written several times: a handler returns
\* only when its file is written.  What may cut the file of a completed job is
\* only a second delivery that is killed, or fails, while it writes it again.
CompletedFileIsWhole ==
  \A j \in Jobs :
    jobs[j].status = "completed" /\ Writes(payload[j]) /\ Alone(j) /\ ~Unfinished(j)
      => file[payload[j].path] = j

\* Something went wrong outside in the last permitted attempt of j.
Unlucky(j) ==
  \/ payload[j].outside
  \/ \E t \in Tasks :
       /\ stage[t] = "broken"
       /\ Msg(t).job = j /\ Msg(t).attempt = req[j].maxRetry

\* How a job must end, given its payload and its retries.
Outcomes(j) ==
  IF payload[j].kind = "other" THEN {"failed"}
  ELSE IF MustFail(payload[j], req[j].maxRetry) THEN {"archived"}
  ELSE IF Unlucky(j) THEN {"completed", "archived"}
  ELSE {"completed"}

\* A job is completed or archived only as its payload and its retries deserve: not by
\* an attempt that comes too late or too often, and not before the last permitted one,
\* whatever calls fail, whatever is delivered again, cancelled or dies.
NoUndeservedOutcome ==
  \A j \in Jobs :
    jobs[j].status \in {"completed", "archived"} => jobs[j].status \in Outcomes(j)

\* A message whose goroutine was killed is processed by another one or will be read
\* again: the consumer has not read past it, or will resume before it.
KilledAreRedelivered ==
  \A o \in 1 .. (IF live THEN fetched ELSE committed) :
    (\E g \in Gens : task[<<g, o>>] = "killed") => Processed(o) \/ InProgress(o)

\* No call has failed, no process has died over a message that somebody else has
\* been given or that nobody will be given again (LostMessage.cfg shows one), and no
\* operator has interfered.
Calm ==
  /\ faults = 0
  /\ ~orphaned /\ KilledAreRedelivered
  /\ paused = {} /\ \A j \in Jobs : cancel[j] = "idle"

\* The bound on the topic holds up no retry.
RoomForRetries == \A t \in Tasks : task[t] = "retry" => Len(log) < MaxLog

\* In calm executions the jobs that were accepted and enqueued end in the status that
\* their payloads and their retries deserve and stay there: what the dashboard
\* announces for scenarios A, B, D and E, and what a replay comes to.  Rebalances do
\* not change that, nor does a worker that dies over messages that are all delivered
\* once more.
OutcomeIsDeserved ==
  [](Calm /\ RoomForRetries) =>
    <>[](\A j \in Jobs : req[j].reply = {j} => jobs[j].status \in Outcomes(j))
=============================================================================
