--------------------------- MODULE HandlersProofs ---------------------------
(***************************************************************************)
(* Proofs about Handlers, for every value of its constants: the system     *)
(* keeps its promises with the handlers in it, a handler that has begun a  *)
(* file does not go on before it is through with it, the file of a         *)
(* completed job is whole, and jobs end as payload and retries deserve.    *)
(***************************************************************************)
EXTENDS Handlers, JobSystemPromiseProofs

-----------------------------------------------------------------------------
(* Handlers inside the system *)

HandlerTypes ==
  /\ payload \in [Jobs -> PayloadType]
  /\ file \in [Paths -> {"absent", "cut", "mixed"} \cup Jobs]
  /\ stage \in [Tasks -> {"none", "open", "written", "broken"}]
  /\ orphaned \in BOOLEAN

LEMMA OfferBody ==
  ASSUME now \in Nat, NEW o \in OfferType
  PROVE  BodyOf(o, NoKey) \in Bodies
<1>1. o.payload.good \in BOOLEAN /\ o.maxRetry \in Nat /\ o.delay \in Nat
  BY DEF OfferType, PayloadType
<1>2. TypeOf(o.payload) \in JobTypes
  BY DEF TypeOf, JobTypes
<1>3. (IF o.delay = 0 THEN 0 ELSE now + Second) \in Nat
  BY <1>1, SecondAssumption
<1> QED
  BY <1>1, <1>2, <1>3, StoreAssumption DEF BodyOf, Bodies, Works

\* What a step of the composition is: a submission, a replay, a step of a handler
\* with its file, or a step of the system that leaves payloads and files alone.
Posts(j) ==
  /\ \E o \in OfferType : SubmitOffer(j, o)
  /\ UNCHANGED <<workerVars, promoVars>>

Repeats(j, src) == ReplayArchived(j, src) /\ UNCHANGED <<workerVars, promoVars>>

\* How a goroutine leaves its handler.
Leaves(t) ==
  \/ task'[t] = "killed"
  \/ HandleOk(t) \/ HandleError(t) \/ CompleteEmail(t) \/ RejectUnknown(t)

Elsewhere ==
  /\ [Next]_vars
  /\ UNCHANGED <<payload, file, stage>>
  /\ orphaned' \in BOOLEAN
  /\ \A j \in Jobs : req[j].pc = "idle" => req'[j].pc = "idle"
  /\ \A t \in Tasks : task[t] = "handle" => task'[t] = "handle" \/ Leaves(t)

LEMMA HandlersStep ==
  ASSUME Typed, Ahead, HandlerTypes, [HandlersNext]_allVars
  PROVE  \/ \E j \in Jobs : Posts(j)
         \/ \E j \in Jobs, src \in Jobs : Repeats(j, src)
         \/ \E t \in Tasks : OpenFile(t) \/ WriteFile(t)
         \/ Elsewhere
<1>0. /\ orphaned \in BOOLEAN /\ req \in [Jobs -> Requests]
      /\ task \in [Tasks -> TaskStates]
  BY DEF HandlerTypes, Typed, TypeOK, APITypeOK, WorkerTypeOK
<1>1. ASSUME NEW j \in Jobs,
             (\E o \in Offers[j] : SubmitOffer(j, o)) \/ RunRound(j),
             UNCHANGED <<workerVars, promoVars>>
      PROVE  Posts(j)
  BY <1>1, HandlersAssumption DEF RunRound, SubmitFake, Posts
<1>2. ASSUME NEW j \in Jobs, NEW src \in Jobs, ReplayArchived(j, src),
             UNCHANGED <<workerVars, promoVars>>
      PROVE  Repeats(j, src)
  BY <1>2 DEF Repeats
<1>3. ASSUME NEW j \in Jobs, RequestStep(j) \/ CancelCheck(j) \/ CancelWrite(j),
             UNCHANGED handlerVars, UNCHANGED <<workerVars, promoVars>>
      PROVE  Elsewhere
  <2>1. \A k \in Jobs : req[k].pc = "idle" => req'[k].pc = "idle"
    BY <1>0, <1>3
    DEF RequestStep, Lookup, CreateRow, Dispatch, Goto, Reply, CancelCheck,
        CancelWrite, Requests
  <2> QED
    BY <1>0, <1>3, <2>1
    DEF RequestStep, Elsewhere, Next, APINext, handlerVars, workerVars
<1>4. ASSUME NEW q \in Queues, PauseQueue(q) \/ UnpauseQueue(q),
             UNCHANGED <<workerVars, promoVars, handlerVars>>
      PROVE  Elsewhere
  <2>1. UNCHANGED req
    BY <1>4 DEF PauseQueue, UnpauseQueue, SetQueuePaused, apiVars
  <2> QED
    BY <1>0, <1>4, <2>1 DEF Elsewhere, Next, APINext, handlerVars, workerVars
<1>5. ASSUME NEW w \in Workers, Die(w) \/ (Join(w) /\ UNCHANGED handlerVars),
             UNCHANGED <<apiVars, promoVars>>
      PROVE  Elsewhere
  <2>1. orphaned' \in BOOLEAN /\ UNCHANGED <<payload, file, stage>>
    BY <1>0, <1>5 DEF Die, handlerVars
  <2>2. \A t \in Tasks : task[t] = "handle" => task'[t] \in {"handle", "killed"}
    BY <1>0, <1>5 DEF Die, Crash, Join
  <2> QED
    BY <1>5, <2>1, <2>2 DEF Die, Elsewhere, Leaves, Next, WorkerNext, apiVars
<1>6. ASSUME Fetch, UNCHANGED handlerVars, UNCHANGED <<apiVars, promoVars>>
      PROVE  Elsewhere
  <2>1. \A t \in Tasks : task[t] = "handle" => task'[t] = "handle"
    BY <1>0, <1>6, FetchIsNew DEF Fetch
  <2> QED
    BY <1>0, <1>6, <2>1 DEF Elsewhere, Next, WorkerNext, handlerVars, apiVars
<1>7. ASSUME NEW t \in Tasks, HandlerStep(t)
      PROVE  OpenFile(t) \/ WriteFile(t) \/ Elsewhere
  <2>1. ASSUME TaskStep(t), UNCHANGED handlerVars, UNCHANGED <<apiVars, promoVars>>,
               task[t] = "handle" => Leaves(t)
        PROVE  Elsewhere
    <3>1. \A u \in Tasks \ {t} : task'[u] = task[u]
      BY <1>0, <2>1
      DEF TaskStep, Admit, Load, Start, CompleteEmail, RejectUnknown, Complete,
          Fail, Retry, Archive, Commit, Go
    <3> QED
      BY <1>0, <2>1, <3>1 DEF Elsewhere, Next, WorkerNext, handlerVars, apiVars
  <2>2. CASE HandleOk(t) /\ UNCHANGED <<apiVars, promoVars>>
    BY <2>1, <2>2 DEF HandleOk, TaskStep, Leaves
  <2>3. CASE HandleError(t) /\ UNCHANGED <<apiVars, promoVars>>
    BY <2>1, <2>3 DEF HandleError, TaskStep, Leaves
  <2>4. CASE /\ CompleteEmail(t) \/ RejectUnknown(t)
             /\ UNCHANGED handlerVars /\ UNCHANGED <<apiVars, promoVars>>
    BY <2>1, <2>4 DEF TaskStep, Leaves
  <2>5. CASE /\ \/ Admit(t) \/ Load(t) \/ Start(t) \/ Retry(t) \/ Archive(t)
                \/ Commit(t)
             /\ UNCHANGED handlerVars /\ UNCHANGED <<apiVars, promoVars>>
    BY <2>1, <2>5
    DEF TaskStep, Admit, Load, Start, Retry, Archive, Commit
  <2> QED
    BY <1>7, <2>2, <2>3, <2>4, <2>5 DEF HandlerStep
<1>8. CASE UNCHANGED allVars
  BY <1>0, <1>8 DEF allVars, handlerVars, Elsewhere, vars, apiVars, workerVars
<1> QED
  BY <1>1, <1>2, <1>3, <1>4, <1>5, <1>6, <1>7, <1>8 DEF HandlersNext

\* So the system takes a step of its own, or is asked from outside, or rests.
LEMMA HandlersAreOpen ==
  ASSUME Typed, Ahead, HandlerTypes, [HandlersNext]_allVars
  PROVE  [OpenNext]_vars
<1>1. now \in Nat
  BY DEF Typed, TypeOK, StoreTypeOK
<1>2. ASSUME NEW j \in Jobs, Posts(j)
      PROVE  Outside
  <2>1. PICK o \in OfferType : SubmitOffer(j, o)
    BY <1>2 DEF Posts
  <2>2. BodyOf(o, NoKey) \in Bodies
    BY <1>1, OfferBody
  <2> QED
    BY <1>2, <2>1, <2>2 DEF Posts, SubmitOffer, Outside
<1>3. ASSUME NEW j \in Jobs, NEW src \in Jobs, Repeats(j, src)
      PROVE  Next
  <2>1. DefaultQueue \in Queues
    BY StoreAssumption
  <2> QED
    BY <1>3, <2>1 DEF Repeats, ReplayArchived, Next, APINext
<1>4. ASSUME NEW t \in Tasks, OpenFile(t) \/ WriteFile(t)
      PROVE  UNCHANGED vars
  BY <1>4 DEF OpenFile, WriteFile
<1> QED
  BY <1>2, <1>3, <1>4, HandlersStep DEF OpenNext, Elsewhere

-----------------------------------------------------------------------------
(* The invariant *)

\* A request asks for the type of the payload it came with.
PayloadsFit ==
  \A j \in Jobs :
    /\ req[j].pc = "idle" => payload[j] = Bad("other")
    /\ req[j].pc # "idle" => req[j].work.type = TypeOf(payload[j])

\* A goroutine deals with a file only while it handles a payload that has one.
StagesFit ==
  \A t \in Tasks :
    stage[t] # "none" =>
      /\ task[t] # "none"
      /\ Writes(PayloadOf(t)) /\ ~MustFail(PayloadOf(t), Msg(t).attempt)
      /\ stage[t] = "open" => task[t] \in {"handle", "killed"}

\* A file comes from some job.
FilesHaveOwners ==
  \A p \in Paths :
    file[p] # "absent" => \E j \in Jobs : req[j].pc # "idle" /\ payload[j].path = p

Opened(j) == \E t \in Tasks : stage[t] = "open" /\ Msg(t).job = j

Written(j) == \E t \in Tasks : stage[t] = "written" /\ Msg(t).job = j

\* Nobody else has written in the file of a job that shares it with no other.
OwnFile(j) ==
  /\ file[payload[j].path] \in {"absent", "cut", j}
  /\ Opened(j) => file[payload[j].path] \in {"cut", j}
  /\ Written(j) /\ ~Unfinished(j) => file[payload[j].path] = j

OwnFiles == \A j \in Jobs : Writes(payload[j]) /\ Alone(j) => OwnFile(j)

\* A job whose handler writes a file is completed by a goroutine that wrote it.
CompletedWrote ==
  \A j \in Jobs : jobs[j].status = "completed" /\ Writes(payload[j]) => Written(j)

HandlersInv ==
  /\ SystemInv /\ RowIsAsked /\ Ahead
  /\ HandlerTypes /\ PayloadsFit /\ StagesFit
  /\ FilesHaveOwners /\ OwnFiles /\ CompletedWrote

\* What a goroutine works on has a row, a request and the type of its payload.
LEMMA TaskJob ==
  ASSUME HandlersInv, NEW t \in Tasks, task[t] # "none"
  PROVE  /\ Msg(t) \in Messages /\ Msg(t).job \in Jobs
         /\ Exists(Msg(t).job) /\ req[Msg(t).job].pc # "idle"
         /\ Msg(t).type = TypeOf(PayloadOf(t))
<1> DEFINE j == Msg(t).job
<1>1. Msg(t) \in Messages /\ j \in Jobs
  BY MsgType DEF HandlersInv, SystemInv, RowInv, Messages
<1>2. Exists(j) /\ Msg(t).type = jobs[j].work.type
  BY MsgMatches DEF HandlersInv, SystemInv, RowInv, Matches
<1>3. req[j].pc # "idle" /\ jobs[j].work = req[j].work
  BY <1>1, <1>2 DEF HandlersInv, SystemInv, RowInv, RowsOfRequests, RowIsAsked
<1> QED
  BY <1>1, <1>2, <1>3 DEF HandlersInv, PayloadsFit, PayloadOf

\* The payload of a job is there before anything is done about it, and for good.
LEMMA PayloadStays ==
  ASSUME HandlersInv, [HandlersNext]_allVars, NEW j \in Jobs, req[j].pc # "idle"
  PROVE  payload'[j] = payload[j]
<1>1. payload \in [Jobs -> PayloadType] /\ HandlerTypes
  BY DEF HandlersInv, HandlerTypes
<1>0. Typed /\ Ahead
  BY DEF HandlersInv, SystemInv, RowInv
<1>2. ASSUME NEW k \in Jobs, Posts(k)
      PROVE  payload'[j] = payload[j]
  BY <1>1, <1>2 DEF Posts, SubmitOffer, Submit
<1>3. ASSUME NEW k \in Jobs, NEW src \in Jobs, Repeats(k, src)
      PROVE  payload'[j] = payload[j]
  BY <1>1, <1>3 DEF Repeats, ReplayArchived, RetryArchivedJob
<1> QED
  BY <1>0, <1>1, <1>2, <1>3, HandlersStep DEF OpenFile, WriteFile, Elsewhere

LEMMA TaskPayloadStays ==
  ASSUME HandlersInv, [HandlersNext]_allVars, NEW t \in Tasks, task[t] # "none"
  PROVE  Msg(t)' = Msg(t) /\ PayloadOf(t)' = PayloadOf(t) /\ task'[t] # "none"
<1>1. Typed /\ Ahead /\ HandlerTypes
  BY DEF HandlersInv, SystemInv, RowInv
<1>2. Msg(t)' = Msg(t) /\ task'[t] # "none"
  BY <1>1, HandlersAreOpen, MsgStays
<1>3. payload'[Msg(t).job] = payload[Msg(t).job]
  BY TaskJob, PayloadStays
<1> QED
  BY <1>2, <1>3 DEF PayloadOf

\* A job that writes and is alone now was alone before: who comes later had no path.
LEMMA AloneBefore ==
  ASSUME HandlersInv, [HandlersNext]_allVars, NEW j \in Jobs, req[j].pc # "idle",
         Writes(payload[j]), Alone(j)'
  PROVE  Alone(j)
<1>1. payload'[j] = payload[j]
  BY PayloadStays
<1>2. ASSUME NEW k \in Jobs, k # j
      PROVE  payload[k].path # payload[j].path
  <2>1. CASE req[k].pc = "idle"
    BY <2>1 DEF HandlersInv, PayloadsFit, Bad, Good, Writes
  <2>2. CASE req[k].pc # "idle"
    <3>1. payload'[k] = payload[k]
      BY <2>2, PayloadStays
    <3> QED
      BY <1>1, <1>2, <3>1 DEF Alone
  <2> QED
    BY <2>1, <2>2
<1> QED
  BY <1>2 DEF Alone

-----------------------------------------------------------------------------
(* The steps keep it *)

LEMMA RepairedType ==
  ASSUME NEW p \in PayloadType
  PROVE  Repaired(p) \in PayloadType /\ TypeOf(Repaired(p)) = TypeOf(p)
<1>1. Good("image") \in PayloadType /\ TypeOf(Good("image")) = "task"
  BY DEF Good, PayloadType, Kinds, Registered, Paths, NoPath, TypeOf
<1>2. TypeOf(Empty("image")) = "task"
  BY DEF Empty, Good, TypeOf
<1> QED
  BY <1>1, <1>2 DEF Repaired

LEMMA TypesNext ==
  ASSUME HandlersInv, [HandlersNext]_allVars
  PROVE  HandlerTypes'
<1> USE DEF HandlerTypes
<1>0. Typed /\ Ahead /\ HandlerTypes
  BY DEF HandlersInv, SystemInv, RowInv
<1>1. ASSUME NEW j \in Jobs, Posts(j)
      PROVE  HandlerTypes'
  BY <1>0, <1>1 DEF Posts, SubmitOffer, OfferType
<1>2. ASSUME NEW j \in Jobs, NEW src \in Jobs, Repeats(j, src)
      PROVE  HandlerTypes'
  <2>1. Repaired(payload[src]) \in PayloadType
    BY <1>0, RepairedType
  <2> QED
    BY <1>0, <1>2, <2>1 DEF Repeats, ReplayArchived
<1>3. ASSUME NEW t \in Tasks, OpenFile(t)
      PROVE  HandlerTypes'
  BY <1>0, <1>3 DEF OpenFile
<1>4. ASSUME NEW t \in Tasks, WriteFile(t)
      PROVE  HandlerTypes'
  <2>1. Msg(t).job \in Jobs
    BY <1>4, TaskJob DEF WriteFile, Handling
  <2> DEFINE path == PayloadOf(t).path
  <2>2. \E c \in {"cut", "mixed"} \cup Jobs : file' = [file EXCEPT ![path] = c]
    BY <1>4, <2>1 DEF WriteFile, Overwritten
  <2> HIDE DEF path
  <2>3. file' \in [Paths -> {"absent", "cut", "mixed"} \cup Jobs]
    BY <1>0, <2>2
  <2>4. stage' \in [Tasks -> {"none", "open", "written", "broken"}]
    BY <1>0, <1>4 DEF WriteFile
  <2> QED
    BY <1>0, <1>4, <2>3, <2>4 DEF WriteFile
<1>5. CASE Elsewhere
  BY <1>0, <1>5 DEF Elsewhere
<1> QED
  BY <1>0, <1>1, <1>2, <1>3, <1>4, <1>5, HandlersStep

LEMMA PayloadsFitNext ==
  ASSUME HandlersInv, [HandlersNext]_allVars
  PROVE  PayloadsFit'
<1>0. /\ HandlerTypes /\ Typed /\ Ahead /\ APITypeOK /\ PayloadsFit /\ RowsOfRequests
      /\ RowIsAsked /\ payload \in [Jobs -> PayloadType] /\ [OpenNext]_vars
  BY HandlersAreOpen DEF HandlersInv, SystemInv, RowInv, Typed, TypeOK, HandlerTypes
<1>1. ASSUME NEW j \in Jobs, req[j].pc # "idle"
      PROVE  req'[j].pc # "idle" /\ req'[j].work.type = TypeOf(payload'[j])
  BY <1>0, <1>1, AskedStays, PayloadStays DEF PayloadsFit
<1>2. ASSUME NEW j \in Jobs, req[j].pc = "idle"
      PROVE  /\ req'[j].pc = "idle" => payload'[j] = Bad("other")
             /\ req'[j].pc # "idle" => req'[j].work.type = TypeOf(payload'[j])
  <2>1. ASSUME NEW k \in Jobs, Posts(k), k # j
        PROVE  req'[j] = req[j] /\ payload'[j] = payload[j]
    BY <1>0, <2>1 DEF Posts, SubmitOffer, Submit, APITypeOK
  <2>2. ASSUME Posts(j)
        PROVE  req'[j].pc # "idle" /\ req'[j].work.type = TypeOf(payload'[j])
    BY <1>0, <2>2 DEF Posts, SubmitOffer, Submit, BodyOf, APITypeOK
  <2>3. ASSUME NEW k \in Jobs, NEW src \in Jobs, Repeats(k, src), k # j
        PROVE  req'[j] = req[j] /\ payload'[j] = payload[j]
    BY <1>0, <2>3 DEF Repeats, ReplayArchived, RetryArchivedJob, APITypeOK
  <2>4. ASSUME NEW src \in Jobs, Repeats(j, src)
        PROVE  req'[j].pc # "idle" /\ req'[j].work.type = TypeOf(payload'[j])
    <3>1. jobs[src].work.type = TypeOf(payload[src])
      BY <1>0, <2>4
      DEF Repeats, ReplayArchived, RetryArchivedJob, PayloadsFit, RowsOfRequests,
          RowIsAsked, Exists
    <3>2. TypeOf(Repaired(payload[src])) = TypeOf(payload[src])
      BY <1>0, RepairedType
    <3>3. payload'[j] = Repaired(payload[src])
      BY <1>0, <2>4 DEF Repeats, ReplayArchived
    <3>4. req'[j].pc = "create" /\ req'[j].work.type = jobs[src].work.type
      BY <1>0, <2>4
      DEF Repeats, ReplayArchived, RetryArchivedJob, APITypeOK, Blank
    <3> QED
      BY <3>1, <3>2, <3>3, <3>4
  <2>5. ASSUME NEW t \in Tasks, OpenFile(t) \/ WriteFile(t)
        PROVE  UNCHANGED <<req, payload>>
    BY <2>5 DEF OpenFile, WriteFile, vars, apiVars
  <2> QED
    BY <1>0, <1>2, <2>1, <2>2, <2>3, <2>4, <2>5, HandlersStep
    DEF Elsewhere, PayloadsFit
<1> QED
  BY <1>1, <1>2 DEF PayloadsFit

\* The steps that have to do with files.
LEMMA FileSteps ==
  ASSUME HandlersInv, [HandlersNext]_allVars
  PROVE  \/ \E t \in Tasks : OpenFile(t) \/ WriteFile(t)
         \/ UNCHANGED <<file, stage>>
<1>1. Typed /\ Ahead /\ HandlerTypes
  BY DEF HandlersInv, SystemInv, RowInv
<1> QED
  BY <1>1, HandlersStep DEF Posts, SubmitOffer, Repeats, ReplayArchived, Elsewhere

LEMMA KilledStays ==
  ASSUME HandlersInv, [HandlersNext]_allVars, NEW t \in Tasks, task[t] = "killed"
  PROVE  task'[t] = "killed"
<1>0. Typed /\ Ahead /\ HandlerTypes /\ task \in [Tasks -> TaskStates]
  BY DEF HandlersInv, SystemInv, RowInv, Typed, TypeOK, WorkerTypeOK
<1>1. CASE UNCHANGED task
  BY <1>1
<1>2. CASE \E w \in Workers : Crash(w)
  BY <1>2 DEF Crash, Running
<1>3. CASE Fetch
  BY <1>0, <1>3, FetchIsNew DEF Fetch
<1>4. CASE \E u \in Tasks : TaskStep(u)
  BY <1>0, <1>4
  DEF TaskStep, Admit, Load, Start, CompleteEmail, RejectUnknown, Complete,
      Fail, Retry, Archive, Commit, Go
<1>5. UNCHANGED task \/ WorkerNext
  BY <1>0, HandlersAreOpen DEF OpenNext, Outside, Next, vars, workerVars
<1> QED
  BY <1>1, <1>2, <1>3, <1>4, <1>5 DEF WorkerNext, Join

\* Whoever has a file open goes on with it, or dies.
LEMMA OpenIsHandled ==
  ASSUME HandlersInv, [HandlersNext]_allVars, NEW t \in Tasks, stage[t] = "open",
         task[t] = "handle"
  PROVE  task'[t] \in {"handle", "killed"}
<1>0. Typed /\ Ahead /\ HandlerTypes
  BY DEF HandlersInv, SystemInv, RowInv
<1>1. /\ Writes(PayloadOf(t)) /\ ~MustFail(PayloadOf(t), Msg(t).attempt)
      /\ Msg(t).type = "task"
  BY TaskJob DEF HandlersInv, StagesFit, Writes, TypeOf
<1>2. ~HandleOk(t) /\ ~HandleError(t) /\ ~CompleteEmail(t) /\ ~RejectUnknown(t)
  BY <1>1 DEF HandleOk, HandleError, CompleteEmail, RejectUnknown
<1>3. CASE Elsewhere
  BY <1>2, <1>3 DEF Elsewhere, Leaves
<1>4. Elsewhere \/ UNCHANGED task
  BY <1>0, HandlersStep DEF Posts, Repeats, OpenFile, WriteFile, vars, workerVars
<1> QED
  BY <1>3, <1>4

LEMMA StagesFitNext ==
  ASSUME HandlersInv, [HandlersNext]_allVars
  PROVE  StagesFit'
<1>0. HandlerTypes /\ StagesFit /\ stage \in [Tasks -> {"none", "open", "written", "broken"}]
  BY DEF HandlersInv, HandlerTypes
<1>1. ASSUME NEW t \in Tasks, stage'[t] # "none"
      PROVE  \/ stage[t] # "none" /\ (stage'[t] = "open" => stage[t] = "open")
             \/ OpenFile(t)
  BY <1>0, <1>1, FileSteps DEF OpenFile, WriteFile
<1>2. ASSUME NEW t \in Tasks, OpenFile(t)
      PROVE  /\ task[t] = "handle" /\ task' = task
             /\ Writes(PayloadOf(t)) /\ ~MustFail(PayloadOf(t), Msg(t).attempt)
  BY <1>2 DEF OpenFile, Handling, vars, workerVars
<1>3. ASSUME NEW t \in Tasks, stage'[t] # "none"
      PROVE  /\ task'[t] # "none"
             /\ (Writes(PayloadOf(t)) /\ ~MustFail(PayloadOf(t), Msg(t).attempt))'
             /\ stage'[t] = "open" => task'[t] \in {"handle", "killed"}
  <2>1. /\ task[t] # "none"
        /\ Writes(PayloadOf(t)) /\ ~MustFail(PayloadOf(t), Msg(t).attempt)
    BY <1>0, <1>1, <1>2, <1>3 DEF StagesFit
  <2>2. /\ task'[t] # "none"
        /\ (Writes(PayloadOf(t)) /\ ~MustFail(PayloadOf(t), Msg(t).attempt))'
    BY <2>1, TaskPayloadStays DEF Writes, MustFail
  <2>3. ASSUME stage'[t] = "open"
        PROVE  task'[t] \in {"handle", "killed"}
    BY <1>0, <1>1, <1>2, <1>3, <2>3, KilledStays, OpenIsHandled DEF StagesFit
  <2> QED
    BY <2>2, <2>3
<1> QED
  BY <1>3 DEF StagesFit

LEMMA FilesHaveOwnersNext ==
  ASSUME HandlersInv, [HandlersNext]_allVars
  PROVE  FilesHaveOwners'
<1>0. Typed /\ Ahead /\ HandlerTypes /\ FilesHaveOwners
      /\ file \in [Paths -> {"absent", "cut", "mixed"} \cup Jobs]
  BY DEF HandlersInv, SystemInv, RowInv, HandlerTypes
<1>1. ASSUME NEW j \in Jobs, req[j].pc # "idle"
      PROVE  req'[j].pc # "idle" /\ payload'[j] = payload[j]
  BY <1>0, <1>1, HandlersAreOpen, AskedStays, PayloadStays
<1>2. ASSUME NEW p \in Paths, file'[p] # "absent"
      PROVE  \E j \in Jobs : req[j].pc # "idle" /\ payload[j].path = p
  <2>1. CASE file[p] # "absent"
    BY <1>0, <2>1 DEF FilesHaveOwners
  <2>2. ASSUME NEW t \in Tasks, OpenFile(t) \/ WriteFile(t), file'[p] # file[p]
        PROVE  \E j \in Jobs : req[j].pc # "idle" /\ payload[j].path = p
    <3>1. task[t] # "none" /\ PayloadOf(t).path = p
      BY <1>0, <2>2 DEF OpenFile, WriteFile, Handling
    <3> QED
      BY <3>1, TaskJob DEF PayloadOf
  <2> QED
    BY <1>2, <2>1, <2>2, FileSteps
<1> QED
  BY <1>1, <1>2 DEF FilesHaveOwners

\* A step that touches neither the file of a job nor the stages of its goroutines
\* leaves everything that is said about the file as it was.
LEMMA OwnFileKept ==
  ASSUME HandlersInv, [HandlersNext]_allVars, NEW j \in Jobs, req[j].pc # "idle",
         OwnFile(j), file'[payload[j].path] = file[payload[j].path],
         \A t \in Tasks : Msg(t).job = j => stage'[t] = stage[t],
         \A t \in Tasks : stage[t] = "none" /\ stage'[t] # "none" => task[t] # "none"
  PROVE  OwnFile(j)'
<1>1. payload'[j] = payload[j]
  BY PayloadStays
<1>2. ASSUME NEW t \in Tasks, stage[t] # "none" \/ stage'[t] # "none"
      PROVE  Msg(t)' = Msg(t)
  BY <1>2, TaskPayloadStays DEF HandlersInv, StagesFit
<1>3. ASSUME NEW s \in {"open", "written", "broken"}
      PROVE  (\E t \in Tasks : stage[t] = s /\ Msg(t).job = j)
               <=> (\E t \in Tasks : stage'[t] = s /\ Msg(t)'.job = j)
  BY <1>2
<1>4. /\ Opened(j)' <=> Opened(j)
      /\ Written(j)' <=> Written(j)
      /\ Unfinished(j)' <=> Unfinished(j)
  <2>1. /\ Opened(j)' <=> \E t \in Tasks : stage'[t] = "open" /\ Msg(t)'.job = j
        /\ Written(j)' <=> \E t \in Tasks : stage'[t] = "written" /\ Msg(t)'.job = j
        /\ Unfinished(j)' <=> \/ \E t \in Tasks : stage'[t] = "open" /\ Msg(t)'.job = j
                              \/ \E t \in Tasks : stage'[t] = "broken" /\ Msg(t)'.job = j
    BY DEF Opened, Written, Unfinished
  <2>2. /\ Opened(j) <=> \E t \in Tasks : stage[t] = "open" /\ Msg(t).job = j
        /\ Written(j) <=> \E t \in Tasks : stage[t] = "written" /\ Msg(t).job = j
        /\ Unfinished(j) <=> \/ \E t \in Tasks : stage[t] = "open" /\ Msg(t).job = j
                             \/ \E t \in Tasks : stage[t] = "broken" /\ Msg(t).job = j
    BY DEF Opened, Written, Unfinished
  <2> QED
    BY <1>3, <2>1, <2>2
<1> QED
  BY <1>1, <1>4 DEF OwnFile

\* A job that has only now come has a file that nobody has opened.
LEMMA NewFile ==
  ASSUME HandlersInv, [HandlersNext]_allVars, NEW j \in Jobs, req[j].pc = "idle",
         Writes(payload'[j]), Alone(j)'
  PROVE  OwnFile(j)'
<1>0. HandlerTypes /\ FilesHaveOwners /\ PayloadsFit /\ StagesFit /\ payload'[j] \in PayloadType
  BY TypesNext DEF HandlersInv, HandlerTypes
<1>1. UNCHANGED <<file, stage>>
  <2>1. payload'[j] # payload[j]
    BY <1>0 DEF PayloadsFit, Writes, Bad, Good
  <2> QED
    BY <2>1, FileSteps DEF OpenFile, WriteFile
<1>2. file'[payload'[j].path] = "absent"
  <2>1. payload'[j].path \in Paths
    BY <1>0 DEF PayloadType
  <2>2. ASSUME file[payload'[j].path] # "absent"
        PROVE  FALSE
    <3>1. PICK k \in Jobs : req[k].pc # "idle" /\ payload[k].path = payload'[j].path
      BY <1>0, <2>1, <2>2 DEF FilesHaveOwners
    <3>2. payload'[k] = payload[k]
      BY <3>1, PayloadStays
    <3> QED
      BY <3>1, <3>2 DEF Alone
  <2> QED
    BY <1>1, <2>2
<1>3. ASSUME NEW t \in Tasks, stage'[t] # "none"
      PROVE  Msg(t)'.job # j
  <2>1. task[t] # "none"
    BY <1>0, <1>1, <1>3 DEF StagesFit
  <2> QED
    BY <2>1, TaskJob, TaskPayloadStays
<1>4. ~Opened(j)' /\ ~Written(j)'
  BY <1>3 DEF Opened, Written
<1> QED
  BY <1>2, <1>4 DEF OwnFile

\* The handlers of other jobs write in other files; what the handlers of j itself
\* leave behind is whole, or they are not through.
LEMMA OwnFileStep ==
  ASSUME HandlersInv, [HandlersNext]_allVars, NEW j \in Jobs, req[j].pc # "idle",
         Alone(j), OwnFile(j), NEW t \in Tasks, OpenFile(t) \/ WriteFile(t)
  PROVE  OwnFile(j)'
<1>0. /\ file \in [Paths -> {"absent", "cut", "mixed"} \cup Jobs]
      /\ stage \in [Tasks -> {"none", "open", "written", "broken"}]
      /\ task[t] = "handle" /\ payload' = payload
  BY DEF HandlersInv, HandlerTypes, OpenFile, WriteFile, Handling
<1>1. Msg(t).job \in Jobs /\ Msg(t)' = Msg(t) /\ PayloadOf(t).path \in Paths
  <2>1. Msg(t).job \in Jobs /\ Msg(t)' = Msg(t)
    BY <1>0, TaskJob, TaskPayloadStays
  <2> QED
    BY <2>1 DEF HandlersInv, HandlerTypes, PayloadOf, PayloadType
<1>2. \A u \in Tasks \ {t} : stage'[u] = stage[u]
  BY <1>0 DEF OpenFile, WriteFile
<1>3. CASE Msg(t).job # j
  <2>1. PayloadOf(t).path # payload[j].path /\ payload[j].path \in Paths
    BY <1>1, <1>3 DEF Alone, PayloadOf, HandlersInv, HandlerTypes, PayloadType
  <2>2. file'[payload[j].path] = file[payload[j].path]
    BY <1>0, <2>1 DEF OpenFile, WriteFile
  <2> QED
    BY <1>0, <1>2, <1>3, <2>2, OwnFileKept
<1>4. CASE Msg(t).job = j
  <2> DEFINE path == payload[j].path
  <2>0. path \in Paths /\ PayloadOf(t) = payload[j]
    BY <1>1, <1>4 DEF PayloadOf
  <2>1. CASE OpenFile(t)
    <3>1. Unfinished(j)'
      BY <1>0, <1>1, <1>4, <2>1 DEF OpenFile, Unfinished
    <3>2. CASE file'[path] = "cut"
      BY <1>0, <3>1, <3>2 DEF OwnFile
    <3>3. CASE stage'[t] = "broken" /\ UNCHANGED file
      <4>1. ASSUME Opened(j)'
            PROVE  Opened(j)
        <5>1. PICK u \in Tasks : stage'[u] = "open" /\ Msg(u)'.job = j
          BY <4>1 DEF Opened
        <5>2. stage[u] = "open"
          BY <1>2, <3>3, <5>1
        <5>3. Msg(u)' = Msg(u)
          BY <5>2, TaskPayloadStays DEF HandlersInv, StagesFit
        <5> QED
          BY <5>1, <5>2, <5>3 DEF Opened
      <4> QED
        BY <1>0, <3>1, <3>3, <4>1 DEF OwnFile
    <3> QED
      BY <1>0, <2>0, <2>1, <3>2, <3>3 DEF OpenFile
  <2>2. CASE WriteFile(t)
    <3>1. Overwritten(file[path], j) = {j}
      <4>1. Opened(j)
        BY <1>4, <2>2 DEF WriteFile, Opened
      <4> QED
        BY <4>1 DEF OwnFile, Overwritten
    <3>2. CASE file'[path] = j
      BY <1>0, <3>2 DEF OwnFile
    <3>3. CASE file'[path] = "cut" /\ stage'[t] = "broken"
      <4>1. Unfinished(j)'
        BY <1>1, <1>4, <3>3 DEF Unfinished
      <4> QED
        BY <1>0, <3>3, <4>1 DEF OwnFile
    <3> QED
      BY <1>0, <1>4, <2>0, <2>2, <3>1, <3>2, <3>3 DEF WriteFile
  <2> QED
    BY <2>1, <2>2
<1> QED
  BY <1>3, <1>4

LEMMA OwnFilesNext ==
  ASSUME HandlersInv, [HandlersNext]_allVars
  PROVE  OwnFiles'
<1>1. ASSUME NEW j \in Jobs, Writes(payload'[j]), Alone(j)'
      PROVE  OwnFile(j)'
  <2>1. CASE req[j].pc = "idle"
    BY <1>1, <2>1, NewFile
  <2>2. CASE req[j].pc # "idle"
    <3>1. Writes(payload[j])
      BY <1>1, <2>2, PayloadStays
    <3>2. Alone(j) /\ OwnFile(j)
      BY <1>1, <2>2, <3>1, AloneBefore DEF HandlersInv, OwnFiles
    <3>3. CASE UNCHANGED <<file, stage>>
      BY <2>2, <3>2, <3>3, OwnFileKept
    <3> QED
      BY <2>2, <3>2, <3>3, OwnFileStep, FileSteps
  <2> QED
    BY <2>1, <2>2
<1> QED
  BY <1>1 DEF OwnFiles

\* A goroutine that changes from its handler to anything else has left the handler.
LEMMA LeavingHandler ==
  ASSUME HandlersInv, [HandlersNext]_allVars, NEW t \in Tasks, task[t] = "handle",
         task'[t] # "handle"
  PROVE  Leaves(t)
<1>0. Typed /\ Ahead /\ HandlerTypes
  BY DEF HandlersInv, SystemInv, RowInv
<1>1. Elsewhere
  BY <1>0, HandlersStep DEF Posts, Repeats, OpenFile, WriteFile, vars, workerVars
<1> QED
  BY <1>1 DEF Elsewhere

\* A row becomes completed by a handler that returns nil, or as an e-mail.
LEMMA HandlersComplete ==
  ASSUME HandlersInv, [HandlersNext]_allVars, NEW j \in Jobs,
         jobs'[j].status = "completed", jobs'[j] # jobs[j]
  PROVE  \E t \in Tasks : /\ Msg(t).job = j /\ task[t] # "none"
                          /\ HandleOk(t) \/ CompleteEmail(t)
<1>0. Typed /\ RowInv /\ [OpenNext]_vars /\ task \in [Tasks -> TaskStates]
  BY HandlersAreOpen DEF HandlersInv, SystemInv, RowInv, Typed, TypeOK, WorkerTypeOK
<1>1. [Next]_vars
  BY <1>0, OutsideStep DEF OpenNext
<1>2. PICK t \in Tasks : /\ Msg(t).job = j /\ task[t] # "none"
                         /\ Complete(t) \/ CompleteEmail(t)
  BY <1>0, <1>1, WhoCompletes
<1>3. ASSUME Complete(t)
      PROVE  HandleOk(t)
  <2>1. task[t] = "handle" /\ task'[t] = "commit" /\ Msg(t).type = "task"
    BY <1>0, <1>3 DEF Complete, Go
  <2>2. Leaves(t)
    BY <2>1, LeavingHandler
  <2>3. ~Fail(t)
    BY <1>0, <2>1 DEF Fail, Go
  <2> QED
    BY <2>1, <2>2, <2>3 DEF Leaves, HandleError, CompleteEmail, RejectUnknown
<1> QED
  BY <1>2, <1>3

\* Handle returns nil only after the file is written, and an e-mail has none.
LEMMA CompletedWroteNext ==
  ASSUME HandlersInv, [HandlersNext]_allVars
  PROVE  CompletedWrote'
<1>0. /\ Typed /\ Ahead /\ HandlerTypes /\ StagesFit /\ RowInv /\ [OpenNext]_vars
      /\ stage \in [Tasks -> {"none", "open", "written", "broken"}]
  BY HandlersAreOpen DEF HandlersInv, SystemInv, RowInv, HandlerTypes
<1>1. ASSUME NEW t \in Tasks, stage[t] = "written"
      PROVE  stage'[t] = "written" /\ Msg(t)' = Msg(t)
  <2>1. stage'[t] = "written"
    BY <1>0, <1>1, FileSteps DEF OpenFile, WriteFile
  <2> QED
    BY <1>0, <1>1, <2>1, TaskPayloadStays DEF StagesFit
<1>2. ASSUME NEW j \in Jobs, Written(j)
      PROVE  Written(j)'
  <2>1. PICK t \in Tasks : stage[t] = "written" /\ Msg(t).job = j
    BY <1>2 DEF Written
  <2>2. stage'[t] = "written" /\ Msg(t)'.job = j
    BY <1>1, <2>1
  <2> QED
    BY <2>2 DEF Written
<1>3. ASSUME NEW j \in Jobs, jobs'[j].status = "completed", jobs'[j] # jobs[j],
             Writes(payload'[j])
      PROVE  Written(j)
  <2>1. PICK t \in Tasks : /\ Msg(t).job = j /\ task[t] # "none"
                           /\ HandleOk(t) \/ CompleteEmail(t)
    BY <1>3, HandlersComplete
  <2>2. PayloadOf(t) = payload'[j] /\ Msg(t).type = TypeOf(PayloadOf(t))
    BY <2>1, TaskJob, TaskPayloadStays, PayloadStays DEF PayloadOf
  <2>3. ~CompleteEmail(t)
    BY <1>3, <2>2 DEF CompleteEmail, Writes, TypeOf
  <2> QED
    BY <1>3, <2>1, <2>2, <2>3 DEF HandleOk, Written
<1>4. ASSUME NEW j \in Jobs, jobs'[j].status = "completed", jobs'[j] = jobs[j],
             Writes(payload'[j])
      PROVE  Written(j)
  <2>1. Exists(j) /\ req[j].pc # "idle"
    BY <1>0, <1>4 DEF Exists, RowInv, RowsOfRequests
  <2> QED
    BY <1>4, <2>1, PayloadStays DEF HandlersInv, CompletedWrote
<1> QED
  BY <1>2, <1>3, <1>4 DEF CompletedWrote

-----------------------------------------------------------------------------
(* The theorems *)

LEMMA HandlersInvInit == HandlersInit => HandlersInv
<1> SUFFICES ASSUME HandlersInit PROVE HandlersInv
  OBVIOUS
<1>1. SystemInv
  BY SystemInvInit DEF HandlersInit
<1>2. \A j \in Jobs : ~Exists(j) /\ req[j].pc = "idle"
  BY DEF HandlersInit, Init, StoreInit, APIInit, Exists
<1>3. \A t \in Tasks : task[t] = "none"
  BY DEF HandlersInit, Init, WorkerInit
<1>4. Bad("other") \in PayloadType /\ ~Writes(Bad("other"))
  BY DEF Bad, Good, PayloadType, Kinds, Paths, NoPath, Writes
<1>5. HandlerTypes
  BY <1>4 DEF HandlersInit, HandlerTypes
<1> QED
  BY <1>1, <1>2, <1>3, <1>4, <1>5
  DEF HandlersInit, HandlersInv, RowIsAsked, Ahead, PayloadsFit, StagesFit,
      FilesHaveOwners, OwnFiles, CompletedWrote, Exists

LEMMA HandlersInvNext == HandlersInv /\ [HandlersNext]_allVars => HandlersInv'
<1> SUFFICES ASSUME HandlersInv, [HandlersNext]_allVars PROVE HandlersInv'
  OBVIOUS
<1>1. RowInv /\ Typed /\ [OpenNext]_vars
  BY HandlersAreOpen DEF HandlersInv, SystemInv, RowInv
<1>2. SystemInv' /\ RowIsAsked' /\ Ahead'
  BY <1>1, SystemInvNext, RowIsAskedNext, AheadNext DEF HandlersInv
<1> QED
  BY <1>2, TypesNext, PayloadsFitNext, StagesFitNext, FilesHaveOwnersNext,
     OwnFilesNext, CompletedWroteNext DEF HandlersInv

\* Payloads, files and stages are what they are declared to be, and a file is open
\* only in the hands of its handler, or of one that was killed.
THEOREM HandlersTypes == HandlersSpec => []HandlersTypeOK
<1>1. HandlersInv => HandlersTypeOK
  BY DEF HandlersInv, HandlerTypes, StagesFit, HandlersTypeOK
<1> QED
  BY <1>1, HandlersInvInit, HandlersInvNext, PTL DEF HandlersSpec

\* The file of a completed job that shares it with no other is whole, although it
\* was delivered and written several times.
THEOREM CompletedFilesAreWhole == HandlersSpec => []CompletedFileIsWhole
<1>1. HandlersInv => CompletedFileIsWhole
  BY DEF HandlersInv, OwnFiles, OwnFile, CompletedWrote, CompletedFileIsWhole
<1> QED
  BY <1>1, HandlersInvInit, HandlersInvNext, PTL DEF HandlersSpec

\* With real payloads and handlers, the system of Handlers is one that JobSystem
\* describes, asked from outside.
THEOREM HandlersAreASystem == HandlersSpec => OpenSpec
<1>1. HandlersInv /\ [HandlersNext]_allVars => [OpenNext]_vars
  BY HandlersAreOpen DEF HandlersInv, SystemInv, RowInv
<1>2. HandlersInit => Init
  BY DEF HandlersInit
<1> QED
  BY <1>1, <1>2, HandlersInvInit, HandlersInvNext, PTL DEF HandlersSpec, OpenSpec

\* So it keeps the promises of the system, and a cancellation that nobody races holds.
THEOREM HandlersKeepPromises == HandlersSpec => []Promises /\ CancelledStaysCancelled
<1> QED
  BY HandlersAreASystem, PromisesAreKept, CancellationHoldsOutside, PTL

-----------------------------------------------------------------------------
(* Outcomes *)

\* A request has the retries that its job was submitted with, and an e-mail is valid
\* if its payload is good.
WorksFit ==
  \A j \in Jobs :
    req[j].pc # "idle" =>
      /\ req[j].maxRetry \in Nat
      /\ payload[j].kind = "email" => req[j].work.valid = payload[j].good

\* Nobody but the request and its retries writes messages here.
MessagesAsAsked ==
  \A o \in 1 .. Len(log) : log[o].maxRetry = req[log[o].job].maxRetry

\* Why an attempt of t may have failed.
Failing(t) ==
  \/ MustFail(PayloadOf(t), Msg(t).attempt)
  \/ PayloadOf(t).outside
  \/ stage[t] = "broken"

\* Who is about to archive a job has failed.
ArchivesFail ==
  \A t \in Tasks : task[t] = "archive" => Failing(t) /\ Msg(t).type # "unknown"

\* The inductive invariant: what is archived was tried in its last permitted attempt by
\* ArchiveIsLast, and no attempt is beyond the retries by RetryChain (both are parts of
\* HandlersInv); these relate attempts to what was submitted.
OutcomeInv ==
  HandlersInv /\ WorksFit /\ MessagesAsAsked /\ ArchivesFail /\ NoUndeservedOutcome

LEMMA WorksFitNext ==
  ASSUME HandlersInv, WorksFit, [HandlersNext]_allVars
  PROVE  WorksFit'
<1>0. /\ HandlerTypes /\ Typed /\ Ahead /\ APITypeOK /\ RowsOfRequests /\ RowIsAsked
      /\ payload \in [Jobs -> PayloadType] /\ [OpenNext]_vars
  BY HandlersAreOpen DEF HandlersInv, SystemInv, RowInv, Typed, TypeOK, HandlerTypes
<1> DEFINE Fits(r, p) == /\ r.maxRetry \in Nat
                         /\ p.kind = "email" => r.work.valid = p.good
<1>1. ASSUME NEW j \in Jobs, req[j].pc # "idle"
      PROVE  Fits(req'[j], payload'[j])
  BY <1>0, <1>1, AskedStays, PayloadStays DEF WorksFit
<1>2. ASSUME NEW j \in Jobs, NEW k \in Jobs, Posts(k)
      PROVE  req'[j] = req[j] \/ Fits(req'[j], payload'[j])
  <2>1. CASE k = j
    BY <1>0, <1>2, <2>1 DEF Posts, SubmitOffer, Submit, BodyOf, APITypeOK, OfferType
  <2>2. CASE k # j
    BY <1>0, <1>2, <2>2 DEF Posts, SubmitOffer, Submit, APITypeOK
  <2> QED
    BY <2>1, <2>2
<1>3. ASSUME NEW j \in Jobs, NEW k \in Jobs, NEW src \in Jobs, Repeats(k, src)
      PROVE  req'[j] = req[j] \/ Fits(req'[j], payload'[j])
  <2>1. CASE k = j
    <3>1. /\ req[src].pc # "idle" /\ jobs[src].work = req[src].work
      BY <1>0, <1>3
      DEF Repeats, ReplayArchived, RetryArchivedJob, RowsOfRequests, RowIsAsked, Exists
    <3>2. payload[src].kind = "email" => jobs[src].work.valid = payload[src].good
      BY <3>1 DEF WorksFit
    <3>3. payload'[j] = Repaired(payload[src])
      BY <1>0, <1>3, <2>1 DEF Repeats, ReplayArchived
    <3>4. Repaired(payload[src]).kind = "email" => Repaired(payload[src]) = payload[src]
      BY DEF Repaired, Good
    <3>5. req'[j].maxRetry = 0 /\ req'[j].work.valid = jobs[src].work.valid
      BY <1>0, <1>3, <2>1
      DEF Repeats, ReplayArchived, RetryArchivedJob, APITypeOK, Blank
    <3> QED
      BY <3>2, <3>3, <3>4, <3>5
  <2>2. CASE k # j
    BY <1>0, <1>3, <2>2 DEF Repeats, ReplayArchived, RetryArchivedJob, APITypeOK
  <2> QED
    BY <2>1, <2>2
<1>4. ASSUME NEW t \in Tasks, OpenFile(t) \/ WriteFile(t)
      PROVE  UNCHANGED req
  BY <1>4 DEF OpenFile, WriteFile, vars, apiVars
<1>5. ASSUME NEW j \in Jobs, req[j].pc = "idle", req'[j].pc # "idle"
      PROVE  Fits(req'[j], payload'[j])
  BY <1>0, <1>2, <1>3, <1>4, <1>5, HandlersStep DEF Elsewhere
<1> QED
  BY <1>1, <1>5 DEF WorksFit

\* Messages are written by the dispatch of a request and by a retry, and by nobody else.
LEMMA HandlersLog ==
  ASSUME [HandlersNext]_allVars
  PROVE  \/ UNCHANGED log
         \/ \E j \in Jobs : Dispatch(j)
         \/ \E t \in Tasks : Retry(t)
<1>1. ASSUME NEW j \in Jobs,
             \/ \E o \in Offers[j] : SubmitOffer(j, o)
             \/ RunRound(j)
             \/ \E src \in Jobs : ReplayArchived(j, src)
             \/ RequestStep(j) \/ CancelCheck(j) \/ CancelWrite(j)
      PROVE  UNCHANGED log \/ Dispatch(j)
  BY <1>1
  DEF SubmitOffer, RunRound, SubmitFake, Submit, ReplayArchived, RetryArchivedJob,
      RequestStep, Lookup, CreateRow, CancelCheck, CancelWrite, storeVars
<1>2. ASSUME NEW q \in Queues, PauseQueue(q) \/ UnpauseQueue(q)
      PROVE  UNCHANGED log
  BY <1>2 DEF PauseQueue, UnpauseQueue, SetQueuePaused
<1>3. ASSUME Fetch \/ \E w \in Workers : Die(w) \/ Join(w)
      PROVE  UNCHANGED log
  BY <1>3 DEF Fetch, Die, Crash, Join, storeVars
<1>4. ASSUME NEW t \in Tasks, HandlerStep(t)
      PROVE  UNCHANGED log \/ Retry(t)
  BY <1>4
  DEF HandlerStep, OpenFile, WriteFile, HandleOk, HandleError, Admit, Load, Start,
      CompleteEmail, RejectUnknown, Complete, Fail, Archive, Commit, vars, storeVars
<1>5. UNCHANGED allVars => UNCHANGED log
  BY DEF allVars, vars, storeVars
<1> QED
  BY <1>1, <1>2, <1>3, <1>4, <1>5 DEF HandlersNext

LEMMA MessagesAsAskedNext ==
  ASSUME HandlersInv, WorksFit, MessagesAsAsked, [HandlersNext]_allVars
  PROVE  MessagesAsAsked'
<1>0. /\ Typed /\ StoreTypeOK /\ APITypeOK /\ RowsOfRequests /\ MessagesMatchRows
      /\ [OpenNext]_vars /\ Len(log) \in Nat
  BY HandlersAreOpen, LogLength DEF HandlersInv, SystemInv, RowInv, Typed, TypeOK
<1>1. ASSUME NEW o \in 1 .. Len(log)
      PROVE  log[o].maxRetry = req'[log[o].job].maxRetry
  <2>1. log[o].job \in Jobs /\ Exists(log[o].job)
    BY <1>0, LogJobs DEF MessagesMatchRows, MessagesOf
  <2>2. req[log[o].job].pc # "idle"
    BY <1>0, <2>1 DEF RowsOfRequests
  <2> QED
    BY <1>0, <2>1, <2>2, AskedStays DEF MessagesAsAsked
<1>2. ASSUME NEW m \in Messages, Append1(m), m.maxRetry = req'[m.job].maxRetry
      PROVE  MessagesAsAsked'
  <2>1. /\ Len(log') = Len(log) + 1
        /\ \A o \in 1 .. Len(log) : log'[o] = log[o]
        /\ log'[Len(log) + 1] = m
    BY <1>0, <1>2, AppendLog
  <2>2. ASSUME NEW o \in 1 .. Len(log')
        PROVE  log'[o].maxRetry = req'[log'[o].job].maxRetry
    <3>1. CASE o \in 1 .. Len(log)
      BY <1>1, <2>1, <3>1
    <3>2. CASE o = Len(log) + 1
      BY <1>2, <2>1, <3>2
    <3> QED
      BY <1>0, <2>1, <3>1, <3>2
  <2> QED
    BY <2>2 DEF MessagesAsAsked
<1>3. CASE UNCHANGED log
  BY <1>1, <1>3 DEF MessagesAsAsked
<1>4. ASSUME NEW j \in Jobs, Dispatch(j)
      PROVE  MessagesAsAsked'
  <2> DEFINE m == Message(j, req[j].work, 0, req[j].maxRetry)
  <2>1. req[j].pc = "dispatch" /\ req[j].work \in Works /\ req[j].maxRetry \in Nat
    BY <1>0, <1>4 DEF Dispatch, WorksFit, APITypeOK, Requests
  <2>2. m \in Messages /\ m.job = j /\ m.maxRetry = req[j].maxRetry
    BY <2>1, MessageType DEF Message, Retries
  <2>3. UNCHANGED log \/ Append1(m)
    BY <1>4 DEF Dispatch, EnqueueOk, EnqueueError
  <2>4. req'[j].maxRetry = req[j].maxRetry
    BY <1>0, <2>1, AskedStays
  <2> QED
    BY <1>2, <1>3, <2>2, <2>3, <2>4
<1>5. ASSUME NEW t \in Tasks, Retry(t)
      PROVE  MessagesAsAsked'
  <2> DEFINE m == [Msg(t) EXCEPT !.attempt = @ + 1]
  <2>1. task[t] # "none" /\ Msg(t) \in Messages
    BY <1>0, <1>5, MsgType DEF Retry
  <2>2. m \in Messages /\ m.job = Msg(t).job /\ m.maxRetry = Msg(t).maxRetry
    BY <2>1 DEF Messages
  <2>3. UNCHANGED log \/ Append1(m)
    BY <1>5 DEF Retry, EnqueueOk, EnqueueError
  <2>4. Msg(t).maxRetry = req'[Msg(t).job].maxRetry
    BY <1>0, <1>1, <2>1 DEF Typed, TaskOffsets, Msg
  <2> QED
    BY <1>2, <1>3, <2>2, <2>3, <2>4
<1> QED
  BY <1>3, <1>4, <1>5, HandlersLog

LEMMA ArchivesFailNext ==
  ASSUME HandlersInv, ArchivesFail, [HandlersNext]_allVars
  PROVE  ArchivesFail'
<1>0. /\ Typed /\ [OpenNext]_vars /\ task \in [Tasks -> TaskStates]
      /\ stage \in [Tasks -> {"none", "open", "written", "broken"}]
  BY HandlersAreOpen
  DEF HandlersInv, SystemInv, RowInv, Typed, TypeOK, WorkerTypeOK, HandlerTypes
<1>1. ASSUME NEW t \in Tasks, task'[t] = "archive"
      PROVE  task[t] # "none" /\ Failing(t) /\ Msg(t).type # "unknown"
  <2>1. CASE task[t] = "archive"
    BY <2>1 DEF ArchivesFail
  <2>2. CASE task[t] # "archive"
    <3>1. Fail(t)
      BY <1>0, <1>1, <2>2, WhoGivesUp DEF OpenNext, Outside, workerVars
    <3>2. task[t] = "handle" /\ Msg(t).type # "unknown"
      BY <3>1 DEF Fail
    <3>3. Leaves(t)
      BY <1>1, <3>2, LeavingHandler
    <3>4. HandleError(t)
      BY <1>0, <1>1, <3>3
      DEF Leaves, HandleOk, Complete, CompleteEmail, RejectUnknown, Go
    <3> QED
      BY <3>2, <3>4 DEF HandleError, Failing
  <2> QED
    BY <2>1, <2>2
<1>2. ASSUME NEW t \in Tasks, stage[t] = "broken"
      PROVE  stage'[t] = "broken"
  BY <1>0, <1>2, FileSteps DEF OpenFile, WriteFile
<1>3. ASSUME NEW t \in Tasks, task'[t] = "archive"
      PROVE  Failing(t)' /\ Msg(t)'.type # "unknown"
  <2>1. Msg(t)' = Msg(t) /\ PayloadOf(t)' = PayloadOf(t)
    BY <1>1, <1>3, TaskPayloadStays
  <2> QED
    BY <1>1, <1>2, <1>3, <2>1 DEF Failing, MustFail
<1> QED
  BY <1>3 DEF ArchivesFail

\* What a job may come to, it may come to for good.
LEMMA OutcomesGrow ==
  ASSUME HandlersInv, [HandlersNext]_allVars, NEW j \in Jobs, req[j].pc # "idle"
  PROVE  Outcomes(j) \subseteq Outcomes(j)'
<1>0. /\ Typed /\ [OpenNext]_vars /\ StagesFit
      /\ stage \in [Tasks -> {"none", "open", "written", "broken"}]
  BY HandlersAreOpen DEF HandlersInv, SystemInv, RowInv, HandlerTypes
<1>1. payload'[j] = payload[j] /\ req'[j].maxRetry = req[j].maxRetry
  BY <1>0, AskedStays, PayloadStays
<1>2. ASSUME NEW t \in Tasks, stage[t] = "broken"
      PROVE  stage'[t] = "broken" /\ Msg(t)' = Msg(t)
  <2>1. stage'[t] = "broken"
    BY <1>0, <1>2, FileSteps DEF OpenFile, WriteFile
  <2> QED
    BY <1>0, <1>2, <2>1, TaskPayloadStays DEF StagesFit
<1>3. Unlucky(j) => Unlucky(j)'
  <2>1. ASSUME NEW t \in Tasks, stage[t] = "broken", Msg(t).job = j,
               Msg(t).attempt = req[j].maxRetry
        PROVE  Unlucky(j)'
    <3>1. stage'[t] = "broken" /\ Msg(t)'.job = j /\ Msg(t)'.attempt = req'[j].maxRetry
      BY <1>1, <1>2, <2>1
    <3> QED
      BY <3>1 DEF Unlucky
  <2>2. payload[j].outside => Unlucky(j)'
    BY <1>1 DEF Unlucky
  <2> QED
    BY <2>1, <2>2 DEF Unlucky
<1> QED
  BY <1>1, <1>3 DEF Outcomes, MustFail

\* The attempts of a message are within the retries of its job.
LEMMA AttemptWithin ==
  ASSUME HandlersInv, WorksFit, MessagesAsAsked, NEW t \in Tasks, task[t] # "none"
  PROVE  /\ Msg(t).maxRetry = req[Msg(t).job].maxRetry
         /\ Msg(t).attempt \in Nat /\ req[Msg(t).job].maxRetry \in Nat
         /\ Msg(t).attempt <= req[Msg(t).job].maxRetry
<1>1. t[2] \in 1 .. Len(log) /\ RetryChain
  BY DEF HandlersInv, SystemInv, RowInv, ChainInv, Typed, TaskOffsets
<1>2. Msg(t).maxRetry = req[Msg(t).job].maxRetry
  BY <1>1 DEF MessagesAsAsked, Msg
<1>3. Msg(t).attempt \in Nat /\ req[Msg(t).job].maxRetry \in Nat
  BY TaskJob DEF WorksFit, Messages
<1>4. Msg(t).attempt > 0 => Msg(t).attempt <= Msg(t).maxRetry
  BY <1>1 DEF RetryChain, Msg
<1> QED
  BY <1>2, <1>3, <1>4

LEMMA NoUndeservedOutcomeNext ==
  ASSUME OutcomeInv, [HandlersNext]_allVars
  PROVE  NoUndeservedOutcome'
<1> USE DEF OutcomeInv
<1>0. /\ Typed /\ RowInv /\ [OpenNext]_vars /\ payload \in [Jobs -> PayloadType]
      /\ ArchiveIsLast
  BY HandlersAreOpen DEF HandlersInv, SystemInv, RowInv, HandlerTypes, ExhaustedInv
<1>1. ASSUME NEW j \in Jobs, jobs'[j].status = "completed", jobs'[j] # jobs[j]
      PROVE  req[j].pc # "idle" /\ "completed" \in Outcomes(j)
  <2>1. PICK t \in Tasks : /\ Msg(t).job = j /\ task[t] # "none"
                           /\ HandleOk(t) \/ CompleteEmail(t)
    BY <1>1, HandlersComplete
  <2>2. /\ req[j].pc # "idle" /\ PayloadOf(t) = payload[j]
        /\ Msg(t).type = TypeOf(payload[j])
    BY <2>1, TaskJob DEF PayloadOf
  <2>3. /\ Msg(t).attempt \in Nat /\ req[j].maxRetry \in Nat
        /\ Msg(t).attempt <= req[j].maxRetry
    BY <2>1, AttemptWithin
  <2>4. payload[j].kind # "other"
    BY <2>1, <2>2 DEF HandleOk, Handling, CompleteEmail, TypeOf
  <2>5. CASE HandleOk(t)
    <3>1. payload[j].until \in Nat
      BY <1>0 DEF PayloadType
    <3>2. ~MustFail(payload[j], req[j].maxRetry)
      BY <2>2, <2>3, <2>5, <3>1 DEF HandleOk, MustFail
    <3> QED
      BY <2>2, <2>4, <3>2 DEF Outcomes
  <2>6. CASE CompleteEmail(t)
    <3>1. payload[j].kind = "email" /\ Msg(t).valid
      BY <2>2, <2>6 DEF CompleteEmail, TypeOf
    <3>2. Msg(t).valid = req[j].work.valid
      BY <1>0, <2>1, MsgMatches DEF RowInv, Matches, HandlersInv, RowIsAsked
    <3>3. ~MustFail(payload[j], req[j].maxRetry)
      BY <2>2, <3>1, <3>2 DEF WorksFit, MustFail
    <3> QED
      BY <2>2, <2>4, <3>3 DEF Outcomes
  <2> QED
    BY <2>1, <2>5, <2>6
<1>2. ASSUME NEW j \in Jobs, jobs'[j].status = "archived", jobs'[j] # jobs[j]
      PROVE  req[j].pc # "idle" /\ "archived" \in Outcomes(j)
  <2>1. [Next]_vars
    BY <1>0, <1>2, OutsideStep DEF OpenNext
  <2>2. PICK t \in Tasks : Archive(t) /\ Msg(t).job = j
    BY <1>0, <1>2, <2>1, WhoArchives
  <2>3. /\ task[t] # "none" /\ Failing(t) /\ Msg(t).type # "unknown"
        /\ Msg(t).attempt = Msg(t).maxRetry
    BY <1>0, <2>2 DEF Archive, ArchivesFail, ArchiveIsLast
  <2>4. /\ req[j].pc # "idle" /\ PayloadOf(t) = payload[j]
        /\ Msg(t).type = TypeOf(payload[j])
    BY <2>2, <2>3, TaskJob DEF PayloadOf
  <2>5. Msg(t).attempt = req[j].maxRetry
    BY <2>2, <2>3, AttemptWithin
  <2>6. payload[j].kind # "other"
    BY <2>3, <2>4 DEF TypeOf
  <2>7. MustFail(payload[j], req[j].maxRetry) \/ Unlucky(j)
    BY <2>2, <2>3, <2>4, <2>5 DEF Failing, Unlucky
  <2> QED
    BY <2>4, <2>6, <2>7 DEF Outcomes
<1>3. ASSUME NEW j \in Jobs, jobs'[j].status \in {"completed", "archived"},
             jobs'[j] = jobs[j]
      PROVE  req[j].pc # "idle" /\ jobs'[j].status \in Outcomes(j)
  BY <1>0, <1>3 DEF NoUndeservedOutcome, Exists, RowInv, RowsOfRequests
<1>4. ASSUME NEW j \in Jobs, jobs'[j].status \in {"completed", "archived"}
      PROVE  jobs'[j].status \in Outcomes(j)'
  BY <1>1, <1>2, <1>3, <1>4, OutcomesGrow
<1> QED
  BY <1>4 DEF NoUndeservedOutcome

\* A job is completed only if an attempt within its retries can succeed, and archived
\* only if the last permitted one has failed, whatever calls fail, whatever is
\* delivered again, cancelled or dies.
THEOREM OutcomesAreDeserved == HandlersSpec => []NoUndeservedOutcome
<1>1. ASSUME HandlersInit PROVE OutcomeInv
  <2>1. /\ log = << >> /\ \A t \in Tasks : task[t] = "none"
        /\ \A j \in Jobs : req[j].pc = "idle" /\ jobs[j].status = "absent"
    BY <1>1 DEF HandlersInit, Init, StoreInit, APIInit, WorkerInit
  <2> QED
    BY <1>1, <2>1, HandlersInvInit
    DEF OutcomeInv, WorksFit, MessagesAsAsked, ArchivesFail, NoUndeservedOutcome
<1>2. OutcomeInv /\ [HandlersNext]_allVars => OutcomeInv'
  BY HandlersInvNext, WorksFitNext, MessagesAsAskedNext, ArchivesFailNext,
     NoUndeservedOutcomeNext DEF OutcomeInv
<1>3. OutcomeInv => NoUndeservedOutcome
  BY DEF OutcomeInv
<1> QED
  BY <1>1, <1>2, <1>3, PTL DEF HandlersSpec
=============================================================================
