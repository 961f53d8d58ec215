----------------------- MODULE JobSystemPromiseProofs -----------------------
(***************************************************************************)
(* Proofs about JobSystem, continued: what a row promises.  Nothing runs   *)
(* before its time, an accepted job is remembered, an archived one has had *)
(* its attempts, and completed e-mails are those in the outbox.            *)
(***************************************************************************)
EXTENDS JobSystemProofs

-----------------------------------------------------------------------------
(* Who writes a row *)

LEMMA NextKeepsRows ==
  ASSUME RowInv, [Next]_vars
  PROVE  RowsKept
<1>0. StoreTypeOK
  BY DEF RowInv, Typed, TypeOK
<1>1. CASE UNCHANGED jobs
  BY <1>0, <1>1, UnchangedKeepsRows
<1> QED
  BY <1>1, APIKeepsRows, WorkerKeepsRows, PromoterKeepsRows
  DEF RowInv, Next, Tick, vars, storeVars

LEMMA OtherRowsKept ==
  ASSUME StoreTypeOK, NEW k \in Jobs, NEW s \in Statuses, NEW a \in Nat,
         jobs' = WithStatus(k, s, a), NEW j \in Jobs
  PROVE  j = k \/ jobs'[j] = jobs[j]
BY DEF StoreTypeOK, WithStatus

\* A row is written by the request that inserts it, a cancel, a goroutine that has
\* a message about it, or the promoter, which has listed it.
LEMMA RowWriters ==
  ASSUME Typed, [Next]_vars, NEW j \in Jobs
  PROVE  \/ jobs'[j] = jobs[j]
         \/ CreateRow(j)
         \/ jobs' = WithStatus(j, "cancelled", 0)
         \/ \E t \in Tasks : TaskStep(t) /\ task[t] # "none" /\ Msg(t).job = j
         \/ \E i \in current : PromoteUpdate(i) /\ i.job = j
<1>0. StoreTypeOK /\ PromoterTypeOK
  BY DEF Typed, TypeOK
<1>1. CASE APINext
  <2>1. ASSUME NEW k \in Jobs, CreateRow(k)
        PROVE  k = j \/ jobs'[j] = jobs[j]
    BY <1>0, <2>1 DEF CreateRow, WithRow, StoreTypeOK
  <2>2. ASSUME NEW k \in Jobs, CancelWrite(k)
        PROVE  jobs' = WithStatus(j, "cancelled", 0) \/ jobs'[j] = jobs[j]
    BY <1>0, <2>2, OtherRowsKept DEF CancelWrite, Statuses
  <2>3. \/ UNCHANGED jobs
        \/ \E k \in Jobs : CreateRow(k) \/ CancelWrite(k)
    BY <1>1 DEF APINext, Submit, Lookup, Dispatch, RetryArchivedJob, CancelCheck,
                PauseQueue, UnpauseQueue, SetQueuePaused, storeVars
  <2> QED
    BY <2>1, <2>2, <2>3
<1>2. ASSUME NEW t \in Tasks, TaskStep(t)
      PROVE  jobs'[j] = jobs[j] \/ (task[t] # "none" /\ Msg(t).job = j)
  <2>1. task[t] # "none"
    BY <1>2 DEF TaskStep, Admit, Load, Start, CompleteEmail, RejectUnknown,
                Complete, Fail, Retry, Archive, Commit
  <2>2. Msg(t).job \in Jobs /\ Msg(t).attempt \in Nat /\ Msg(t).attempt + 1 \in Nat
    BY <2>1, MsgType DEF Messages
  <2>3. \/ UNCHANGED jobs
        \/ \E s \in Statuses, a \in Nat : jobs' = WithStatus(Msg(t).job, s, a)
    BY <1>2, <2>2
    DEF TaskStep, Admit, Load, Start, CompleteEmail, CompleteJobWithOutbox,
        RejectUnknown, Complete, Fail, Retry, Archive, Commit, TryStatus, Statuses
  <2> QED
    BY <1>0, <2>1, <2>2, <2>3, OtherRowsKept
<1>3. ASSUME NEW i \in due, PromoteUpdate(i)
      PROVE  jobs'[j] = jobs[j] \/ (i \in current /\ i.job = j)
  <2>1. i \in current /\ i.job \in Jobs /\ i.attempt \in Nat
    BY <1>0, <1>3 DEF PromoteUpdate, PromoterTypeOK, DueItems
  <2> QED
    BY <1>0, <1>3, <2>1, OtherRowsKept DEF PromoteUpdate, TryStatus, Statuses
<1>4. WorkerNext => UNCHANGED jobs \/ \E t \in Tasks : TaskStep(t)
  BY DEF WorkerNext, Join, Crash, Fetch, storeVars
<1>5. PromoterNext => UNCHANGED jobs \/ \E i \in due : PromoteUpdate(i)
  BY DEF PromoterNext, PromoterStep, List, PromoteEnqueue, PromoterRestart,
         storeVars
<1>6. Tick \/ UNCHANGED vars => UNCHANGED jobs
  BY DEF Tick, vars, storeVars
<1> QED
  BY <1>1, <1>2, <1>3, <1>4, <1>5, <1>6 DEF Next

-----------------------------------------------------------------------------
(* Messages come and stay *)

LEMMA MessagesAfter ==
  ASSUME Typed, NEW m \in Messages, Append1(m), NEW j
  PROVE  (MessagesOf(j) # {})' <=> MessagesOf(j) # {} \/ j = m.job
<1>1. Len(log) \in Nat
  BY LogLength DEF Typed, TypeOK
<1>2. /\ Len(log') = Len(log) + 1
      /\ \A o \in 1 .. Len(log) : log'[o] = log[o]
      /\ log'[Len(log) + 1] = m
  BY AppendLog DEF Typed, TypeOK
<1>3. (MessagesOf(j) # {})' <=> \E o \in 1 .. Len(log') : log'[o].job = j
  BY DEF MessagesOf
<1>4. MessagesOf(j) # {} <=> \E o \in 1 .. Len(log) : log[o].job = j
  BY DEF MessagesOf
<1>5. ASSUME NEW o \in 1 .. Len(log'), log'[o].job = j
      PROVE  j = m.job \/ \E p \in 1 .. Len(log) : log[p].job = j
  <2>1. CASE o \in 1 .. Len(log)
    BY <1>2, <1>5, <2>1
  <2>2. CASE o = Len(log) + 1
    BY <1>2, <1>5, <2>2
  <2> QED
    BY <1>1, <1>2, <2>1, <2>2
<1>6. ASSUME NEW o \in 1 .. Len(log), log[o].job = j
      PROVE  \E p \in 1 .. Len(log') : log'[p].job = j
  <2>1. o \in 1 .. Len(log') /\ log'[o].job = j
    BY <1>1, <1>2, <1>6
  <2> QED
    BY <2>1
<1>7. ASSUME j = m.job
      PROVE  \E p \in 1 .. Len(log') : log'[p].job = j
  <2>1. Len(log) + 1 \in 1 .. Len(log') /\ log'[Len(log) + 1].job = j
    BY <1>1, <1>2, <1>7
  <2> QED
    BY <2>1
<1> QED
  BY <1>3, <1>4, <1>5, <1>6, <1>7

LEMMA MessagesStay ==
  ASSUME Typed, [Next]_vars, NEW j, MessagesOf(j) # {}
  PROVE  (MessagesOf(j) # {})'
<1>1. CASE UNCHANGED log
  BY <1>1 DEF MessagesOf
<1> QED
  BY <1>1, LogStep, MessagesAfter

LEMMA MsgIsMessage ==
  ASSUME Typed, NEW t \in Tasks, task[t] # "none"
  PROVE  MessagesOf(Msg(t).job) # {}
BY DEF Typed, TaskOffsets, MessagesOf, Msg

-----------------------------------------------------------------------------
(* Nothing runs early *)

\* What the promoter has listed is due.
DueIsDue == \A i \in due : jobs[i.job].work.runAt <= now

TimeInv == RowInv /\ NotBeforeDue /\ DueIsDue

\* Whoever writes a message writes it about a job whose time has come.
LEMMA NewMessagesAreDue ==
  ASSUME TimeInv, [Next]_vars
  PROVE  \/ UNCHANGED log
         \/ \E m \in Messages :
              /\ Append1(m)
              /\ Exists(m.job) /\ jobs[m.job].work.runAt <= now
<1> USE DEF TimeInv, RowInv
<1>0. StoreTypeOK /\ APITypeOK /\ PromoterTypeOK
  BY DEF Typed, TypeOK
<1> DEFINE Timely ==
             \/ UNCHANGED log
             \/ \E m \in Messages :
                  /\ Append1(m)
                  /\ Exists(m.job) /\ jobs[m.job].work.runAt <= now
<1>1. ASSUME NEW j \in Jobs, Dispatch(j)
      PROVE  Timely
  <2> DEFINE m == Message(j, req[j].work, 0, req[j].maxRetry)
  <2>1. m \in Messages /\ m.job = j
    BY <1>0, MessageType DEF APITypeOK, Requests, Message
  <2>2. Exists(j) /\ jobs[j].work = req[j].work
    BY <1>1 DEF Dispatch, RowsOfRequests
  <2> HIDE DEF m
  <2>3. UNCHANGED log \/ (Append1(m) /\ req[j].work.runAt <= now)
    BY <1>1 DEF Dispatch, EnqueueOk, EnqueueError, m
  <2> QED
    BY <2>1, <2>2, <2>3
<1>2. ASSUME NEW t \in Tasks, Retry(t)
      PROVE  Timely
  <2> DEFINE m == [Msg(t) EXCEPT !.attempt = @ + 1]
  <2>1. task[t] # "none" /\ Msg(t) \in Messages
    BY <1>2, MsgType DEF Retry
  <2>2. m \in Messages /\ m.job = Msg(t).job
    BY <2>1, MsgType DEF Messages
  <2>3. Exists(m.job)
    BY <2>1, MsgMatches DEF Matches
  <2>4. jobs[m.job].work.runAt <= now
    BY <2>1, <2>2, MsgIsMessage DEF NotBeforeDue, Messages
  <2> HIDE DEF m
  <2>5. UNCHANGED log \/ Append1(m)
    BY <1>2 DEF Retry, EnqueueOk, EnqueueError, m
  <2> QED
    BY <2>2, <2>3, <2>4, <2>5
<1>3. ASSUME NEW i \in due, PromoteEnqueue(i)
      PROVE  Timely
  <2> DEFINE m == Message(i.job, jobs[i.job].work, 0, PromoteMaxRetry)
  <2>1. m \in Messages /\ m.job = i.job
    BY <1>0, MessageType
    DEF PromoterTypeOK, DueItems, StoreTypeOK, Rows, PromoteMaxRetry, Message
  <2>2. Exists(i.job) /\ jobs[i.job].work.runAt <= now
    BY DEF DueExists, DueIsDue
  <2> HIDE DEF m
  <2>3. UNCHANGED log \/ Append1(m)
    BY <1>3 DEF PromoteEnqueue, EnqueueOk, EnqueueError, m
  <2> QED
    BY <2>1, <2>2, <2>3
<1>4. APINext => UNCHANGED log \/ \E j \in Jobs : Dispatch(j)
  BY DEF APINext, Submit, Lookup, CreateRow, RetryArchivedJob, CancelCheck,
         CancelWrite, PauseQueue, UnpauseQueue, SetQueuePaused, storeVars
<1>5. PromoterNext => UNCHANGED log \/ \E i \in due : PromoteEnqueue(i)
  BY DEF PromoterNext, PromoterStep, List, PromoteUpdate, PromoterRestart,
         storeVars
<1>6. Tick \/ UNCHANGED vars => UNCHANGED log
  BY DEF Tick, vars, storeVars
<1> QED
  BY <1>1, <1>2, <1>3, <1>4, <1>5, <1>6, WorkerLog DEF Next

LEMMA TimeInvNext == TimeInv /\ [Next]_vars => TimeInv'
<1> SUFFICES ASSUME TimeInv, [Next]_vars PROVE TimeInv'
  OBVIOUS
<1>0. RowInv /\ Typed /\ NotBeforeDue /\ DueIsDue /\ RowInv'
  BY RowInvNext DEF TimeInv, RowInv
<1>1. RowsKept
  BY <1>0, NextKeepsRows
<1>2. now \in Nat /\ now' \in Nat /\ now <= now'
  <2>1. now \in Nat /\ now' \in Nat
    BY <1>0 DEF RowInv, Typed, TypeOK, StoreTypeOK
  <2>2. now' = now \/ now' = now + 1
    BY DEF Next, Tick, vars, storeVars, APINext, Submit, Lookup, CreateRow,
           Dispatch, RetryArchivedJob, CancelCheck, CancelWrite, PauseQueue,
           UnpauseQueue, SetQueuePaused, WorkerNext, Join, Crash, Fetch, TaskStep,
           Admit, Load, Start, CompleteEmail, RejectUnknown, Complete, Fail, Retry,
           Archive, Commit, PromoterNext, PromoterStep, List, PromoteEnqueue,
           PromoteUpdate, PromoterRestart
  <2> QED
    BY <2>1, <2>2
<1>3. ASSUME NEW j \in Jobs, Exists(j), jobs[j].work.runAt <= now
      PROVE  jobs'[j].work.runAt <= now'
  <2>1. jobs'[j].work = jobs[j].work /\ jobs[j].work.runAt \in Nat
    BY <1>0, <1>1, <1>3 DEF RowsKept, Typed, TypeOK, StoreTypeOK, Rows, Works
  <2> QED
    BY <1>2, <1>3, <2>1
<1>4. NotBeforeDue'
  <2>1. ASSUME NEW j \in Jobs, MessagesOf(j) # {}
        PROVE  Exists(j) /\ jobs[j].work.runAt <= now
    BY <1>0, <2>1 DEF NotBeforeDue, RowInv, MessagesMatchRows, MessagesOf
  <2>2. CASE UNCHANGED log
    BY <1>3, <2>1, <2>2 DEF NotBeforeDue, MessagesOf
  <2>3. ASSUME NEW m \in Messages, Append1(m),
               Exists(m.job), jobs[m.job].work.runAt <= now
        PROVE  NotBeforeDue'
    BY <1>0, <1>3, <2>1, <2>3, MessagesAfter DEF NotBeforeDue
  <2> QED
    BY <2>2, <2>3, NewMessagesAreDue
<1>5. DueIsDue'
  <2>0. \A i \in due : i.job \in Jobs /\ Exists(i.job)
    BY <1>0 DEF RowInv, Typed, TypeOK, PromoterTypeOK, DueItems, DueExists
  <2>1. CASE List
    BY <2>1 DEF List, DueIsDue, ScheduledDue, storeVars
  <2>2. CASE due' \subseteq due
    BY <1>0, <1>3, <2>0, <2>2 DEF DueIsDue
  <2>3. due' \subseteq due \/ List
    BY DEF Next, vars, promoVars, PromoterNext, PromoterStep, PromoteEnqueue,
           PromoteUpdate, PromoterRestart
  <2> QED
    BY <2>1, <2>2, <2>3
<1> QED
  BY <1>0, <1>4, <1>5 DEF TimeInv

LEMMA TimeInvInit == Init => TimeInv
BY RowInvInit
DEF TimeInv, NotBeforeDue, DueIsDue, MessagesOf, Init, StoreInit, PromoterInit

\* A delayed job has no message before its time, in every behaviour: the API tests
\* the clock, the promoter lists what is due, and a retry follows a message.
THEOREM DelayIsKept == Spec => []NotBeforeDue
<1>1. TimeInv => NotBeforeDue
  BY DEF TimeInv
<1> QED
  BY <1>1, TimeInvInit, TimeInvNext, PTL DEF Spec

-----------------------------------------------------------------------------
(* Accepted jobs are remembered *)

\* A delayed row waits for the promoter until it has a message or is cancelled.
DelayedWait ==
  \A j \in Jobs :
    Exists(j) /\ jobs[j].work.runAt > 0 =>
      MessagesOf(j) # {} \/ jobs[j].status \in {"scheduled", "cancelled"}

\* What Submit returned has its message, or is left to the promoter.
RepliesStand ==
  \A j \in Jobs :
    req[j].reply = {j} =>
      MessagesOf(j) # {} \/ (Exists(j) /\ jobs[j].work.runAt > 0)

\* The promoter updates a row only after it has written the message.
CurrentIsEnqueued == \A i \in current : MessagesOf(i.job) # {}

AcceptedInv == RowInv /\ DelayedWait /\ RepliesStand /\ CurrentIsEnqueued

LEMMA DelayedWaitNext ==
  ASSUME AcceptedInv, [Next]_vars
  PROVE  DelayedWait'
<1> USE DEF AcceptedInv
<1>0. Typed /\ StoreTypeOK /\ APITypeOK /\ RowsOfRequests /\ RowsKept
  BY NextKeepsRows DEF RowInv, Typed, TypeOK
<1>1. ASSUME NEW j \in Jobs, Exists(j)', (jobs[j].work.runAt > 0)',
             ~(MessagesOf(j) # {})'
      PROVE  jobs'[j].status \in {"scheduled", "cancelled"}
  <2>1. MessagesOf(j) = {}
    BY <1>0, <1>1, MessagesStay
  <2>2. CASE CreateRow(j)
    <3>1. ~Exists(j)
      BY <1>0, <2>2 DEF CreateRow, RowsOfRequests
    <3>2. jobs' = WithRow(j, IF req[j].work.runAt > 0 THEN "scheduled" ELSE "pending",
                          req[j].work)
      BY <1>1, <2>2, <3>1 DEF CreateRow, Exists
    <3> QED
      BY <1>0, <1>1, <3>2 DEF WithRow, StoreTypeOK
  <2>3. CASE jobs'[j] = jobs[j]
    BY <1>1, <2>1, <2>3 DEF DelayedWait, Exists
  <2>4. CASE jobs' = WithStatus(j, "cancelled", 0)
    BY <1>0, <1>1, <2>4 DEF WithStatus, StoreTypeOK, Exists
  <2>5. ASSUME NEW t \in Tasks, task[t] # "none", Msg(t).job = j
        PROVE  FALSE
    BY <1>0, <2>1, <2>5, MsgIsMessage
  <2>6. ASSUME NEW i \in current, i.job = j
        PROVE  FALSE
    BY <2>1, <2>6 DEF CurrentIsEnqueued
  <2> QED
    BY <1>0, <2>2, <2>3, <2>4, <2>5, <2>6, RowWriters
<1> QED
  BY <1>1 DEF DelayedWait

LEMMA RepliesStandNext ==
  ASSUME AcceptedInv, [Next]_vars
  PROVE  RepliesStand'
<1> USE DEF AcceptedInv
<1>0. Typed /\ StoreTypeOK /\ APITypeOK /\ RowsOfRequests /\ RowsKept
  BY NextKeepsRows DEF RowInv, Typed, TypeOK
<1>1. ASSUME NEW j \in Jobs, req'[j].reply = {j}
      PROVE  req[j].reply = {j} \/ Dispatch(j)
  <2>1. CASE UNCHANGED req
    BY <1>1, <2>1
  <2>2. ASSUME NEW k \in Jobs, Lookup(k)
        PROVE  req[j].reply = {j}
    <3>1. j \notin SameKey(req[k].work) \/ k # j
      BY <1>0, <2>2 DEF Lookup, RowsOfRequests, SameKey
    <3> QED
      BY <1>0, <1>1, <2>2, <3>1 DEF Lookup, Goto, Reply, APITypeOK, Requests
  <2>3. ASSUME NEW k \in Jobs, CreateRow(k)
        PROVE  req[j].reply = {j}
    BY <1>0, <1>1, <2>3 DEF CreateRow, Goto, APITypeOK, Requests
  <2>4. ASSUME NEW k \in Jobs, Dispatch(k)
        PROVE  req[j].reply = {j} \/ k = j
    BY <1>0, <1>1, <2>4 DEF Dispatch, Goto, Reply, APITypeOK, Requests
  <2>5. ASSUME NEW k \in Jobs, NEW s \in Submissions, Submit(k, s)
        PROVE  req[j].reply = {j}
    BY <1>0, <1>1, <2>5 DEF Submit, APITypeOK, Requests
  <2>6. ASSUME NEW k \in Jobs, NEW src \in Jobs, NEW q \in Queues,
               RetryArchivedJob(k, src, q)
        PROVE  req[j].reply = {j}
    BY <1>0, <1>1, <2>6 DEF RetryArchivedJob, APITypeOK, Requests
  <2>7. \/ UNCHANGED req
        \/ \E k \in Jobs : Lookup(k) \/ CreateRow(k) \/ Dispatch(k)
        \/ \E k \in Jobs, s \in Submissions : Submit(k, s)
        \/ \E k \in Jobs, src \in Jobs, q \in Queues : RetryArchivedJob(k, src, q)
    BY DEF Next, vars, apiVars, APINext, CancelCheck, CancelWrite, PauseQueue,
           UnpauseQueue, SetQueuePaused
  <2> QED
    BY <2>1, <2>2, <2>3, <2>4, <2>5, <2>6, <2>7
<1>2. ASSUME NEW j \in Jobs, req[j].reply = {j}
      PROVE  (MessagesOf(j) # {})' \/ (Exists(j) /\ jobs[j].work.runAt > 0)'
  BY <1>0, <1>2, MessagesStay DEF RepliesStand, RowsKept, Exists
<1>3. ASSUME NEW j \in Jobs, Dispatch(j), req'[j].reply = {j}
      PROVE  (MessagesOf(j) # {})' \/ (Exists(j) /\ jobs[j].work.runAt > 0)'
  <2> DEFINE m == Message(j, req[j].work, 0, req[j].maxRetry)
  <2>1. m \in Messages /\ m.job = j
    BY <1>0, MessageType DEF APITypeOK, Requests, Message
  <2>2. Exists(j) /\ jobs[j].work = req[j].work /\ UNCHANGED jobs
    BY <1>0, <1>3 DEF Dispatch, RowsOfRequests
  <2> HIDE DEF m
  <2>3. CASE req[j].work.runAt > now
    BY <1>0, <2>2, <2>3
    DEF Exists, StoreTypeOK, Rows, Works
  <2>4. CASE Append1(m)
    BY <1>0, <2>1, <2>4, MessagesAfter
  <2>5. CASE Goto(j, "failed")
    BY <1>0, <1>2, <1>3, <2>5 DEF Goto, APITypeOK, Requests
  <2> QED
    BY <1>3, <2>3, <2>4, <2>5 DEF Dispatch, EnqueueOk, m
<1> QED
  BY <1>1, <1>2, <1>3 DEF RepliesStand

LEMMA CurrentIsEnqueuedNext ==
  ASSUME AcceptedInv, [Next]_vars
  PROVE  CurrentIsEnqueued'
<1> USE DEF AcceptedInv
<1>0. Typed /\ StoreTypeOK /\ PromoterTypeOK
  BY DEF RowInv, Typed, TypeOK
<1>1. ASSUME current' \subseteq current
      PROVE  CurrentIsEnqueued'
  BY <1>0, <1>1, MessagesStay DEF CurrentIsEnqueued
<1>2. ASSUME NEW i \in due, PromoteEnqueue(i)
      PROVE  CurrentIsEnqueued'
  <2> DEFINE m == Message(i.job, jobs[i.job].work, 0, PromoteMaxRetry)
  <2>1. m \in Messages /\ m.job = i.job
    BY <1>0, MessageType
    DEF PromoterTypeOK, DueItems, StoreTypeOK, Rows, PromoteMaxRetry, Message
  <2> HIDE DEF m
  <2>2. (Append1(m) /\ current' = {i}) \/ current' = current
    BY <1>2 DEF PromoteEnqueue, EnqueueOk, m
  <2> QED
    BY <1>0, <1>1, <2>1, <2>2, MessagesAfter DEF CurrentIsEnqueued
<1>3. current' \subseteq current \/ \E i \in due : PromoteEnqueue(i)
  BY DEF Next, vars, promoVars, PromoterNext, PromoterStep, List, PromoteUpdate,
         PromoterRestart
<1> QED
  BY <1>1, <1>2, <1>3

\* The id that Submit returned is never the id of a job that has neither a message
\* nor somebody to write one, in every behaviour.
THEOREM AcceptedAreRemembered == Spec => []AcceptedIsRemembered
<1>1. ASSUME Init PROVE AcceptedInv
  <2>1. \A j \in Jobs : ~Exists(j) /\ req[j].reply = {}
    BY <1>1 DEF Init, StoreInit, APIInit, Exists
  <2>2. RepliesStand
    BY <2>1 DEF RepliesStand
  <2> QED
    BY <1>1, <2>1, <2>2, RowInvInit
    DEF AcceptedInv, DelayedWait, CurrentIsEnqueued, Init, PromoterInit
<1>2. AcceptedInv /\ [Next]_vars => AcceptedInv'
  BY RowInvNext, DelayedWaitNext, RepliesStandNext, CurrentIsEnqueuedNext
  DEF AcceptedInv
<1>3. AcceptedInv => AcceptedIsRemembered
  BY DEF AcceptedInv, DelayedWait, RepliesStand, AcceptedIsRemembered
<1> QED
  BY <1>1, <1>2, <1>3, PTL DEF Spec

-----------------------------------------------------------------------------
(* Archived jobs have had their attempts *)

\* A goroutine is about to archive only after the last permitted attempt.
ArchiveIsLast ==
  \A t \in Tasks : task[t] = "archive" => Msg(t).attempt = Msg(t).maxRetry

ExhaustedInv == ChainInv /\ ArchiveIsLast /\ ArchivedOnlyExhausted

\* A goroutine comes to archive a job from a failed attempt.
LEMMA WhoGivesUp ==
  ASSUME Typed, [Next]_vars, NEW t \in Tasks, task'[t] = "archive"
  PROVE  task[t] = "archive" \/ Fail(t)
<1>1. CASE UNCHANGED task
  BY <1>1
<1>2. CASE \E w \in Workers : Crash(w)
  BY <1>2 DEF Crash
<1>3. CASE Fetch
  BY <1>3 DEF Fetch, Typed, TypeOK, WorkerTypeOK
<1>4. ASSUME NEW u \in Tasks, TaskStep(u)
      PROVE  task[t] = "archive" \/ Fail(t)
  <2>1. CASE u = t
    BY <1>4, <2>1
    DEF TaskStep, Admit, Load, Start, CompleteEmail, RejectUnknown, Complete,
        Retry, Archive, Commit, Go, Typed, TypeOK, WorkerTypeOK
  <2>2. CASE u # t
    BY <1>4, <2>2
    DEF TaskStep, Admit, Load, Start, CompleteEmail, RejectUnknown, Complete,
        Fail, Retry, Archive, Commit, Go, Typed, TypeOK, WorkerTypeOK
  <2> QED
    BY <2>1, <2>2
<1>5. UNCHANGED task \/ WorkerNext
  BY DEF Next, vars, workerVars
<1> QED
  BY <1>1, <1>2, <1>3, <1>4, <1>5 DEF WorkerNext, Join

LEMMA ArchiveIsLastNext ==
  ASSUME ExhaustedInv, [Next]_vars
  PROVE  ArchiveIsLast'
<1> USE DEF ExhaustedInv, ChainInv
<1>1. \A t \in Tasks : task'[t] = "archive" => task[t] = "archive" \/ Fail(t)
  BY WhoGivesUp
<1>2. ASSUME NEW t \in Tasks, Fail(t), task'[t] = "archive"
      PROVE  Msg(t).attempt = Msg(t).maxRetry
  <2>1. t[2] \in 1 .. Len(log) /\ Msg(t) \in Messages
    BY <1>2, MsgType DEF Fail, Typed, TaskOffsets
  <2>2. Msg(t).attempt \in Nat /\ Msg(t).maxRetry \in Nat
    BY <2>1 DEF Messages
  <2>3. Msg(t).attempt > 0 => Msg(t).attempt <= Msg(t).maxRetry
    BY <2>1 DEF RetryChain, Msg
  <2>4. ~(Msg(t).attempt + 1 <= Msg(t).maxRetry)
    BY <1>2 DEF Fail, Go, Typed, TypeOK, WorkerTypeOK
  <2> QED
    BY <2>2, <2>3, <2>4
<1>3. ASSUME NEW t \in Tasks, task'[t] = "archive"
      PROVE  (Msg(t).attempt = Msg(t).maxRetry)'
  <2>1. task[t] # "none" /\ Msg(t).attempt = Msg(t).maxRetry
    BY <1>1, <1>2, <1>3 DEF ArchiveIsLast, Fail
  <2>2. Msg(t)' = Msg(t)
    <3>1. CASE UNCHANGED log
      BY <3>1 DEF Msg
    <3> QED
      BY <2>1, <3>1, LogStep, MsgKept
  <2> QED
    BY <2>1, <2>2
<1> QED
  BY <1>3 DEF ArchiveIsLast

\* A row becomes archived, or stays so, with the attempt it had or with that of a
\* goroutine that archives it.
LEMMA WhoArchives ==
  ASSUME RowInv, [Next]_vars, NEW j \in Jobs, jobs'[j].status = "archived"
  PROVE  \/ jobs'[j] = jobs[j]
         \/ \E t \in Tasks : /\ Archive(t) /\ Msg(t).job = j
                            /\ jobs'[j].attempt = Msg(t).attempt + 1
<1>0. Typed /\ StoreTypeOK /\ PromoterTypeOK /\ RowsOfRequests
  BY DEF RowInv, Typed, TypeOK
<1>1. ASSUME NEW s \in Statuses, NEW a \in Nat, jobs' = WithStatus(j, s, a)
      PROVE  jobs'[j] = jobs[j] \/ (s = "archived" /\ jobs'[j].attempt = a)
  <2>1. CASE Exists(j)
    BY <1>0, <1>1, <2>1 DEF WithStatus, StoreTypeOK
  <2>2. CASE ~Exists(j)
    BY <1>0, <1>1, <2>2 DEF WithStatus, StoreTypeOK, Rows
  <2> QED
    BY <2>1, <2>2
<1>2. CASE CreateRow(j)
  <2>1. ~Exists(j) /\ jobs[j] \in Rows
    BY <1>0, <1>2 DEF CreateRow, RowsOfRequests, StoreTypeOK
  <2>2. \/ UNCHANGED jobs
        \/ jobs' = WithRow(j, IF req[j].work.runAt > 0 THEN "scheduled" ELSE "pending",
                           req[j].work)
    BY <1>2 DEF CreateRow
  <2> QED
    BY <1>0, <2>2 DEF WithRow, StoreTypeOK
<1>3. CASE jobs' = WithStatus(j, "cancelled", 0)
  BY <1>1, <1>3 DEF Statuses
<1>4. ASSUME NEW t \in Tasks, TaskStep(t), task[t] # "none", Msg(t).job = j
      PROVE  \/ jobs'[j] = jobs[j]
             \/ Archive(t) /\ jobs'[j].attempt = Msg(t).attempt + 1
  <2>0. Msg(t).attempt \in Nat /\ Msg(t).attempt + 1 \in Nat
    BY <1>0, <1>4, MsgType DEF Messages
  <2>1. CASE Admit(t) \/ Load(t) \/ Retry(t) \/ Commit(t)
    BY <2>1 DEF Admit, Load, Retry, Commit
  <2>2. CASE Start(t)
    BY <1>1, <1>4, <2>0, <2>2 DEF Start, TryStatus, Statuses
  <2>3. CASE CompleteEmail(t)
    BY <1>1, <1>4, <2>0, <2>3 DEF CompleteEmail, CompleteJobWithOutbox, Statuses
  <2>4. CASE RejectUnknown(t) \/ Fail(t)
    BY <1>1, <1>4, <2>0, <2>4 DEF RejectUnknown, Fail, TryStatus, Statuses
  <2>5. CASE Complete(t)
    BY <1>1, <1>4, <2>0, <2>5 DEF Complete, TryStatus, Statuses
  <2>6. CASE Archive(t)
    BY <1>1, <1>4, <2>0, <2>6 DEF Archive, TryStatus, Statuses
  <2> QED
    BY <1>4, <2>1, <2>2, <2>3, <2>4, <2>5, <2>6 DEF TaskStep
<1>5. ASSUME NEW i \in current, PromoteUpdate(i), i.job = j
      PROVE  jobs'[j] = jobs[j]
  <2>1. i.attempt \in Nat
    BY <1>0, <1>5 DEF PromoterTypeOK, DueItems
  <2> QED
    BY <1>1, <1>5, <2>1 DEF PromoteUpdate, TryStatus, Statuses
<1> QED
  BY <1>0, <1>2, <1>3, <1>4, <1>5, RowWriters

LEMMA ExhaustedNext ==
  ASSUME RowInv, ExhaustedInv, [Next]_vars
  PROVE  ArchivedOnlyExhausted'
<1> USE DEF ExhaustedInv, ChainInv
<1>0. Len(log) \in Nat
  BY LogLength DEF Typed, TypeOK
<1>1. \A o \in 1 .. Len(log) : o \in 1 .. Len(log') /\ log'[o] = log[o]
  <2>1. CASE UNCHANGED log
    BY <2>1
  <2>2. ASSUME NEW m \in Messages, Append1(m)
        PROVE  \A o \in 1 .. Len(log) : o \in 1 .. Len(log') /\ log'[o] = log[o]
    BY <1>0, <2>2, AppendLog DEF Typed, TypeOK
  <2> QED
    BY <2>1, <2>2, LogStep
<1>2. ASSUME NEW j \in Jobs, jobs'[j].status = "archived"
      PROVE  \E o \in 1 .. Len(log) : /\ log[o].job = j
                                      /\ log[o].attempt = log[o].maxRetry
                                      /\ jobs'[j].attempt = log[o].attempt + 1
  <2>1. CASE jobs'[j] = jobs[j]
    BY <1>2, <2>1 DEF ArchivedOnlyExhausted, MessagesOf
  <2>2. ASSUME NEW t \in Tasks, Archive(t), Msg(t).job = j,
               jobs'[j].attempt = Msg(t).attempt + 1
        PROVE  \E o \in 1 .. Len(log) : /\ log[o].job = j
                                        /\ log[o].attempt = log[o].maxRetry
                                        /\ jobs'[j].attempt = log[o].attempt + 1
    BY <2>2 DEF Archive, ArchiveIsLast, Typed, TaskOffsets, Msg
  <2> QED
    BY <1>2, <2>1, <2>2, WhoArchives
<1> QED
  BY <1>1, <1>2 DEF ArchivedOnlyExhausted, MessagesOf

\* A job is archived only after a delivery of its last permitted attempt, in every
\* behaviour: early attempts are never archived, whatever else is done to the row.
THEOREM OnlyExhaustedAreArchived == Spec => []ArchivedOnlyExhausted
<1>1. Init => RowInv /\ ExhaustedInv
  <2>1. Init => Typed
    BY InitTyped DEF Typed, TaskOffsets, Init, WorkerInit
  <2>2. Init => RetryChain /\ RetryBudget /\ ArchiveIsLast /\ ArchivedOnlyExhausted
    BY DEF Init, StoreInit, WorkerInit, RetryChain, RetryBudget, ArchiveIsLast,
           ArchivedOnlyExhausted
  <2> QED
    BY <2>1, <2>2, RowInvInit DEF ExhaustedInv, ChainInv
<1>2. RowInv /\ ExhaustedInv /\ [Next]_vars => (RowInv /\ ExhaustedInv)'
  BY RowInvNext, ChainInvNext, ArchiveIsLastNext, ExhaustedNext DEF ExhaustedInv
<1>3. ExhaustedInv => ArchivedOnlyExhausted
  BY DEF ExhaustedInv
<1> QED
  BY <1>1, <1>2, <1>3, PTL DEF Spec

-----------------------------------------------------------------------------
(* Completed e-mails and the outbox *)

\* The rows of the outbox are about jobs that exist.
OutboxExists == \A i \in 1 .. Len(outbox) : Exists(outbox[i].job)

OutboxInv == RowInv /\ OutboxExists /\ OutboxMatchesJobs

\* Only the transaction of CompleteEmail writes to the outbox.
LEMMA OutboxWriters ==
  ASSUME Typed, [Next]_vars
  PROVE  \/ UNCHANGED outbox
         \/ \E t \in Tasks :
              CompleteEmail(t) /\ CompleteJobWithOutbox(Msg(t).job, Msg(t).attempt)
<1>1. APINext => UNCHANGED outbox
  BY DEF APINext, Submit, Lookup, CreateRow, Dispatch, RetryArchivedJob, CancelCheck,
         CancelWrite, PauseQueue, UnpauseQueue, SetQueuePaused, storeVars
<1>2. PromoterNext => UNCHANGED outbox
  BY DEF PromoterNext, PromoterStep, List, PromoteEnqueue, PromoteUpdate,
         PromoterRestart, storeVars
<1>3. WorkerNext => UNCHANGED outbox \/ \E t \in Tasks : CompleteEmail(t)
  BY DEF WorkerNext, Join, Crash, Fetch, TaskStep, Admit, Load, Start,
         RejectUnknown, Complete, Fail, Retry, Archive, Commit, storeVars
<1>4. Tick \/ UNCHANGED vars => UNCHANGED outbox
  BY DEF Tick, vars, storeVars
<1> QED
  BY <1>1, <1>2, <1>3, <1>4 DEF Next, CompleteEmail

LEMMA OutboxStep ==
  ASSUME Typed, [Next]_vars
  PROVE  /\ Len(outbox) \in Nat /\ Len(outbox') \in Nat
         /\ \A i \in 1 .. Len(outbox) : i \in 1 .. Len(outbox') /\ outbox'[i] = outbox[i]
         /\ \A i \in 1 .. Len(outbox') :
              \/ i \in 1 .. Len(outbox)
              \/ \E t \in Tasks : CompleteEmail(t) /\ outbox'[i].job = Msg(t).job
<1>0. outbox \in Seq(OutboxRows)
  BY DEF Typed, TypeOK, StoreTypeOK
<1>1. Len(outbox) \in Nat
  BY <1>0, LenProperties
<1>2. CASE UNCHANGED outbox
  BY <1>1, <1>2
<1>3. ASSUME NEW t \in Tasks, CompleteEmail(t),
             CompleteJobWithOutbox(Msg(t).job, Msg(t).attempt)
      PROVE  /\ Len(outbox') = Len(outbox) + 1
             /\ \A i \in 1 .. Len(outbox) : outbox'[i] = outbox[i]
             /\ outbox'[Len(outbox) + 1].job = Msg(t).job
  <2> DEFINE r == [job |-> Msg(t).job, status |-> "pending"]
  <2>1. outbox' = Append(outbox, r)
    BY <1>3 DEF CompleteJobWithOutbox
  <2>2. r \in OutboxRows /\ r.job = Msg(t).job
    BY <1>3, MsgType DEF CompleteEmail, Messages, OutboxRows
  <2> HIDE DEF r
  <2> QED
    BY <1>0, <2>1, <2>2, AppendProperties
<1> QED
  BY <1>1, <1>2, <1>3, OutboxWriters

\* A row becomes completed by the transaction, or by a handler for another type.
LEMMA WhoCompletes ==
  ASSUME RowInv, [Next]_vars, NEW j \in Jobs, jobs'[j].status = "completed"
  PROVE  \/ jobs'[j] = jobs[j]
         \/ \E t \in Tasks : /\ Msg(t).job = j /\ task[t] # "none"
                            /\ \/ Complete(t)
                               \/ /\ CompleteEmail(t)
                                  /\ CompleteJobWithOutbox(j, Msg(t).attempt)
<1>0. Typed /\ StoreTypeOK /\ PromoterTypeOK /\ RowsOfRequests
  BY DEF RowInv, Typed, TypeOK
<1>1. ASSUME NEW s \in Statuses, NEW a \in Nat, jobs' = WithStatus(j, s, a)
      PROVE  jobs'[j] = jobs[j] \/ s = "completed"
  <2>1. CASE Exists(j)
    BY <1>0, <1>1, <2>1 DEF WithStatus, StoreTypeOK
  <2>2. CASE ~Exists(j)
    BY <1>0, <1>1, <2>2 DEF WithStatus, StoreTypeOK, Rows
  <2> QED
    BY <2>1, <2>2
<1>2. CASE CreateRow(j)
  <2>1. \/ UNCHANGED jobs
        \/ jobs' = WithRow(j, IF req[j].work.runAt > 0 THEN "scheduled" ELSE "pending",
                           req[j].work)
    BY <1>2 DEF CreateRow
  <2> QED
    BY <1>0, <2>1 DEF WithRow, StoreTypeOK
<1>3. CASE jobs' = WithStatus(j, "cancelled", 0)
  BY <1>1, <1>3 DEF Statuses
<1>4. ASSUME NEW t \in Tasks, TaskStep(t), task[t] # "none", Msg(t).job = j
      PROVE  \/ jobs'[j] = jobs[j]
             \/ Complete(t)
             \/ CompleteEmail(t) /\ CompleteJobWithOutbox(j, Msg(t).attempt)
  <2>0. Msg(t).attempt \in Nat /\ Msg(t).attempt + 1 \in Nat
    BY <1>0, <1>4, MsgType DEF Messages
  <2>1. CASE Admit(t) \/ Load(t) \/ Retry(t) \/ Commit(t)
    BY <2>1 DEF Admit, Load, Retry, Commit
  <2>2. CASE Start(t)
    BY <1>1, <1>4, <2>0, <2>2 DEF Start, TryStatus, Statuses
  <2>3. CASE CompleteEmail(t)
    BY <1>4, <2>3 DEF CompleteEmail
  <2>4. CASE RejectUnknown(t) \/ Fail(t)
    BY <1>1, <1>4, <2>0, <2>4 DEF RejectUnknown, Fail, TryStatus, Statuses
  <2>5. CASE Archive(t)
    BY <1>1, <1>4, <2>0, <2>5 DEF Archive, TryStatus, Statuses
  <2> QED
    BY <1>4, <2>1, <2>2, <2>3, <2>4, <2>5 DEF TaskStep
<1>5. ASSUME NEW i \in current, PromoteUpdate(i), i.job = j
      PROVE  jobs'[j] = jobs[j]
  <2>1. i.attempt \in Nat
    BY <1>0, <1>5 DEF PromoterTypeOK, DueItems
  <2> QED
    BY <1>1, <1>5, <2>1 DEF PromoteUpdate, TryStatus, Statuses
<1> QED
  BY <1>0, <1>2, <1>3, <1>4, <1>5, RowWriters

LEMMA OutboxInvNext == OutboxInv /\ [Next]_vars => OutboxInv'
<1> SUFFICES ASSUME OutboxInv, [Next]_vars PROVE OutboxInv'
  OBVIOUS
<1> USE DEF OutboxInv
<1>0. Typed /\ MessagesMatchRows /\ RowsKept /\ RowInv'
  BY RowInvNext, NextKeepsRows DEF RowInv
<1>1. \A i \in 1 .. Len(outbox) : outbox[i].job \in Jobs
  <2>1. outbox \in Seq(OutboxRows)
    BY <1>0 DEF Typed, TypeOK, StoreTypeOK
  <2>2. \A i \in 1 .. Len(outbox) : outbox[i] \in OutboxRows
    BY <2>1, ElementOfSeq
  <2> QED
    BY <2>2 DEF OutboxRows
<1>2. ASSUME NEW t \in Tasks, CompleteEmail(t)
      PROVE  /\ Msg(t).job \in Jobs
             /\ Exists(Msg(t).job)
             /\ jobs[Msg(t).job].work.type = "email" /\ jobs[Msg(t).job].work.valid
  BY <1>0, <1>2, MsgType, MsgMatches DEF CompleteEmail, Messages, Matches
<1>3. ASSUME NEW i \in 1 .. Len(outbox')
      PROVE  \E j \in Jobs : /\ j = outbox'[i].job
                             /\ Exists(j)
                             /\ jobs[j].work.type = "email" /\ jobs[j].work.valid
  <2>1. CASE i \in 1 .. Len(outbox)
    BY <1>0, <1>1, <2>1, OutboxStep DEF OutboxExists, OutboxMatchesJobs
  <2>2. CASE \E t \in Tasks : CompleteEmail(t) /\ outbox'[i].job = Msg(t).job
    BY <1>2, <2>2
  <2> QED
    BY <1>0, <2>1, <2>2, OutboxStep
<1>4. OutboxExists'
  BY <1>0, <1>3 DEF OutboxExists, RowsKept, Exists
<1>5. ASSUME NEW j \in Jobs, jobs'[j].status = "completed",
             jobs'[j].work.type = "email"
      PROVE  \E i \in 1 .. Len(outbox') : outbox'[i].job = j
  <2>1. CASE jobs'[j] = jobs[j]
    BY <1>0, <1>5, <2>1, OutboxStep DEF OutboxMatchesJobs
  <2>2. ASSUME NEW t \in Tasks, Msg(t).job = j, task[t] # "none"
        PROVE  jobs[j].work.type = Msg(t).type /\ jobs'[j].work = jobs[j].work
    BY <1>0, <2>2, MsgMatches DEF Matches, RowsKept
  <2>3. ASSUME NEW t \in Tasks, Msg(t).job = j, task[t] # "none", Complete(t)
        PROVE  FALSE
    BY <1>5, <2>2, <2>3 DEF Complete
  <2>4. ASSUME NEW a, CompleteJobWithOutbox(j, a)
        PROVE  \E i \in 1 .. Len(outbox') : outbox'[i].job = j
    <3> DEFINE r == [job |-> j, status |-> "pending"]
    <3>1. outbox \in Seq(OutboxRows) /\ r \in OutboxRows /\ r.job = j
      BY <1>0 DEF Typed, TypeOK, StoreTypeOK, OutboxRows
    <3>2. outbox' = Append(outbox, r)
      BY <2>4 DEF CompleteJobWithOutbox
    <3> HIDE DEF r
    <3>3. /\ Len(outbox') = Len(outbox) + 1 /\ Len(outbox) \in Nat
          /\ outbox'[Len(outbox) + 1] = r
      BY <3>1, <3>2, AppendProperties, LenProperties
    <3>4. Len(outbox) + 1 \in 1 .. Len(outbox')
      BY <3>3
    <3> QED
      BY <3>1, <3>3, <3>4
  <2> QED
    BY <1>5, <2>1, <2>3, <2>4, WhoCompletes
<1>6. OutboxMatchesJobs'
  BY <1>0, <1>3, <1>5 DEF OutboxMatchesJobs, RowsKept
<1> QED
  BY <1>0, <1>4, <1>6

\* A completed e-mail job has its row in the outbox, and the outbox holds nothing
\* but valid e-mails, in every behaviour: the two writes are one transaction, and no
\* other step completes an e-mail.
THEOREM OutboxAlwaysMatches == Spec => []OutboxMatchesJobs
<1>1. ASSUME Init PROVE OutboxInv
  <2>1. Len(outbox) = 0 /\ \A j \in Jobs : jobs[j].status = "absent"
    BY <1>1 DEF Init, StoreInit
  <2> QED
    BY <1>1, <2>1, RowInvInit DEF OutboxInv, OutboxExists, OutboxMatchesJobs
<1>2. OutboxInv => OutboxMatchesJobs
  BY DEF OutboxInv
<1> QED
  BY <1>1, <1>2, OutboxInvNext, PTL DEF Spec

-----------------------------------------------------------------------------
(* The same key gives the same job *)

\* Two rows never have the same type, queue and key: the unique index.
KeysAreUnique ==
  \A k, l \in Jobs :
    /\ Exists(k) /\ Exists(l)
    /\ jobs[k].work.key # NoKey
    /\ jobs[k].work.type = jobs[l].work.type
    /\ jobs[k].work.queue = jobs[l].work.queue
    /\ jobs[k].work.key = jobs[l].work.key
    => k = l

\* A request was answered with one job, and with a key it is a row that fits.
Answered(j) ==
  \E k \in Jobs :
    /\ req[j].reply = {k}
    /\ req[j].work.key # NoKey => k \in SameKey(req[j].work)

RepliesFit == \A j \in Jobs : req[j].pc = "done" => Answered(j)

KeyInv == RowInv /\ KeysAreUnique /\ RepliesFit

LEMMA KeysAreUniqueNext ==
  ASSUME KeyInv, [Next]_vars
  PROVE  KeysAreUnique'
<1> USE DEF KeyInv
<1>0. Typed /\ StoreTypeOK /\ RowsOfRequests /\ RowsKept
  BY NextKeepsRows DEF RowInv, Typed, TypeOK
<1>1. ASSUME \A k \in Jobs : Exists(k)' => Exists(k)
      PROVE  KeysAreUnique'
  BY <1>0, <1>1 DEF KeysAreUnique, RowsKept
<1>2. ASSUME NEW j \in Jobs, CreateRow(j)
      PROVE  KeysAreUnique'
  <2> DEFINE w == req[j].work
             s == IF w.runAt > 0 THEN "scheduled" ELSE "pending"
  <2>1. CASE UNCHANGED jobs
    BY <1>1, <2>1 DEF Exists
  <2>2. CASE KeyFree(w) /\ jobs' = WithRow(j, s, w)
    <3>1. /\ jobs'[j].work = w
          /\ \A k \in Jobs \ {j} : jobs'[k] = jobs[k]
      BY <1>0, <2>2 DEF WithRow, StoreTypeOK
    <3>2. w.key # NoKey =>
            \A k \in Jobs : ~(/\ Exists(k) /\ jobs[k].work.type = w.type
                              /\ jobs[k].work.queue = w.queue
                              /\ jobs[k].work.key = w.key)
      BY <2>2 DEF KeyFree, SameKey
    <3> QED
      BY <3>1, <3>2 DEF KeysAreUnique, Exists
  <2> QED
    BY <1>2, <2>1, <2>2 DEF CreateRow
<1>3. (\A k \in Jobs : Exists(k)' => Exists(k)) \/ \E j \in Jobs : CreateRow(j)
  <2>1. ASSUME NEW k \in Jobs, ~Exists(k), Exists(k)', ~CreateRow(k)
        PROVE  FALSE
    <3>1. jobs'[k] # jobs[k]
      BY <2>1 DEF Exists
    <3>2. ASSUME NEW t \in Tasks, task[t] # "none", Msg(t).job = k
          PROVE  FALSE
      BY <1>0, <2>1, <3>2, MsgMatches DEF RowInv, Matches
    <3>3. ASSUME NEW i \in current, i.job = k
          PROVE  FALSE
      BY <1>0, <2>1, <3>3 DEF RowInv, DueExists, Typed, TypeOK, PromoterTypeOK
    <3>4. jobs' # WithStatus(k, "cancelled", 0)
      BY <1>0, <2>1 DEF WithStatus, StoreTypeOK, Exists
    <3> QED
      BY <1>0, <2>1, <3>1, <3>2, <3>3, <3>4, RowWriters
  <2> QED
    BY <2>1
<1> QED
  BY <1>1, <1>2, <1>3

LEMMA RepliesFitNext ==
  ASSUME KeyInv, [Next]_vars
  PROVE  RepliesFit'
<1> USE DEF KeyInv
<1>0. Typed /\ StoreTypeOK /\ APITypeOK /\ RowsOfRequests /\ RowsKept
  BY NextKeepsRows DEF RowInv, Typed, TypeOK
<1>1. ASSUME NEW j \in Jobs, Answered(j), req'[j] = req[j]
      PROVE  Answered(j)'
  BY <1>0, <1>1 DEF Answered, SameKey, RowsKept, Exists
<1>2. ASSUME NEW j \in Jobs, Lookup(j), req'[j].pc = "done"
      PROVE  Answered(j)'
  <2>1. UNCHANGED jobs
    BY <1>2 DEF Lookup
  <2>2. CASE \E k \in SameKey(req[j].work) : Reply(j, k)
    BY <1>0, <2>1, <2>2
    DEF Reply, Answered, SameKey, Exists, APITypeOK, Requests
  <2> QED
    BY <1>0, <1>2, <2>2 DEF Lookup, Goto, APITypeOK, Requests
<1>3. ASSUME NEW j \in Jobs, Dispatch(j), req'[j].pc = "done"
      PROVE  Answered(j)'
  <2>1. Exists(j) /\ jobs[j].work = req[j].work /\ UNCHANGED jobs
    BY <1>0, <1>3 DEF Dispatch, RowsOfRequests
  <2>2. CASE Reply(j, j)
    BY <1>0, <2>1, <2>2 DEF Reply, Answered, SameKey, Exists, APITypeOK, Requests
  <2> QED
    BY <1>0, <1>3, <2>2 DEF Dispatch, Goto, APITypeOK, Requests
<1>4. ASSUME NEW j \in Jobs, req'[j].pc = "done"
      PROVE  req'[j] = req[j] \/ Lookup(j) \/ Dispatch(j)
  <2>1. CASE UNCHANGED req
    BY <2>1
  <2>2. ASSUME NEW k \in Jobs, Lookup(k) \/ Dispatch(k)
        PROVE  req'[j] = req[j] \/ k = j
    BY <1>0, <2>2 DEF Lookup, Dispatch, Goto, Reply, APITypeOK, Requests
  <2>3. ASSUME NEW k \in Jobs, CreateRow(k)
        PROVE  req'[j] = req[j]
    BY <1>0, <1>4, <2>3 DEF CreateRow, Goto, APITypeOK, Requests
  <2>4. ASSUME NEW k \in Jobs, NEW s \in Submissions, Submit(k, s)
        PROVE  req'[j] = req[j]
    BY <1>0, <1>4, <2>4 DEF Submit, APITypeOK, Requests
  <2>5. ASSUME NEW k \in Jobs, NEW src \in Jobs, NEW q \in Queues,
               RetryArchivedJob(k, src, q)
        PROVE  req'[j] = req[j]
    BY <1>0, <1>4, <2>5 DEF RetryArchivedJob, APITypeOK, Requests
  <2>6. \/ UNCHANGED req
        \/ \E k \in Jobs : Lookup(k) \/ CreateRow(k) \/ Dispatch(k)
        \/ \E k \in Jobs, s \in Submissions : Submit(k, s)
        \/ \E k \in Jobs, src \in Jobs, q \in Queues : RetryArchivedJob(k, src, q)
    BY DEF Next, vars, apiVars, APINext, CancelCheck, CancelWrite, PauseQueue,
           UnpauseQueue, SetQueuePaused
  <2> QED
    BY <2>1, <2>2, <2>3, <2>4, <2>5, <2>6
<1> QED
  BY <1>1, <1>2, <1>3, <1>4 DEF RepliesFit

LEMMA KeysAnswerOnce == KeyInv => IdempotentReplies
<1> SUFFICES ASSUME KeyInv PROVE IdempotentReplies
  OBVIOUS
<1>1. ASSUME NEW i \in Jobs, NEW j \in Jobs,
             req[i].pc = "done", req[j].pc = "done",
             req[i].work.key # NoKey,
             req[i].work.type = req[j].work.type,
             req[i].work.queue = req[j].work.queue,
             req[i].work.key = req[j].work.key
      PROVE  /\ req[i].reply = req[j].reply
             /\ \A k \in req[i].reply : Exists(k) /\ jobs[k].work.key = req[i].work.key
  <2>1. PICK k \in Jobs : req[i].reply = {k} /\ k \in SameKey(req[i].work)
    BY <1>1 DEF KeyInv, RepliesFit, Answered
  <2>2. PICK l \in Jobs : req[j].reply = {l} /\ l \in SameKey(req[j].work)
    BY <1>1 DEF KeyInv, RepliesFit, Answered
  <2>3. k = l
    BY <1>1, <2>1, <2>2 DEF KeyInv, KeysAreUnique, SameKey
  <2> QED
    BY <2>1, <2>2, <2>3 DEF SameKey
<1> QED
  BY <1>1 DEF IdempotentReplies

\* Two accepted submissions with one key were given one job, which has a row with
\* that key, in every behaviour: what the lookup misses the index refuses.
THEOREM KeysGiveOneJob == Spec => []IdempotentReplies
<1>1. ASSUME Init PROVE KeyInv
  <2>1. \A j \in Jobs : ~Exists(j) /\ req[j].pc = "idle"
    BY <1>1 DEF Init, StoreInit, APIInit, Exists
  <2> QED
    BY <1>1, <2>1, RowInvInit DEF KeyInv, KeysAreUnique, RepliesFit
<1>2. KeyInv /\ [Next]_vars => KeyInv'
  BY RowInvNext, KeysAreUniqueNext, RepliesFitNext DEF KeyInv
<1> QED
  BY <1>1, <1>2, KeysAnswerOnce, PTL DEF Spec

-----------------------------------------------------------------------------
(* Cancelled jobs *)

\* What a step does to the goroutines of a cancelled job: none gets past the test.
LEMMA NobodyStarts ==
  ASSUME Typed, [Next]_vars, NEW j \in Jobs, jobs[j].status = "cancelled",
         NEW t \in Tasks,
         task'[t] \in {"start", "handle", "retry", "archive"}, Msg(t)'.job = j
  PROVE  task[t] \in {"start", "handle", "retry", "archive"} /\ Msg(t).job = j
<1>1. task[t] # "none"
  <2>1. CASE UNCHANGED task
    BY <2>1
  <2>2. CASE \E w \in Workers : Crash(w)
    BY <2>2 DEF Crash, Running
  <2>3. CASE Fetch
    BY <2>3 DEF Fetch, Typed, TypeOK, WorkerTypeOK
  <2>4. CASE \E u \in Tasks : TaskStep(u)
    BY <2>4
    DEF TaskStep, Admit, Load, Start, CompleteEmail, RejectUnknown, Complete,
        Fail, Retry, Archive, Commit, Go, Typed, TypeOK, WorkerTypeOK
  <2>5. UNCHANGED task \/ WorkerNext
    BY DEF Next, vars, workerVars
  <2> QED
    BY <2>1, <2>2, <2>3, <2>4, <2>5 DEF WorkerNext, Join
<1>2. Msg(t) = Msg(t)'
  <2>1. CASE UNCHANGED log
    BY <2>1 DEF Msg
  <2> QED
    BY <1>1, <2>1, LogStep, MsgKept
<1>3. Msg(t).job = j
  BY <1>2
<1>4. task[t] \in {"start", "handle", "retry", "archive"}
  <2>1. CASE UNCHANGED task
    BY <2>1
  <2>2. CASE \E w \in Workers : Crash(w)
    BY <2>2 DEF Crash
  <2>3. CASE Fetch
    BY <2>3 DEF Fetch, Typed, TypeOK, WorkerTypeOK
  <2>4. ASSUME NEW u \in Tasks, TaskStep(u)
        PROVE  task[t] \in {"start", "handle", "retry", "archive"}
    <3>1. CASE u # t
      BY <2>4, <3>1
      DEF TaskStep, Admit, Load, Start, CompleteEmail, RejectUnknown, Complete,
          Fail, Retry, Archive, Commit, Go, Typed, TypeOK, WorkerTypeOK
    <3>2. CASE u = t
      <4>1. ~Load(t)
        BY <1>3 DEF Load, Go, Typed, TypeOK, WorkerTypeOK
      <4>2. ~Admit(t) /\ ~Commit(t)
        BY DEF Admit, Commit, Go, Typed, TypeOK, WorkerTypeOK
      <4> QED
        BY <2>4, <3>2, <4>1, <4>2
        DEF TaskStep, Start, CompleteEmail, RejectUnknown, Complete, Fail, Retry,
            Archive
    <3> QED
      BY <3>1, <3>2
  <2>5. UNCHANGED task \/ WorkerNext
    BY DEF Next, vars, workerVars
  <2> QED
    BY <2>1, <2>2, <2>3, <2>4, <2>5 DEF WorkerNext, Join
<1> QED
  BY <1>3, <1>4

LEMMA CancelledStays ==
  ASSUME RowInv, [Next]_vars, NEW j \in Jobs,
         jobs[j].status = "cancelled", Undisturbed(j)
  PROVE  jobs'[j].status = "cancelled" /\ Undisturbed(j)'
<1>0. Typed /\ StoreTypeOK /\ PromoterTypeOK /\ RowsOfRequests
  BY DEF RowInv, Typed, TypeOK
<1>1. jobs'[j].status = "cancelled"
  <2>1. ~CreateRow(j)
    BY <1>0 DEF CreateRow, RowsOfRequests, Exists
  <2>2. ASSUME jobs' = WithStatus(j, "cancelled", 0)
        PROVE  jobs'[j].status = "cancelled"
    BY <1>0, <2>2 DEF WithStatus, StoreTypeOK
  <2>3. ASSUME NEW t \in Tasks, TaskStep(t), Msg(t).job = j
        PROVE  UNCHANGED jobs
    BY <2>3
    DEF Undisturbed, TaskStep, Admit, Load, Start, CompleteEmail, RejectUnknown,
        Complete, Fail, Retry, Archive, Commit
  <2>4. \A i \in current : i.job # j
    BY <1>0 DEF Undisturbed, PromoterTypeOK
  <2> QED
    BY <1>0, <2>1, <2>2, <2>3, <2>4, RowWriters
<1>2. ASSUME NEW i \in due'
      PROVE  i.job # j
  <2>1. CASE i \in due
    BY <2>1 DEF Undisturbed
  <2>2. CASE List
    BY <2>2 DEF List, ScheduledDue
  <2>3. due' \subseteq due \/ List
    BY DEF Next, vars, promoVars, PromoterNext, PromoterStep, PromoteEnqueue,
           PromoteUpdate, PromoterRestart
  <2> QED
    BY <2>1, <2>2, <2>3
<1>3. ASSUME NEW t \in Tasks, task'[t] \in {"start", "handle", "retry", "archive"}
      PROVE  Msg(t)'.job # j
  BY <1>0, <1>3, NobodyStarts DEF Undisturbed
<1> QED
  BY <1>1, <1>2, <1>3 DEF Undisturbed

\* A cancellation that nobody races is for ever, in every behaviour: messages that
\* are still on the topic, or come again, do not start the job.
THEOREM CancellationHolds == Spec => CancelledStaysCancelled
<1>1. ASSUME RowInv, [Next]_vars
      PROVE  \A j \in Jobs :
               jobs[j].status = "cancelled" /\ Undisturbed(j) =>
                 jobs'[j].status = "cancelled" /\ Undisturbed(j)'
  BY <1>1, CancelledStays
<1> QED
  BY <1>1, RowInvInit, RowInvNext, PTL DEF Spec, CancelledStaysCancelled
-----------------------------------------------------------------------------
(* Whoever embeds the system *)

\* What a program around the system may post.
Bodies == [work: Works, maxRetry: Int]

\* Calls fail, and the process that serves requests may end with them.
Setback ==
  \E S \in SUBSET Jobs :
    /\ req' = [j \in Jobs |->
                 IF j \in S /\ req[j].pc \in {"lookup", "create", "dispatch"}
                 THEN [req[j] EXCEPT !.pc = "failed"] ELSE req[j]]
    /\ faults' \in Nat
    /\ UNCHANGED <<jobs, outbox, paused, log, now, cancel>>

\* What the compositions (Handlers, FrontEnds) add to the steps of the system.
Outside ==
  /\ Setback \/ \E j \in Jobs, s \in Bodies : Submit(j, s)
  /\ UNCHANGED <<workerVars, promoVars>>

OpenNext == Next \/ Outside

OpenSpec == Init /\ [][OpenNext]_vars

\* A request from outside changes only requests: it begins some or ends some.
LEMMA OutsideStep ==
  ASSUME Typed, Outside
  PROVE  /\ UNCHANGED <<jobs, outbox, paused, log, now, cancel>>
         /\ UNCHANGED <<workerVars, promoVars>>
         /\ Typed'
         /\ \A j \in Jobs :
              \/ req'[j] = req[j]
              \/ /\ req[j].pc \in {"lookup", "create", "dispatch"}
                 /\ req'[j] = [req[j] EXCEPT !.pc = "failed"]
              \/ /\ req[j].pc = "idle" /\ req'[j].pc \in {"lookup", "create"}
                 /\ req'[j].reply = {}
<1> USE DEF Typed, TypeOK
<1>0. Len(log) \in Nat /\ StoreTypeOK /\ APITypeOK
  BY LogLength
<1>1. CASE Setback
  <2>1. PICK S \in SUBSET Jobs :
          req' = [j \in Jobs |->
                    IF j \in S /\ req[j].pc \in {"lookup", "create", "dispatch"}
                    THEN [req[j] EXCEPT !.pc = "failed"] ELSE req[j]]
    BY <1>1 DEF Setback
  <2>2. APITypeOK'
    <3>1. req \in [Jobs -> Requests]
      BY <1>0 DEF APITypeOK
    <3>2. \A r \in Requests : [r EXCEPT !.pc = "failed"] \in Requests
      BY DEF Requests
    <3>3. req' \in [Jobs -> Requests]
      BY ONLY <2>1, <3>1, <3>2
    <3> QED
      BY <1>0, <1>1, <3>3 DEF Setback, APITypeOK
  <2>3. StoreTypeOK'
    BY <1>0, <1>1 DEF Setback, StoreTypeOK
  <2>4. WorkerTypeOK' /\ TaskOffsets' /\ PromoterTypeOK'
    BY <1>0, <1>1, WorkerKept, PromoterKept DEF Setback, Outside
  <2> QED
    BY <1>1, <2>1, <2>2, <2>3, <2>4 DEF Setback, Outside
<1>2. ASSUME NEW k \in Jobs, NEW s \in Bodies, Submit(k, s)
      PROVE  /\ UNCHANGED <<storeVars, cancel>>
             /\ APITypeOK'
             /\ \A j \in Jobs :
                  \/ req'[j] = req[j]
                  \/ /\ req[j].pc = "idle" /\ req'[j].pc \in {"lookup", "create"}
                     /\ req'[j].reply = {}
  BY <1>0, <1>2 DEF Submit, Bodies, APITypeOK, Requests
<1>3. CASE \E j \in Jobs, s \in Bodies : Submit(j, s)
  <2>1. UNCHANGED storeVars /\ APITypeOK'
    BY <1>2, <1>3
  <2>2. StoreTypeOK' /\ WorkerTypeOK' /\ TaskOffsets' /\ PromoterTypeOK'
    BY <1>0, <2>1, StoreKept, WorkerKept, PromoterKept DEF Outside, storeVars
  <2> QED
    BY <1>2, <1>3, <2>1, <2>2 DEF Outside, storeVars
<1> QED
  BY <1>1, <1>3 DEF Outside

\* Everything that the proofs above rest on.
SystemInv ==
  /\ RowInv /\ ChainInv
  /\ TimeInv /\ AcceptedInv /\ ExhaustedInv /\ OutboxInv /\ KeyInv
  /\ NoGaps

LEMMA SystemInvInit == Init => SystemInv
<1> SUFFICES ASSUME Init PROVE SystemInv
  OBVIOUS
<1>1. RowInv /\ TimeInv /\ Typed
  BY RowInvInit, TimeInvInit DEF RowInv
<1>2. \A j \in Jobs :
        jobs[j].status = "absent" /\ req[j].pc = "idle" /\ req[j].reply = {}
  BY DEF Init, StoreInit, APIInit
<1>3. log = << >> /\ outbox = << >> /\ current = {}
  BY DEF Init, StoreInit, PromoterInit
<1>4. \A t \in Tasks : task[t] = "none"
  BY DEF Init, WorkerInit
<1>5. ExhaustedInv /\ ChainInv
  BY <1>1, <1>2, <1>3, <1>4
  DEF ExhaustedInv, ChainInv, RetryChain, RetryBudget, ArchiveIsLast,
      ArchivedOnlyExhausted
<1>6. AcceptedInv
  <2>1. RepliesStand
    BY <1>2 DEF RepliesStand
  <2> QED
    BY <1>1, <1>2, <1>3, <2>1 DEF AcceptedInv, DelayedWait, CurrentIsEnqueued, Exists
<1>7. OutboxInv /\ KeyInv
  BY <1>1, <1>2, <1>3
  DEF OutboxInv, OutboxExists, OutboxMatchesJobs, KeyInv, KeysAreUnique, RepliesFit,
      Exists
<1> QED
  BY <1>1, <1>5, <1>6, <1>7, NoGapsInit DEF SystemInv

LEMMA SystemInvNext == SystemInv /\ [OpenNext]_vars => SystemInv'
<1> SUFFICES ASSUME SystemInv, [OpenNext]_vars PROVE SystemInv'
  OBVIOUS
<1>1. CASE [Next]_vars
  BY <1>1, RowInvNext, ChainInvNext, TimeInvNext, DelayedWaitNext, RepliesStandNext,
     CurrentIsEnqueuedNext, ArchiveIsLastNext, ExhaustedNext, OutboxInvNext,
     KeysAreUniqueNext, RepliesFitNext, NoGapsNext
  DEF SystemInv, RowInv, AcceptedInv, ExhaustedInv, KeyInv
<1>2. CASE Outside
  <2>0. Typed
    BY DEF SystemInv, RowInv
  <2>1. UNCHANGED <<jobs, outbox, log, now, task, due, current>> /\ Typed'
    BY <1>2, <2>0, OutsideStep DEF workerVars, promoVars
  <2>2. \A j \in Jobs :
          \/ req'[j] = req[j]
          \/ /\ req[j].pc \in {"lookup", "create", "dispatch"}
             /\ req'[j].pc = "failed" /\ req'[j].reply = req[j].reply
          \/ /\ req[j].pc = "idle" /\ req'[j].pc \in {"lookup", "create"}
             /\ req'[j].reply = {}
    <3>1. \A j \in Jobs : req[j] \in Requests
      BY <2>0 DEF Typed, TypeOK, APITypeOK
    <3> QED
      BY <1>2, <2>0, <3>1, OutsideStep DEF Requests
  <2>3. RowInv'
    <3>1. RowsOfRequests'
      BY <2>1, <2>2 DEF SystemInv, RowInv, RowsOfRequests, Exists
    <3>2. MessagesMatchRows' /\ DueExists'
      BY <2>1 DEF SystemInv, RowInv, MessagesMatchRows, DueExists, Exists
    <3> QED
      BY <2>1, <3>1, <3>2 DEF RowInv
  <2>4. (RetryChain /\ RetryBudget /\ ArchiveIsLast /\ ArchivedOnlyExhausted)'
    BY <2>1
    DEF SystemInv, ChainInv, ExhaustedInv, RetryChain, RetryBudget, ArchiveIsLast,
        ArchivedOnlyExhausted, Msg, MessagesOf
  <2>5. (NotBeforeDue /\ DueIsDue /\ DelayedWait /\ CurrentIsEnqueued)'
    BY <2>1
    DEF SystemInv, TimeInv, AcceptedInv, NotBeforeDue, DueIsDue, DelayedWait,
        CurrentIsEnqueued, MessagesOf, Exists
  <2>6. RepliesStand'
    BY <2>1, <2>2 DEF SystemInv, AcceptedInv, RepliesStand, MessagesOf, Exists
  <2>7. (OutboxExists /\ OutboxMatchesJobs /\ KeysAreUnique)'
    BY <2>1 DEF SystemInv, OutboxInv, OutboxExists, OutboxMatchesJobs, KeyInv,
                KeysAreUnique, Exists
  <2>8. RepliesFit'
    BY <2>1, <2>2 DEF SystemInv, KeyInv, RepliesFit, Answered, SameKey, Exists
  <2>9. NoGaps'
    BY <1>2, <2>1 DEF SystemInv, NoGaps, Fetched, Outside, workerVars, groupVars
  <2> QED
    BY <2>1, <2>3, <2>4, <2>5, <2>6, <2>7, <2>8, <2>9
    DEF SystemInv, ChainInv, TimeInv, AcceptedInv, ExhaustedInv, OutboxInv, KeyInv
<1> QED
  BY <1>1, <1>2 DEF OpenNext

\* The promises of the system, one by one.
Promises ==
  /\ TypeOK /\ MessagesMatchRows /\ RetryChain /\ NotBeforeDue
  /\ AcceptedIsRemembered /\ ArchivedOnlyExhausted
  /\ OutboxMatchesJobs /\ IdempotentReplies /\ OnlyCrashesLose

LEMMA SystemInvPromises == SystemInv => Promises
<1> SUFFICES ASSUME SystemInv PROVE Promises
  OBVIOUS
<1>1. AcceptedIsRemembered
  BY DEF SystemInv, AcceptedInv, DelayedWait, RepliesStand, AcceptedIsRemembered
<1>2. IdempotentReplies
  BY KeysAnswerOnce DEF SystemInv
<1>3. OnlyCrashesLose
  BY NoGapsMeans DEF SystemInv, RowInv
<1> QED
  BY <1>1, <1>2, <1>3
  DEF Promises, SystemInv, RowInv, Typed, ChainInv, TimeInv, ExhaustedInv, OutboxInv

\* The promises are kept whatever bodies are posted, although requests are cut short
\* between any two of their steps.
THEOREM PromisesAreKept == OpenSpec => []Promises
<1> QED
  BY SystemInvInit, SystemInvNext, SystemInvPromises, PTL DEF OpenSpec

\* A cancellation that nobody races is for ever, whoever else submits, and although
\* requests are cut short.
THEOREM CancellationHoldsOutside == OpenSpec => CancelledStaysCancelled
<1>1. ASSUME SystemInv, [OpenNext]_vars,
             NEW j \in Jobs, jobs[j].status = "cancelled", Undisturbed(j)
      PROVE  jobs'[j].status = "cancelled" /\ Undisturbed(j)'
  <2>1. CASE [Next]_vars
    BY <1>1, <2>1, CancelledStays DEF SystemInv
  <2>2. CASE Outside
    <3>1. UNCHANGED <<jobs, log, cancel>> /\ UNCHANGED <<workerVars, promoVars>>
      BY <1>1, <2>2, OutsideStep DEF SystemInv, RowInv
    <3> QED
      BY <1>1, <3>1 DEF Undisturbed, Msg, workerVars, promoVars
  <2> QED
    BY <1>1, <2>1, <2>2 DEF OpenNext
<1>2. SystemInv /\ [OpenNext]_vars =>
        \A j \in Jobs :
          jobs[j].status = "cancelled" /\ Undisturbed(j) =>
            jobs'[j].status = "cancelled" /\ Undisturbed(j)'
  BY <1>1
<1> QED
  BY <1>2, SystemInvInit, SystemInvNext, PTL DEF OpenSpec, CancelledStaysCancelled

-----------------------------------------------------------------------------
(* What else the compositions rest on *)

\* A row has what its request asked for.
RowIsAsked == \A j \in Jobs : Exists(j) => jobs[j].work = req[j].work

\* The goroutines of a generation are for messages that it has fetched.
Ahead ==
  \A t \in Tasks :
    task[t] # "none" => t[1] < gen \/ (t[1] = gen /\ t[2] <= fetched)

\* A goroutine, once started, has its message for ever.
LEMMA MsgStays ==
  ASSUME Typed, [OpenNext]_vars, NEW t \in Tasks, task[t] # "none"
  PROVE  Msg(t)' = Msg(t) /\ task'[t] # "none"
<1>1. CASE [Next]_vars
  <2>1. CASE UNCHANGED log
    BY <1>1, <2>1, TaskStays DEF Msg
  <2> QED
    BY <1>1, <2>1, LogStep, MsgKept, TaskStays
<1>2. CASE Outside
  BY <1>2, OutsideStep DEF Msg, workerVars
<1> QED
  BY <1>1, <1>2 DEF OpenNext

\* A request that has begun keeps what it asks for.
LEMMA AskedStays ==
  ASSUME Typed, [OpenNext]_vars, NEW j \in Jobs, req[j].pc # "idle"
  PROVE  /\ req'[j].pc # "idle"
         /\ req'[j].work = req[j].work /\ req'[j].maxRetry = req[j].maxRetry
<1>0. APITypeOK
  BY DEF Typed, TypeOK
<1>1. CASE UNCHANGED req
  BY <1>1
<1>2. ASSUME NEW k \in Jobs, Lookup(k) \/ CreateRow(k) \/ Dispatch(k)
      PROVE  /\ req'[j].pc # "idle"
             /\ req'[j].work = req[j].work /\ req'[j].maxRetry = req[j].maxRetry
  BY <1>0, <1>2 DEF Lookup, CreateRow, Dispatch, Goto, Reply, APITypeOK, Requests
<1>3. ASSUME NEW k \in Jobs, NEW s \in Submissions, Submit(k, s)
      PROVE  req'[j] = req[j]
  BY <1>0, <1>3 DEF Submit, APITypeOK, Requests
<1>4. ASSUME NEW k \in Jobs, NEW src \in Jobs, NEW q \in Queues,
             RetryArchivedJob(k, src, q)
      PROVE  req'[j] = req[j]
  BY <1>0, <1>4 DEF RetryArchivedJob, APITypeOK, Requests
<1>5. CASE Outside
  BY <1>0, <1>5, OutsideStep DEF APITypeOK, Requests
<1>6. \/ UNCHANGED req
      \/ \E k \in Jobs : Lookup(k) \/ CreateRow(k) \/ Dispatch(k)
      \/ \E k \in Jobs, s \in Submissions : Submit(k, s)
      \/ \E k \in Jobs, src \in Jobs, q \in Queues : RetryArchivedJob(k, src, q)
      \/ Outside
  BY DEF OpenNext, Next, vars, apiVars, APINext, CancelCheck, CancelWrite,
         PauseQueue, UnpauseQueue, SetQueuePaused
<1> QED
  BY <1>1, <1>2, <1>3, <1>4, <1>5, <1>6

\* A row comes from nowhere but its own request.
LEMMA NewRow ==
  ASSUME RowInv, [OpenNext]_vars, NEW j \in Jobs, ~Exists(j), Exists(j)'
  PROVE  /\ CreateRow(j)
         /\ jobs'[j].work = req[j].work
         /\ jobs'[j].status = IF req[j].work.runAt > 0 THEN "scheduled" ELSE "pending"
<1>0. Typed /\ StoreTypeOK /\ MessagesMatchRows /\ DueExists /\ current \subseteq due
  BY DEF RowInv, Typed, TypeOK, PromoterTypeOK
<1>1. jobs'[j] # jobs[j]
  BY DEF Exists
<1>2. ~Outside
  BY <1>0, <1>1, OutsideStep
<1>3. ASSUME NEW t \in Tasks, task[t] # "none", Msg(t).job = j
      PROVE  FALSE
  BY <1>0, <1>3, MsgMatches DEF Matches
<1>4. ASSUME NEW i \in current, i.job = j
      PROVE  FALSE
  BY <1>0, <1>4 DEF DueExists
<1>5. jobs' # WithStatus(j, "cancelled", 0)
  BY <1>0 DEF WithStatus, StoreTypeOK, Exists
<1>6. CreateRow(j)
  BY <1>0, <1>1, <1>2, <1>3, <1>4, <1>5, RowWriters DEF OpenNext
<1>7. jobs' = WithRow(j, IF req[j].work.runAt > 0 THEN "scheduled" ELSE "pending",
                      req[j].work)
  BY <1>1, <1>6 DEF CreateRow
<1> QED
  BY <1>0, <1>6, <1>7 DEF WithRow, StoreTypeOK

LEMMA OpenKeepsRows ==
  ASSUME RowInv, [OpenNext]_vars
  PROVE  RowsKept
<1>1. CASE Outside
  BY <1>1, OutsideStep, UnchangedKeepsRows DEF RowInv, Typed, TypeOK
<1> QED
  BY <1>1, NextKeepsRows DEF OpenNext

LEMMA RowIsAskedNext ==
  ASSUME RowInv, RowIsAsked, [OpenNext]_vars
  PROVE  RowIsAsked'
<1>0. Typed /\ RowsOfRequests /\ RowsKept
  BY OpenKeepsRows DEF RowInv
<1>1. ASSUME NEW j \in Jobs, Exists(j)'
      PROVE  jobs'[j].work = req'[j].work
  <2>1. CASE Exists(j)
    BY <1>0, <2>1, AskedStays DEF RowsOfRequests, RowsKept, RowIsAsked
  <2>2. CASE ~Exists(j)
    BY <1>0, <1>1, <2>2, NewRow, AskedStays DEF CreateRow
  <2> QED
    BY <2>1, <2>2
<1> QED
  BY <1>1 DEF RowIsAsked

LEMMA AheadNext ==
  ASSUME Typed, Ahead, [OpenNext]_vars
  PROVE  Ahead'
<1>0. /\ fetched \in Nat /\ gen \in Nat /\ committed \in Nat
      /\ task \in [Tasks -> TaskStates]
      /\ \A t \in Tasks : t[1] \in Nat /\ t[2] \in Nat
  <2>1. Len(log) \in Nat
    BY LogLength DEF Typed, TypeOK
  <2> QED
    BY <2>1, WorkerAssumption, StoreAssumption
    DEF Typed, TypeOK, WorkerTypeOK, Tasks, Gens, Offsets
<1>1. CASE UNCHANGED workerVars
  BY <1>1 DEF Ahead, workerVars
<1>2. ASSUME NEW w \in Workers, Join(w)
      PROVE  Ahead'
  BY <1>0, <1>2 DEF Join, Ahead
<1>3. ASSUME NEW w \in Workers, Crash(w)
      PROVE  Ahead'
  BY <1>3 DEF Crash, Ahead, Running
<1>4. CASE Fetch
  <2>1. ASSUME NEW t \in Tasks, task'[t] # "none"
        PROVE  t[1] < gen \/ (t[1] = gen /\ t[2] <= fetched + 1)
    <3>1. CASE t = <<gen, fetched + 1>>
      BY <1>0, <3>1
    <3>2. CASE t # <<gen, fetched + 1>>
      BY <1>0, <1>4, <2>1, <3>2 DEF Fetch, Ahead
    <3> QED
      BY <3>1, <3>2
  <2> QED
    BY <1>4, <2>1 DEF Fetch, Ahead
<1>5. ASSUME NEW u \in Tasks, TaskStep(u)
      PROVE  Ahead'
  <2>1. UNCHANGED <<gen, fetched>>
    BY <1>5
    DEF TaskStep, Admit, Load, Start, CompleteEmail, RejectUnknown, Complete,
        Fail, Retry, Archive, Commit, groupVars
  <2>2. \A t \in Tasks : task'[t] # "none" => task[t] # "none"
    BY <1>0, <1>5
    DEF TaskStep, Admit, Load, Start, CompleteEmail, RejectUnknown, Complete,
        Fail, Retry, Archive, Commit, Go
  <2> QED
    BY <2>1, <2>2 DEF Ahead
<1>6. UNCHANGED workerVars \/ WorkerNext
  BY DEF OpenNext, Outside, Next, vars
<1> QED
  BY <1>1, <1>2, <1>3, <1>4, <1>5, <1>6 DEF WorkerNext

\* No generation fetches a message twice.
LEMMA FetchIsNew ==
  ASSUME Typed, Ahead, Fetch
  PROVE  task[<<gen, fetched + 1>>] = "none" \/ <<gen, fetched + 1>> \notin Tasks
<1>1. gen \in Nat /\ fetched \in Nat
  <2>1. Len(log) \in Nat
    BY LogLength DEF Typed, TypeOK
  <2> QED
    BY <2>1, WorkerAssumption DEF Typed, TypeOK, WorkerTypeOK
<1> QED
  BY <1>1 DEF Ahead
=============================================================================
