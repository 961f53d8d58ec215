---------------------- MODULE JobSystemLifecycleProofs ----------------------
(***************************************************************************)
(* Proofs about JobSystem, concluded: while each message is delivered once *)
(* a job has at most one message about which something is yet to be done,  *)
(* and its row is not ahead of it.  Hence one goroutine at a time works on *)
(* a job, GetStatus shows a life cycle, and only failures forget a job.    *)
(***************************************************************************)
EXTENDS JobSystemPromiseProofs

-----------------------------------------------------------------------------
(* The invariant *)

\* Each message is delivered once, and jobs are submitted for now and not
\* cancelled: the conditions under which the life cycle is promised.
DeliveredOnce ==
  /\ MaxGenerations = 1
  /\ Cancellable = {}
  /\ \A s \in Submissions : s.work.runAt = 0

\* Nobody but requests and goroutines acts.
NoExtras ==
  /\ \A j \in Jobs : cancel[j] = "idle" /\ req[j].work.runAt = 0
  /\ \A j \in Jobs : jobs[j].status # "scheduled"
  /\ due = {}

\* The one generation starts at the first message, and does not end.
OneGeneration ==
  /\ live <=> gen = 1
  /\ gen = 0 => fetched = 0 /\ committed = 0
  /\ \A o \in Offsets : o > fetched <=> task[<<1, o>>] = "none"

\* A message says how many retries its request allowed, which has ended.
Asked ==
  /\ \A o \in 1 .. Len(log) :
       /\ req[log[o].job].pc \in {"done", "failed"}
       /\ log[o].maxRetry = Retries(req[log[o].job].maxRetry)
  /\ \A j \in Jobs :
       req[j].pc = "dispatch" => jobs[j].status = "pending" /\ jobs[j].attempt = 0

\* Before UpdateStatus(processing).
Waiting == {"none", "admit", "load", "start"}

\* Something is yet to be done about the job of the message at offset o.
Open(o) == task[<<1, o>>] \in Waiting \cup {"handle", "retry", "archive"}

\* No two open messages are about the same job.
OneOpen ==
  \A o, p \in 1 .. Len(log) : Open(o) /\ Open(p) /\ log[o].job = log[p].job => o = p

\* A row is not ahead of attempt a.
Behind(r, a) == r.attempt <= a /\ (r.status = "processing" => r.attempt < a)

\* The row r of an open message m is unsettled, and not ahead of what the goroutine
\* of m, which is in state s, is about to write.
Fits(m, r, s) ==
  /\ r.status \in {"pending", "processing", "failed"}
  /\ s \in Waiting => Behind(r, m.attempt)
  /\ s = "handle" => r.attempt <= m.attempt
  /\ s \in {"retry", "archive"} => Behind(r, m.attempt + 1)
  /\ m.type = "unknown" => r.status # "failed" /\ s \notin {"retry", "archive"}

RowsFollow ==
  \A o \in 1 .. Len(log) : Open(o) => Fits(log[o], jobs[log[o].job], task[<<1, o>>])

OnceInv ==
  NoExtras /\ OneGeneration /\ Len(log) <= MaxLog /\ Asked /\ OneOpen /\ RowsFollow

LifeInv == RowInv /\ ExhaustedInv /\ DeliveredOnce /\ OnceInv

LEMMA OnceTypes ==
  ASSUME LifeInv
  PROVE  /\ Typed /\ StoreTypeOK /\ APITypeOK /\ WorkerTypeOK /\ PromoterTypeOK
         /\ Gens = {1} /\ Len(log) \in Nat /\ fetched \in Nat /\ MaxLog \in Nat
         /\ \A o \in 1 .. Len(log) : <<1, o>> \in Tasks /\ o \in Offsets
         /\ \A o \in 1 .. Len(log) : log[o] \in Messages /\ log[o].job \in Jobs
         /\ \A t \in Tasks : t = <<1, t[2]>> /\ t[2] \in Offsets
         /\ \A t \in Tasks : task[t] # "none" => t[2] \in 1 .. Len(log)
<1>1. Typed /\ StoreTypeOK /\ APITypeOK /\ WorkerTypeOK /\ PromoterTypeOK
  BY DEF LifeInv, RowInv, Typed, TypeOK
<1>2. Gens = {1} /\ MaxLog \in Nat
  BY StoreAssumption DEF StoreAssumption, LifeInv, DeliveredOnce, Gens
<1>3. Len(log) \in Nat /\ fetched \in Nat
  BY <1>1, LogLength DEF WorkerTypeOK
<1>4. \A o \in 1 .. Len(log) : <<1, o>> \in Tasks /\ o \in Offsets
  <2>1. Len(log) <= MaxLog
    BY DEF LifeInv, OnceInv
  <2>2. \A o \in 1 .. Len(log) : o \in Offsets
    BY <1>2, <1>3, <2>1 DEF Offsets
  <2> QED
    BY <1>2, <2>2 DEF Tasks
<1>5. \A t \in Tasks : t = <<1, t[2]>> /\ t[2] \in Offsets
  BY <1>2 DEF Tasks
<1>6. \A t \in Tasks : task[t] # "none" => t[2] \in 1 .. Len(log)
  BY <1>1 DEF Typed, TaskOffsets
<1> QED
  BY <1>1, <1>2, <1>3, <1>4, <1>5, <1>6, LogJobs

-----------------------------------------------------------------------------
(* A job has one open message, and its row follows it *)

\* No message is written, and none becomes open.
LEMMA NothingIsWritten ==
  ASSUME LifeInv, UNCHANGED log,
         \A p \in 1 .. Len(log) :
           Open(p)' => Open(p) /\ Fits(log[p], jobs'[log[p].job], task'[<<1, p>>])
  PROVE  OneOpen' /\ RowsFollow'
BY DEF LifeInv, OnceInv, OneOpen, RowsFollow

LEMMA NothingMoves ==
  ASSUME LifeInv, UNCHANGED <<log, jobs, task>>
  PROVE  OneOpen' /\ RowsFollow'
BY NothingIsWritten DEF LifeInv, OnceInv, RowsFollow, Open

\* A step of the goroutine of o that writes no message.
LEMMA OneMoves ==
  ASSUME LifeInv, UNCHANGED log, NEW o \in 1 .. Len(log),
         Open(o) \/ UNCHANGED jobs,
         Open(o)' => Open(o) /\ Fits(log[o], jobs'[log[o].job], task'[<<1, o>>]),
         \A p \in 1 .. Len(log) : p # o => task'[<<1, p>>] = task[<<1, p>>],
         \A k \in Jobs : k # log[o].job => jobs'[k] = jobs[k]
  PROVE  OneOpen' /\ RowsFollow'
<1>1. ASSUME NEW p \in 1 .. Len(log), Open(p)', p # o
      PROVE  Open(p) /\ Fits(log[p], jobs'[log[p].job], task'[<<1, p>>])
  <2>1. Open(p) /\ task'[<<1, p>>] = task[<<1, p>>]
    BY <1>1 DEF Open
  <2>2. jobs'[log[p].job] = jobs[log[p].job]
    BY <1>1, <2>1, OnceTypes DEF LifeInv, OnceInv, OneOpen
  <2> QED
    BY <2>1, <2>2 DEF LifeInv, OnceInv, RowsFollow
<1> QED
  BY <1>1, NothingIsWritten

\* A message is written for a job that has no other open message.
LEMMA OneComes ==
  ASSUME LifeInv, NEW m \in Messages, Append1(m), UNCHANGED jobs,
         \A p \in 1 .. Len(log) :
           Open(p)' => task'[<<1, p>>] = task[<<1, p>>] /\ log[p].job # m.job,
         Fits(m, jobs[m.job], "none"),
         task'[<<1, Len(log) + 1>>] = "none"
  PROVE  OneOpen' /\ RowsFollow'
<1>1. /\ Len(log) \in Nat
      /\ Len(log') = Len(log) + 1
      /\ \A p \in 1 .. Len(log) : log'[p] = log[p]
      /\ log'[Len(log) + 1] = m
  BY OnceTypes, AppendLog
<1>2. \A p \in 1 .. Len(log') : p \in 1 .. Len(log) \/ p = Len(log) + 1
  BY <1>1
<1>3. ASSUME NEW p \in 1 .. Len(log), Open(p)'
      PROVE  Open(p) /\ Fits(log'[p], jobs'[log'[p].job], task'[<<1, p>>])
  <2>1. Open(p) /\ task'[<<1, p>>] = task[<<1, p>>]
    BY <1>3 DEF Open
  <2> QED
    BY <1>1, <2>1 DEF LifeInv, OnceInv, RowsFollow
<1>4. Fits(log'[Len(log) + 1], jobs'[log'[Len(log) + 1].job],
           task'[<<1, Len(log) + 1>>])
  BY <1>1
<1>5. OneOpen'
  <2>1. ASSUME NEW p \in 1 .. Len(log'), NEW q \in 1 .. Len(log'),
               Open(p)', Open(q)', log'[p].job = log'[q].job
        PROVE  p = q
    <3>1. CASE p \in 1 .. Len(log) /\ q \in 1 .. Len(log)
      BY <1>1, <1>3, <2>1, <3>1 DEF LifeInv, OnceInv, OneOpen
    <3>2. CASE p = Len(log) + 1 /\ q \in 1 .. Len(log)
      BY <1>1, <2>1, <3>2
    <3>3. CASE q = Len(log) + 1 /\ p \in 1 .. Len(log)
      BY <1>1, <2>1, <3>3
    <3> QED
      BY <1>2, <3>1, <3>2, <3>3
  <2> QED
    BY <2>1 DEF OneOpen
<1>6. RowsFollow'
  BY <1>2, <1>3, <1>4 DEF RowsFollow
<1> QED
  BY <1>5, <1>6

\* What a goroutine's step leaves alone, and whose row it may write.
LEMMA TaskFrame ==
  ASSUME LifeInv, NEW t \in Tasks, TaskStep(t)
  PROVE  /\ t = <<1, t[2]>> /\ t[2] \in 1 .. Len(log) /\ task[t] # "none"
         /\ Msg(t) = log[t[2]] /\ Msg(t) \in Messages /\ Msg(t).job \in Jobs
         /\ Msg(t).attempt \in Nat /\ Msg(t).attempt + 1 \in Nat
         /\ \E s \in TaskStates : task' = [task EXCEPT ![t] = s]
         /\ \A p \in 1 .. Len(log) : p # t[2] => task'[<<1, p>>] = task[<<1, p>>]
         /\ \A k \in Jobs : k # Msg(t).job => jobs'[k] = jobs[k]
         /\ fetched' = fetched /\ gen' = gen /\ live' = live
<1>1. t = <<1, t[2]>> /\ WorkerTypeOK /\ StoreTypeOK /\ Typed
  BY OnceTypes
<1>2. task[t] # "none"
  BY DEF TaskStep, Admit, Load, Start, CompleteEmail, RejectUnknown, Complete,
         Fail, Retry, Archive, Commit
<1>3. t[2] \in 1 .. Len(log) /\ Msg(t) = log[t[2]]
  BY <1>2, OnceTypes DEF Msg
<1>4. Msg(t) \in Messages /\ Msg(t).job \in Jobs /\ Msg(t).attempt \in Nat
      /\ Msg(t).attempt + 1 \in Nat
  BY <1>1, <1>2, MsgType DEF Messages
<1>5. \E s \in TaskStates : task' = [task EXCEPT ![t] = s]
  BY DEF TaskStep, Admit, Load, Start, CompleteEmail, RejectUnknown, Complete,
         Fail, Retry, Archive, Commit, Go, TaskStates
<1>6. \A p \in 1 .. Len(log) : p # t[2] => task'[<<1, p>>] = task[<<1, p>>]
  <2>1. ASSUME NEW p \in 1 .. Len(log), p # t[2]
        PROVE  <<1, p>> \in Tasks /\ <<1, p>> # t
    BY <1>1, <2>1, OnceTypes
  <2> QED
    BY <1>1, <1>5, <2>1 DEF WorkerTypeOK
<1>7. \A k \in Jobs : k # Msg(t).job => jobs'[k] = jobs[k]
  <2>1. \/ UNCHANGED jobs
        \/ \E s \in Statuses, a \in Nat : jobs' = WithStatus(Msg(t).job, s, a)
    BY <1>4
    DEF TaskStep, Admit, Load, Start, CompleteEmail, CompleteJobWithOutbox,
        RejectUnknown, Complete, Fail, Retry, Archive, Commit, TryStatus, Statuses
  <2> QED
    BY <1>1, <1>4, <2>1, OtherRowsKept
<1>8. fetched' = fetched /\ gen' = gen /\ live' = live
  BY DEF TaskStep, Admit, Load, Start, CompleteEmail, RejectUnknown, Complete,
         Fail, Retry, Archive, Commit, groupVars
<1> QED
  BY <1>1, <1>2, <1>3, <1>4, <1>5, <1>6, <1>7, <1>8

\* The row of an unsettled job after an UpdateStatus, which may fail.
LEMMA RowAfter ==
  ASSUME LifeInv, NEW j \in Jobs, NEW s, NEW a, TryStatus(j, s, a), Exists(j)
  PROVE  \/ jobs'[j] = jobs[j]
         \/ jobs'[j].status = s /\ jobs'[j].attempt = a
BY OnceTypes DEF TryStatus, WithStatus, StoreTypeOK

LEMMA TaskFollows ==
  ASSUME LifeInv, NEW t \in Tasks, TaskStep(t)
  PROVE  OneOpen' /\ RowsFollow'
<1> DEFINE o == t[2]
           m == Msg(t)
           r == jobs[m.job]
<1>1. /\ o \in 1 .. Len(log) /\ t = <<1, o>> /\ m = log[o] /\ m \in Messages
      /\ m.job \in Jobs /\ m.attempt \in Nat /\ task[t] # "none"
      /\ \A p \in 1 .. Len(log) : p # o => task'[<<1, p>>] = task[<<1, p>>]
      /\ \A k \in Jobs : k # m.job => jobs'[k] = jobs[k]
  BY TaskFrame
<1>2. Typed /\ WorkerTypeOK /\ StoreTypeOK /\ r.attempt \in Nat
  BY <1>1, OnceTypes DEF StoreTypeOK, Rows
<1>3. Open(o) => Fits(m, r, task[t])
  BY <1>1 DEF LifeInv, OnceInv, RowsFollow
<1>4. ASSUME UNCHANGED log, Open(o) \/ UNCHANGED jobs,
             \/ task'[t] \in {"commit", "gone"}
             \/ Open(o) /\ Fits(m, jobs'[m.job], task'[t])
      PROVE  OneOpen' /\ RowsFollow'
  <2>1. Open(o)' => Open(o) /\ Fits(log[o], jobs'[log[o].job], task'[<<1, o>>])
    BY <1>1, <1>4 DEF Open, Waiting
  <2> QED
    BY <1>1, <1>4, <2>1, OneMoves
<1>5. CASE Admit(t) \/ Load(t)
  <2>1. /\ task[t] \in Waiting /\ task'[t] \in Waiting \cup {"commit"}
        /\ UNCHANGED <<log, jobs>>
    BY <1>2, <1>5 DEF Admit, Load, Go, WorkerTypeOK, Waiting
  <2>2. Open(o) /\ (task'[t] \in Waiting => Fits(m, jobs'[m.job], task'[t]))
    BY <1>1, <1>3, <2>1 DEF Open, Fits, Waiting
  <2> QED
    BY <1>4, <2>1, <2>2
<1>6. CASE Start(t)
  <2>1. /\ task[t] = "start" /\ task'[t] = "handle" /\ UNCHANGED log
        /\ TryStatus(m.job, "processing", m.attempt)
    BY <1>2, <1>6 DEF Start, Go, WorkerTypeOK
  <2>2. Open(o) /\ Fits(m, r, "start") /\ Exists(m.job)
    BY <1>1, <1>3, <2>1 DEF Open, Waiting, Fits, Exists
  <2>3. \/ jobs'[m.job] = r
        \/ jobs'[m.job].status = "processing" /\ jobs'[m.job].attempt = m.attempt
    BY <1>1, <2>1, <2>2, RowAfter
  <2>4. Fits(m, jobs'[m.job], "handle")
    BY <1>1, <1>2, <2>2, <2>3 DEF Fits, Behind, Waiting
  <2> QED
    BY <1>4, <2>1, <2>2, <2>4
<1>7. CASE CompleteEmail(t) \/ RejectUnknown(t) \/ Complete(t) \/ Archive(t)
  <2>1. task[t] \in {"handle", "archive"} /\ task'[t] = "commit" /\ UNCHANGED log
    BY <1>2, <1>7
    DEF CompleteEmail, RejectUnknown, Complete, Archive, Go, WorkerTypeOK
  <2>2. Open(o)
    BY <1>1, <2>1 DEF Open
  <2> QED
    BY <1>4, <2>1, <2>2
<1>8. CASE Fail(t)
  <2>1. /\ task[t] = "handle" /\ task'[t] \in {"retry", "archive"} /\ UNCHANGED log
        /\ TryStatus(m.job, "failed", m.attempt + 1) /\ m.type # "unknown"
    BY <1>2, <1>8 DEF Fail, Go, WorkerTypeOK
  <2>2. Open(o) /\ Fits(m, r, "handle") /\ Exists(m.job)
    BY <1>1, <1>3, <2>1 DEF Open, Fits, Exists
  <2>3. \/ jobs'[m.job] = r
        \/ jobs'[m.job].status = "failed" /\ jobs'[m.job].attempt = m.attempt + 1
    BY <1>1, <2>1, <2>2, RowAfter
  <2>4. Fits(m, jobs'[m.job], task'[t])
    BY <1>1, <1>2, <2>1, <2>2, <2>3 DEF Fits, Behind, Waiting
  <2> QED
    BY <1>4, <2>1, <2>2, <2>4
<1>9. CASE Retry(t)
  <2> DEFINE n == [m EXCEPT !.attempt = @ + 1]
  <2>1. /\ task[t] = "retry" /\ task'[t] = "commit" /\ UNCHANGED jobs
        /\ UNCHANGED log \/ Append1(n)
    BY <1>2, <1>9 DEF Retry, Go, WorkerTypeOK, EnqueueOk, EnqueueError
  <2>2. Open(o) /\ Fits(m, r, "retry")
    BY <1>1, <1>3, <2>1 DEF Open
  <2>3. n \in Messages /\ n.job = m.job /\ n.attempt = m.attempt + 1 /\ n.type = m.type
    BY <1>1 DEF Messages
  <2> HIDE DEF n
  <2>4. CASE UNCHANGED log
    BY <1>4, <2>1, <2>2, <2>4
  <2>5. CASE Append1(n)
    <3>1. ASSUME NEW p \in 1 .. Len(log), Open(p)'
          PROVE  task'[<<1, p>>] = task[<<1, p>>] /\ log[p].job # n.job
      <4>1. p # o
        BY <1>1, <2>1, <3>1 DEF Open, Waiting
      <4>2. task'[<<1, p>>] = task[<<1, p>>] /\ Open(p)
        BY <1>1, <3>1, <4>1 DEF Open
      <4> QED
        BY <1>1, <2>2, <2>3, <4>1, <4>2 DEF LifeInv, OnceInv, OneOpen
    <3>2. Fits(n, jobs[n.job], "none")
      BY <1>1, <2>2, <2>3 DEF Fits, Waiting
    <3>3. task'[<<1, Len(log) + 1>>] = "none"
      <4>1. Len(log) + 1 \in Offsets /\ <<1, Len(log) + 1>> \in Tasks
        BY <2>5, OnceTypes DEF Append1, Offsets, Tasks
      <4>2. task[<<1, Len(log) + 1>>] = "none"
        BY <4>1, OnceTypes
      <4>3. Len(log) + 1 # o
        BY <1>1, OnceTypes
      <4> QED
        BY <1>1, <1>9, <4>1, <4>2, <4>3 DEF Retry, Go, WorkerTypeOK
    <3> QED
      BY <2>1, <2>3, <2>5, <3>1, <3>2, <3>3, OneComes
  <2> QED
    BY <2>1, <2>4, <2>5
<1>10. CASE Commit(t)
  <2>1. task'[t] = "gone" /\ UNCHANGED <<log, jobs>>
    BY <1>2, <1>10 DEF Commit, Go, WorkerTypeOK
  <2> QED
    BY <1>4, <2>1
<1> QED
  BY <1>5, <1>6, <1>7, <1>8, <1>9, <1>10 DEF TaskStep

\* The only worker that is given the partition is the last, which does not end.
LEMMA NobodyCrashes ==
  ASSUME LifeInv
  PROVE  \A w \in Workers : ~Crash(w)
<1>0. /\ WorkerTypeOK /\ fetched \in Nat /\ MaxLog \in Nat
      /\ OneGeneration /\ MaxGenerations = 1
  BY OnceTypes DEF LifeInv, OnceInv, DeliveredOnce
<1>1. ASSUME NEW w \in Workers, Crash(w)
      PROVE  FALSE
  <2>1. /\ IsMember(w) \/ \E t \in Tasks : Running(t) /\ member[t[1]] = w
        /\ ~IsMember(w)
    BY <1>0, <1>1 DEF Crash, OneGeneration, IsMember
  <2>2. PICK t \in Tasks : task[t] # "none" /\ member[t[1]] = w
    BY <2>1 DEF Running
  <2>3. t[1] = 1 /\ gen # 0
    BY <1>0, <2>2, OnceTypes DEF OneGeneration, Offsets
  <2>4. gen = 1 /\ live
    BY <1>0, <2>3 DEF OneGeneration, WorkerTypeOK
  <2> QED
    BY <2>1, <2>2, <2>3, <2>4 DEF IsMember
<1> QED
  BY <1>1

\* The other steps of the workers.
LEMMA GroupFollows ==
  ASSUME LifeInv, Fetch \/ \E w \in Workers : Join(w) \/ Crash(w)
  PROVE  /\ OneOpen' /\ RowsFollow' /\ UNCHANGED <<jobs, log>>
         /\ OneGeneration'
<1>0. /\ WorkerTypeOK /\ Len(log) \in Nat /\ fetched \in Nat /\ MaxLog \in Nat
      /\ \A o \in Offsets : <<1, o>> \in Tasks
      /\ OneGeneration /\ MaxGenerations = 1
  BY OnceTypes DEF LifeInv, OnceInv, DeliveredOnce, Tasks
<1>1. ASSUME NEW w \in Workers, Join(w)
      PROVE  /\ OneOpen' /\ RowsFollow' /\ UNCHANGED <<jobs, log>>
             /\ OneGeneration'
  <2>1. gen = 0 /\ gen' = 1 /\ committed = 0 /\ fetched = 0 /\ fetched' = 0
        /\ live' = TRUE /\ UNCHANGED <<task, committed, jobs, log>>
    BY <1>0, <1>1 DEF Join, OneGeneration, storeVars, WorkerTypeOK
  <2>2. \A o \in Offsets : o > 0 /\ task[<<1, o>>] = "none"
    <3>1. \A o \in Offsets : o > 0
      BY <1>0 DEF Offsets
    <3> QED
      BY <1>0, <2>1, <3>1 DEF OneGeneration
  <2>3. OneGeneration'
    BY <2>1, <2>2 DEF OneGeneration
  <2> QED
    BY <2>1, <2>3, NothingMoves
<1>2. \A w \in Workers : ~Crash(w)
  BY NobodyCrashes
<1>3. CASE Fetch
  <2> DEFINE o == fetched + 1
  <2>1. /\ gen = 1 /\ o \in 1 .. Len(log) /\ o \in Offsets /\ task[<<1, o>>] = "none"
        /\ task' = [task EXCEPT ![<<1, o>>] = "admit"]
        /\ fetched' = o /\ UNCHANGED <<log, jobs, gen, live, committed>>
    BY <1>0, <1>3, OnceTypes DEF Fetch, OneGeneration, storeVars
  <2>2. /\ task'[<<1, o>>] = "admit"
        /\ \A p \in Offsets : p # o => task'[<<1, p>>] = task[<<1, p>>]
    BY <1>0, <2>1 DEF WorkerTypeOK
  <2>3. Open(o) /\ Fits(log[o], jobs[log[o].job], "none")
    BY <2>1 DEF Open, Waiting, LifeInv, OnceInv, RowsFollow
  <2>4. OneOpen' /\ RowsFollow'
    <3>1. Fits(log[o], jobs'[log[o].job], task'[<<1, o>>])
      BY <2>1, <2>2, <2>3 DEF Fits, Waiting
    <3> QED
      BY <2>1, <2>2, <2>3, <3>1, OneMoves, OnceTypes
  <2>5. OneGeneration'
    <3>1. \A p \in Offsets : p > fetched' <=> p # o /\ p > fetched
      BY <1>0, <2>1 DEF Offsets
    <3> QED
      BY <1>0, <2>1, <2>2, <3>1 DEF OneGeneration
  <2> QED
    BY <2>1, <2>4, <2>5
<1> QED
  BY <1>1, <1>2, <1>3

\* Nobody promotes and nobody cancels.
LEMMA Quiet ==
  ASSUME LifeInv
  PROVE  ~PromoterNext /\ \A j \in Jobs : ~CancelCheck(j) /\ ~CancelWrite(j)
<1>1. due = {} /\ ScheduledDue = {} /\ Cancellable = {}
      /\ \A j \in Jobs : cancel[j] = "idle"
  BY DEF LifeInv, OnceInv, NoExtras, ScheduledDue, DeliveredOnce
<1> QED
  BY <1>1
  DEF PromoterNext, PromoterStep, List, PromoterRestart, CancelCheck, CancelWrite

\* The three calls of a request.
LEMMA RequestFollows ==
  ASSUME LifeInv, NEW j \in Jobs, UNCHANGED workerVars, RequestStep(j)
  PROVE  OneOpen' /\ RowsFollow'
<1>0. StoreTypeOK /\ Len(log) \in Nat
  BY OnceTypes
<1>1. CASE Lookup(j)
  BY <1>1, NothingMoves DEF Lookup, workerVars
<1>2. CASE CreateRow(j)
  <2>1. UNCHANGED <<log, task>> /\ req[j].pc = "create"
    BY <1>2 DEF CreateRow, workerVars
  <2>2. \A k \in Jobs : k # j => jobs'[k] = jobs[k]
    BY <1>0, <1>2 DEF CreateRow, WithRow, StoreTypeOK
  <2>3. \A p \in 1 .. Len(log) : log[p].job \in Jobs /\ log[p].job # j
    BY <2>1, OnceTypes DEF LifeInv, OnceInv, Asked
  <2>4. \A p \in 1 .. Len(log) :
          Open(p)' => Open(p) /\ Fits(log[p], jobs'[log[p].job], task'[<<1, p>>])
    BY <2>1, <2>2, <2>3 DEF Open, LifeInv, OnceInv, RowsFollow
  <2> QED
    BY <2>1, <2>4, NothingIsWritten
<1>3. CASE Dispatch(j)
  <2> DEFINE m == Message(j, req[j].work, 0, req[j].maxRetry)
  <2>1. /\ req[j].pc = "dispatch" /\ UNCHANGED <<jobs, task>>
        /\ UNCHANGED log \/ Append1(m)
    BY <1>3 DEF Dispatch, EnqueueOk, EnqueueError, workerVars
  <2>2. m \in Messages /\ m.job = j /\ m.attempt = 0
    BY MessageType, OnceTypes DEF APITypeOK, Requests, Message
  <2> HIDE DEF m
  <2>3. jobs[j].status = "pending" /\ jobs[j].attempt = 0
    BY <2>1 DEF LifeInv, OnceInv, Asked
  <2>4. CASE Append1(m)
    <3>1. \A p \in 1 .. Len(log) : log[p].job # m.job
      BY <2>1, <2>2 DEF LifeInv, OnceInv, Asked
    <3>2. Fits(m, jobs[m.job], "none")
      BY <2>2, <2>3 DEF Fits, Behind, Waiting
    <3>3. Len(log) + 1 \in Offsets /\ <<1, Len(log) + 1>> \in Tasks
      BY <2>4, OnceTypes DEF Append1, Offsets, Tasks
    <3>4. task'[<<1, Len(log) + 1>>] = "none"
      BY <1>0, <2>1, <3>3, OnceTypes
    <3> QED
      BY <2>1, <2>2, <2>4, <3>1, <3>2, <3>4, OneComes
  <2> QED
    BY <2>1, <2>4, NothingMoves
<1> QED
  BY <1>1, <1>2, <1>3 DEF RequestStep

\* A goroutine's step leaves the generation alone.
LEMMA TaskKeepsGeneration ==
  ASSUME LifeInv, NEW t \in Tasks, TaskStep(t)
  PROVE  OneGeneration'
<1>0. /\ WorkerTypeOK /\ Len(log) \in Nat /\ fetched \in Nat /\ MaxLog \in Nat
      /\ \A o \in Offsets : <<1, o>> \in Tasks
      /\ OneGeneration
  BY OnceTypes DEF LifeInv, OnceInv, Tasks
<1>1. gen # 0
  BY <1>0, TaskFrame DEF OneGeneration, Offsets, Tasks
<1>2. \A o \in Offsets : task'[<<1, o>>] = "none" <=> task[<<1, o>>] = "none"
  <2>1. ASSUME NEW o \in Offsets
        PROVE  task'[<<1, o>>] = "none" <=> task[<<1, o>>] = "none"
    <3>1. CASE <<1, o>> # t
      BY <1>0, <2>1, <3>1, TaskFrame DEF WorkerTypeOK
    <3>2. CASE <<1, o>> = t
      BY <1>0, <2>1, <3>2, TaskFrame
      DEF WorkerTypeOK, TaskStep, Admit, Load, Start, CompleteEmail, RejectUnknown,
          Complete, Fail, Retry, Archive, Commit, Go
    <3> QED
      BY <3>1, <3>2
  <2> QED
    BY <2>1
<1> QED
  BY <1>0, <1>1, <1>2, TaskFrame DEF OneGeneration

\* A request changes only what belongs to its own job, which has no message yet.
LEMMA OneAsks ==
  ASSUME LifeInv, NEW j \in Jobs, req[j].pc \notin {"done", "failed"},
         \A k \in Jobs : k # j => req'[k] = req[k] /\ jobs'[k] = jobs[k],
         req'[j].pc = "dispatch" => jobs'[j].status = "pending" /\ jobs'[j].attempt = 0,
         UNCHANGED log
  PROVE  Asked'
<1>2. \A o \in 1 .. Len(log) : log[o].job \in Jobs /\ log[o].job # j
  BY OnceTypes DEF LifeInv, OnceInv, Asked
<1>3. \A o \in 1 .. Len(log) : req'[log[o].job] = req[log[o].job]
  BY <1>2
<1>4. \A k \in Jobs : req'[k].pc = "dispatch" =>
                       jobs'[k].status = "pending" /\ jobs'[k].attempt = 0
  BY DEF LifeInv, OnceInv, Asked
<1> QED
  BY <1>3, <1>4 DEF LifeInv, OnceInv, Asked

\* Requests keep the invariant.
LEMMA APIFollows ==
  ASSUME LifeInv, APINext, UNCHANGED <<workerVars, promoVars>>
  PROVE  NoExtras' /\ OneGeneration' /\ Asked' /\ OneOpen' /\ RowsFollow'
<1>0. /\ StoreTypeOK /\ APITypeOK /\ NoExtras /\ OneGeneration
      /\ UNCHANGED <<task, due, gen, live, fetched, committed>>
  BY OnceTypes DEF workerVars, promoVars, LifeInv, OnceInv
<1>1. OneGeneration'
  BY <1>0 DEF OneGeneration
<1>2. ASSUME NEW j \in Jobs, NEW s \in Submissions, Submit(j, s)
      PROVE  NoExtras' /\ Asked' /\ OneOpen' /\ RowsFollow'
  <2> DEFINE r == [pc |-> IF s.work.key = NoKey THEN "create" ELSE "lookup",
                   work |-> s.work, maxRetry |-> s.maxRetry, reply |-> {}]
  <2>1. /\ req[j].pc = "idle" /\ req' = [req EXCEPT ![j] = r]
        /\ UNCHANGED <<jobs, log, cancel>>
    BY <1>2 DEF Submit, storeVars
  <2>2. r.pc # "dispatch" /\ r.work.runAt = 0
    BY DEF LifeInv, DeliveredOnce
  <2> HIDE DEF r
  <2>3. \A k \in Jobs : req'[k] = IF k = j THEN r ELSE req[k]
    BY <1>0, <2>1 DEF APITypeOK
  <2>4. NoExtras'
    BY <2>1, <2>2, <2>3, <1>0 DEF NoExtras
  <2> QED
    BY <1>0, <2>1, <2>2, <2>3, <2>4, OneAsks, NothingMoves
<1>3. ASSUME NEW j \in Jobs, NEW src \in Jobs, NEW q \in Queues,
             RetryArchivedJob(j, src, q)
      PROVE  NoExtras' /\ Asked' /\ OneOpen' /\ RowsFollow'
  <2> DEFINE r == [pc |-> "create", maxRetry |-> 0, reply |-> {},
                   work |-> [Blank EXCEPT !.type = jobs[src].work.type,
                                          !.valid = jobs[src].work.valid,
                                          !.queue = q]]
  <2>1. /\ req[j].pc = "idle" /\ req' = [req EXCEPT ![j] = r]
        /\ UNCHANGED <<jobs, log, cancel>>
    BY <1>3 DEF RetryArchivedJob, storeVars
  <2>2. r.pc # "dispatch" /\ r.work.runAt = 0
    BY DEF Blank
  <2> HIDE DEF r
  <2>3. \A k \in Jobs : req'[k] = IF k = j THEN r ELSE req[k]
    BY <1>0, <2>1 DEF APITypeOK
  <2>4. NoExtras'
    BY <2>1, <2>2, <2>3, <1>0 DEF NoExtras
  <2> QED
    BY <1>0, <2>1, <2>2, <2>3, <2>4, OneAsks, NothingMoves
<1>4. ASSUME NEW j \in Jobs, Lookup(j)
      PROVE  NoExtras' /\ Asked' /\ OneOpen' /\ RowsFollow'
  <2>1. /\ \A k \in Jobs : k # j => req'[k] = req[k]
        /\ req'[j].pc # "dispatch" /\ req'[j].work = req[j].work
    BY <1>0, <1>4 DEF Lookup, Goto, Reply, APITypeOK, Requests
  <2>2. req[j].pc = "lookup" /\ UNCHANGED <<jobs, log, cancel>>
    BY <1>4 DEF Lookup
  <2>3. NoExtras'
    BY <1>0, <2>1, <2>2 DEF NoExtras
  <2> QED
    BY <1>0, <2>1, <2>2, <2>3, OneAsks, NothingMoves
<1>5. ASSUME NEW j \in Jobs, CreateRow(j)
      PROVE  NoExtras' /\ Asked' /\ OneOpen' /\ RowsFollow'
  <2>1. /\ req[j].pc = "create" /\ UNCHANGED <<log, cancel>>
        /\ \A k \in Jobs : k # j => req'[k] = req[k]
        /\ req'[j].work = req[j].work
    BY <1>0, <1>5 DEF CreateRow, Goto, APITypeOK, Requests
  <2>2. ~(req[j].work.runAt > 0)
    BY <1>0 DEF NoExtras
  <2>3. /\ \A k \in Jobs : k # j => jobs'[k] = jobs[k]
        /\ jobs'[j] = jobs[j] \/ (jobs'[j].status = "pending" /\ jobs'[j].attempt = 0)
    BY <1>0, <1>5, <2>2 DEF CreateRow, WithRow, StoreTypeOK
  <2>4. req'[j].pc = "dispatch" => jobs'[j].status = "pending" /\ jobs'[j].attempt = 0
    BY <1>0, <1>5, <2>2 DEF CreateRow, WithRow, StoreTypeOK, Goto, APITypeOK, Requests
  <2>5. NoExtras'
    BY <1>0, <2>1, <2>3 DEF NoExtras
  <2> QED
    BY <1>5, <2>1, <2>3, <2>4, <2>5, OneAsks, RequestFollows DEF RequestStep
<1>6. ASSUME NEW j \in Jobs, Dispatch(j)
      PROVE  NoExtras' /\ Asked' /\ OneOpen' /\ RowsFollow'
  <2> DEFINE m == Message(j, req[j].work, 0, req[j].maxRetry)
  <2>1. /\ req[j].pc = "dispatch" /\ UNCHANGED <<jobs, cancel>> /\ req[j] \in Requests
        /\ UNCHANGED log \/ Append1(m)
    BY <1>0, <1>6 DEF Dispatch, EnqueueOk, EnqueueError, APITypeOK
  <2>2. /\ \A k \in Jobs : k # j => req'[k] = req[k]
        /\ req'[j].work = req[j].work /\ req'[j].maxRetry = req[j].maxRetry
        /\ req'[j].pc \in {"done", "failed"}
    BY <1>0, <1>6 DEF Dispatch, Goto, Reply, APITypeOK, Requests
  <2>3. NoExtras'
    BY <1>0, <2>1, <2>2 DEF NoExtras
  <2>4. m \in Messages /\ m.job = j /\ m.maxRetry = Retries(req[j].maxRetry)
    BY <2>1, MessageType DEF Requests, Message
  <2> HIDE DEF m
  <2>5. Asked'
    <3>1. CASE UNCHANGED log
      BY <2>1, <2>2, <3>1, OneAsks
    <3>2. CASE Append1(m)
      <4>1. /\ Len(log) \in Nat /\ Len(log') = Len(log) + 1
            /\ \A p \in 1 .. Len(log) : log'[p] = log[p]
            /\ log'[Len(log) + 1] = m
        BY <2>4, <3>2, OnceTypes, AppendLog
      <4>2. \A p \in 1 .. Len(log) :
              /\ req'[log[p].job].pc \in {"done", "failed"}
              /\ log[p].maxRetry = Retries(req'[log[p].job].maxRetry)
        BY <2>2, OnceTypes DEF LifeInv, OnceInv, Asked
      <4>3. \A p \in 1 .. Len(log') : p \in 1 .. Len(log) \/ p = Len(log) + 1
        BY <4>1
      <4>4. \A p \in 1 .. Len(log') :
              /\ req'[log'[p].job].pc \in {"done", "failed"}
              /\ log'[p].maxRetry = Retries(req'[log'[p].job].maxRetry)
        BY <2>2, <2>4, <4>1, <4>2, <4>3
      <4>5. \A k \in Jobs : req'[k].pc = "dispatch" =>
                             jobs'[k].status = "pending" /\ jobs'[k].attempt = 0
        BY <2>1, <2>2 DEF LifeInv, OnceInv, Asked
      <4> QED
        BY <4>4, <4>5 DEF Asked
    <3> QED
      BY <2>1, <3>1, <3>2
  <2> QED
    BY <1>6, <2>3, <2>5, RequestFollows DEF RequestStep
<1>7. ASSUME NEW q \in Queues, PauseQueue(q) \/ UnpauseQueue(q)
      PROVE  NoExtras' /\ Asked' /\ OneOpen' /\ RowsFollow'
  <2>1. UNCHANGED <<req, cancel, jobs, log>>
    BY <1>7 DEF PauseQueue, UnpauseQueue, SetQueuePaused, apiVars
  <2>2. NoExtras' /\ Asked'
    BY <1>0, <2>1 DEF NoExtras, Asked, LifeInv, OnceInv
  <2> QED
    BY <1>0, <2>1, <2>2, NothingMoves
<1> QED
  BY <1>1, <1>2, <1>3, <1>4, <1>5, <1>6, <1>7, Quiet DEF APINext

\* A goroutine writes the row of a job whose request has ended, and its message is a
\* copy of one that is there.
LEMMA TaskKeepsRest ==
  ASSUME LifeInv, NEW t \in Tasks, TaskStep(t), UNCHANGED <<apiVars, promoVars>>
  PROVE  NoExtras' /\ Asked'
<1> DEFINE m == Msg(t)
<1>0. /\ StoreTypeOK /\ Typed
      /\ t[2] \in 1 .. Len(log) /\ m = log[t[2]] /\ m \in Messages
      /\ m.job \in Jobs /\ NoExtras /\ Asked /\ UNCHANGED <<req, cancel, due>>
      /\ \A k \in Jobs : k # m.job => jobs'[k] = jobs[k]
  BY TaskFrame, OnceTypes DEF LifeInv, OnceInv, apiVars, promoVars
<1>1. NoExtras'
  <2>1. \/ UNCHANGED jobs
        \/ \E s \in Statuses \ {"scheduled"}, a \in Nat :
             jobs' = WithStatus(m.job, s, a)
    BY TaskFrame
    DEF TaskStep, Admit, Load, Start, CompleteEmail, CompleteJobWithOutbox,
        RejectUnknown, Complete, Fail, Retry, Archive, Commit, TryStatus, Statuses
  <2>2. \A k \in Jobs : jobs'[k].status # "scheduled"
    <3> HIDE DEF m
    <3>1. ASSUME NEW s \in Statuses \ {"scheduled"}, NEW a \in Nat,
                 jobs' = WithStatus(m.job, s, a)
          PROVE  jobs'[m.job].status \in {s, jobs[m.job].status}
      BY <1>0, <3>1 DEF WithStatus, StoreTypeOK
    <3>2. jobs'[m.job].status # "scheduled"
      BY <1>0, <2>1, <3>1 DEF NoExtras
    <3> QED
      BY <1>0, <3>2 DEF NoExtras
  <2> QED
    BY <1>0, <2>2 DEF NoExtras
<1>2. \A k \in Jobs : req[k].pc = "dispatch" => k # m.job
  BY <1>0 DEF Asked
<1>3. \A k \in Jobs : req'[k].pc = "dispatch" =>
                       jobs'[k].status = "pending" /\ jobs'[k].attempt = 0
  BY <1>0, <1>2 DEF Asked
<1>4. CASE UNCHANGED log
  BY <1>0, <1>1, <1>3, <1>4 DEF Asked
<1>5. CASE Retry(t)
  <2> DEFINE n == [m EXCEPT !.attempt = @ + 1]
  <2>1. n \in Messages /\ n.job = m.job /\ n.maxRetry = m.maxRetry
    BY <1>0 DEF Messages
  <2>2. Append1(n) \/ UNCHANGED log
    BY <1>5 DEF Retry, EnqueueOk, EnqueueError
  <2> HIDE DEF n
  <2>3. CASE Append1(n)
    <3>1. /\ Len(log) \in Nat /\ Len(log') = Len(log) + 1
          /\ \A p \in 1 .. Len(log) : log'[p] = log[p]
          /\ log'[Len(log) + 1] = n
      BY <2>1, <2>3, OnceTypes, AppendLog
    <3>2. \A p \in 1 .. Len(log') : p \in 1 .. Len(log) \/ p = Len(log) + 1
      BY <3>1
    <3> QED
      BY <1>0, <1>1, <1>3, <2>1, <3>1, <3>2 DEF Asked
  <2> QED
    BY <1>4, <2>2, <2>3
<1>6. UNCHANGED log \/ Retry(t)
  BY DEF TaskStep, Admit, Load, Start, CompleteEmail, RejectUnknown, Complete, Fail,
         Archive, Commit
<1> QED
  BY <1>4, <1>5, <1>6

LEMMA OnceInvNext ==
  ASSUME LifeInv, [Next]_vars
  PROVE  OnceInv'
<1>1. Len(log') <= MaxLog
  <2>1. CASE UNCHANGED log
    BY <2>1 DEF LifeInv, OnceInv
  <2>2. ASSUME NEW m \in Messages, Append1(m)
        PROVE  Len(log') <= MaxLog
    BY <2>2, OnceTypes, AppendLog DEF Append1
  <2> QED
    BY <2>1, <2>2, LogStep, OnceTypes
<1>2. CASE APINext /\ UNCHANGED <<workerVars, promoVars>>
  BY <1>1, <1>2, APIFollows DEF OnceInv
<1>3. CASE WorkerNext /\ UNCHANGED <<apiVars, promoVars>>
  <2>1. CASE \E t \in Tasks : TaskStep(t)
    BY <1>1, <1>3, <2>1, TaskFollows, TaskKeepsGeneration, TaskKeepsRest DEF OnceInv
  <2>2. CASE Fetch \/ \E w \in Workers : Join(w) \/ Crash(w)
    <3>1. OneOpen' /\ RowsFollow' /\ UNCHANGED <<jobs, log>> /\ OneGeneration'
      BY <2>2, GroupFollows
    <3>2. NoExtras' /\ Asked'
      BY <1>3, <3>1 DEF NoExtras, Asked, LifeInv, OnceInv, apiVars, promoVars
    <3> QED
      BY <1>1, <3>1, <3>2 DEF OnceInv
  <2> QED
    BY <1>3, <2>1, <2>2 DEF WorkerNext
<1>4. CASE UNCHANGED <<jobs, log, apiVars, workerVars, promoVars>>
  <2>1. OneOpen' /\ RowsFollow'
    BY <1>4, NothingMoves DEF workerVars
  <2>2. NoExtras' /\ Asked' /\ OneGeneration'
    BY <1>4 DEF NoExtras, Asked, OneGeneration, LifeInv, OnceInv, apiVars, workerVars,
                promoVars
  <2> QED
    BY <1>1, <2>1, <2>2 DEF OnceInv
<1> QED
  BY <1>2, <1>3, <1>4, Quiet DEF Next, Tick, vars, storeVars

LEMMA LifeInvNext == LifeInv /\ [Next]_vars => LifeInv'
BY RowInvNext, ChainInvNext, ArchiveIsLastNext, ExhaustedNext, OnceInvNext
DEF LifeInv, ExhaustedInv, DeliveredOnce

LEMMA LifeInvInit == Init /\ DeliveredOnce => LifeInv
<1> SUFFICES ASSUME Init, DeliveredOnce PROVE LifeInv
  OBVIOUS
<1>1. RowInv /\ Typed
  BY RowInvInit DEF RowInv
<1>2. ExhaustedInv
  BY <1>1 DEF Init, StoreInit, WorkerInit, ExhaustedInv, ChainInv, RetryChain,
              RetryBudget, ArchiveIsLast, ArchivedOnlyExhausted
<1>3. Len(log) = 0 /\ log = << >>
  BY EmptySeq DEF Init, StoreInit
<1>4. NoExtras /\ Asked
  BY <1>3 DEF NoExtras, Asked, Init, StoreInit, APIInit, PromoterInit, Blank
<1>5. OneGeneration /\ Len(log) <= MaxLog
  <2>1. MaxLog \in Nat
    BY StoreAssumption DEF StoreAssumption
  <2>2. \A o \in Offsets : o > 0 /\ <<1, o>> \in Tasks
    BY <2>1 DEF Offsets, DeliveredOnce, Tasks, Gens
  <2>3. \A o \in Offsets : task[<<1, o>>] = "none"
    BY <2>2 DEF Init, WorkerInit
  <2> QED
    BY <1>3, <2>1, <2>2, <2>3 DEF OneGeneration, Init, WorkerInit
<1>6. OneOpen /\ RowsFollow
  BY <1>3 DEF OneOpen, RowsFollow
<1> QED
  BY <1>1, <1>2, <1>4, <1>5, <1>6 DEF LifeInv, OnceInv

-----------------------------------------------------------------------------
(* What GetStatus answers is a life cycle *)

\* Nothing that GetStatus reads has changed.
LEMMA SameShown ==
  ASSUME \A k \in Jobs : jobs'[k] = jobs[k],
         \A k \in Jobs : req'[k].maxRetry = req[k].maxRetry
  PROVE  UNCHANGED L!lifecycleVars
BY DEF L!lifecycleVars, GetStatus, Exists

\* One row has.
LEMMA RowShown ==
  ASSUME NEW j \in Jobs, NEW s, s # "absent", NEW a,
         jobs'[j].status = s, jobs'[j].attempt = a,
         \A k \in Jobs : k # j => jobs'[k] = jobs[k],
         \A k \in Jobs : req'[k].maxRetry = req[k].maxRetry
  PROVE  L!Become(j, s, a)
BY DEF L!Become, GetStatus, Exists

LEMMA LifecycleInitially ==
  ASSUME Init
  PROVE  L!LifecycleInit
BY DEF Init, StoreInit, APIInit, L!LifecycleInit, GetStatus, Exists, Retries

\* A request comes in.
LEMMA RequestShown ==
  ASSUME LifeInv, NEW j \in Jobs,
         \/ \E s \in Submissions : Submit(j, s)
         \/ \E src \in Jobs, q \in Queues : RetryArchivedJob(j, src, q)
  PROVE  L!LifecycleNext
<1>0. req \in [Jobs -> Requests]
  BY OnceTypes DEF APITypeOK
<1>1. req[j].pc = "idle" /\ UNCHANGED jobs
  BY DEF Submit, RetryArchivedJob, storeVars
<1>2. req'[j].maxRetry \in Int /\ \A k \in Jobs : k # j => req'[k] = req[k]
  <2>1. ASSUME NEW s \in Submissions, Submit(j, s)
        PROVE  req'[j].maxRetry \in Int /\ \A k \in Jobs : k # j => req'[k] = req[k]
    <3>1. s.maxRetry \in Int
      BY APIAssumption DEF APIAssumption
    <3> QED
      BY <1>0, <2>1, <3>1 DEF Submit
  <2>2. ASSUME NEW src \in Jobs, NEW q \in Queues, RetryArchivedJob(j, src, q)
        PROVE  req'[j].maxRetry \in Int /\ \A k \in Jobs : k # j => req'[k] = req[k]
    <3> DEFINE r == [pc |-> "create", maxRetry |-> 0, reply |-> {},
                     work |-> [Blank EXCEPT !.type = jobs[src].work.type,
                                            !.valid = jobs[src].work.valid,
                                            !.queue = q]]
    <3>1. req' = [req EXCEPT ![j] = r] /\ r.maxRetry = 0
      BY <2>2 DEF RetryArchivedJob
    <3> HIDE DEF r
    <3> QED
      BY <1>0, <3>1
  <2> QED
    BY <2>1, <2>2
<1>3. GetStatus(j).status = "unknown"
  BY <1>1 DEF LifeInv, RowInv, RowsOfRequests, GetStatus
<1>4. Retries(req'[j].maxRetry) \in Nat
  BY <1>2 DEF Retries
<1>5. L!Ask(j)
  <2>1. UNCHANGED [k \in Jobs |-> GetStatus(k)]
    BY <1>1 DEF GetStatus, Exists
  <2>2. \A k \in Jobs : k # j => Retries(req'[k].maxRetry) = Retries(req[k].maxRetry)
    BY <1>2
  <2> QED
    BY <1>3, <1>4, <2>1, <2>2 DEF L!Ask
<1> QED
  BY <1>5 DEF L!LifecycleNext

\* The retries that a message has are those its submission allowed, and its attempt
\* is one of them.
LEMMA WithinAllowance ==
  ASSUME LifeInv, NEW o \in 1 .. Len(log)
  PROVE  /\ log[o].maxRetry = Retries(req[log[o].job].maxRetry)
         /\ log[o].attempt \in Nat /\ log[o].maxRetry \in Nat
         /\ log[o].attempt <= log[o].maxRetry
<1>1. log[o].attempt \in Nat /\ log[o].maxRetry \in Nat
  BY OnceTypes DEF Messages
<1>2. log[o].attempt > 0 => log[o].attempt <= log[o].maxRetry
  BY DEF LifeInv, ExhaustedInv, ChainInv, RetryChain
<1> QED
  BY <1>1, <1>2 DEF LifeInv, OnceInv, Asked

\* A goroutine's step.
LEMMA TaskShown ==
  ASSUME LifeInv, NEW t \in Tasks, TaskStep(t), UNCHANGED apiVars
  PROVE  L!LifecycleNext \/ UNCHANGED L!lifecycleVars
<1> DEFINE o == t[2]
           m == Msg(t)
           r == jobs[m.job]
           allowed == [k \in Jobs |-> Retries(req[k].maxRetry)]
<1>1. /\ o \in 1 .. Len(log) /\ t = <<1, o>> /\ m = log[o]
      /\ m.job \in Jobs /\ task[t] # "none"
      /\ \A k \in Jobs : k # m.job => jobs'[k] = jobs[k]
      /\ \A k \in Jobs : req'[k].maxRetry = req[k].maxRetry
  BY TaskFrame DEF apiVars
<1>2. /\ Typed /\ WorkerTypeOK /\ StoreTypeOK
      /\ r.attempt \in Nat /\ m.attempt \in Nat
      /\ m.attempt <= allowed[m.job] /\ allowed[m.job] \in Nat
      /\ m.maxRetry = allowed[m.job]
  BY <1>1, OnceTypes, WithinAllowance DEF StoreTypeOK, Rows
<1>3. ASSUME Open(o)
      PROVE  /\ Fits(m, r, task[t]) /\ Exists(m.job)
             /\ GetStatus(m.job) = [status |-> r.status, attempt |-> r.attempt]
  BY <1>1, <1>3 DEF LifeInv, OnceInv, RowsFollow, Fits, Exists, GetStatus
<1> HIDE DEF allowed
<1>4. CASE UNCHANGED jobs
  BY <1>1, <1>4, SameShown
<1>5. ASSUME NEW s, s # "absent", NEW a, Open(o), TryStatus(m.job, s, a)
      PROVE  UNCHANGED jobs \/ L!Become(m.job, s, a)
  <2>1. Exists(m.job)
    BY <1>3, <1>5
  <2>2. CASE jobs' = WithStatus(m.job, s, a)
    <3>1. jobs'[m.job].status = s /\ jobs'[m.job].attempt = a
      BY <1>1, <1>2, <2>1, <2>2 DEF WithStatus, StoreTypeOK
    <3> QED
      BY <1>1, <1>5, <3>1, RowShown
  <2> QED
    BY <1>5, <2>2 DEF TryStatus
<1>6. ASSUME NEW a \in Nat, r.attempt <= a, a <= m.attempt + 1, Open(o),
             L!Begin(m.job, a) \/ L!Fail(m.job, a) \/ L!Complete(m.job, a)
      PROVE  L!LifecycleNext
  <2>1. a \in GetStatus(m.job).attempt .. allowed[m.job] + 1
    BY <1>2, <1>3, <1>6
  <2> QED
    BY <1>1, <1>6, <2>1 DEF L!LifecycleNext, allowed
<1>7. CASE Admit(t) \/ Load(t) \/ Retry(t) \/ Commit(t)
  BY <1>4, <1>7 DEF Admit, Load, Retry, Commit
<1>8. CASE Start(t)
  <2>1. Open(o) /\ TryStatus(m.job, "processing", m.attempt) /\ Fits(m, r, "start")
    BY <1>1, <1>3, <1>8 DEF Start, Open, Waiting
  <2>2. CASE L!Become(m.job, "processing", m.attempt)
    <3>1. L!Begin(m.job, m.attempt)
      BY <1>1, <1>2, <1>3, <2>1, <2>2
      DEF L!Begin, L!Unsettled, Fits, Behind, Waiting, allowed
    <3> QED
      BY <1>2, <1>6, <2>1, <3>1 DEF Fits, Behind, Waiting
  <2> QED
    BY <1>4, <1>5, <2>1, <2>2
<1>9. CASE CompleteEmail(t) \/ Complete(t)
  <2>1. /\ Open(o) /\ Fits(m, r, "handle")
        /\ UNCHANGED jobs \/ jobs' = WithStatus(m.job, "completed", m.attempt)
    BY <1>1, <1>3, <1>9
    DEF CompleteEmail, Complete, TryStatus, CompleteJobWithOutbox, Open, Waiting
  <2>2. UNCHANGED jobs \/ L!Become(m.job, "completed", m.attempt)
    <3>1. CASE jobs' = WithStatus(m.job, "completed", m.attempt)
      <4>1. jobs'[m.job].status = "completed" /\ jobs'[m.job].attempt = m.attempt
        BY <1>1, <1>2, <1>3, <2>1, <3>1 DEF WithStatus, StoreTypeOK
      <4> QED
        BY <1>1, <4>1, RowShown
    <3> QED
      BY <2>1, <3>1
  <2>3. CASE L!Become(m.job, "completed", m.attempt)
    <3>1. L!Complete(m.job, m.attempt)
      BY <1>1, <1>2, <1>3, <2>1, <2>3 DEF L!Complete, L!Unsettled, Fits, allowed
    <3> QED
      BY <1>2, <1>6, <2>1, <3>1 DEF Fits
  <2> QED
    BY <1>4, <2>2, <2>3
<1>10. ASSUME NEW a \in Nat, TryStatus(m.job, "failed", a),
              Open(o), Fits(m, r, "handle"),
              r.attempt <= a, a <= m.attempt + 1, r.status = "failed" => r.attempt < a
       PROVE  L!LifecycleNext \/ UNCHANGED L!lifecycleVars
  <2>1. CASE L!Become(m.job, "failed", a)
    <3>1. L!Fail(m.job, a)
      BY <1>1, <1>2, <1>3, <1>10, <2>1 DEF L!Fail, L!Unsettled, Fits
    <3> QED
      BY <1>6, <1>10, <3>1
  <2> QED
    BY <1>4, <1>5, <1>10, <2>1
<1>11. CASE RejectUnknown(t) \/ Fail(t)
  <2>1. Open(o) /\ Fits(m, r, "handle") /\ r.attempt <= m.attempt
    BY <1>1, <1>3, <1>11 DEF RejectUnknown, Fail, Open, Fits
  <2>2. CASE RejectUnknown(t)
    <3>1. TryStatus(m.job, "failed", m.attempt) /\ m.type = "unknown"
      BY <2>2 DEF RejectUnknown
    <3>2. r.status # "failed"
      BY <2>1, <3>1 DEF Fits
    <3> QED
      BY <1>2, <1>10, <2>1, <3>1, <3>2
  <2>3. CASE Fail(t)
    <3>1. TryStatus(m.job, "failed", m.attempt + 1)
      BY <2>3 DEF Fail
    <3> QED
      BY <1>2, <1>10, <2>1, <3>1
  <2> QED
    BY <1>11, <2>2, <2>3
<1>12. CASE Archive(t)
  <2>1. /\ Open(o) /\ Fits(m, r, "archive") /\ m.attempt = m.maxRetry
        /\ TryStatus(m.job, "archived", m.attempt + 1)
    BY <1>1, <1>3, <1>12 DEF Archive, Open, LifeInv, ExhaustedInv, ArchiveIsLast
  <2>2. CASE L!Become(m.job, "archived", m.attempt + 1)
    <3>1. L!Archive(m.job)
      <4>1. m.attempt + 1 = allowed[m.job] + 1
        BY <1>2, <2>1
      <4>2. L!Become(m.job, "archived", allowed[m.job] + 1)
        BY <2>2, <4>1
      <4>3. L!Unsettled(m.job)
        BY <1>1, <1>3, <2>1 DEF L!Unsettled, Fits
      <4> QED
        BY <4>2, <4>3 DEF L!Archive, allowed
    <3> QED
      BY <1>1, <3>1 DEF L!LifecycleNext
  <2> QED
    BY <1>4, <1>5, <2>1, <2>2
<1> QED
  BY <1>7, <1>8, <1>9, <1>11, <1>12 DEF TaskStep

LEMMA LifecycleStep ==
  LifeInv /\ [Next]_vars => [L!LifecycleNext]_(L!lifecycleVars)
<1> SUFFICES ASSUME LifeInv, [Next]_vars
             PROVE  L!LifecycleNext \/ UNCHANGED L!lifecycleVars
  OBVIOUS
<1>0. StoreTypeOK /\ req \in [Jobs -> Requests]
  BY OnceTypes DEF APITypeOK
<1>1. CASE APINext
  <2>1. ASSUME NEW j \in Jobs, Lookup(j) \/ Dispatch(j)
        PROVE  UNCHANGED L!lifecycleVars
    <3>1. UNCHANGED jobs /\ \A k \in Jobs : req'[k].maxRetry = req[k].maxRetry
      BY <1>0, <2>1 DEF Lookup, Dispatch, Goto, Reply, Requests
    <3> QED
      BY <3>1, SameShown
  <2>2. ASSUME NEW j \in Jobs, CreateRow(j)
        PROVE  L!LifecycleNext \/ UNCHANGED L!lifecycleVars
    <3>1. /\ \A k \in Jobs : req'[k].maxRetry = req[k].maxRetry
          /\ req[j].pc = "create" /\ ~(req[j].work.runAt > 0)
      BY <1>0, <2>2 DEF CreateRow, Goto, Requests, LifeInv, OnceInv, NoExtras
    <3>2. \/ UNCHANGED jobs
          \/ /\ jobs'[j].status = "pending" /\ jobs'[j].attempt = 0
             /\ \A k \in Jobs : k # j => jobs'[k] = jobs[k]
      BY <1>0, <2>2, <3>1 DEF CreateRow, WithRow, StoreTypeOK
    <3>3. CASE L!Become(j, "pending", 0)
      <4>1. GetStatus(j).status = "unknown"
        BY <3>1 DEF LifeInv, RowInv, RowsOfRequests, GetStatus
      <4>2. L!Create(j)
        BY <3>3, <4>1 DEF L!Create
      <4> QED
        BY <4>2 DEF L!LifecycleNext
    <3> QED
      BY <3>1, <3>2, <3>3, RowShown, SameShown
  <2>3. ASSUME NEW q \in Queues, PauseQueue(q) \/ UnpauseQueue(q)
        PROVE  UNCHANGED L!lifecycleVars
    BY <2>3, SameShown DEF PauseQueue, UnpauseQueue, SetQueuePaused, apiVars
  <2> QED
    BY <1>1, <2>1, <2>2, <2>3, RequestShown, Quiet DEF APINext
<1>2. CASE WorkerNext /\ UNCHANGED <<apiVars, promoVars>>
  <2>1. ASSUME UNCHANGED <<jobs, req>>
        PROVE  UNCHANGED L!lifecycleVars
    BY <2>1, SameShown
  <2> QED
    BY <1>2, <2>1, TaskShown, GroupFollows DEF WorkerNext, apiVars
<1>3. CASE Tick /\ UNCHANGED <<apiVars, workerVars, promoVars>>
  BY <1>3, SameShown DEF Tick, apiVars
<1>4. CASE UNCHANGED vars
  BY <1>4, SameShown DEF vars, storeVars, apiVars
<1> QED
  BY <1>1, <1>2, <1>3, <1>4, Quiet DEF Next

\* What GET /jobs/{id} answers is a life cycle whose outcomes are final, in every
\* behaviour in which messages are delivered once and jobs are neither delayed nor
\* cancelled, whatever calls fail and however queues are paused.
THEOREM StatusIsALifecycle == DeliveredOnce /\ Spec => ImplementsLifecycle
<1>1. DeliveredOnce /\ Spec => []LifeInv
  BY LifeInvInit, LifeInvNext, PTL DEF Spec
<1> QED
  BY <1>1, LifecycleInitially, LifecycleStep, PTL
  DEF Spec, ImplementsLifecycle, L!LifecycleSpec

\* A job is in the hands of one goroutine at a time, in the same behaviours.
THEOREM AttemptsAreSeparate == DeliveredOnce /\ Spec => []AttemptsDoNotOverlap
<1>1. DeliveredOnce /\ Spec => []LifeInv
  BY LifeInvInit, LifeInvNext, PTL DEF Spec
<1>2. LifeInv => AttemptsDoNotOverlap
  <2>1. ASSUME LifeInv, NEW t \in Tasks, NEW u \in Tasks,
               task[t] \in {"start", "handle", "retry", "archive"},
               task[u] \in {"start", "handle", "retry", "archive"},
               Msg(t).job = Msg(u).job
        PROVE  t = u
    <3>1. /\ t = <<1, t[2]>> /\ t[2] \in 1 .. Len(log)
          /\ u = <<1, u[2]>> /\ u[2] \in 1 .. Len(log)
      BY <2>1, OnceTypes
    <3>2. Open(t[2]) /\ Open(u[2])
      BY <2>1, <3>1 DEF Open, Waiting
    <3>3. t[2] = u[2]
      BY <2>1, <3>1, <3>2 DEF LifeInv, OnceInv, OneOpen, Msg
    <3> QED
      BY <3>1, <3>3
  <2> QED
    BY <2>1 DEF AttemptsDoNotOverlap
<1> QED
  BY <1>1, <1>2, PTL

-----------------------------------------------------------------------------
(* What forgets a job *)

\* A request or an open message is about j.
Carried(j) ==
  \/ req[j].pc = "dispatch"
  \/ \E o \in 1 .. Len(log) : log[o].job = j /\ Open(o)

LEMMA CarriedIsAttended ==
  ASSUME LifeInv, NEW j \in Jobs
  PROVE  Attended(j) <=> Carried(j)
<1>1. jobs[j].status # "scheduled" /\ due = {} /\ Gens = {1} /\ OneGeneration
  BY OnceTypes DEF LifeInv, OnceInv, NoExtras
<1>2. (IF live THEN fetched ELSE committed) = fetched
  BY <1>1, OnceTypes DEF OneGeneration, WorkerTypeOK, LifeInv, DeliveredOnce
<1>3. ASSUME NEW o \in 1 .. Len(log)
      PROVE  InProgress(o) \/ o > fetched <=> Open(o)
  BY <1>1, OnceTypes DEF InProgress, Open, Waiting, OneGeneration
<1>4. \A o \in 1 .. Len(log) :
        InProgress(o) \/ o > (IF live THEN fetched ELSE committed) <=> Open(o)
  BY <1>2, <1>3
<1> QED
  BY <1>1, <1>4 DEF Attended, Carried, MessagesOf

\* A step that leaves the row and the carriers of j alone.
LEMMA StillCared ==
  ASSUME NEW j \in Jobs, Final(j) \/ Carried(j), jobs'[j] = jobs[j],
         req[j].pc = "dispatch" => req'[j].pc = "dispatch",
         \A o \in 1 .. Len(log) : o \in 1 .. Len(log') /\ log'[o] = log[o],
         \A o \in 1 .. Len(log) : log[o].job = j /\ Open(o) => Open(o)'
  PROVE  (Final(j) \/ Carried(j))'
<1>1. CASE Final(j)
  BY <1>1 DEF Final
<1>2. CASE req[j].pc = "dispatch"
  BY <1>2 DEF Carried
<1>3. CASE \E o \in 1 .. Len(log) : log[o].job = j /\ Open(o)
  <2>1. PICK o \in 1 .. Len(log) : log[o].job = j /\ Open(o)
    BY <1>3
  <2>2. o \in 1 .. Len(log') /\ log'[o].job = j /\ Open(o)'
    BY <2>1
  <2> QED
    BY <2>2 DEF Carried
<1> QED
  BY <1>1, <1>2, <1>3 DEF Carried

\* What was written stays where it is, and a new message is open.
LEMMA LogGrows ==
  ASSUME LifeInv, [Next]_vars
  PROVE  \A o \in 1 .. Len(log) : o \in 1 .. Len(log') /\ log'[o] = log[o]
<1>1. CASE UNCHANGED log
  BY <1>1
<1>2. ASSUME NEW m \in Messages, Append1(m)
      PROVE  \A o \in 1 .. Len(log) : o \in 1 .. Len(log') /\ log'[o] = log[o]
  BY <1>2, OnceTypes, AppendLog
<1> QED
  BY <1>1, <1>2, LogStep, OnceTypes

LEMMA NewIsCarried ==
  ASSUME LifeInv, NEW m \in Messages, Append1(m),
         \A p \in Offsets : p > Len(log) => task'[<<1, p>>] = task[<<1, p>>]
  PROVE  Carried(m.job)'
<1>1. /\ Len(log) \in Nat /\ Len(log') = Len(log) + 1 /\ log'[Len(log) + 1] = m
  BY OnceTypes, AppendLog
<1>2. Len(log) + 1 \in Offsets /\ <<1, Len(log) + 1>> \in Tasks
  BY <1>1, OnceTypes DEF Append1, Offsets, Tasks
<1>3. PICK o \in 1 .. Len(log') : o = Len(log) + 1
  BY <1>1
<1>4. task'[<<1, o>>] = "none" /\ log'[o].job = m.job
  BY <1>1, <1>2, <1>3, OnceTypes
<1> QED
  BY <1>4 DEF Carried, Open, Waiting

\* The goroutine that has the job goes on, finishes the job, or hands it on.
LEMMA TaskCares ==
  ASSUME LifeInv, [Next]_vars, NEW t \in Tasks, TaskStep(t), UNCHANGED apiVars, ~Fault,
         NEW j \in Jobs, Final(j) \/ Carried(j), jobs[j].work.queue \notin paused
  PROVE  (Final(j) \/ Carried(j))'
<1> DEFINE o == t[2]
           m == Msg(t)
           r == jobs[m.job]
<1>1. /\ o \in 1 .. Len(log) /\ t = <<1, o>> /\ m = log[o] /\ m \in Messages
      /\ m.job \in Jobs /\ m.attempt \in Nat
      /\ \A p \in 1 .. Len(log) : p # o => task'[<<1, p>>] = task[<<1, p>>]
      /\ \A k \in Jobs : k # m.job => jobs'[k] = jobs[k]
  BY TaskFrame
<1>2. /\ WorkerTypeOK /\ StoreTypeOK /\ UNCHANGED req
      /\ Exists(m.job) /\ m.type = r.work.type /\ m.queue = r.work.queue
  BY <1>1, OnceTypes DEF apiVars, LifeInv, RowInv, MessagesMatchRows
<1>3. Open(o) => Fits(m, r, task[t])
  BY <1>1 DEF LifeInv, OnceInv, RowsFollow
<1>4. \A p \in 1 .. Len(log) : p \in 1 .. Len(log') /\ log'[p] = log[p]
  BY LogGrows
<1>5. CASE m.job # j
  <2>1. \A p \in 1 .. Len(log) : log[p].job = j /\ Open(p) => Open(p)'
    BY <1>1, <1>5 DEF Open
  <2> QED
    BY <1>1, <1>2, <1>4, <1>5, <2>1, StillCared
<1>6. ASSUME m.job = j, task'[t] \in {"load", "start", "handle", "retry", "archive"}
      PROVE  Carried(j)'
  BY <1>1, <1>4, <1>6 DEF Carried, Open, Waiting
<1>7. ASSUME m.job = j, NEW s, NEW a, jobs' = WithStatus(j, s, a),
             s \in {"completed", "archived"} \/ (s = "failed" /\ m.type = "unknown")
      PROVE  Final(j)'
  <2>1. jobs'[j].status = s /\ jobs'[j].work = jobs[j].work
    BY <1>1, <1>2, <1>7 DEF WithStatus, StoreTypeOK
  <2> QED
    BY <1>2, <1>7, <2>1 DEF Final
<1>8. ASSUME m.job = j
      PROVE  (Final(j) \/ Carried(j))'
  <2>1. CASE Admit(t)
    BY <1>2, <1>6, <1>8, <2>1 DEF Admit, Go, WorkerTypeOK
  <2>2. CASE Load(t)
    <3>1. r.status # "cancelled"
      BY <1>1, <1>3, <2>2 DEF Load, Open, Waiting, Fits
    <3> QED
      BY <1>2, <1>6, <1>8, <2>2, <3>1 DEF Load, Go, WorkerTypeOK
  <2>3. CASE Start(t) \/ Fail(t)
    BY <1>2, <1>6, <1>8, <2>3 DEF Start, Fail, Go, WorkerTypeOK
  <2>4. CASE CompleteEmail(t)
    BY <1>7, <1>8, <2>4 DEF CompleteEmail, CompleteJobWithOutbox
  <2>5. CASE Complete(t) \/ RejectUnknown(t) \/ Archive(t)
    BY <1>7, <1>8, <2>5 DEF Complete, RejectUnknown, Archive, TryStatus
  <2>6. CASE Retry(t)
    <3> DEFINE n == [m EXCEPT !.attempt = @ + 1]
    <3>1. n \in Messages /\ n.job = j
      BY <1>1, <1>8 DEF Messages
    <3>2. Append1(n)
      BY <2>6 DEF Retry, EnqueueOk, EnqueueError
    <3> HIDE DEF n
    <3>3. \A p \in Offsets : p > Len(log) => task'[<<1, p>>] = task[<<1, p>>]
      <4>1. \A p \in Offsets : p > Len(log) => <<1, p>> \in Tasks /\ <<1, p>> # t
        BY <1>1, OnceTypes DEF Tasks
      <4> QED
        BY <1>2, <2>6, <4>1 DEF Retry, Go, WorkerTypeOK
    <3> QED
      BY <3>1, <3>2, <3>3, NewIsCarried
  <2>7. CASE Commit(t)
    <3>1. UNCHANGED jobs /\ ~Open(o)
      BY <1>1, <2>7 DEF Commit, Open, Waiting
    <3>2. \A p \in 1 .. Len(log) : log[p].job = j /\ Open(p) => Open(p)'
      BY <1>1, <3>1 DEF Open
    <3> QED
      BY <1>2, <1>4, <3>1, <3>2, StillCared
  <2> QED
    BY <2>1, <2>2, <2>3, <2>4, <2>5, <2>6, <2>7 DEF TaskStep
<1> QED
  BY <1>5, <1>8

\* A request goes on, is refused before its row is written, or writes its message.
LEMMA RequestsCare ==
  ASSUME LifeInv, [Next]_vars, APINext, UNCHANGED workerVars, ~Fault,
         NEW j \in Jobs, Final(j) \/ Carried(j)
  PROVE  (Final(j) \/ Carried(j))'
<1>1. /\ StoreTypeOK /\ APITypeOK /\ UNCHANGED task
      /\ \A k \in Jobs : req[k].work.runAt = 0
  BY OnceTypes DEF workerVars, LifeInv, OnceInv, NoExtras
<1>2. /\ \A o \in 1 .. Len(log) : o \in 1 .. Len(log') /\ log'[o] = log[o]
      /\ \A o \in 1 .. Len(log) : log[o].job = j /\ Open(o) => Open(o)'
  BY <1>1, LogGrows DEF Open
<1>3. ASSUME jobs'[j] = jobs[j], req[j].pc = "dispatch" => req'[j].pc = "dispatch"
      PROVE  (Final(j) \/ Carried(j))'
  BY <1>2, <1>3, StillCared
<1>4. ASSUME UNCHANGED jobs, NEW k \in Jobs, req[k].pc # "dispatch",
             \A i \in Jobs : i # k => req'[i] = req[i]
      PROVE  (Final(j) \/ Carried(j))'
  <2>1. req[j].pc = "dispatch" => j # k
    BY <1>4
  <2> QED
    BY <1>3, <1>4, <2>1
<1>5. ASSUME NEW k \in Jobs, \/ \E s \in Submissions : Submit(k, s)
                             \/ \E i \in Jobs, q \in Queues : RetryArchivedJob(k, i, q)
                             \/ Lookup(k)
      PROVE  (Final(j) \/ Carried(j))'
  <2>1. UNCHANGED jobs /\ req[k].pc # "dispatch"
    BY <1>5 DEF Submit, RetryArchivedJob, Lookup, storeVars
  <2>2. \A i \in Jobs : i # k => req'[i] = req[i]
    BY <1>1, <1>5 DEF Submit, RetryArchivedJob, Lookup, Goto, Reply, APITypeOK
  <2> QED
    BY <1>4, <2>1, <2>2
<1>6. ASSUME NEW k \in Jobs, CreateRow(k)
      PROVE  (Final(j) \/ Carried(j))'
  <2>1. CASE KeyFree(req[k].work) /\ Goto(k, "dispatch")
    <3>1. CASE k = j
      BY <1>1, <2>1, <3>1 DEF Goto, APITypeOK, Requests, Carried
    <3>2. CASE k # j
      <4>1. jobs'[j] = jobs[j]
        BY <1>1, <1>6, <3>2 DEF CreateRow, WithRow, StoreTypeOK
      <4>2. req'[j] = req[j]
        BY <1>1, <2>1, <3>2 DEF Goto, APITypeOK
      <4> QED
        BY <1>3, <4>1, <4>2
    <3> QED
      BY <3>1, <3>2
  <2>2. CASE UNCHANGED jobs /\ Goto(k, "failed")
    <3>1. req[k].pc # "dispatch"
      BY <1>6 DEF CreateRow
    <3>2. \A i \in Jobs : i # k => req'[i] = req[i]
      BY <1>1, <2>2 DEF Goto, APITypeOK
    <3> QED
      BY <1>4, <2>2, <3>1, <3>2
  <2> QED
    BY <1>6, <2>1, <2>2 DEF CreateRow
<1>7. ASSUME NEW k \in Jobs, Dispatch(k)
      PROVE  (Final(j) \/ Carried(j))'
  <2> DEFINE m == Message(k, req[k].work, 0, req[k].maxRetry)
  <2>1. m \in Messages /\ m.job = k
    BY <1>1, MessageType DEF APITypeOK, Requests, Message
  <2>2. UNCHANGED jobs /\ Reply(k, k) /\ Append1(m)
    <3>1. ~(req[k].work.runAt > now)
      BY <1>1 DEF StoreTypeOK
    <3> QED
      BY <1>7, <3>1 DEF Dispatch, EnqueueOk, EnqueueError
  <2> HIDE DEF m
  <2>3. CASE k = j
    BY <1>1, <2>1, <2>2, <2>3, NewIsCarried
  <2>4. CASE k # j
    <3>1. req'[j] = req[j]
      BY <1>1, <2>2, <2>4 DEF Reply, APITypeOK
    <3> QED
      BY <1>3, <2>2, <3>1
  <2> QED
    BY <2>3, <2>4
<1>8. ASSUME NEW q \in Queues, PauseQueue(q) \/ UnpauseQueue(q)
      PROVE  (Final(j) \/ Carried(j))'
  BY <1>3, <1>8 DEF PauseQueue, UnpauseQueue, SetQueuePaused, apiVars
<1> QED
  BY <1>5, <1>6, <1>7, <1>8, Quiet DEF APINext

LEMMA NobodyForgets ==
  ASSUME LifeInv, [Next]_vars, ~(faults' > faults),
         NEW j \in Jobs, Final(j) \/ Carried(j), jobs[j].work.queue \notin paused
  PROVE  (Final(j) \/ Carried(j))'
<1>1. ~Fault /\ StoreTypeOK /\ WorkerTypeOK
  BY OnceTypes DEF Fault, StoreTypeOK
<1>2. CASE UNCHANGED <<jobs, req, log, task>>
  BY <1>2 DEF Final, Carried, Open
<1>3. CASE APINext /\ UNCHANGED <<workerVars, promoVars>>
  BY <1>1, <1>3, RequestsCare
<1>4. CASE WorkerNext /\ UNCHANGED <<apiVars, promoVars>>
  <2>1. ASSUME NEW t \in Tasks, TaskStep(t)
        PROVE  (Final(j) \/ Carried(j))'
    BY <1>1, <1>4, <2>1, TaskCares
  <2>2. CASE \E w \in Workers : Join(w)
    BY <1>2, <1>4, <2>2 DEF Join, storeVars, apiVars
  <2>3. CASE Fetch
    <3>1. task' = [task EXCEPT ![<<gen, fetched + 1>>] = "admit"]
          /\ UNCHANGED <<jobs, req, log>>
      BY <1>4, <2>3 DEF Fetch, storeVars, apiVars
    <3>2. \A o \in 1 .. Len(log) : Open(o) => Open(o)'
      BY <1>1, <3>1, OnceTypes DEF Open, Waiting, WorkerTypeOK
    <3> QED
      BY <3>1, <3>2, StillCared
  <2> QED
    BY <1>4, <2>1, <2>2, <2>3, NobodyCrashes DEF WorkerNext
<1> QED
  BY <1>2, <1>3, <1>4, Quiet DEF Next, Tick, vars, storeVars, apiVars, workerVars

\* While each message is delivered once and jobs are neither delayed nor cancelled,
\* nothing forgets a job but a call that failed in that very step, or the delivery of
\* its message while its queue is paused: for any number of jobs, attempts and
\* workers, Submit and process hand a job on before they let go of it.
THEOREM OnlyFailuresForget == DeliveredOnce /\ Spec => ForgottenHasCause
<1>1. DeliveredOnce /\ Spec => []LifeInv
  BY LifeInvInit, LifeInvNext, PTL DEF Spec
<1> DEFINE Cause ==
      \A j \in Jobs :
        (Final(j) \/ Attended(j)) /\ ~(Final(j) \/ Attended(j))' =>
          faults' > faults \/ jobs[j].work.queue \in paused
<1> DEFINE Noticed == \A j \in Jobs : Carried(j) => Attended(j)
<1>2. LifeInv => Noticed
  BY CarriedIsAttended
<1> HIDE DEF Noticed
<1>3. LifeInv' => Noticed'
  BY <1>2, PTL
<1>4. LifeInv /\ LifeInv' /\ [Next]_vars => [Cause]_vars
  <2> SUFFICES ASSUME LifeInv, LifeInv', [Next]_vars, NEW j \in Jobs,
                      Final(j) \/ Attended(j), ~(faults' > faults),
                      jobs[j].work.queue \notin paused
               PROVE  (Final(j) \/ Attended(j))'
    OBVIOUS
  <2>1. Attended(j) => Carried(j)
    BY CarriedIsAttended
  <2>2. (Final(j) \/ Carried(j))'
    BY <2>1, NobodyForgets
  <2> QED
    BY <1>3, <2>2 DEF Noticed
<1>5. ForgottenHasCause <=> [][Cause]_vars
  BY DEF ForgottenHasCause
<1> QED
  BY <1>1, <1>4, <1>5, PTL DEF Spec
=============================================================================
