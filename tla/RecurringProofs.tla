--------------------------- MODULE RecurringProofs ---------------------------
(***************************************************************************)
(* Proofs about Recurring: no run of a schedule is skipped, repeats are    *)
(* paid for by failures, and a deleted schedule fires no more, for any     *)
(* schedules, periods, failing calls and restarts.                         *)
(***************************************************************************)
EXTENDS Recurring, SequenceTheorems, FiniteSetTheorems, TLAPS

-----------------------------------------------------------------------------
(* Runs in time *)

LEMMA Quotient ==
  ASSUME NEW t \in Nat, NEW P \in Nat \ {0}
  PROVE  t = P * (t \div P) + (t % P) /\ (t % P) \in 0 .. P - 1 /\ t \div P \in Nat
OBVIOUS

LEMMA Multiple ==
  ASSUME NEW t \in Nat, NEW P \in Nat \ {0}, t % P = 0
  PROVE  t = P * (t \div P) /\ t \div P \in Nat
OBVIOUS

\* The next match is a later one, and there is none in between.
LEMMA Match ==
  ASSUME NEW s \in Schedules, NEW t \in Nat
  PROVE  /\ NextMatch(s, t) \in Nat
         /\ NextMatch(s, t) > t
         /\ NextMatch(s, t) % Period[s] = 0
         /\ \A n \in Nat :
              t % Period[s] = 0 /\ n % Period[s] = 0 /\ t <= n /\ n < NextMatch(s, t) => n = t
<1> DEFINE P == Period[s]
<1>1. P \in Nat \ {0}
  BY RecurringAssumption
<1> HIDE DEF P
<1>2. t \div P \in Nat /\ t = P * (t \div P) + (t % P) /\ (t % P) \in 0 .. P - 1
  BY <1>1, Quotient
<1>3. (t \div P + 1) * P = P * (t \div P) + P
  BY <1>1, <1>2
<1>4. (t \div P + 1) * P \in Nat /\ (t \div P + 1) * P > t
  BY <1>1, <1>2
<1>5. ((t \div P + 1) * P) % P = 0
  BY <1>1, <1>2
<1>6. ASSUME NEW n \in Nat, t % P = 0, n % P = 0, t <= n, n < (t \div P + 1) * P
      PROVE  n = t
  <2> DEFINE a == t \div P
             b == n \div P
  <2>1. b \in Nat /\ n = P * b
    BY <1>1, <1>6, Multiple
  <2>2. a \in Nat /\ t = P * a
    BY <1>1, <1>6, Multiple
  <2> HIDE DEF a, b
  <2>3. P * b < P * a + P
    BY <1>3, <1>6, <2>1, <2>2 DEF a
  <2>4. P * a <= P * b
    BY <1>6, <2>1, <2>2
  <2>5. a = b
    <3>1. CASE b <= a - 1
      <4>1. P * b <= P * (a - 1)
        BY <1>1, <2>1, <2>2, <3>1
      <4>2. P * (a - 1) = P * a - P
        BY <1>1, <2>2
      <4>3. P * a \in Nat /\ P * b \in Nat
        BY <1>1, <2>1, <2>2
      <4> QED BY <1>1, <2>4, <4>1, <4>2, <4>3
    <3>2. CASE b >= a + 1
      <4>1. P * b >= P * (a + 1)
        BY <1>1, <2>1, <2>2, <3>2
      <4>2. P * (a + 1) = P * a + P
        BY <1>1, <2>2
      <4>3. P * a \in Nat /\ P * b \in Nat
        BY <1>1, <2>1, <2>2
      <4> QED BY <1>1, <2>3, <4>1, <4>2, <4>3
    <3> QED BY <2>1, <2>2, <3>1, <3>2
  <2> QED BY <2>1, <2>2, <2>5
<1> QED
  BY <1>4, <1>5, <1>6 DEF NextMatch, P

-----------------------------------------------------------------------------
(* What the loop knows *)

OnTopic(j) == \E o \in 1 .. Len(log) : log[o].job = j

\* next_run_at is a match of the cron expression.
OnSchedule == \A s \in Schedules : nextRun[s] % Period[s] = 0

\* The list has each schedule once, and as long as it exists with the run it is
\* still to have: only the loop moves next_run_at.
ListIsTrue ==
  \A k \in 1 .. Len(due) :
    LET s == due[k].sch IN
    /\ row[s] # "none"
    /\ row[s] = "active" => due[k].next = nextRun[s]
    /\ \A l \in 1 .. Len(due) : due[l].sch = s => l = k

\* The job in hand is the one for the first element, and on the topic before
\* next_run_at is written.
InHand ==
  /\ step # "create" => due # << >>
  /\ \A j \in job : origin[j] = {Head(due)} /\ (step = "update" => OnTopic(j))
  /\ \A j, k \in job : j = k

\* Nothing is on the topic that was created for no run.
TopicIsExplained == \A o \in 1 .. Len(log) : origin[log[o].job] # {}

LoopInv == RecurringTypeOK /\ OnSchedule /\ ListIsTrue /\ InHand /\ TopicIsExplained

LEMMA LoopInvInit == RecurringInit => LoopInv
<1> SUFFICES ASSUME RecurringInit PROVE LoopInv
  OBVIOUS
<1>1. StoreTypeOK
  <2>1. Blank \in Works /\ "absent" \in Statuses
    BY StoreAssumption DEF Blank, Works, JobTypes, Statuses
  <2> QED
    BY <2>1 DEF RecurringInit, StoreInit, StoreTypeOK, Rows
<1>2. RecurringTypeOK
  BY <1>1, RecurringAssumption DEF RecurringInit, RecurringTypeOK
<1>3. \A s \in Schedules : 0 % Period[s] = 0
  BY RecurringAssumption
<1> QED
  BY <1>2, <1>3 DEF RecurringInit, StoreInit, LoopInv, OnSchedule, ListIsTrue, InHand,
                    TopicIsExplained

\* The list that ListDue reads.
LEMMA ListIsOrdered ==
  ASSUME LoopInv,
         NEW found \in SUBSET Schedules,
         NEW q \in Ordered({[sch |-> s, next |-> nextRun[s]] : s \in found})
  PROVE  /\ q \in Seq(Slots)
         /\ \A k \in 1 .. Len(q) :
              /\ q[k].sch \in found /\ q[k].next = nextRun[q[k].sch]
              /\ \A l \in 1 .. Len(q) : q[l].sch = q[k].sch => l = k
<1> DEFINE S == {[sch |-> s, next |-> nextRun[s]] : s \in found}
<1>1. S \subseteq Slots
  BY DEF Slots, LoopInv, RecurringTypeOK
<1>2. Cardinality(S) \in Nat
  <2>1. IsFiniteSet(found)
    BY RecurringAssumption, FS_Subset
  <2>2. IsFiniteSet(S)
    <3> DEFINE f == [s \in found |-> [sch |-> s, next |-> nextRun[s]]]
    <3>1. f \in [found -> S] /\ \A y \in S : \E x \in found : f[x] = y
      OBVIOUS
    <3>2. f \in Surjection(found, S)
      BY <3>1 DEF Surjection
    <3> QED BY <2>1, <3>2, FS_Surjection
  <2> QED BY <2>2, FS_CardinalityType
<1>3. q \in [1 .. Cardinality(S) -> S]
  BY DEF Ordered
<1>4. \A a, b \in 1 .. Cardinality(S) : a < b => q[a] # q[b]
  BY <1>3 DEF Ordered
<1> HIDE DEF S
<1>5. q \in Seq(Slots) /\ Len(q) = Cardinality(S)
  <2>1. q \in Seq(S)
    BY <1>2, <1>3, SeqDef
  <2>2. Len(q) = Cardinality(S)
    BY <1>2, <1>3, <2>1
  <2> QED BY <1>1, <1>2, <1>3, <2>2, SeqDef
<1>6. \A k \in 1 .. Len(q) : q[k] \in S
  BY <1>3, <1>5
<1>7. \A x \in S : x.sch \in found /\ x.next = nextRun[x.sch]
                   /\ x = [sch |-> x.sch, next |-> nextRun[x.sch]]
  BY DEF S
<1>8. ASSUME NEW k \in 1 .. Len(q), NEW l \in 1 .. Len(q), q[l].sch = q[k].sch
      PROVE  l = k
  <2>1. q[l] = q[k]
    BY <1>6, <1>7, <1>8
  <2>2. ~(l < k) /\ ~(k < l)
    BY <1>4, <1>5, <2>1
  <2> QED BY <1>2, <1>5, <2>2
<1> QED
  BY <1>5, <1>6, <1>7, <1>8

\* Going on to the next element keeps the rest of the list.
LEMMA TailOfList ==
  ASSUME LoopInv, due # << >>
  PROVE  /\ Head(due) \in Slots /\ Head(due) = due[1] /\ 1 \in 1 .. Len(due)
         /\ Tail(due) \in Seq(Slots)
         /\ Len(Tail(due)) = Len(due) - 1
         /\ \A k \in 1 .. Len(Tail(due)) :
              k + 1 \in 1 .. Len(due) /\ Tail(due)[k] = due[k + 1]
BY DEF LoopInv, RecurringTypeOK

\* Steps of the API.
LEMMA ApiKeepsLoopInv ==
  ASSUME LoopInv, NEW s \in Schedules, CreateSchedule(s) \/ DeleteSchedule(s)
  PROVE  LoopInv'
<1> USE DEF LoopInv
<1>0. \A k \in 1 .. Len(due) : due[k].sch \in Schedules
  <2>1. \A k \in 1 .. Len(due) : due[k] \in Slots
    BY DEF RecurringTypeOK
  <2> QED BY <2>1 DEF Slots
<1>1. CASE CreateSchedule(s)
  <2>1. NextMatch(s, now) \in Nat /\ NextMatch(s, now) % Period[s] = 0
    BY Match DEF RecurringTypeOK, StoreTypeOK
  <2>2. /\ row[s] = "none" /\ row' = [row EXCEPT ![s] = "active"]
        /\ nextRun' = [nextRun EXCEPT ![s] = NextMatch(s, now)]
        /\ first' = [first EXCEPT ![s] = NextMatch(s, now)]
        /\ UNCHANGED <<storeVars, loopVars>>
    BY <1>1 DEF CreateSchedule
  <2>3. RecurringTypeOK'
    BY <2>1, <2>2 DEF RecurringTypeOK, StoreTypeOK, storeVars, loopVars
  <2>4. OnSchedule'
    BY <2>1, <2>2 DEF OnSchedule, RecurringTypeOK
  <2>5. ListIsTrue'
    BY <1>0, <2>2 DEF ListIsTrue, RecurringTypeOK, loopVars
  <2>6. InHand' /\ TopicIsExplained'
    BY <2>2 DEF InHand, TopicIsExplained, OnTopic, storeVars, loopVars
  <2> QED BY <2>3, <2>4, <2>5, <2>6
<1>2. CASE DeleteSchedule(s)
  <2>1. /\ row[s] = "active" /\ row' = [row EXCEPT ![s] = "deleted"]
        /\ UNCHANGED <<nextRun, first, storeVars, loopVars>>
    BY <1>2 DEF DeleteSchedule
  <2>2. RecurringTypeOK'
    BY <2>1 DEF RecurringTypeOK, StoreTypeOK, storeVars, loopVars
  <2>3. OnSchedule'
    BY <2>1 DEF OnSchedule
  <2>4. ListIsTrue'
    BY <1>0, <2>1 DEF ListIsTrue, RecurringTypeOK, loopVars
  <2>5. InHand' /\ TopicIsExplained'
    BY <2>1 DEF InHand, TopicIsExplained, OnTopic, storeVars, loopVars
  <2> QED BY <2>2, <2>3, <2>4, <2>5
<1> QED
  BY <1>1, <1>2

LEMMA ListDueKeepsLoopInv ==
  ASSUME LoopInv, ListDue
  PROVE  LoopInv'
<1> DEFINE found == {s \in Schedules : row[s] = "active" /\ nextRun[s] <= now}
<1>1. /\ due' \in Ordered({[sch |-> s, next |-> nextRun[s]] : s \in found})
      /\ due = << >>
      /\ UNCHANGED <<step, job, origin, restarts, storeVars, scheduleVars>>
  BY DEF ListDue
<1> HIDE DEF found
<1>2. found \in SUBSET Schedules
  BY DEF found
<1>3. /\ due' \in Seq(Slots)
      /\ \A k \in 1 .. Len(due') :
           /\ due'[k].sch \in found /\ due'[k].next = nextRun[due'[k].sch]
           /\ \A l \in 1 .. Len(due') : due'[l].sch = due'[k].sch => l = k
  BY <1>1, <1>2, ListIsOrdered
<1>4. step = "create" /\ job = {}
  BY <1>1 DEF LoopInv, InHand, RecurringTypeOK
<1>5. RecurringTypeOK'
  BY <1>1, <1>3, <1>4 DEF LoopInv, RecurringTypeOK, StoreTypeOK, storeVars, scheduleVars
<1>6. ListIsTrue'
  BY <1>1, <1>3 DEF ListIsTrue, scheduleVars, found
<1>7. OnSchedule' /\ InHand' /\ TopicIsExplained'
  BY <1>1, <1>4 DEF LoopInv, OnSchedule, InHand, TopicIsExplained, storeVars, scheduleVars
<1> QED
  BY <1>5, <1>6, <1>7 DEF LoopInv

\* What Continue leaves, when the rows and the runs of the rest of the list stay.
LEMMA ContinueKeepsList ==
  ASSUME LoopInv, due # << >>, Continue, UNCHANGED row,
         \A s \in Schedules : s # Head(due).sch => nextRun'[s] = nextRun[s]
  PROVE  /\ due' \in Seq(Slots) /\ step' = "create" /\ job' = {}
         /\ ListIsTrue' /\ InHand'
<1>1. due' = Tail(due) /\ step' = "create" /\ job' = {}
  BY DEF Continue
<1>2. due' \in Seq(Slots)
  BY <1>1, TailOfList
<1>3. ASSUME NEW k \in 1 .. Len(due')
      PROVE  /\ due'[k].sch \in Schedules /\ due'[k].sch # Head(due).sch
             /\ row[due'[k].sch] # "none"
             /\ row[due'[k].sch] = "active" => due'[k].next = nextRun[due'[k].sch]
             /\ \A l \in 1 .. Len(due') : due'[l].sch = due'[k].sch => l = k
  <2>1. k + 1 \in 1 .. Len(due) /\ due'[k] = due[k + 1]
    BY <1>1, <1>3, TailOfList
  <2>2. due[k + 1] \in Slots
    BY <2>1 DEF LoopInv, RecurringTypeOK
  <2>3. due[k + 1].sch # Head(due).sch
    <3>1. k + 1 # 1
      BY <1>2, <1>3
    <3> QED BY <2>1, <3>1, TailOfList DEF LoopInv, ListIsTrue
  <2>4. ASSUME NEW l \in 1 .. Len(due'), due'[l].sch = due'[k].sch
        PROVE  l = k
    <3>1. l + 1 \in 1 .. Len(due) /\ due'[l] = due[l + 1]
      BY <1>1, <2>4, TailOfList
    <3>2. l + 1 = k + 1
      BY <2>1, <2>4, <3>1 DEF LoopInv, ListIsTrue
    <3> QED BY <1>2, <1>3, <2>4, <3>2
  <2> QED
    BY <2>1, <2>2, <2>3, <2>4 DEF LoopInv, ListIsTrue, Slots
<1>4. ListIsTrue'
  BY <1>3 DEF ListIsTrue
<1>5. InHand'
  BY <1>1 DEF InHand
<1> QED
  BY <1>1, <1>2, <1>4, <1>5

-----------------------------------------------------------------------------
(* The topic *)

\* A message is about one job, and what was on the topic stays there.
LEMMA TopicGrows ==
  ASSUME StoreTypeOK, NEW m \in Messages, UNCHANGED log \/ Append1(m)
  PROVE  /\ log' \in Seq(Messages)
         /\ \A o \in 1 .. Len(log) : o \in 1 .. Len(log') /\ log'[o] = log[o]
         /\ \A o \in 1 .. Len(log') : o \in 1 .. Len(log) \/ log'[o] = m
         /\ Append1(m) => \E o \in 1 .. Len(log') : log'[o] = m
<1>1. CASE UNCHANGED log /\ ~Append1(m)
  BY <1>1 DEF StoreTypeOK
<1>2. CASE Append1(m)
  <2>1. log' = Append(log, m) /\ log \in Seq(Messages)
    BY <1>2 DEF Append1, StoreTypeOK
  <2>2. Len(log) \in Nat /\ Len(log') = Len(log) + 1
    BY <2>1
  <2>3. log'[Len(log) + 1] = m /\ \A o \in 1 .. Len(log) : log'[o] = log[o]
    BY <2>1
  <2> QED BY <2>1, <2>2, <2>3
<1> QED
  BY <1>1, <1>2

LEMMA RunMessage ==
  ASSUME LoopInv, NEW j \in job
  PROVE  /\ j \in Jobs
         /\ Message(j, jobs[j].work, 0, 0) \in Messages
         /\ Message(j, jobs[j].work, 0, 0).job = j
<1>1. j \in Jobs /\ jobs[j].work \in Works
  BY DEF LoopInv, RecurringTypeOK, StoreTypeOK, Rows
<1> QED
  BY <1>1 DEF Message, Messages, Works, Retries

LEMMA CreateKeepsLoopInv ==
  ASSUME LoopInv, NEW j \in Jobs, CreateJob(j)
  PROVE  LoopInv'
<1>1. /\ due # << >> /\ step = "create" /\ job = {} /\ origin[j] = {}
      /\ origin' = [origin EXCEPT ![j] = {Head(due)}]
      /\ UNCHANGED <<restarts, outbox, paused, log, now, scheduleVars>>
  BY DEF CreateJob, Fresh
<1>2. Head(due) \in Slots
  BY <1>1, TailOfList
<1>3. /\ jobs' \in [Jobs -> Rows]
      /\ faults' \in Nat
  <2>1. [Blank EXCEPT !.type = "task"] \in Works
    BY StoreAssumption DEF Blank, Works, JobTypes
  <2>2. WithRow(j, "pending", [Blank EXCEPT !.type = "task"]) \in [Jobs -> Rows]
    BY <2>1 DEF WithRow, Rows, Statuses, LoopInv, RecurringTypeOK, StoreTypeOK
  <2>3. jobs' = WithRow(j, "pending", [Blank EXCEPT !.type = "task"]) \/ jobs' = jobs
    BY DEF CreateJob
  <2>4. faults' = faults \/ faults' = faults + 1
    BY DEF CreateJob, Fault
  <2>5. jobs \in [Jobs -> Rows] /\ faults \in Nat
    BY DEF LoopInv, RecurringTypeOK, StoreTypeOK
  <2>6. jobs' \in [Jobs -> Rows]
    BY <2>2, <2>3, <2>5
  <2> QED
    BY <2>4, <2>5, <2>6
<1>4. StoreTypeOK'
  BY <1>1, <1>3 DEF LoopInv, RecurringTypeOK, StoreTypeOK
<1>5. origin' \in [Jobs -> SUBSET Slots]
  BY <1>1, <1>2 DEF LoopInv, RecurringTypeOK
<1>6. OnSchedule'
  BY <1>1 DEF LoopInv, OnSchedule, scheduleVars
<1>7. TopicIsExplained'
  <2>1. ASSUME NEW o \in 1 .. Len(log) PROVE origin'[log[o].job] # {}
    <3>1. log[o] \in Messages
      BY DEF LoopInv, RecurringTypeOK, StoreTypeOK
    <3>2. log[o].job \in Jobs /\ origin[log[o].job] # {}
      BY <3>1 DEF Messages, LoopInv, TopicIsExplained
    <3> QED BY <1>1, <3>2 DEF LoopInv, RecurringTypeOK
  <2> QED BY <1>1, <2>1 DEF TopicIsExplained
<1>8. CASE step' = "enqueue" /\ job' = {j} /\ UNCHANGED due
  <2>1. ListIsTrue'
    BY <1>1, <1>8 DEF LoopInv, ListIsTrue, scheduleVars
  <2>2. InHand'
    BY <1>1, <1>8 DEF InHand, LoopInv, RecurringTypeOK
  <2> QED
    BY <1>1, <1>4, <1>5, <1>6, <1>7, <1>8, <2>1, <2>2
       DEF LoopInv, RecurringTypeOK, scheduleVars
<1>9. CASE Continue
  <2>1. due' \in Seq(Slots) /\ step' = "create" /\ job' = {} /\ ListIsTrue' /\ InHand'
    BY <1>1, <1>9, ContinueKeepsList DEF scheduleVars
  <2> QED
    BY <1>1, <1>4, <1>5, <1>6, <1>7, <2>1 DEF LoopInv, RecurringTypeOK, scheduleVars
<1> QED
  BY <1>8, <1>9 DEF CreateJob

LEMMA EnqueueKeepsLoopInv ==
  ASSUME LoopInv, NEW j \in Jobs, EnqueueJob(j)
  PROVE  LoopInv'
<1> DEFINE m == Message(j, jobs[j].work, 0, 0)
<1>1. /\ due # << >> /\ step = "enqueue" /\ j \in job
      /\ UNCHANGED <<origin, restarts, jobs, outbox, paused, now, scheduleVars>>
      /\ UNCHANGED log \/ Append1(m)
  BY DEF EnqueueJob, EnqueueOk, EnqueueError
<1>2. m \in Messages /\ m.job = j
  BY <1>1, RunMessage
<1> HIDE DEF m
<1>3. /\ log' \in Seq(Messages)
      /\ \A o \in 1 .. Len(log) : o \in 1 .. Len(log') /\ log'[o] = log[o]
      /\ \A o \in 1 .. Len(log') : o \in 1 .. Len(log) \/ log'[o] = m
      /\ Append1(m) => \E o \in 1 .. Len(log') : log'[o] = m
  BY <1>1, <1>2, TopicGrows DEF LoopInv, RecurringTypeOK
<1>4. faults' \in Nat
  BY DEF EnqueueJob, EnqueueOk, EnqueueError, Fault, LoopInv, RecurringTypeOK, StoreTypeOK
<1>5. StoreTypeOK'
  BY <1>1, <1>3, <1>4 DEF LoopInv, RecurringTypeOK, StoreTypeOK
<1>6. OnSchedule'
  BY <1>1 DEF LoopInv, OnSchedule, scheduleVars
<1>7. origin[j] = {Head(due)}
  BY <1>1 DEF LoopInv, InHand
<1>8. TopicIsExplained'
  BY <1>1, <1>2, <1>3, <1>7 DEF LoopInv, TopicIsExplained
<1>9. CASE Append1(m) /\ step' = "update" /\ UNCHANGED <<due, job>>
  <2>1. ListIsTrue'
    BY <1>1, <1>9 DEF LoopInv, ListIsTrue, scheduleVars
  <2>2. \A k \in job : k = j
    BY <1>1 DEF LoopInv, InHand
  <2>3. InHand'
    BY <1>1, <1>2, <1>3, <1>7, <1>9, <2>2 DEF InHand, OnTopic
  <2> QED
    BY <1>1, <1>5, <1>6, <1>8, <1>9, <2>1, <2>3
       DEF LoopInv, RecurringTypeOK, scheduleVars
<1>10. CASE Continue
  <2>1. due' \in Seq(Slots) /\ step' = "create" /\ job' = {} /\ ListIsTrue' /\ InHand'
    BY <1>1, <1>10, ContinueKeepsList DEF scheduleVars
  <2> QED
    BY <1>1, <1>5, <1>6, <1>8, <2>1 DEF LoopInv, RecurringTypeOK, scheduleVars
<1> QED
  BY <1>9, <1>10 DEF EnqueueJob, EnqueueOk, m

LEMMA UpdateKeepsLoopInv ==
  ASSUME LoopInv, UpdateNextRun
  PROVE  LoopInv'
<1> DEFINE i == Head(due)
           moved == [nextRun EXCEPT ![i.sch] =
                       IF row[i.sch] = "active" THEN NextMatch(i.sch, i.next) ELSE @]
<1>1. /\ due # << >> /\ step = "update" /\ Continue
      /\ nextRun' = moved \/ UNCHANGED nextRun
      /\ faults' = faults \/ faults' = faults + 1
      /\ UNCHANGED <<origin, restarts, row, first, jobs, outbox, paused, log, now>>
  BY DEF UpdateNextRun, Fault
<1>2. i.sch \in Schedules /\ i.next \in Nat
  BY <1>1, TailOfList DEF Slots
<1>3. /\ NextMatch(i.sch, i.next) \in Nat
      /\ NextMatch(i.sch, i.next) % Period[i.sch] = 0
  BY <1>2, Match
<1> HIDE DEF i
<1>4. /\ nextRun' \in [Schedules -> Nat]
      /\ \A s \in Schedules : s # i.sch => nextRun'[s] = nextRun[s]
      /\ \A s \in Schedules : nextRun'[s] % Period[s] = 0
  <2>1. nextRun \in [Schedules -> Nat] /\ \A s \in Schedules : nextRun[s] % Period[s] = 0
    BY DEF LoopInv, RecurringTypeOK, OnSchedule
  <2>2. PICK v \in Nat : /\ nextRun' = [nextRun EXCEPT ![i.sch] = v]
                         /\ v % Period[i.sch] = 0
    <3>1. CASE nextRun' = nextRun
      BY <1>2, <2>1, <3>1
    <3>2. CASE nextRun' = moved
      BY <1>2, <1>3, <2>1, <3>2
    <3> QED BY <1>1, <3>1, <3>2
  <2>3. /\ nextRun' \in [Schedules -> Nat]
        /\ \A s \in Schedules : s # i.sch => nextRun'[s] = nextRun[s]
    BY <1>2, <2>1, <2>2
  <2>4. nextRun'[i.sch] % Period[i.sch] = 0
    BY <1>2, <2>1, <2>2
  <2> QED BY <2>1, <2>3, <2>4
<1>5. due' \in Seq(Slots) /\ step' = "create" /\ job' = {} /\ ListIsTrue' /\ InHand'
  BY <1>1, <1>4, ContinueKeepsList DEF i
<1>6. StoreTypeOK'
  BY <1>1 DEF LoopInv, RecurringTypeOK, StoreTypeOK
<1> QED
  BY <1>1, <1>4, <1>5, <1>6
     DEF LoopInv, RecurringTypeOK, OnSchedule, TopicIsExplained

LEMMA LoopInvNext == LoopInv /\ [RecurringNext]_recurringVars => LoopInv'
<1> SUFFICES ASSUME LoopInv, [RecurringNext]_recurringVars PROVE LoopInv'
  OBVIOUS
<1>1. CASE Tick /\ UNCHANGED <<scheduleVars, loopVars>>
  <2>1. StoreTypeOK' /\ UNCHANGED <<log, row, nextRun, first, due, step, job, origin, restarts>>
    BY <1>1 DEF Tick, LoopInv, RecurringTypeOK, StoreTypeOK, scheduleVars, loopVars
  <2>2. RecurringTypeOK'
    BY <2>1 DEF LoopInv, RecurringTypeOK
  <2> QED
    BY <2>1, <2>2 DEF LoopInv, OnSchedule, ListIsTrue, InHand, TopicIsExplained, OnTopic
<1>2. CASE \E s \in Schedules : CreateSchedule(s) \/ DeleteSchedule(s)
  BY <1>2, ApiKeepsLoopInv
<1>3. CASE LoopStep
  BY <1>3, ListDueKeepsLoopInv, CreateKeepsLoopInv, EnqueueKeepsLoopInv, UpdateKeepsLoopInv
     DEF LoopStep
<1>4. CASE RestartLoop
  <2>1. /\ restarts' \in 0 .. MaxRestarts
        /\ due' = << >> /\ step' = "create" /\ job' = {}
        /\ UNCHANGED <<origin, storeVars, scheduleVars>>
    BY <1>4, RecurringAssumption DEF RestartLoop, LoopInv, RecurringTypeOK
  <2>2. StoreTypeOK'
    BY <2>1 DEF LoopInv, RecurringTypeOK, StoreTypeOK, storeVars
  <2>3. RecurringTypeOK'
    BY <2>1, <2>2 DEF LoopInv, RecurringTypeOK, scheduleVars
  <2> QED
    BY <2>1, <2>3 DEF LoopInv, OnSchedule, ListIsTrue, InHand, TopicIsExplained,
                      storeVars, scheduleVars
<1>5. CASE UNCHANGED recurringVars
  BY <1>5 DEF recurringVars, LoopInv, RecurringTypeOK, StoreTypeOK, OnSchedule, ListIsTrue,
              InHand, TopicIsExplained, OnTopic, storeVars, scheduleVars, loopVars
<1> QED
  BY <1>1, <1>2, <1>3, <1>4, <1>5 DEF RecurringNext

\* The loop and the table keep their types, whatever fails.
THEOREM RecurringTypes == RecurringSpec => []RecurringTypeOK
<1>1. LoopInv => RecurringTypeOK
  BY DEF LoopInv
<1> QED
  BY <1>1, LoopInvInit, LoopInvNext, PTL DEF RecurringSpec

-----------------------------------------------------------------------------
(* Runs are had *)

\* What a job was created for, and what is on the topic, stays.
LEMMA RunsStay ==
  ASSUME LoopInv, [RecurringNext]_recurringVars, NEW i
  PROVE  JobsOf(i) \subseteq JobsOf(i)'
<1>1. /\ \A j \in Jobs : origin[j] # {} => origin'[j] = origin[j]
      /\ \A o \in 1 .. Len(log) : o \in 1 .. Len(log') /\ log'[o] = log[o]
  <2>1. CASE UNCHANGED <<origin, log>>
    BY <2>1
  <2>2. ASSUME NEW j \in Jobs, CreateJob(j)
        PROVE  /\ \A k \in Jobs : origin[k] # {} => origin'[k] = origin[k]
               /\ UNCHANGED log
    BY <2>2 DEF CreateJob, Fresh, LoopInv, RecurringTypeOK
  <2>3. ASSUME NEW j \in Jobs, EnqueueJob(j)
        PROVE  /\ UNCHANGED origin
               /\ \A o \in 1 .. Len(log) : o \in 1 .. Len(log') /\ log'[o] = log[o]
    <3>1. /\ UNCHANGED origin
          /\ UNCHANGED log \/ Append1(Message(j, jobs[j].work, 0, 0))
      BY <2>3 DEF EnqueueJob, EnqueueOk, EnqueueError
    <3>2. j \in job
      BY <2>3 DEF EnqueueJob
    <3> QED
      BY <3>1, <3>2, RunMessage, TopicGrows DEF LoopInv, RecurringTypeOK
  <2>4. CASE Tick /\ UNCHANGED <<scheduleVars, loopVars>>
    BY <2>1, <2>4 DEF Tick, loopVars
  <2>5. CASE \E s \in Schedules : CreateSchedule(s) \/ DeleteSchedule(s)
    BY <2>1, <2>5 DEF CreateSchedule, DeleteSchedule, storeVars, loopVars
  <2>6. CASE ListDue \/ UpdateNextRun \/ RestartLoop \/ UNCHANGED recurringVars
    BY <2>1, <2>6 DEF ListDue, UpdateNextRun, RestartLoop, recurringVars, storeVars, loopVars
  <2> QED
    BY <2>2, <2>3, <2>4, <2>5, <2>6 DEF RecurringNext, LoopStep
<1> QED
  BY <1>1 DEF JobsOf

\* When the loop moves next_run_at, it is from the run that is on the topic to the
\* one after it.
LEMMA MovesBehindARun ==
  ASSUME LoopInv, UpdateNextRun, NEW s \in Schedules, nextRun'[s] # nextRun[s]
  PROVE  /\ row[s] = "active" /\ Head(due) = [sch |-> s, next |-> nextRun[s]]
         /\ nextRun'[s] = NextMatch(s, nextRun[s])
         /\ JobsOf(Head(due)) # {}
<1> DEFINE i == Head(due)
<1>1. due # << >> /\ step = "update"
  BY DEF UpdateNextRun
<1>2. i \in Slots /\ i = due[1] /\ 1 \in 1 .. Len(due)
  BY <1>1, TailOfList
<1>3. i.sch \in Schedules /\ nextRun \in [Schedules -> Nat]
  BY <1>2 DEF Slots, LoopInv, RecurringTypeOK
<1>4. s = i.sch /\ row[s] = "active" /\ nextRun'[s] = NextMatch(s, i.next)
  BY <1>3 DEF UpdateNextRun
<1>5. i.next = nextRun[s]
  BY <1>2, <1>4 DEF LoopInv, ListIsTrue
<1>6. i = [sch |-> s, next |-> nextRun[s]]
  BY <1>2, <1>4, <1>5 DEF Slots
<1>7. PICK j \in Jobs : j \in job
  BY <1>1 DEF LoopInv, RecurringTypeOK
<1>8. origin[j] = {i} /\ OnTopic(j)
  BY <1>1, <1>7 DEF LoopInv, InHand
<1> QED
  BY <1>4, <1>5, <1>6, <1>8 DEF JobsOf, OnTopic

LEMMA NoRunSkippedNext ==
  LoopInv /\ NoRunSkipped /\ [RecurringNext]_recurringVars => NoRunSkipped'
<1> SUFFICES ASSUME LoopInv, NoRunSkipped, [RecurringNext]_recurringVars,
                    NEW s \in Schedules, row'[s] # "none",
                    NEW n \in SlotsBefore(s, nextRun[s])'
             PROVE  JobsOf([sch |-> s, next |-> n])' # {}
  BY DEF NoRunSkipped
<1> DEFINE i == [sch |-> s, next |-> n]
<1>1. /\ n \in first'[s] .. nextRun'[s] - 1
      /\ n % Period[s] = 0
  BY DEF SlotsBefore
<1>2. JobsOf(i) \subseteq JobsOf(i)'
  BY RunsStay
<1>3. first[s] \in Nat /\ nextRun[s] \in Nat
  BY DEF LoopInv, RecurringTypeOK
<1>4. CASE row[s] # "none" /\ first'[s] = first[s] /\ nextRun'[s] = nextRun[s]
  BY <1>1, <1>2, <1>3, <1>4 DEF NoRunSkipped, SlotsBefore
<1>5. ASSUME NEW t \in Schedules, CreateSchedule(t)
      PROVE  JobsOf(i)' # {}
  <2>1. CASE t = s
    <3>1. first'[s] = nextRun'[s] /\ nextRun'[s] \in Nat
      BY <1>5, <2>1, Match DEF CreateSchedule, LoopInv, RecurringTypeOK, StoreTypeOK
    <3> QED BY <1>1, <3>1
  <2>2. CASE t # s
    BY <1>4, <1>5, <2>2 DEF CreateSchedule, LoopInv, RecurringTypeOK
  <2> QED BY <2>1, <2>2
<1>6. ASSUME NEW t \in Schedules, DeleteSchedule(t)
      PROVE  JobsOf(i)' # {}
  BY <1>4, <1>6 DEF DeleteSchedule, LoopInv, RecurringTypeOK
<1>7. CASE UpdateNextRun
  <2>1. UNCHANGED <<row, first>>
    BY <1>7 DEF UpdateNextRun
  <2>2. CASE nextRun'[s] # nextRun[s] /\ n >= nextRun[s]
    <3>1. /\ Head(due) = [sch |-> s, next |-> nextRun[s]]
          /\ nextRun'[s] = NextMatch(s, nextRun[s])
          /\ JobsOf(Head(due)) # {}
      BY <1>7, <2>2, MovesBehindARun
    <3>2. n \in Nat /\ n < NextMatch(s, nextRun[s])
      <4>1. NextMatch(s, nextRun[s]) \in Nat
        BY <1>3, Match
      <4> QED BY <1>1, <1>3, <2>1, <3>1, <4>1
    <3>3. nextRun[s] % Period[s] = 0
      BY DEF LoopInv, OnSchedule
    <3>4. n = nextRun[s]
      BY <1>1, <1>3, <2>2, <3>2, <3>3, Match
    <3> QED BY <1>2, <3>1, <3>4
  <2>3. CASE nextRun'[s] # nextRun[s] /\ ~(n >= nextRun[s])
    <3>1. n \in SlotsBefore(s, nextRun[s])
      BY <1>1, <1>3, <2>1, <2>3 DEF SlotsBefore
    <3> QED BY <1>2, <2>1, <3>1 DEF NoRunSkipped
  <2>4. CASE nextRun'[s] = nextRun[s]
    BY <1>4, <2>1, <2>4
  <2> QED BY <2>2, <2>3, <2>4
<1>8. CASE UNCHANGED scheduleVars
  BY <1>4, <1>8 DEF scheduleVars
<1>9. CASE Tick /\ UNCHANGED <<scheduleVars, loopVars>>
  BY <1>8, <1>9
<1>10. CASE ListDue \/ (\E j \in Jobs : CreateJob(j) \/ EnqueueJob(j)) \/ RestartLoop
            \/ UNCHANGED recurringVars
  BY <1>8, <1>10 DEF ListDue, CreateJob, EnqueueJob, RestartLoop, recurringVars
<1> QED
  BY <1>5, <1>6, <1>7, <1>9, <1>10 DEF RecurringNext, LoopStep

\* However late the loop is, and whatever fails: a job for a run is on the topic
\* before next_run_at is behind that run.
THEOREM NothingIsSkipped == RecurringSpec => []NoRunSkipped
<1>1. RecurringInit => NoRunSkipped
  BY DEF RecurringInit, NoRunSkipped
<1> QED
  BY <1>1, LoopInvInit, LoopInvNext, NoRunSkippedNext, PTL DEF RecurringSpec

-----------------------------------------------------------------------------
(* Deleted schedules *)

LEMMA DeletedStep ==
  ASSUME LoopInv, [RecurringNext]_recurringVars, NEW s \in Schedules, row[s] = "deleted"
  PROVE  /\ Cardinality(Listed(s)) <= 1
         /\ Listed(s) = {} =>
              /\ Listed(s)' = {}
              /\ \A j \in Jobs : \A i \in origin'[j] \ origin[j] : i.sch # s
<1>1. \A k, l \in Listed(s) : k = l
  BY DEF Listed, LoopInv, ListIsTrue
<1>2. Cardinality(Listed(s)) <= 1
  <2>1. CASE Listed(s) = {}
    BY <2>1, FS_EmptySet
  <2>2. CASE Listed(s) # {}
    <3>1. PICK k : Listed(s) = {k}
      BY <1>1, <2>2
    <3> QED BY <3>1, FS_Singleton
  <2> QED BY <2>1, <2>2
<1>3. ASSUME Listed(s) = {}
      PROVE  /\ Listed(s)' = {}
             /\ \A j \in Jobs : \A i \in origin'[j] \ origin[j] : i.sch # s
  <2>1. ASSUME due # << >>
        PROVE  /\ Head(due).sch # s
               /\ \A k \in 1 .. Len(Tail(due)) : Tail(due)[k].sch # s
    BY <1>3, <2>1, TailOfList DEF Listed
  <2>2. ASSUME due' = Tail(due), due # << >> PROVE Listed(s)' = {}
    BY <2>1, <2>2 DEF Listed
  <2>3. CASE UNCHANGED <<due, origin>>
    BY <1>3, <2>3 DEF Listed
  <2>4. CASE ListDue
    <3> DEFINE found == {t \in Schedules : row[t] = "active" /\ nextRun[t] <= now}
    <3>1. /\ due' \in Ordered({[sch |-> t, next |-> nextRun[t]] : t \in found})
          /\ UNCHANGED origin
      BY <2>4 DEF ListDue
    <3>2. found \in SUBSET Schedules /\ s \notin found
      OBVIOUS
    <3> HIDE DEF found
    <3>3. \A k \in 1 .. Len(due') : due'[k].sch \in found
      BY <3>1, <3>2, ListIsOrdered
    <3> QED BY <3>1, <3>2, <3>3 DEF Listed
  <2>5. ASSUME NEW j \in Jobs, CreateJob(j)
        PROVE  /\ Listed(s)' = {}
               /\ \A k \in Jobs : \A i \in origin'[k] \ origin[k] : i.sch # s
    <3>1. /\ due # << >> /\ origin' = [origin EXCEPT ![j] = {Head(due)}]
          /\ UNCHANGED due \/ due' = Tail(due)
      BY <2>5 DEF CreateJob, Continue
    <3>2. Listed(s)' = {}
      BY <1>3, <2>2, <3>1 DEF Listed
    <3>3. \A k \in Jobs : \A i \in origin'[k] \ origin[k] : i = Head(due)
      BY <3>1 DEF LoopInv, RecurringTypeOK
    <3> QED BY <2>1, <3>1, <3>2, <3>3
  <2>6. ASSUME NEW j \in Jobs, EnqueueJob(j)
        PROVE  Listed(s)' = {} /\ UNCHANGED origin
    <3>1. due # << >> /\ (UNCHANGED due \/ due' = Tail(due)) /\ UNCHANGED origin
      BY <2>6 DEF EnqueueJob, Continue
    <3> QED BY <1>3, <2>2, <3>1 DEF Listed
  <2>7. CASE UpdateNextRun
    BY <2>2, <2>7 DEF UpdateNextRun, Continue
  <2>8. CASE RestartLoop
    BY <2>8 DEF RestartLoop, Listed
  <2>9. CASE \/ Tick /\ UNCHANGED <<scheduleVars, loopVars>>
             \/ \E t \in Schedules : CreateSchedule(t) \/ DeleteSchedule(t)
             \/ UNCHANGED recurringVars
    BY <2>3, <2>9 DEF CreateSchedule, DeleteSchedule, loopVars, recurringVars
  <2> QED
    BY <2>4, <2>5, <2>6, <2>7, <2>8, <2>9 DEF RecurringNext, LoopStep
<1> QED
  BY <1>2, <1>3

\* A deleted schedule has at most the run that was listed before, for any list,
\* failures and restarts.
THEOREM DeletedIsQuiet == RecurringSpec => DeletedFiresNoMore
<1>1. LoopInv /\ [RecurringNext]_recurringVars =>
        [\A s \in Schedules :
           row[s] = "deleted" =>
             /\ Cardinality(Listed(s)) <= 1
             /\ Listed(s) = {} =>
                  /\ Listed(s)' = {}
                  /\ \A j \in Jobs : \A i \in origin'[j] \ origin[j] : i.sch # s]_recurringVars
  BY DeletedStep
<1> QED
  BY <1>1, LoopInvInit, LoopInvNext, PTL DEF RecurringSpec, DeletedFiresNoMore

-----------------------------------------------------------------------------
(* Repeats are paid for *)

\* The loop has put the run i on the topic, and is about to move next_run_at.
OnItsWay(i) == step = "update" /\ due # << >> /\ Head(due) = i

\* The run i may yet be put on the topic, without anything failing.
Owed(i) ==
  /\ ~OnItsWay(i)
  /\ \/ \E k \in 1 .. Len(due) : due[k] = i
     \/ row[i.sch] = "none"
     \/ row[i.sch] = "active" /\ nextRun[i.sch] <= i.next

\* Failures pay for what was had, and a run that is owed can still be had.
PaidFor(i) ==
  /\ IsFiniteSet(JobsOf(i))
  /\ Cardinality(JobsOf(i)) <= 1 + faults + restarts
  /\ Owed(i) => Cardinality(JobsOf(i)) <= faults + restarts

Paid == \A i \in Slots : PaidFor(i)

LEMMA Spending ==
  ASSUME NEW c \in Nat, NEW f \in Nat, NEW r \in Nat, NEW f2 \in Nat, NEW r2 \in Nat
  PROVE  /\ f2 >= f /\ r2 >= r =>
              /\ c <= 1 + f + r => c <= 1 + f2 + r2
              /\ c <= f + r => c <= f2 + r2
         /\ f2 + r2 >= f + r + 1 /\ c <= 1 + f + r => c <= 1 + f2 + r2 /\ c <= f2 + r2
OBVIOUS

\* Steps that put nothing on the topic, and owe nothing new or are a failure.
LEMMA PaidByOthers ==
  ASSUME LoopInv, LoopInv', Paid,
         NEW i \in Slots, JobsOf(i)' = JobsOf(i),
         \/ faults' >= faults /\ restarts' >= restarts /\ (Owed(i)' => Owed(i))
         \/ faults' + restarts' >= faults + restarts + 1
  PROVE  PaidFor(i)'
<1> DEFINE c == Cardinality(JobsOf(i))
<1>1. /\ IsFiniteSet(JobsOf(i)) /\ c \in Nat
      /\ c <= 1 + faults + restarts
      /\ Owed(i) => c <= faults + restarts
  BY FS_CardinalityType DEF Paid, PaidFor
<1>2. faults \in Nat /\ restarts \in Nat /\ faults' \in Nat /\ restarts' \in Nat
  BY RecurringAssumption DEF LoopInv, RecurringTypeOK, StoreTypeOK
<1>3. /\ IsFiniteSet(JobsOf(i))' /\ Cardinality(JobsOf(i))' = c
  BY <1>1
<1> HIDE DEF c
<1>4. /\ faults' >= faults /\ restarts' >= restarts =>
           /\ c <= 1 + faults + restarts => c <= 1 + faults' + restarts'
           /\ c <= faults + restarts => c <= faults' + restarts'
      /\ faults' + restarts' >= faults + restarts + 1 /\ c <= 1 + faults + restarts =>
           c <= 1 + faults' + restarts' /\ c <= faults' + restarts'
  BY <1>1, <1>2, Spending, Zenon
<1>5. c <= 1 + faults' + restarts' /\ (Owed(i)' => c <= faults' + restarts')
  BY <1>1, <1>4, Zenon
<1> QED
  BY <1>3, <1>5, Zenon DEF PaidFor

LEMMA PaidNext == Paid /\ LoopInv /\ LoopInv' /\ [RecurringNext]_recurringVars => Paid'
<1> SUFFICES ASSUME Paid, LoopInv, LoopInv', [RecurringNext]_recurringVars, NEW i \in Slots
             PROVE  PaidFor(i)'
  BY DEF Paid, Slots
<1>1. /\ i.sch \in Schedules /\ i.next \in Nat /\ i = [sch |-> i.sch, next |-> i.next]
      /\ nextRun \in [Schedules -> Nat] /\ nextRun' \in [Schedules -> Nat]
      /\ row \in [Schedules -> {"none", "active", "deleted"}]
      /\ faults \in Nat /\ restarts \in Nat
  BY RecurringAssumption DEF Slots, LoopInv, RecurringTypeOK, StoreTypeOK
<1>2. ASSUME UNCHANGED <<log, origin>>,
             \/ UNCHANGED <<faults, restarts>> /\ (Owed(i)' => Owed(i))
             \/ faults' = faults + 1 /\ restarts' = restarts
             \/ faults' = faults /\ restarts' = restarts + 1
      PROVE  PaidFor(i)'
  <2>1. JobsOf(i)' = JobsOf(i)
    BY <1>2 DEF JobsOf
  <2> QED BY <1>1, <1>2, <2>1, PaidByOthers
<1>3. CASE Tick /\ UNCHANGED <<scheduleVars, loopVars>>
  BY <1>2, <1>3 DEF Tick, Owed, OnItsWay, scheduleVars, loopVars
<1>4. ASSUME NEW s \in Schedules, CreateSchedule(s) PROVE PaidFor(i)'
  <2>1. /\ row[s] = "none" /\ row' = [row EXCEPT ![s] = "active"]
        /\ nextRun' = [nextRun EXCEPT ![s] = NextMatch(s, now)]
        /\ UNCHANGED <<log, origin, faults, restarts, due, step>>
    BY <1>4 DEF CreateSchedule, storeVars, loopVars
  <2> QED BY <1>1, <1>2, <2>1 DEF Owed, OnItsWay
<1>5. ASSUME NEW s \in Schedules, DeleteSchedule(s) PROVE PaidFor(i)'
  BY <1>1, <1>2, <1>5 DEF DeleteSchedule, Owed, OnItsWay, storeVars, loopVars
<1>6. CASE ListDue
  <2> DEFINE found == {t \in Schedules : row[t] = "active" /\ nextRun[t] <= now}
  <2>1. /\ due' \in Ordered({[sch |-> t, next |-> nextRun[t]] : t \in found})
        /\ due = << >>
        /\ UNCHANGED <<step, origin, restarts, log, faults, row, nextRun>>
    BY <1>6 DEF ListDue, storeVars, scheduleVars
  <2>2. found \in SUBSET Schedules /\ \A t \in found : row[t] = "active"
    OBVIOUS
  <2> HIDE DEF found
  <2>3. \A k \in 1 .. Len(due') : due'[k].sch \in found /\ due'[k].next = nextRun[due'[k].sch]
    BY <2>1, <2>2, ListIsOrdered
  <2>4. Owed(i)' => Owed(i)
    BY <1>1, <2>1, <2>2, <2>3 DEF Owed, OnItsWay
  <2> QED BY <1>2, <2>1, <2>4
<1>7. ASSUME NEW j \in Jobs, CreateJob(j) PROVE PaidFor(i)'
  <2>1. /\ origin[j] = {} /\ origin' = [origin EXCEPT ![j] = {Head(due)}]
        /\ step = "create" /\ UNCHANGED <<log, restarts, row, nextRun>>
        /\ \/ step' = "enqueue" /\ UNCHANGED <<due, faults>>
           \/ faults' = faults + 1
    BY <1>7 DEF CreateJob, Fresh, Fault, scheduleVars
  <2>2. JobsOf(i)' = JobsOf(i)
    <3>1. ~OnTopic(j)
      BY <2>1 DEF OnTopic, LoopInv, TopicIsExplained
    <3> QED BY <2>1, <3>1 DEF JobsOf, OnTopic, LoopInv, RecurringTypeOK
  <2>3. UNCHANGED <<due, faults>> /\ step' = "enqueue" => (Owed(i)' => Owed(i))
    BY <2>1 DEF Owed, OnItsWay
  <2> QED BY <1>1, <2>1, <2>2, <2>3, PaidByOthers
<1>8. ASSUME NEW j \in Jobs, EnqueueJob(j) PROVE PaidFor(i)'
  <2> DEFINE m == Message(j, jobs[j].work, 0, 0)
  <2>1. /\ due # << >> /\ step = "enqueue" /\ j \in job
        /\ UNCHANGED <<origin, restarts, row, nextRun>>
        /\ UNCHANGED log \/ Append1(m)
        /\ \/ step' = "update" /\ UNCHANGED <<due, faults>>
           \/ faults' = faults + 1
    BY <1>8 DEF EnqueueJob, EnqueueOk, EnqueueError, Fault, scheduleVars
  <2>2. origin[j] = {Head(due)} /\ m \in Messages /\ m.job = j
    BY <2>1, RunMessage DEF LoopInv, InHand
  <2> HIDE DEF m
  <2>3. \A o \in 1 .. Len(log') : (o \in 1 .. Len(log) /\ log'[o] = log[o]) \/ log'[o] = m
    BY <2>1, <2>2, TopicGrows DEF LoopInv, RecurringTypeOK
  <2>4. JobsOf(i) \subseteq JobsOf(i)'
    BY RunsStay
  <2>5. CASE i # Head(due)
    <3>1. JobsOf(i)' \subseteq JobsOf(i)
      BY <2>1, <2>2, <2>3, <2>5 DEF JobsOf
    <3>2. step' = "update" /\ UNCHANGED due => (Owed(i)' => Owed(i))
      BY <2>1, <2>5 DEF Owed, OnItsWay
    <3>3. JobsOf(i)' = JobsOf(i)
      BY <2>4, <3>1
    <3>4. \/ faults' >= faults /\ restarts' >= restarts /\ (Owed(i)' => Owed(i))
          \/ faults' + restarts' >= faults + restarts + 1
      <4>1. CASE step' = "update" /\ UNCHANGED <<due, faults>>
        BY <1>1, <2>1, <3>2, <4>1
      <4>2. CASE faults' = faults + 1
        BY <1>1, <2>1, <4>2
      <4> QED BY <2>1, <4>1, <4>2
    <3> QED BY <3>3, <3>4, PaidByOthers
  <2>6. CASE i = Head(due)
    <3>1. Owed(i)
      BY <2>1, <2>6, TailOfList DEF Owed, OnItsWay
    <3>2. JobsOf(i)' = JobsOf(i) \/ JobsOf(i)' = JobsOf(i) \cup {j}
      BY <2>1, <2>2, <2>3, <2>4 DEF JobsOf
    <3>3. /\ IsFiniteSet(JobsOf(i)')
          /\ Cardinality(JobsOf(i)') <= Cardinality(JobsOf(i)) + 1
          /\ Cardinality(JobsOf(i)') \in Nat /\ Cardinality(JobsOf(i)) \in Nat
      BY <3>2, FS_AddElement, FS_CardinalityType DEF Paid, PaidFor
    <3>4. Cardinality(JobsOf(i)) <= faults + restarts
      BY <3>1 DEF Paid, PaidFor
    <3>5. step' = "update" /\ UNCHANGED due => ~Owed(i)'
      BY <2>1, <2>6 DEF Owed, OnItsWay
    <3> QED BY <1>1, <2>1, <3>3, <3>4, <3>5 DEF PaidFor
  <2> QED BY <2>5, <2>6
<1>9. CASE UpdateNextRun
  <2> DEFINE h == Head(due)
             moved == [nextRun EXCEPT ![h.sch] =
                         IF row[h.sch] = "active" THEN NextMatch(h.sch, h.next) ELSE @]
  <2>1. /\ due # << >> /\ step = "update" /\ due' = Tail(due) /\ step' = "create"
        /\ UNCHANGED <<origin, restarts, row, log>>
        /\ (nextRun' = moved /\ UNCHANGED faults) \/ faults' = faults + 1
    BY <1>9 DEF UpdateNextRun, Fault, Continue
  <2>2. CASE faults' = faults + 1
    BY <1>2, <2>1, <2>2
  <2>3. CASE nextRun' = moved /\ UNCHANGED faults
    <3>1. h \in Slots /\ h = due[1] /\ 1 \in 1 .. Len(due)
      BY <2>1, TailOfList
    <3>2. /\ h.sch \in Schedules /\ h.next \in Nat /\ row[h.sch] # "none"
          /\ row[h.sch] = "active" => h.next = nextRun[h.sch]
      BY <3>1 DEF Slots, LoopInv, ListIsTrue
    <3>3. NextMatch(h.sch, h.next) > h.next /\ NextMatch(h.sch, h.next) \in Nat
      BY <3>2, Match
    <3> HIDE DEF h
    <3>4. \A s \in Schedules : nextRun'[s] >= nextRun[s]
      BY <1>1, <2>3, <3>2, <3>3
    <3>5. \A k \in 1 .. Len(due') : /\ k + 1 \in 1 .. Len(due) /\ due'[k] = due[k + 1]
                                    /\ k + 1 # 1
      BY <2>1, TailOfList DEF LoopInv, RecurringTypeOK
    <3>6. \A k \in 1 .. Len(due') : due'[k].sch # h.sch
      BY <3>1, <3>5 DEF LoopInv, ListIsTrue
    <3>7. Owed(i)' => Owed(i)
      <4>1. CASE i = h
        <5>1. row[h.sch] = "active" => nextRun'[h.sch] > h.next
          BY <1>1, <2>3, <3>2, <3>3
        <5>2. /\ row'[i.sch] # "none"
              /\ ~(row'[i.sch] = "active" /\ nextRun'[i.sch] <= i.next)
          BY <1>1, <2>1, <3>2, <4>1, <5>1
        <5>3. ~\E k \in 1 .. Len(due') : due'[k] = i
          BY <3>6, <4>1
        <5> QED BY <5>2, <5>3 DEF Owed
      <4>2. CASE i # h
        <5>1. ~OnItsWay(i)
          BY <4>2 DEF OnItsWay, h
        <5>2. nextRun'[i.sch] <= i.next => nextRun[i.sch] <= i.next
          BY <1>1, <3>4
        <5> QED BY <2>1, <3>5, <5>1, <5>2 DEF Owed
      <4> QED BY <4>1, <4>2
    <3> QED BY <1>2, <2>1, <2>3, <3>7
  <2> QED BY <2>1, <2>2, <2>3
<1>10. CASE RestartLoop
  BY <1>2, <1>10 DEF RestartLoop, storeVars
<1>11. CASE UNCHANGED recurringVars
  BY <1>2, <1>11 DEF recurringVars, Owed, OnItsWay, storeVars, scheduleVars, loopVars
<1> QED
  BY <1>3, <1>4, <1>5, <1>6, <1>7, <1>8, <1>9, <1>10, <1>11 DEF RecurringNext, LoopStep

\* A run is had again only after a failing call or a restart, and once for each.
THEOREM RepeatsArePaidFor == RecurringSpec => []RepeatsAreBounded
<1>1. RecurringInit => Paid
  <2> SUFFICES ASSUME RecurringInit, NEW i \in Slots
               PROVE  PaidFor(i)
    BY DEF Paid
  <2>1. JobsOf(i) = {} /\ faults = 0 /\ restarts = 0
    BY DEF RecurringInit, StoreInit, JobsOf
  <2> QED BY <2>1, FS_EmptySet DEF PaidFor
<1>2. Paid /\ LoopInv => RepeatsAreBounded
  <2> SUFFICES ASSUME Paid, LoopInv, NEW s \in Schedules, NEW n \in 0 .. MaxTime
               PROVE  Cardinality(JobsOf([sch |-> s, next |-> n])) <= 1 + faults + restarts
    BY DEF RepeatsAreBounded
  <2>1. [sch |-> s, next |-> n] \in Slots
    BY DEF Slots
  <2>2. PICK i \in Slots : i = [sch |-> s, next |-> n]
    BY <2>1
  <2> QED BY <2>2 DEF Paid, PaidFor
<1> QED
  BY <1>1, <1>2, LoopInvInit, LoopInvNext, PaidNext, PTL DEF RecurringSpec
=============================================================================
