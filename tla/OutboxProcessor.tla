--------------------------- MODULE OutboxProcessor ---------------------------
(***************************************************************************)
(* runOutboxProcessor of cmd/worker/main.go: a goroutine in every worker   *)
(* process that polls the table job_outbox and sends the e-mails.  A row   *)
(* is named by its id, its place in the table.  The mail server is         *)
(* external; what it accepted is recorded in mails.  A process that is     *)
(* started without SMTP_ADDR, which is the default, has no mail server: it *)
(* logs the e-mail and takes it for sent.                                  *)
(* Of the rest of the system only the transaction matters in which process *)
(* completes an e-mail job and inserts its row (CompleteEmail of module    *)
(* JobWorker), for a redelivered message once more.                        *)
(***************************************************************************)
EXTENDS JobStore, FiniteSets

CONSTANTS
  Senders,     \* the processes that run the outbox processor
  BatchLimit,  \* the LIMIT of ListPendingOutbox
  MaxRows,     \* bound: rows ever inserted
  MaxCrashes   \* bound: crashes of senders

ASSUME OutboxAssumption ==
  /\ IsFiniteSet(Senders)
  /\ BatchLimit \in Nat \ {0}
  /\ MaxRows \in Nat
  /\ MaxCrashes \in Nat

VARIABLES
  batch,    \* the listed rows each sender has not finished with
  outcome,  \* what Handle returned for the first of them, until it is written
  mails,    \* the rows whose e-mail the mail server accepted, in order
  crashes,  \* crashes so far (an auxiliary counter)
  smtp      \* the processes with a mail server: a configuration that never changes

mailVars == <<batch, outcome, mails, crashes, smtp>>

outboxVars == <<storeVars, mailVars>>

RowIds == 1 .. Len(outbox)

OutboxTypeOK ==
  /\ StoreTypeOK
  /\ batch \in [Senders -> SUBSET RowIds]
  /\ outcome \in [Senders -> {"none", "sent", "failed"}]
  /\ mails \in Seq(RowIds)
  /\ crashes \in Nat
  /\ smtp \in SUBSET Senders

Mail == [Blank EXCEPT !.type = "email", !.valid = TRUE]

\* Every job is an e-mail that some worker is processing.
OutboxInit ==
  /\ jobs = [j \in Jobs |-> [status |-> "processing", attempt |-> 0, work |-> Mail]]
  /\ outbox = << >>
  /\ paused = {} /\ log = << >> /\ now = 1 /\ faults = 0
  /\ batch = [s \in Senders |-> {}]
  /\ outcome = [s \in Senders |-> "none"]
  /\ mails = << >>
  /\ crashes = 0
  /\ smtp \in SUBSET Senders

\* process completes an e-mail job.
Insert(j) ==
  /\ Len(outbox) < MaxRows
  /\ CompleteJobWithOutbox(j, 0)
  /\ UNCHANGED <<paused, log, now, faults, mailVars>>

\* Mutants: ids are counted from 0, the listing has no condition on the status, or
\* it resumes behind the newest row that is no longer pending.
PendingRows_ZeroBased ==
  {i \in 0 .. Len(outbox) - 1 : outbox[i + 1].status = "pending"}

PendingRows_All == RowIds

PendingRows_Cursor ==
  {i \in RowIds : \A k \in i .. Len(outbox) : outbox[k].status = "pending"}

\* WHERE status = 'pending'
PendingRows == {i \in RowIds : outbox[i].status = "pending"}

\* ListPendingOutbox: the oldest BatchLimit rows, which are here those with the
\* lowest ids.  (An error ends the tick, as an empty list does.)
ListOutbox(s) ==
  /\ batch[s] = {}
  /\ PendingRows # {}
  /\ \E B \in SUBSET PendingRows :
       /\ B = PendingRows \/ Cardinality(B) = BatchLimit
       /\ Cardinality(B) <= BatchLimit
       /\ \A i \in B, k \in PendingRows \ B : i < k
       /\ batch' = [batch EXCEPT ![s] = B]
  /\ UNCHANGED <<outcome, mails, crashes, smtp, storeVars>>

IsFirst(s, i) == i \in batch[s] /\ \A k \in batch[s] : i <= k

\* Handle.  Without a mail server the e-mail is logged and no error returned; with
\* one, an error may be reported for an e-mail that was accepted.
Send(s, i) ==
  /\ IsFirst(s, i)
  /\ outcome[s] = "none"
  /\ \/ /\ s \notin smtp
        /\ outcome' = [outcome EXCEPT ![s] = "sent"]
        /\ UNCHANGED <<mails, faults>>
     \/ /\ s \in smtp
        /\ outcome' = [outcome EXCEPT ![s] = "sent"]
        /\ mails' = Append(mails, i)
        /\ UNCHANGED faults
     \/ /\ s \in smtp
        /\ Fault
        /\ outcome' = [outcome EXCEPT ![s] = "failed"]
        /\ UNCHANGED mails \/ mails' = Append(mails, i)
  /\ UNCHANGED <<batch, crashes, smtp, jobs, outbox, paused, log, now>>

\* Mutant: the error of Handle is not looked at.
Mark_IgnoresError(s, i) ==
  /\ IsFirst(s, i)
  /\ outcome[s] # "none"
  /\ \/ outbox' = [outbox EXCEPT ![i].status = "sent"] /\ UNCHANGED faults
     \/ Fault /\ UNCHANGED outbox
  /\ batch' = [batch EXCEPT ![s] = @ \ {i}]
  /\ outcome' = [outcome EXCEPT ![s] = "none"]
  /\ UNCHANGED <<mails, crashes, smtp, jobs, paused, log, now>>

\* UpdateOutboxStatus, whose error is ignored; then the next row.
Mark(s, i) ==
  /\ IsFirst(s, i)
  /\ outcome[s] # "none"
  /\ \/ outbox' = [outbox EXCEPT ![i].status = outcome[s]] /\ UNCHANGED faults
     \/ Fault /\ UNCHANGED outbox
  /\ batch' = [batch EXCEPT ![s] = @ \ {i}]
  /\ outcome' = [outcome EXCEPT ![s] = "none"]
  /\ UNCHANGED <<mails, crashes, smtp, jobs, paused, log, now>>

\* The process ends with its list in memory and starts again.
Restart(s) ==
  /\ batch[s] # {}
  /\ crashes < MaxCrashes
  /\ crashes' = crashes + 1
  /\ batch' = [batch EXCEPT ![s] = {}]
  /\ outcome' = [outcome EXCEPT ![s] = "none"]
  /\ UNCHANGED <<mails, smtp, storeVars>>

OutboxStep(s) ==
  ListOutbox(s) \/ \E i \in batch[s] : Send(s, i) \/ Mark(s, i)

OutboxNext ==
  \/ \E j \in Jobs : Insert(j)
  \/ \E s \in Senders : OutboxStep(s) \/ Restart(s)

OutboxSpec == OutboxInit /\ [][OutboxNext]_outboxVars

\* The ticker of each outbox processor fires and its batch runs on.
FairOutboxSpec ==
  OutboxSpec /\ \A s \in Senders : WF_outboxVars(OutboxStep(s))

-----------------------------------------------------------------------------

MailsOf(i) == {k \in 1 .. Len(mails) : mails[k] = i}

\* Where every process has a mail server, it has accepted each row that says sent,
\* although several processes work on the same rows, crash, and record failures over
\* each other.  (A process without one marks rows sent that it only logged.)
SentWasMailed ==
  smtp = Senders =>
    \A i \in RowIds : outbox[i].status = "sent" => MailsOf(i) # {}

\* How often one row can be sent although nothing locks it: once by each process,
\* and once more for every crash and every update that failed.
MailsAreBounded ==
  \A i \in RowIds :
    Cardinality(MailsOf(i)) <= Cardinality(Senders) + crashes + faults

RowIs(i, status) == i \in RowIds /\ outbox[i].status = status

\* A row does not stay pending: it is sent, or its failure is recorded, although
\* processes crash and updates fail.
OutboxIsDrained ==
  \A i \in 1 .. MaxRows :
    RowIs(i, "pending") ~> RowIs(i, "sent") \/ RowIs(i, "failed")

\* "Outbox for exactly-once side-effects (e.g. send email after job completes)":
\* no row of the outbox is sent twice.
SentOnce == \A i \in RowIds : Cardinality(MailsOf(i)) <= 1
=============================================================================
