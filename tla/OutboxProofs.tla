---------------------------- MODULE OutboxProofs ----------------------------
(***************************************************************************)
(* Proofs that a row of the outbox says sent only when the mail server     *)
(* accepted its e-mail, where there is one, and that a row is sent at most *)
(* so often, for any number of senders, rows, crashes and failing calls.   *)
(***************************************************************************)
EXTENDS OutboxProcessor, FiniteSetTheorems, TLAPS

\* A sender that is about to write sent for a row has had its e-mail accepted, if it
\* has a mail server, and a sender with nothing in hand has no outcome to write.
OutcomeIsTrue ==
  \A s \in Senders :
    /\ outcome[s] # "none" => batch[s] # {}
    /\ \A i \in batch[s] :
         smtp = Senders /\ outcome[s] = "sent" /\ IsFirst(s, i) => MailsOf(i) # {}

SentInv == OutboxTypeOK /\ SentWasMailed /\ OutcomeIsTrue

LEMMA CompletedType ==
  ASSUME StoreTypeOK, NEW j \in Jobs, CompleteJobWithOutbox(j, 0)
  PROVE  /\ jobs' \in [Jobs -> Rows]
         /\ outbox' \in Seq(OutboxRows)
         /\ RowIds \subseteq RowIds'
         /\ \A i \in RowIds : outbox'[i] = outbox[i]
         /\ \A i \in RowIds' \ RowIds : outbox'[i].status = "pending"
<1>1. jobs' \in [Jobs -> Rows]
  <2>1. "completed" \in Statuses /\ 0 \in Nat
    BY DEF Statuses
  <2> QED
    BY <2>1, SMTT(30) DEF StoreTypeOK, CompleteJobWithOutbox, WithStatus, Rows
<1>2. [job |-> j, status |-> "pending"] \in OutboxRows
  BY DEF OutboxRows
<1> QED
  BY <1>1, <1>2 DEF StoreTypeOK, CompleteJobWithOutbox, RowIds

LEMMA MailAppended ==
  ASSUME mails \in Seq(RowIds), NEW i \in RowIds, mails' = Append(mails, i)
  PROVE  /\ \A k : MailsOf(k) # {} => MailsOf(k)' # {}
         /\ MailsOf(i)' # {}
<1>1. Len(mails) \in Nat /\ Len(mails') = Len(mails) + 1
  OBVIOUS
<1>2. \A k \in 1 .. Len(mails) : mails'[k] = mails[k]
  OBVIOUS
<1>3. mails'[Len(mails) + 1] = i
  OBVIOUS
<1>4. Len(mails) + 1 \in MailsOf(i)'
  BY <1>1, <1>3 DEF MailsOf
<1>5. ASSUME NEW k, MailsOf(k) # {}
      PROVE  MailsOf(k)' # {}
  <2>1. PICK n \in 1 .. Len(mails) : mails[n] = k
    BY <1>5 DEF MailsOf
  <2> QED
    BY <1>1, <1>2, <2>1 DEF MailsOf
<1> QED
  BY <1>4, <1>5

LEMMA SentInvInit == OutboxInit => SentInv
<1> SUFFICES ASSUME OutboxInit PROVE SentInv
  OBVIOUS
<1>1. Mail \in Works /\ "processing" \in Statuses
  BY StoreAssumption DEF Mail, Blank, Works, JobTypes, Statuses
<1>2. StoreTypeOK
  BY <1>1 DEF OutboxInit, StoreTypeOK, Rows
<1>3. RowIds = {}
  BY DEF OutboxInit, RowIds
<1>4. OutboxTypeOK
  BY <1>2 DEF OutboxInit, OutboxTypeOK
<1> QED
  BY <1>3, <1>4 DEF OutboxInit, SentInv, SentWasMailed, OutcomeIsTrue

LEMMA SentInvNext == SentInv /\ [OutboxNext]_outboxVars => SentInv'
<1> SUFFICES ASSUME SentInv, [OutboxNext]_outboxVars PROVE SentInv'
  OBVIOUS
<1> USE DEF SentInv
<1>1. ASSUME NEW j \in Jobs, Insert(j) PROVE SentInv'
  <2>1. /\ jobs' \in [Jobs -> Rows]
        /\ outbox' \in Seq(OutboxRows)
        /\ RowIds \subseteq RowIds'
        /\ \A i \in RowIds : outbox'[i] = outbox[i]
        /\ \A i \in RowIds' \ RowIds : outbox'[i].status = "pending"
    BY <1>1, CompletedType DEF Insert, OutboxTypeOK
  <2>2. UNCHANGED <<paused, log, now, faults, batch, outcome, mails, crashes, smtp>>
    BY <1>1 DEF Insert, mailVars
  <2>3. mails' \in Seq(RowIds')
    BY <2>1, <2>2 DEF OutboxTypeOK
  <2>4. OutboxTypeOK'
    BY <2>1, <2>2, <2>3 DEF OutboxTypeOK, StoreTypeOK
  <2>5. SentWasMailed'
    BY <2>1, <2>2 DEF SentWasMailed, MailsOf
  <2>6. OutcomeIsTrue'
    BY <2>2 DEF OutcomeIsTrue, MailsOf, IsFirst
  <2> QED
    BY <2>4, <2>5, <2>6
<1>2. ASSUME NEW s \in Senders, ListOutbox(s) PROVE SentInv'
  <2>1. PICK B \in SUBSET PendingRows : batch' = [batch EXCEPT ![s] = B]
    BY <1>2 DEF ListOutbox
  <2>2. batch[s] = {} /\ UNCHANGED <<outcome, mails, crashes, smtp, storeVars>>
    BY <1>2 DEF ListOutbox
  <2>3. OutboxTypeOK'
    BY <2>1, <2>2 DEF OutboxTypeOK, StoreTypeOK, storeVars, PendingRows, RowIds
  <2>4. SentWasMailed'
    BY <2>2 DEF SentWasMailed, MailsOf, RowIds, storeVars
  <2>5. outcome[s] = "none"
    BY <2>2 DEF OutcomeIsTrue
  <2>6. OutcomeIsTrue'
    BY <2>1, <2>2, <2>5 DEF OutcomeIsTrue, MailsOf, IsFirst, OutboxTypeOK
  <2> QED
    BY <2>3, <2>4, <2>6
<1>3. ASSUME NEW s \in Senders, NEW i \in batch[s], Send(s, i) PROVE SentInv'
  <2>1. i \in RowIds
    BY DEF OutboxTypeOK
  <2>2. /\ UNCHANGED <<batch, crashes, smtp, jobs, outbox, paused, log, now>>
        /\ \/ /\ outcome' = [outcome EXCEPT ![s] = "sent"]
              /\ mails' = Append(mails, i) \/ (s \notin smtp /\ UNCHANGED mails)
           \/ /\ outcome' = [outcome EXCEPT ![s] = "failed"]
              /\ UNCHANGED mails \/ mails' = Append(mails, i)
        /\ faults' \in Nat
        /\ IsFirst(s, i)
    BY <1>3 DEF Send, Fault, OutboxTypeOK, StoreTypeOK
  <2>3. RowIds' = RowIds
    BY <2>2 DEF RowIds
  <2>4. mails' \in Seq(RowIds')
    <3>1. mails \in Seq(RowIds)
      BY DEF OutboxTypeOK
    <3>2. mails' = mails \/ mails' = Append(mails, i)
      BY <2>2
    <3> QED
      BY <2>1, <2>3, <3>1, <3>2
  <2>5. /\ StoreTypeOK' /\ crashes' \in Nat
        /\ batch' \in [Senders -> SUBSET RowIds']
    BY <2>2, <2>3 DEF OutboxTypeOK, StoreTypeOK
  <2>6. outcome' \in [Senders -> {"none", "sent", "failed"}]
    BY <2>2 DEF OutboxTypeOK
  <2>7. OutboxTypeOK'
    BY <2>2, <2>4, <2>5, <2>6 DEF OutboxTypeOK
  <2>8. \A k : MailsOf(k) # {} => MailsOf(k)' # {}
    <3>1. CASE UNCHANGED mails
      BY <3>1 DEF MailsOf
    <3>2. CASE mails' = Append(mails, i)
      BY <2>1, <3>2, MailAppended DEF OutboxTypeOK
    <3> QED
      BY <2>2, <3>1, <3>2
  <2>9. SentWasMailed'
    BY <2>2, <2>3, <2>8 DEF SentWasMailed
  <2>10. ASSUME NEW u \in Senders PROVE
          /\ outcome'[u] # "none" => batch'[u] # {}
          /\ \A k \in batch'[u] :
               smtp = Senders /\ outcome'[u] = "sent" /\ IsFirst(u, k)'
                 => MailsOf(k)' # {}
    <3>1. CASE u # s
      BY <2>2, <2>8, <3>1 DEF OutcomeIsTrue, OutboxTypeOK, IsFirst
    <3>2. CASE u = s
      <4>1. batch'[u] # {}
        BY <2>2, <3>2
      <4>2. ASSUME NEW k \in batch'[u], smtp = Senders, outcome'[u] = "sent",
                   IsFirst(u, k)'
            PROVE  MailsOf(k)' # {}
        <5>1. mails' = Append(mails, i)
          BY <2>2, <3>2, <4>2 DEF OutboxTypeOK
        <5>2. k = i
          <6>1. k \in RowIds /\ k <= i /\ i <= k
            BY <2>2, <3>2, <4>2 DEF IsFirst, OutboxTypeOK
          <6> QED
            BY <2>1, <6>1 DEF RowIds
        <5> QED
          BY <2>1, <5>1, <5>2, MailAppended DEF OutboxTypeOK
      <4> QED
        BY <4>1, <4>2
    <3> QED
      BY <3>1, <3>2
  <2> QED
    BY <2>2, <2>7, <2>9, <2>10 DEF OutcomeIsTrue
<1>4. ASSUME NEW s \in Senders, NEW i \in batch[s], Mark(s, i) PROVE SentInv'
  <2>1. i \in RowIds
    BY DEF OutboxTypeOK
  <2>2. /\ UNCHANGED <<mails, crashes, smtp, jobs, paused, log, now>>
        /\ UNCHANGED outbox \/ outbox' = [outbox EXCEPT ![i].status = outcome[s]]
        /\ faults' \in Nat
        /\ IsFirst(s, i) /\ outcome[s] # "none"
        /\ batch' = [batch EXCEPT ![s] = @ \ {i}]
        /\ outcome' = [outcome EXCEPT ![s] = "none"]
    BY <1>4 DEF Mark, Fault, OutboxTypeOK, StoreTypeOK
  <2>3. outcome[s] \in {"sent", "failed"}
    BY <2>2 DEF OutboxTypeOK
  <2>4. /\ outbox' \in Seq(OutboxRows)
        /\ RowIds' = RowIds
        /\ \A k \in RowIds : k # i => outbox'[k] = outbox[k]
        /\ outbox'[i].status \in {outbox[i].status, outcome[s]}
    <3>1. CASE UNCHANGED outbox
      BY <2>1, <3>1 DEF OutboxTypeOK, StoreTypeOK, RowIds
    <3>2. CASE outbox' = [outbox EXCEPT ![i].status = outcome[s]]
      <4>0. outbox[i] \in OutboxRows
        BY <2>1 DEF OutboxTypeOK, StoreTypeOK, RowIds
      <4>1. [outbox[i] EXCEPT !.status = outcome[s]] \in OutboxRows
        BY <2>3, <4>0 DEF OutboxRows
      <4>2. [outbox[i] EXCEPT !.status = outcome[s]].status = outcome[s]
        BY <4>0 DEF OutboxRows
      <4> QED
        BY <2>1, <3>2, <4>1, <4>2 DEF OutboxTypeOK, StoreTypeOK, RowIds
    <3> QED
      BY <2>2, <3>1, <3>2
  <2>5. OutboxTypeOK'
    BY <2>2, <2>4 DEF OutboxTypeOK, StoreTypeOK
  <2>6. smtp = Senders /\ outcome[s] = "sent" => MailsOf(i) # {}
    BY <2>2 DEF OutcomeIsTrue
  <2>7. SentWasMailed'
    BY <2>1, <2>2, <2>4, <2>6 DEF SentWasMailed, MailsOf
  <2>8. OutcomeIsTrue'
    BY <2>2 DEF OutcomeIsTrue, MailsOf, IsFirst, OutboxTypeOK
  <2> QED
    BY <2>5, <2>7, <2>8
<1>5. ASSUME NEW s \in Senders, Restart(s) PROVE SentInv'
  <2>1. /\ batch' = [batch EXCEPT ![s] = {}]
        /\ outcome' = [outcome EXCEPT ![s] = "none"]
        /\ crashes' = crashes + 1
        /\ UNCHANGED <<mails, smtp, storeVars>>
    BY <1>5 DEF Restart
  <2>2. OutboxTypeOK'
    BY <2>1 DEF OutboxTypeOK, StoreTypeOK, storeVars, RowIds
  <2>3. SentWasMailed'
    BY <2>1 DEF SentWasMailed, MailsOf, RowIds, storeVars
  <2>4. OutcomeIsTrue'
    BY <2>1 DEF OutcomeIsTrue, MailsOf, IsFirst, OutboxTypeOK
  <2> QED
    BY <2>2, <2>3, <2>4
<1>6. ASSUME UNCHANGED outboxVars PROVE SentInv'
  BY <1>6 DEF outboxVars, mailVars, storeVars, OutboxTypeOK, StoreTypeOK, RowIds,
              SentWasMailed, OutcomeIsTrue, MailsOf, IsFirst
<1> QED
  BY <1>1, <1>2, <1>3, <1>4, <1>5, <1>6 DEF OutboxNext, OutboxStep

\* Where every process has a mail server, a row says sent only when it accepted the
\* e-mail: no crash, no failing update and no other sender makes the table claim a
\* mail that was never sent.
THEOREM SentMeansMailed == OutboxSpec => []SentWasMailed
<1>1. SentInv => SentWasMailed
  BY DEF SentInv
<1> QED
  BY <1>1, SentInvInit, SentInvNext, PTL DEF OutboxSpec

\* The store, the mails and the senders' positions stay of their types: every row a
\* sender has in hand is a row of the outbox.
THEOREM OutboxTypes == OutboxSpec => []OutboxTypeOK
<1>1. SentInv => OutboxTypeOK
  BY DEF SentInv
<1> QED
  BY <1>1, SentInvInit, SentInvNext, PTL DEF OutboxSpec

-----------------------------------------------------------------------------
(* How often a row is sent *)

\* The senders that may still send row i before anything else goes wrong: they have
\* it in hand and have not sent it, or can still find it pending.
MaySend(i) ==
  {s \in Senders :
     IF i \in batch[s] THEN ~(IsFirst(s, i) /\ outcome[s] # "none")
     ELSE outbox[i].status = "pending"}

WithinBudget(i) ==
  /\ IsFiniteSet(MailsOf(i))
  /\ Cardinality(MailsOf(i)) + Cardinality(MaySend(i))
       <= Cardinality(Senders) + crashes + faults

MailBudget == \A i \in RowIds : WithinBudget(i)

LEMMA MailsOfRow ==
  ASSUME mails \in Seq(RowIds), NEW i, NEW k,
         mails' = mails \/ mails' = Append(mails, k)
  PROVE  /\ MailsOf(i)' \subseteq MailsOf(i) \cup {Len(mails) + 1}
         /\ MailsOf(i) \subseteq MailsOf(i)'
         /\ (i # k \/ mails' = mails) => MailsOf(i)' = MailsOf(i)
<1>1. CASE mails' = mails
  BY <1>1 DEF MailsOf
<1>2. CASE mails' = Append(mails, k)
  <2>1. Len(mails) \in Nat /\ Len(mails') = Len(mails) + 1
    BY <1>2
  <2>2. mails'[Len(mails) + 1] = k /\ \A l \in 1 .. Len(mails) : mails'[l] = mails[l]
    BY <1>2
  <2>3. \A l \in 1 .. Len(mails') : l \in 1 .. Len(mails) \/ l = Len(mails) + 1
    BY <2>1
  <2>4. \A l \in 1 .. Len(mails) : l \in 1 .. Len(mails')
    BY <2>1
  <2> QED
    BY <1>2, <2>1, <2>2, <2>3, <2>4 DEF MailsOf
<1> QED
  BY <1>1, <1>2

\* A sender that sends gives up its right to; whoever gains it back has failed.
LEMMA BudgetStep ==
  ASSUME SentInv, SentInv', NEW i \in RowIds, WithinBudget(i), NEW s, NEW x,
         \/ /\ crashes' >= crashes /\ faults' >= faults
            /\ MailsOf(i)' = MailsOf(i) /\ MaySend(i)' \subseteq MaySend(i)
         \/ /\ crashes' >= crashes /\ faults' >= faults
            /\ MailsOf(i)' \subseteq MailsOf(i) \cup {x}
            /\ MaySend(i)' \subseteq MaySend(i) \ {s} /\ s \in MaySend(i)
         \/ /\ crashes' + faults' >= crashes + faults + 1
            /\ MailsOf(i)' \subseteq MailsOf(i) \cup {x}
            /\ MaySend(i)' \subseteq MaySend(i)
         \/ /\ crashes' + faults' >= crashes + faults + 1
            /\ MailsOf(i)' = MailsOf(i) /\ MaySend(i)' \subseteq MaySend(i) \cup {s}
  PROVE  WithinBudget(i)'
<1>1. /\ crashes \in Nat /\ faults \in Nat /\ crashes' \in Nat /\ faults' \in Nat
  BY DEF SentInv, OutboxTypeOK, StoreTypeOK
<1>2. Cardinality(Senders) \in Nat /\ IsFiniteSet(MaySend(i))
  BY OutboxAssumption, FS_CardinalityType, FS_Subset DEF MaySend
<1>3. /\ IsFiniteSet(MailsOf(i))
      /\ Cardinality(MailsOf(i)) + Cardinality(MaySend(i))
           <= Cardinality(Senders) + crashes + faults
  BY DEF WithinBudget
<1>4. PICK M, C, M2, C2 : /\ M = MailsOf(i) /\ C = MaySend(i)
                          /\ M2 = MailsOf(i)' /\ C2 = MaySend(i)'
  OBVIOUS
<1>5. PICK n \in Nat, c \in Nat, f \in Nat, c2 \in Nat, f2 \in Nat :
        n = Cardinality(Senders) /\ c = crashes /\ f = faults /\ c2 = crashes' /\ f2 = faults'
  BY <1>1, <1>2
<1>6. /\ IsFiniteSet(M) /\ IsFiniteSet(C) /\ Cardinality(M) + Cardinality(C) <= n + c + f
      /\ \/ c2 >= c /\ f2 >= f /\ M2 = M /\ C2 \subseteq C
         \/ /\ c2 >= c /\ f2 >= f /\ M2 \subseteq M \cup {x}
            /\ C2 \subseteq C \ {s} /\ s \in C
         \/ c2 + f2 >= c + f + 1 /\ M2 \subseteq M \cup {x} /\ C2 \subseteq C
         \/ c2 + f2 >= c + f + 1 /\ M2 = M /\ C2 \subseteq C \cup {s}
  BY <1>2, <1>3, <1>4, <1>5, Zenon
<1>7. Cardinality(M) \in Nat /\ Cardinality(C) \in Nat
  BY <1>6, FS_CardinalityType
<1>8. /\ IsFiniteSet(M \cup {x}) /\ Cardinality(M \cup {x}) <= Cardinality(M) + 1
      /\ IsFiniteSet(C \cup {s}) /\ Cardinality(C \cup {s}) <= Cardinality(C) + 1
      /\ IsFiniteSet(C \ {s}) /\ (s \in C => Cardinality(C \ {s}) = Cardinality(C) - 1)
  <2>1. /\ IsFiniteSet(M \cup {x})
        /\ Cardinality(M \cup {x}) = IF x \in M THEN Cardinality(M) ELSE Cardinality(M) + 1
    BY <1>6, FS_AddElement, Zenon
  <2>2. /\ IsFiniteSet(C \cup {s})
        /\ Cardinality(C \cup {s}) = IF s \in C THEN Cardinality(C) ELSE Cardinality(C) + 1
    BY <1>6, FS_AddElement, Zenon
  <2>3. /\ IsFiniteSet(C \ {s})
        /\ Cardinality(C \ {s}) = IF s \in C THEN Cardinality(C) - 1 ELSE Cardinality(C)
    BY <1>6, FS_RemoveElement, Zenon
  <2> QED BY <1>7, <2>1, <2>2, <2>3
<1>9. ASSUME NEW A, NEW B, IsFiniteSet(B), A \subseteq B
      PROVE  IsFiniteSet(A) /\ Cardinality(A) \in Nat /\ Cardinality(A) <= Cardinality(B)
  BY <1>9, FS_Subset, FS_CardinalityType
<1>10. IsFiniteSet(M2) /\ Cardinality(M2) + Cardinality(C2) <= n + c2 + f2
  BY <1>6, <1>7, <1>8, <1>9
<1> QED
  BY <1>4, <1>5, <1>10, Zenon DEF WithinBudget

LEMMA MailBudgetNext ==
  SentInv /\ SentInv' /\ MailBudget /\ [OutboxNext]_outboxVars => MailBudget'
<1> SUFFICES ASSUME SentInv, SentInv', MailBudget, [OutboxNext]_outboxVars, NEW i \in RowIds'
             PROVE  WithinBudget(i)'
  BY DEF MailBudget
<1>1. /\ crashes \in Nat /\ faults \in Nat /\ mails \in Seq(RowIds)
      /\ batch \in [Senders -> SUBSET RowIds]
      /\ outcome \in [Senders -> {"none", "sent", "failed"}]
      /\ \A s \in Senders : outcome[s] # "none" => batch[s] # {}
  BY DEF SentInv, OutboxTypeOK, StoreTypeOK, OutcomeIsTrue
<1>2. ASSUME i \in RowIds, UNCHANGED <<batch, outcome, mails, faults, crashes>>,
             outbox'[i] = outbox[i]
      PROVE  WithinBudget(i)'
  <2>1. MailsOf(i)' = MailsOf(i) /\ MaySend(i)' = MaySend(i)
    BY <1>2 DEF MailsOf, MaySend, IsFirst
  <2> QED
    BY <1>1, <1>2, <2>1, BudgetStep DEF MailBudget
<1>3. ASSUME NEW j \in Jobs, Insert(j) PROVE WithinBudget(i)'
  <2>1. /\ RowIds \subseteq RowIds'
        /\ \A k \in RowIds : outbox'[k] = outbox[k]
        /\ UNCHANGED <<batch, outcome, mails, faults, crashes>>
    BY <1>3, CompletedType DEF Insert, mailVars, SentInv, OutboxTypeOK
  <2>2. CASE i \in RowIds
    BY <1>2, <2>1, <2>2
  <2>3. CASE i \notin RowIds
    <3>1. MailsOf(i)' = {}
      <4>1. \A k \in 1 .. Len(mails) : mails[k] \in RowIds
        BY <1>1
      <4> QED BY <2>1, <2>3, <4>1 DEF MailsOf
    <3>2. MaySend(i)' \subseteq Senders
      BY DEF MaySend
    <3>3. /\ Cardinality(MaySend(i)') \in Nat /\ Cardinality(Senders) \in Nat
          /\ Cardinality(MaySend(i)') <= Cardinality(Senders)
      BY <3>2, OutboxAssumption, FS_CardinalityType, FS_Subset
    <3>4. IsFiniteSet(MailsOf(i)') /\ Cardinality(MailsOf(i)') = 0
      BY <3>1, FS_EmptySet
    <3> QED BY <1>1, <2>1, <3>3, <3>4 DEF WithinBudget
  <2> QED BY <2>2, <2>3
<1>4. ASSUME NEW s \in Senders, ListOutbox(s) PROVE WithinBudget(i)'
  <2>1. PICK B \in SUBSET PendingRows : batch' = [batch EXCEPT ![s] = B]
    BY <1>4 DEF ListOutbox
  <2>2. batch[s] = {} /\ UNCHANGED <<outcome, mails, crashes, faults, outbox>>
    BY <1>4 DEF ListOutbox, storeVars
  <2>3. outcome[s] = "none"
    BY <1>1, <2>2
  <2>4. i \in RowIds
    BY <2>2 DEF RowIds
  <2>5. MaySend(i)' \subseteq MaySend(i)
    BY <1>1, <2>1, <2>2, <2>3 DEF MaySend, IsFirst, PendingRows
  <2>6. MailsOf(i)' = MailsOf(i)
    BY <2>2 DEF MailsOf
  <2> QED BY <1>1, <2>2, <2>4, <2>5, <2>6, BudgetStep DEF MailBudget
<1>5. ASSUME NEW s \in Senders, NEW k \in batch[s], Send(s, k) PROVE WithinBudget(i)'
  <2>1. /\ IsFirst(s, k) /\ outcome[s] = "none"
        /\ UNCHANGED <<batch, crashes, outbox>>
        /\ outcome' = [outcome EXCEPT ![s] = "sent"] \/ outcome' = [outcome EXCEPT ![s] = "failed"]
        /\ mails' = mails \/ mails' = Append(mails, k)
        /\ faults' = faults \/ faults' = faults + 1
        /\ faults' = faults => outcome'[s] = "sent"
    BY <1>1, <1>5 DEF Send, Fault
  <2>2. i \in RowIds
    BY <2>1 DEF RowIds
  <2>3. MaySend(i)' \subseteq MaySend(i)
    BY <1>1, <2>1 DEF MaySend, IsFirst
  <2>4. /\ MailsOf(i)' \subseteq MailsOf(i) \cup {Len(mails) + 1}
        /\ i # k => MailsOf(i)' = MailsOf(i)
    BY <1>1, <2>1, MailsOfRow
  <2>5. i = k => /\ s \in MaySend(i)
                 /\ MaySend(i)' \subseteq MaySend(i) \ {s}
    BY <1>1, <2>1, <2>3 DEF MaySend, IsFirst
  <2>6. faults' >= faults /\ crashes' >= crashes
    BY <1>1, <2>1
  <2> QED BY <2>2, <2>3, <2>4, <2>5, <2>6, BudgetStep DEF MailBudget
<1>6. ASSUME NEW s \in Senders, NEW k \in batch[s], Mark(s, k) PROVE WithinBudget(i)'
  <2>1. /\ IsFirst(s, k) /\ outcome[s] # "none"
        /\ UNCHANGED <<mails, crashes>>
        /\ batch' = [batch EXCEPT ![s] = @ \ {k}]
        /\ outcome' = [outcome EXCEPT ![s] = "none"]
        /\ \/ outbox' = [outbox EXCEPT ![k].status = outcome[s]] /\ faults' = faults
           \/ outbox' = outbox /\ faults' = faults + 1
    BY <1>6 DEF Mark, Fault
  <2>2. k \in RowIds /\ outbox \in Seq(OutboxRows)
    BY <1>1 DEF SentInv, OutboxTypeOK, StoreTypeOK
  <2>3. /\ RowIds' = RowIds
        /\ \A l \in RowIds : l # k => outbox'[l] = outbox[l]
        /\ faults' = faults => outbox'[k].status = outcome[s]
        /\ faults' # faults => outbox' = outbox
    <3>1. CASE outbox' = [outbox EXCEPT ![k].status = outcome[s]] /\ faults' = faults
      <4>1. outbox[k] \in OutboxRows
        BY <2>2 DEF RowIds
      <4>2. [outbox[k] EXCEPT !.status = outcome[s]].status = outcome[s]
        BY <4>1 DEF OutboxRows
      <4> QED BY <2>2, <3>1, <4>2 DEF RowIds
    <3>2. CASE outbox' = outbox /\ faults' = faults + 1
      BY <1>1, <3>2 DEF RowIds
    <3> QED BY <2>1, <3>1, <3>2
  <2>4. MailsOf(i)' = MailsOf(i)
    BY <2>1 DEF MailsOf
  <2>5. i \in RowIds
    BY <2>3
  <2>6. i # k => MaySend(i)' \subseteq MaySend(i)
    <3> SUFFICES ASSUME i # k, NEW u \in MaySend(i)' PROVE u \in MaySend(i)
      OBVIOUS
    <3>1. u \in Senders /\ outbox'[i] = outbox[i] /\ (i \in batch'[u] <=> i \in batch[u])
      BY <1>1, <2>1, <2>3, <2>5 DEF MaySend
    <3>2. CASE u = s
      <4>1. ~IsFirst(s, i)
        BY <1>1, <2>1, <2>2, <2>5 DEF IsFirst, RowIds
      <4> QED BY <3>1, <3>2, <4>1 DEF MaySend
    <3>3. CASE u # s
      BY <1>1, <2>1, <3>1, <3>3 DEF MaySend, IsFirst
    <3> QED BY <3>2, <3>3
  <2>7. i = k /\ faults' = faults => MaySend(i)' \subseteq MaySend(i)
    BY <1>1, <2>1, <2>3 DEF MaySend, IsFirst
  <2>8. i = k /\ faults' # faults => MaySend(i)' \subseteq MaySend(i) \cup {s}
    BY <1>1, <2>1, <2>3 DEF MaySend, IsFirst
  <2>9. /\ faults' >= faults /\ crashes' >= crashes
        /\ faults' # faults => crashes' + faults' >= crashes + faults + 1
    BY <1>1, <2>1
  <2> QED BY <2>4, <2>5, <2>6, <2>7, <2>8, <2>9, BudgetStep DEF MailBudget
<1>7. ASSUME NEW s \in Senders, Restart(s) PROVE WithinBudget(i)'
  <2>1. /\ batch' = [batch EXCEPT ![s] = {}]
        /\ outcome' = [outcome EXCEPT ![s] = "none"]
        /\ crashes' = crashes + 1
        /\ UNCHANGED <<mails, faults, outbox>>
    BY <1>7 DEF Restart, storeVars
  <2>2. MailsOf(i)' = MailsOf(i) /\ i \in RowIds
    BY <2>1 DEF MailsOf, RowIds
  <2>3. MaySend(i)' \subseteq MaySend(i) \cup {s}
    BY <1>1, <2>1 DEF MaySend, IsFirst
  <2>4. crashes' + faults' >= crashes + faults + 1
    BY <1>1, <2>1
  <2> QED BY <2>2, <2>3, <2>4, BudgetStep DEF MailBudget
<1>8. CASE UNCHANGED outboxVars
  <2>1. i \in RowIds /\ outbox'[i] = outbox[i]
        /\ UNCHANGED <<batch, outcome, mails, faults, crashes>>
    BY <1>8 DEF outboxVars, storeVars, mailVars, RowIds
  <2> QED BY <1>2, <2>1
<1> QED
  BY <1>3, <1>4, <1>5, <1>6, <1>7, <1>8 DEF OutboxNext, OutboxStep

\* A row is sent once by each process at most, and once more for every crash and
\* every failing call.
THEOREM MailsAreLimited == OutboxSpec => []MailsAreBounded
<1>1. OutboxInit => MailBudget
  BY DEF OutboxInit, MailBudget, RowIds
<1>2. SentInv /\ MailBudget => MailsAreBounded
  <2> SUFFICES ASSUME SentInv, MailBudget, NEW i \in RowIds
               PROVE  Cardinality(MailsOf(i)) <= Cardinality(Senders) + crashes + faults
    BY DEF MailsAreBounded
  <2>1. /\ IsFiniteSet(MailsOf(i))
        /\ Cardinality(MailsOf(i)) + Cardinality(MaySend(i))
             <= Cardinality(Senders) + crashes + faults
    BY DEF MailBudget, WithinBudget
  <2>2. IsFiniteSet(MaySend(i))
    BY OutboxAssumption, FS_Subset DEF MaySend
  <2>3. PICK m \in Nat, c \in Nat, n \in Nat :
          m = Cardinality(MailsOf(i)) /\ c = Cardinality(MaySend(i)) /\ n = Cardinality(Senders)
    BY <2>1, <2>2, OutboxAssumption, FS_CardinalityType
  <2>4. crashes \in Nat /\ faults \in Nat
    BY DEF SentInv, OutboxTypeOK, StoreTypeOK
  <2> QED BY <2>1, <2>3, <2>4
<1> QED
  BY <1>1, <1>2, SentInvInit, SentInvNext, MailBudgetNext, PTL DEF OutboxSpec
=============================================================================
