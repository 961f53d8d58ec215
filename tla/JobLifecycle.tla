---------------------------- MODULE JobLifecycle ----------------------------
(***************************************************************************)
(* What somebody who keeps asking GET /jobs/{id} sees of a job that was    *)
(* submitted for now, while each of its messages is delivered once: its    *)
(* attempts are counted up and stay within what the submission allowed,    *)
(* it is archived after the last of them and not before, and an outcome is *)
(* never taken back.  Steps may be missed, since the worker ignores that   *)
(* it could not write a status.                                            *)
(***************************************************************************)
EXTENDS Integers

CONSTANT Jobs

VARIABLES
  shown,   \* status and attempt of each job
  allowed  \* the retries that its submission allows

lifecycleVars == <<shown, allowed>>

LifecycleInit ==
  /\ shown = [j \in Jobs |-> [status |-> "unknown", attempt |-> 0]]
  /\ allowed \in [Jobs -> Nat]

Unsettled(j) == shown[j].status \in {"pending", "processing", "failed"}

Become(j, s, a) ==
  /\ shown' = [shown EXCEPT ![j] = [status |-> s, attempt |-> a]]
  /\ UNCHANGED allowed

\* A request comes in, and later its row.
Ask(j) ==
  /\ shown[j].status = "unknown"
  /\ allowed'[j] \in Nat
  /\ allowed' = [allowed EXCEPT ![j] = allowed'[j]]
  /\ UNCHANGED shown

Create(j) == shown[j].status = "unknown" /\ Become(j, "pending", 0)

\* Attempts are counted from 0 while they last, and from 1 when they have failed.
Begin(j, a) ==
  /\ Unsettled(j)
  /\ a <= allowed[j]
  /\ shown[j].status = "processing" => a > shown[j].attempt
  /\ Become(j, "processing", a)

Fail(j, a) ==
  /\ Unsettled(j)
  /\ shown[j].status = "failed" => a > shown[j].attempt
  /\ Become(j, "failed", a)

Complete(j, a) == Unsettled(j) /\ a <= allowed[j] /\ Become(j, "completed", a)

Archive(j) == Unsettled(j) /\ Become(j, "archived", allowed[j] + 1)

LifecycleNext ==
  \E j \in Jobs :
    \/ Ask(j) \/ Create(j) \/ Archive(j)
    \/ \E a \in shown[j].attempt .. allowed[j] + 1 :
         Begin(j, a) \/ Fail(j, a) \/ Complete(j, a)

LifecycleSpec == LifecycleInit /\ [][LifecycleNext]_lifecycleVars
=============================================================================
