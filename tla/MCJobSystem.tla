----------------------------- MODULE MCJobSystem -----------------------------
(* Values of the constants of JobSystem for TLC. *)
EXTENDS JobSystem

CONSTANTS j1, j2, w1, w2, q1, k1

Body(type, valid, runAt, key, maxRetry) ==
  [work |-> [type |-> type, valid |-> valid, queue |-> q1, runAt |-> runAt,
             key |-> key],
   maxRetry |-> maxRetry]

Email    == Body("email", TRUE, 0, NoKey, 0)
BadMail  == Body("email", FALSE, 0, NoKey, 1)
Never    == Body("task", TRUE, 0, NoKey, -1)
Twice    == Body("task", TRUE, 0, NoKey, 1)
Past     == Body("task", TRUE, 1, NoKey, 0)
Later    == Body("task", TRUE, 2, NoKey, 0)
LateMail == Body("email", TRUE, 2, NoKey, 0)

Retried == {Email, BadMail, Twice}
Timed   == {Past, Later}
Plain   == {Never}
Delayed == {LateMail}
=============================================================================
