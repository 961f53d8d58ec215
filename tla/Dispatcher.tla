----------------------------- MODULE Dispatcher -----------------------------
(***************************************************************************)
(* What RunConsumer promises about the messages between the fetch and      *)
(* their goroutines: each is begun once, in any order; and when it         *)
(* returns, "after draining the in-memory queue", none is left behind,     *)
(* unless the process was told to stop.  JobWorker builds on this: there,  *)
(* a goroutine may start at any time after its message is fetched.         *)
(***************************************************************************)

CONSTANT Msgs

VARIABLES
  waiting,  \* messages accepted and not yet begun
  begun,    \* messages whose goroutine was started
  state     \* "open", "closed", or "cancelled": nothing is promised any more

dispatchVars == <<waiting, begun, state>>

DispatchInit == waiting = {} /\ begun = {} /\ state = "open"

Accept(m) ==
  /\ state # "closed"
  /\ m \notin waiting \cup begun
  /\ waiting' = waiting \cup {m}
  /\ UNCHANGED <<begun, state>>

Begin(m) ==
  /\ state # "closed"
  /\ m \in waiting
  /\ waiting' = waiting \ {m}
  /\ begun' = begun \cup {m}
  /\ UNCHANGED state

Close ==
  /\ state = "open"
  /\ waiting = {}
  /\ state' = "closed"
  /\ UNCHANGED <<waiting, begun>>

Cancel ==
  /\ state # "cancelled"
  /\ state' = "cancelled"
  /\ UNCHANGED <<waiting, begun>>

DispatchNext ==
  Close \/ Cancel \/ \E m \in Msgs : Accept(m) \/ Begin(m)

DispatchSpec == DispatchInit /\ [][DispatchNext]_dispatchVars
=============================================================================
