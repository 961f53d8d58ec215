------------------------------ MODULE Consumer ------------------------------
(***************************************************************************)
(* RunConsumer (internal/kafkaqueue/consumer.go) inside one worker         *)
(* process: the goroutine that fetches, the priority queue with its mutex  *)
(* and condition variable, the loop that pops, the goroutines with the     *)
(* concurrency limiter of cmd/worker/main.go, the drain that an operator   *)
(* requests over HTTP, and the end of the process.  Offsets and what       *)
(* process does to the database are the subject of JobWorker.              *)
(*                                                                         *)
(* Push, SetDrain and each turn of the loop in Pop hold the mutex and are  *)
(* single steps; cond.Wait gives the mutex up and starts to wait in one.   *)
(***************************************************************************)
EXTENDS Integers, Sequences, FiniteSets

CONSTANTS
  Msgs,       \* messages
  Malformed,  \* those that json.Unmarshal rejects
  Priority,   \* Options.Priority of each message, 0 without Options
  Types,      \* job types
  Type,       \* the type of each message
  Limit       \* goroutines per type the limiter admits; 0 means no limiter

ASSUME ConsumerAssumption ==
  /\ Malformed \subseteq Msgs
  /\ Priority \in [Msgs -> Int]
  /\ Type \in [Msgs -> Types]
  /\ Limit \in Nat

VARIABLES
  topic,           \* what producers have written so far
  position,        \* how much of it FetchMessage has returned
  fetcher,         \* the next call of the fetching goroutine
  hand,            \* the message it is about to push, if any
  items,           \* the heap of the priority queue
  drain,           \* its field drain
  popper,          \* the loop around Pop
  run,             \* the goroutine of each message
  slots,           \* occupied slots of the limiter, per type
  drainRequested,  \* POST /admin/drain was served
  cancelled,       \* ctx is cancelled: the process got a signal
  up               \* the process runs

vars == <<topic, position, fetcher, hand, items, drain, popper, run, slots,
          drainRequested, cancelled, up>>

queueVars == <<fetcher, hand, items, drain, popper>>

Produced == {topic[i] : i \in 1 .. Len(topic)}

ConsumerTypeOK ==
  /\ topic \in Seq(Msgs)
  /\ position \in 0 .. Len(topic)
  /\ fetcher \in {"check", "fetch", "push", "drain", "exited"}
  /\ hand \in SUBSET Msgs
  /\ items \in SUBSET Msgs
  /\ drain \in BOOLEAN
  /\ popper \in {"pop", "waiting", "exited"}
  /\ run \in [Msgs -> {"none", "admit", "acquire", "running", "commit", "done"}]
  /\ slots \in [Types -> Nat]
  /\ drainRequested \in BOOLEAN
  /\ cancelled \in BOOLEAN
  /\ up \in BOOLEAN

Init ==
  /\ topic = << >> /\ position = 0
  /\ fetcher = "check" /\ hand = {}
  /\ items = {} /\ drain = FALSE /\ popper = "pop"
  /\ run = [m \in Msgs |-> "none"]
  /\ slots = [y \in Types |-> 0]
  /\ drainRequested = FALSE /\ cancelled = FALSE /\ up = TRUE

-----------------------------------------------------------------------------
(* The outside *)

Produce(m) ==
  /\ m \notin Produced
  /\ topic' = Append(topic, m)
  /\ UNCHANGED <<position, queueVars, run, slots, drainRequested, cancelled, up>>

RequestDrain ==
  /\ up
  /\ ~drainRequested
  /\ drainRequested' = TRUE
  /\ UNCHANGED <<topic, position, queueVars, run, slots, cancelled, up>>

\* SIGTERM: main calls cancel() on its way out.
Signal ==
  /\ up
  /\ ~cancelled
  /\ cancelled' = TRUE
  /\ UNCHANGED <<topic, position, queueVars, run, slots, drainRequested, up>>

\* main returns after the signal, or when RunConsumer has returned; no goroutine
\* is waited for.
Exit ==
  /\ up
  /\ cancelled \/ popper = "exited"
  /\ up' = FALSE
  /\ UNCHANGED <<topic, position, queueVars, run, slots, drainRequested, cancelled>>

-----------------------------------------------------------------------------
(* The fetching goroutine *)

\* drainCheck() and ctx.Done().
Check ==
  /\ up
  /\ fetcher = "check"
  /\ fetcher' = IF drainRequested \/ cancelled THEN "drain" ELSE "fetch"
  /\ UNCHANGED <<topic, position, hand, items, drain, popper, run, slots,
                 drainRequested, cancelled, up>>

\* FetchMessage, which waits while there is no message.  One that cannot be
\* decoded is committed and forgotten.
FetchMessage ==
  /\ up
  /\ fetcher = "fetch"
  /\ position < Len(topic)
  /\ position' = position + 1
  /\ IF topic[position + 1] \in Malformed
       THEN fetcher' = "check" /\ UNCHANGED hand
       ELSE fetcher' = "push" /\ hand' = {topic[position + 1]}
  /\ UNCHANGED <<topic, items, drain, popper, run, slots, drainRequested,
                 cancelled, up>>

\* FetchMessage returns an error: because ctx is cancelled, or a passing one.
FetchError ==
  /\ up
  /\ fetcher = "fetch"
  /\ fetcher' = IF cancelled THEN "drain" ELSE "check"
  /\ UNCHANGED <<topic, position, hand, items, drain, popper, run, slots,
                 drainRequested, cancelled, up>>

\* cond.Signal: the only waiter is the loop around Pop.
Woken == IF popper = "waiting" THEN "pop" ELSE popper

\* Mutant: no Signal after the insertion.
Push_NoSignal ==
  /\ up
  /\ fetcher = "push"
  /\ items' = items \cup hand
  /\ hand' = {}
  /\ fetcher' = "check"
  /\ UNCHANGED <<topic, position, drain, popper, run, slots, drainRequested,
                 cancelled, up>>

Push ==
  /\ up
  /\ fetcher = "push"
  /\ items' = items \cup hand
  /\ hand' = {}
  /\ popper' = Woken
  /\ fetcher' = "check"
  /\ UNCHANGED <<topic, position, drain, run, slots, drainRequested, cancelled, up>>

\* Mutant: no Signal when the flag is set.
SetDrain_NoSignal ==
  /\ up
  /\ fetcher = "drain"
  /\ drain' = TRUE
  /\ fetcher' = "exited"
  /\ UNCHANGED <<topic, position, hand, items, popper, run, slots,
                 drainRequested, cancelled, up>>

SetDrain ==
  /\ up
  /\ fetcher = "drain"
  /\ drain' = TRUE
  /\ popper' = Woken
  /\ fetcher' = "exited"
  /\ UNCHANGED <<topic, position, hand, items, run, slots, drainRequested,
                 cancelled, up>>

-----------------------------------------------------------------------------
(* The loop around Pop *)

\* Mutant: the flag is tested before the queue.
Pop_DrainFirst ==
  /\ up
  /\ popper = "pop"
  /\ \/ /\ drain \/ cancelled
        /\ popper' = "exited"
        /\ UNCHANGED <<items, run>>
     \/ /\ ~drain /\ ~cancelled
        /\ items = {}
        /\ popper' = "waiting"
        /\ UNCHANGED <<items, run>>
     \/ /\ ~drain /\ ~cancelled
        /\ \E m \in items :
             /\ \A k \in items : Priority[k] <= Priority[m]
             /\ items' = items \ {m}
             /\ run' = [run EXCEPT ![m] = "admit"]
        /\ UNCHANGED popper
  /\ UNCHANGED <<topic, position, fetcher, hand, drain, slots, drainRequested,
                 cancelled, up>>

\* One turn: a goroutine for an item of the highest priority (the order among
\* equals is the heap's), or the end, or a wait.
Pop ==
  /\ up
  /\ popper = "pop"
  /\ \/ /\ \E m \in items :
             /\ \A k \in items : Priority[k] <= Priority[m]
             /\ items' = items \ {m}
             /\ run' = [run EXCEPT ![m] = "admit"]
        /\ UNCHANGED popper
     \/ /\ items = {}
        /\ popper' = IF drain \/ cancelled THEN "exited" ELSE "waiting"
        /\ UNCHANGED <<items, run>>
  /\ UNCHANGED <<topic, position, fetcher, hand, drain, slots, drainRequested,
                 cancelled, up>>

-----------------------------------------------------------------------------
(* The goroutine of a message *)

\* Mutant: Release is deferred before Acquire.
Skip_Releases(m) ==
  /\ up
  /\ run[m] = "admit"
  /\ run' = [run EXCEPT ![m] = "commit"]
  /\ slots' = [slots EXCEPT ![Type[m]] = @ - 1]
  /\ UNCHANGED <<topic, position, queueVars, drainRequested, cancelled, up>>

\* process returns before it comes to the limiter: GetQueue fails or finds the queue
\* paused.
Skip(m) ==
  /\ up
  /\ run[m] = "admit"
  /\ run' = [run EXCEPT ![m] = "commit"]
  /\ UNCHANGED <<topic, position, queueVars, slots, drainRequested, cancelled, up>>

\* The queue is not paused: the next call is Acquire, and there is no way back.
Admit(m) ==
  /\ up
  /\ run[m] = "admit"
  /\ run' = [run EXCEPT ![m] = "acquire"]
  /\ UNCHANGED <<topic, position, queueVars, slots, drainRequested, cancelled, up>>

\* Acquire waits for a free slot of the type, whatever happens to ctx.
Acquire(m) ==
  /\ up
  /\ run[m] = "acquire"
  /\ run' = [run EXCEPT ![m] = "running"]
  /\ \/ Limit = 0 /\ UNCHANGED slots
     \/ /\ slots[Type[m]] < Limit
        /\ slots' = [slots EXCEPT ![Type[m]] = @ + 1]
  /\ UNCHANGED <<topic, position, queueVars, drainRequested, cancelled, up>>

\* Mutant: a return without the deferred Release.
Return_NoRelease(m) ==
  /\ up
  /\ run[m] = "running"
  /\ run' = [run EXCEPT ![m] = "commit"]
  /\ UNCHANGED <<topic, position, queueVars, slots, drainRequested, cancelled, up>>

\* Every return of process runs the deferred Release.
Return(m) ==
  /\ up
  /\ run[m] = "running"
  /\ run' = [run EXCEPT ![m] = "commit"]
  /\ slots' = IF Limit = 0 THEN slots ELSE [slots EXCEPT ![Type[m]] = @ - 1]
  /\ UNCHANGED <<topic, position, queueVars, drainRequested, cancelled, up>>

CommitMessage(m) ==
  /\ up
  /\ run[m] = "commit"
  /\ run' = [run EXCEPT ![m] = "done"]
  /\ UNCHANGED <<topic, position, queueVars, slots, drainRequested, cancelled, up>>

-----------------------------------------------------------------------------

FetcherStep == Check \/ FetchMessage \/ Push \/ SetDrain

TaskStep(m) == Skip(m) \/ Admit(m) \/ Acquire(m) \/ Return(m) \/ CommitMessage(m)

Next ==
  \/ RequestDrain \/ Signal \/ Exit
  \/ FetcherStep \/ FetchError
  \/ Pop
  \/ \E m \in Msgs : Produce(m) \/ TaskStep(m)

Spec == Init /\ [][Next]_vars

\* The goroutines run, handlers return, and fetching does not fail for ever while
\* there are messages.  Nobody has to write any, ask for a drain or send a signal.
\* Weak fairness is enough for a goroutine that waits for a slot: those that may take
\* it first are finitely many, and each takes it once.
FairSpec ==
  /\ Spec
  /\ WF_vars(FetcherStep) /\ SF_vars(FetchMessage)
  /\ WF_vars(Pop) /\ WF_vars(Exit)
  /\ \A m \in Msgs : WF_vars(TaskStep(m))

-----------------------------------------------------------------------------
(* Properties *)

\* The loop waits only while there is nothing for it to do: no item and no drain
\* arrived without the Signal that wakes it.
NoLostWakeup == popper = "waiting" => items = {} /\ ~drain

\* The limiter's slots are those of the goroutines inside, never more than it
\* admits, whichever way process returned.
SlotsAreHeld ==
  \A y \in Types :
    /\ Limit > 0 => slots[y] <= Limit
    /\ slots[y] =
         IF Limit = 0 THEN 0
         ELSE Cardinality({m \in Msgs : run[m] = "running" /\ Type[m] = y})

\* RunConsumer implements its promise to the messages it fetched: each is begun
\* once, and a drain leaves none behind.
D == INSTANCE Dispatcher WITH
       waiting <- hand \cup items,
       begun <- {m \in Msgs : run[m] # "none"},
       state <- IF cancelled THEN "cancelled"
                ELSE IF popper = "exited" THEN "closed" ELSE "open"

ImplementsDispatcher == D!DispatchSpec

\* Every message that is written is processed to its end, unless the process is
\* asked to stop: no wakeup and no slot gets lost on the way.
ProducedIsProcessed ==
  \A m \in Msgs \ Malformed :
    m \in Produced ~> run[m] = "done" \/ drainRequested \/ cancelled

\* A drain completes, provided that the fetching goroutine is not waiting for a
\* message that never comes.
DrainCompletesWhenBusy ==
  drainRequested /\ (fetcher # "fetch" \/ position < Len(topic)) ~> ~up

\* "If drainCheck is non-nil and returns true, the consumer stops fetching and exits
\* after draining the in-memory queue."
DrainCompletes == drainRequested ~> ~up
=============================================================================
