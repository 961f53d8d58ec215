--------------------------- MODULE ConsumerProofs ---------------------------
(***************************************************************************)
(* Proofs about Consumer: no wakeup is lost, RunConsumer implements        *)
(* Dispatcher, the limiter's slots are accounted for, and the types hold,  *)
(* for any messages, priorities, types and limit.                          *)
(***************************************************************************)
EXTENDS Consumer, FiniteSetTheorems, TLAPS

\* The parts of the type invariant that the proofs need.
QueueTyped ==
  /\ topic \in Seq(Msgs)
  /\ position \in 0 .. Len(topic)
  /\ hand \in SUBSET Msgs
  /\ items \in SUBSET Msgs
  /\ popper \in {"pop", "waiting", "exited"}
  /\ run \in [Msgs -> {"none", "admit", "acquire", "running", "commit", "done"}]
  /\ cancelled \in BOOLEAN

\* No message is written twice.
TopicIsDistinct ==
  \A i, k \in 1 .. Len(topic) : topic[i] = topic[k] => i = k

Begun == {m \in Msgs : run[m] # "none"}

\* Only what was fetched is in hand, in the queue, or begun.
CustodyIsFetched ==
  \A m \in hand \cup items \cup Begun : \E i \in 1 .. position : topic[i] = m

\* The fetching goroutine holds a message only on its way to Push, and ends when
\* it sets the flag; the loop ends only with an empty queue.
Handover ==
  /\ hand # {} => fetcher = "push"
  /\ hand \cap items = {}
  /\ drain => fetcher = "exited"
  /\ popper = "exited" => cancelled \/ (drain /\ items = {})

QueueInv == QueueTyped /\ TopicIsDistinct /\ CustodyIsFetched /\ Handover

LEMMA QueueInvInit == Init => QueueInv
<1> SUFFICES ASSUME Init PROVE QueueInv
  OBVIOUS
<1>1. topic = << >> /\ Len(topic) = 0
  BY DEF Init
<1>2. QueueTyped /\ TopicIsDistinct
  <2>1. 1 .. Len(topic) = {}
    BY <1>1
  <2>2. topic \in Seq(Msgs) /\ position \in 0 .. Len(topic)
    BY <1>1 DEF Init
  <2> QED
    BY <2>1, <2>2 DEF Init, QueueTyped, TopicIsDistinct
<1>3. hand = {} /\ items = {} /\ Begun = {}
  BY DEF Init, Begun
<1>4. CustodyIsFetched /\ Handover
  BY <1>3 DEF Init, CustodyIsFetched, Handover
<1> QED
  BY <1>2, <1>4 DEF QueueInv

\* A message not yet fetched is nowhere.
LEMMA NextIsNew ==
  ASSUME QueueInv, position < Len(topic)
  PROVE  /\ topic[position + 1] \in Msgs
         /\ topic[position + 1] \notin hand \cup items \cup Begun
         /\ position + 1 \in 1 .. Len(topic)
<1>1. Len(topic) \in Nat /\ position \in Nat /\ position + 1 \in 1 .. Len(topic)
  BY DEF QueueInv, QueueTyped
<1>2. topic[position + 1] \in Msgs
  BY <1>1 DEF QueueInv, QueueTyped
<1>3. ASSUME topic[position + 1] \in hand \cup items \cup Begun PROVE FALSE
  <2>1. PICK i \in 1 .. position : topic[i] = topic[position + 1]
    BY <1>3 DEF QueueInv, CustodyIsFetched
  <2>2. i \in 1 .. Len(topic) /\ i # position + 1
    BY <1>1, <2>1
  <2> QED
    BY <1>1, <2>1, <2>2 DEF QueueInv, TopicIsDistinct
<1> QED
  BY <1>1, <1>2, <1>3

LEMMA QueueInvNext == QueueInv /\ [Next]_vars => QueueInv'
<1> SUFFICES ASSUME QueueInv, [Next]_vars PROVE QueueInv'
  OBVIOUS
<1> USE DEF QueueInv
<1>1. ASSUME NEW m \in Msgs, Produce(m) PROVE QueueInv'
  <2>1. /\ topic' = Append(topic, m) /\ m \notin Produced
        /\ UNCHANGED <<position, fetcher, hand, items, drain, popper, run, cancelled>>
    BY <1>1 DEF Produce, queueVars
  <2>2. /\ Len(topic) \in Nat /\ Len(topic') = Len(topic) + 1
        /\ \A i \in 1 .. Len(topic) : topic'[i] = topic[i]
        /\ topic'[Len(topic) + 1] = m
        /\ topic' \in Seq(Msgs)
    BY <2>1 DEF QueueTyped
  <2>3. QueueTyped'
    BY <2>1, <2>2 DEF QueueTyped
  <2>4. TopicIsDistinct'
    BY <2>1, <2>2 DEF TopicIsDistinct, Produced
  <2>5. \A i \in 1 .. position : topic'[i] = topic[i]
    BY <2>2 DEF QueueTyped
  <2>6. CustodyIsFetched'
    <3>1. UNCHANGED <<hand, items, position>> /\ Begun' = Begun
      BY <2>1 DEF Begun
    <3> QED
      BY <2>5, <3>1 DEF CustodyIsFetched
  <2> QED
    BY <2>1, <2>3, <2>4, <2>6 DEF Handover
<1>2. CASE RequestDrain \/ Exit
  BY <1>2 DEF RequestDrain, Exit, queueVars, QueueTyped, TopicIsDistinct,
              CustodyIsFetched, Begun, Handover
<1>3. CASE Signal
  BY <1>3 DEF Signal, queueVars, QueueTyped, TopicIsDistinct, CustodyIsFetched,
              Begun, Handover
<1>4. CASE Check \/ FetchError
  BY <1>4 DEF Check, FetchError, QueueTyped, TopicIsDistinct, CustodyIsFetched,
              Begun, Handover
<1>5. CASE FetchMessage
  <2>1. /\ fetcher = "fetch" /\ position < Len(topic) /\ position' = position + 1
        /\ \/ fetcher' = "check" /\ UNCHANGED hand
           \/ fetcher' = "push" /\ hand' = {topic[position + 1]}
        /\ UNCHANGED <<topic, items, drain, popper, run, cancelled>>
    BY <1>5 DEF FetchMessage
  <2>2. /\ topic[position + 1] \in Msgs
        /\ topic[position + 1] \notin hand \cup items \cup Begun
        /\ position + 1 \in 1 .. Len(topic)
    BY <2>1, NextIsNew
  <2>3. hand = {}
    BY <2>1 DEF Handover
  <2>4. QueueTyped' /\ TopicIsDistinct'
    BY <2>1, <2>2 DEF QueueTyped, TopicIsDistinct
  <2>5. 1 .. position \subseteq 1 .. position' /\ position + 1 \in 1 .. position'
    BY <2>1 DEF QueueTyped
  <2>6. CustodyIsFetched'
    BY <2>1, <2>5 DEF CustodyIsFetched, Begun
  <2>7. Handover'
    BY <2>1, <2>2, <2>3 DEF Handover
  <2> QED
    BY <2>4, <2>6, <2>7
<1>6. CASE Push
  <2>1. /\ fetcher = "push" /\ items' = items \cup hand /\ hand' = {}
        /\ popper' = Woken /\ fetcher' = "check"
        /\ UNCHANGED <<topic, position, drain, run, cancelled>>
    BY <1>6 DEF Push
  <2>2. QueueTyped' /\ TopicIsDistinct'
    BY <2>1 DEF QueueTyped, TopicIsDistinct, Woken
  <2>3. CustodyIsFetched'
    BY <2>1 DEF CustodyIsFetched, Begun
  <2>4. Handover'
    BY <2>1 DEF Handover, Woken, QueueTyped
  <2> QED
    BY <2>2, <2>3, <2>4
<1>7. CASE SetDrain
  <2>1. /\ fetcher = "drain" /\ drain' = TRUE /\ fetcher' = "exited"
        /\ popper' = Woken
        /\ UNCHANGED <<topic, position, hand, items, run, cancelled>>
    BY <1>7 DEF SetDrain
  <2>2. QueueTyped' /\ TopicIsDistinct' /\ CustodyIsFetched'
    BY <2>1 DEF QueueTyped, TopicIsDistinct, Woken, CustodyIsFetched, Begun
  <2>3. Handover'
    BY <2>1 DEF Handover, Woken, QueueTyped
  <2> QED
    BY <2>2, <2>3
<1>8. CASE Pop
  <2>1. UNCHANGED <<topic, position, fetcher, hand, drain, cancelled>>
    BY <1>8 DEF Pop
  <2>2. CASE \E m \in items : /\ items' = items \ {m}
                             /\ run' = [run EXCEPT ![m] = "admit"]
                             /\ UNCHANGED popper /\ popper = "pop"
    <3>1. PICK m \in items : /\ items' = items \ {m}
                             /\ run' = [run EXCEPT ![m] = "admit"]
                             /\ UNCHANGED popper /\ popper = "pop"
      BY <2>2
    <3>2. QueueTyped' /\ TopicIsDistinct'
      BY <2>1, <3>1 DEF QueueTyped, TopicIsDistinct
    <3>3. Begun' = Begun \cup {m} /\ m \in items
      BY <3>1 DEF Begun, QueueTyped
    <3>4. CustodyIsFetched'
      BY <2>1, <3>1, <3>3 DEF CustodyIsFetched
    <3>5. Handover'
      BY <2>1, <3>1 DEF Handover
    <3> QED
      BY <3>2, <3>4, <3>5
  <2>3. CASE /\ items = {} /\ UNCHANGED <<items, run>>
             /\ popper' = IF drain \/ cancelled THEN "exited" ELSE "waiting"
    <3>1. QueueTyped' /\ TopicIsDistinct' /\ CustodyIsFetched'
      BY <2>1, <2>3 DEF QueueTyped, TopicIsDistinct, CustodyIsFetched, Begun
    <3>2. Handover'
      BY <2>1, <2>3 DEF Handover
    <3> QED
      BY <3>1, <3>2
  <2> QED
    BY <1>8, <2>2, <2>3 DEF Pop
<1>9. ASSUME NEW m \in Msgs, TaskStep(m) PROVE QueueInv'
  <2>1. /\ UNCHANGED <<topic, position, fetcher, hand, items, drain, popper, cancelled>>
        /\ run[m] # "none"
        /\ \E p \in {"acquire", "running", "commit", "done"} :
             run' = [run EXCEPT ![m] = p]
    BY <1>9 DEF TaskStep, Skip, Admit, Acquire, Return, CommitMessage, queueVars
  <2>2. Begun' = Begun /\ QueueTyped'
    BY <2>1 DEF Begun, QueueTyped
  <2> QED
    BY <2>1, <2>2 DEF TopicIsDistinct, CustodyIsFetched, Handover
<1>10. CASE UNCHANGED vars
  BY <1>10 DEF vars, QueueTyped, TopicIsDistinct, CustodyIsFetched, Begun, Handover
<1> QED
  BY <1>1, <1>2, <1>3, <1>4, <1>5, <1>6, <1>7, <1>8, <1>9, <1>10
  DEF Next, FetcherStep

-----------------------------------------------------------------------------
(* Refinement *)

LEMMA DispatcherInit == Init => D!DispatchInit
BY DEF Init, D!DispatchInit

LEMMA DispatcherStep ==
  QueueInv /\ [Next]_vars => [D!DispatchNext]_(D!dispatchVars)
<1> SUFFICES ASSUME QueueInv, [Next]_vars
             PROVE  D!DispatchNext \/ UNCHANGED D!dispatchVars
  OBVIOUS
<1> USE DEF QueueInv, Begun
<1>1. ASSUME UNCHANGED <<hand, items, popper, cancelled>>, Begun' = Begun
      PROVE  UNCHANGED D!dispatchVars
  BY <1>1 DEF D!dispatchVars
<1>2. CASE \/ \E m \in Msgs : Produce(m)
           \/ RequestDrain \/ Exit \/ Check \/ FetchError \/ UNCHANGED vars
  BY <1>1, <1>2
  DEF Produce, RequestDrain, Exit, Check, FetchError, vars, queueVars
<1>3. CASE Signal
  <2>1. D!Cancel
    BY <1>3 DEF Signal, D!Cancel, queueVars, QueueTyped
  <2> QED
    BY <2>1 DEF D!DispatchNext
<1>4. CASE FetchMessage
  <2>1. /\ position < Len(topic) /\ fetcher = "fetch"
        /\ UNCHANGED <<items, popper, run, cancelled>>
        /\ UNCHANGED hand \/ hand' = {topic[position + 1]}
    BY <1>4 DEF FetchMessage
  <2>2. /\ topic[position + 1] \in Msgs
        /\ topic[position + 1] \notin hand \cup items \cup Begun
    BY <2>1, NextIsNew
  <2>3. hand = {} /\ (popper = "exited" => cancelled)
    BY <2>1 DEF Handover
  <2>4. CASE hand' = {topic[position + 1]}
    <3>1. D!Accept(topic[position + 1])
      BY <2>1, <2>2, <2>3, <2>4 DEF D!Accept
    <3> QED
      BY <2>2, <3>1 DEF D!DispatchNext
  <2>5. CASE UNCHANGED hand
    BY <1>1, <2>1, <2>5
  <2> QED
    BY <2>1, <2>4, <2>5
<1>5. CASE Push \/ SetDrain
  <2>1. /\ hand' \cup items' = hand \cup items /\ UNCHANGED <<run, cancelled>>
        /\ popper' = Woken
    BY <1>5 DEF Push, SetDrain
  <2>2. popper' = "exited" <=> popper = "exited"
    BY <2>1 DEF Woken, QueueTyped
  <2> QED
    BY <2>1, <2>2 DEF D!dispatchVars
<1>6. CASE Pop
  <2>1. UNCHANGED <<hand, drain, cancelled, fetcher>> /\ popper = "pop"
    BY <1>6 DEF Pop
  <2>2. CASE \E m \in items : /\ items' = items \ {m}
                             /\ run' = [run EXCEPT ![m] = "admit"]
                             /\ UNCHANGED popper
    <3>1. PICK m \in items : /\ items' = items \ {m}
                             /\ run' = [run EXCEPT ![m] = "admit"]
                             /\ UNCHANGED popper
      BY <2>2
    <3>2. m \in Msgs /\ m \notin hand
      BY <3>1 DEF QueueTyped, Handover
    <3>3. Begun' = Begun \cup {m}
      BY <3>1, <3>2 DEF QueueTyped
    <3>4. D!Begin(m)
      BY <2>1, <3>1, <3>2, <3>3 DEF D!Begin
    <3> QED
      BY <3>2, <3>4 DEF D!DispatchNext
  <2>3. CASE items = {} /\ UNCHANGED <<items, run>> /\ popper' = "waiting"
    BY <2>1, <2>3 DEF D!dispatchVars
  <2>4. CASE /\ items = {} /\ UNCHANGED <<items, run>>
             /\ popper' = "exited" /\ (drain \/ cancelled)
    <3>1. CASE cancelled
      BY <2>1, <2>4, <3>1 DEF D!dispatchVars
    <3>2. CASE ~cancelled
      <4>1. hand = {}
        BY <2>4, <3>2 DEF Handover
      <4>2. D!Close
        BY <2>1, <2>4, <3>2, <4>1 DEF D!Close
      <4> QED
        BY <4>2 DEF D!DispatchNext
    <3> QED
      BY <3>1, <3>2
  <2> QED
    BY <1>6, <2>2, <2>3, <2>4 DEF Pop
<1>7. ASSUME NEW m \in Msgs, TaskStep(m) PROVE UNCHANGED D!dispatchVars
  <2>1. /\ UNCHANGED <<hand, items, popper, cancelled>>
        /\ run[m] # "none"
        /\ \E p \in {"acquire", "running", "commit", "done"} :
             run' = [run EXCEPT ![m] = p]
    BY <1>7 DEF TaskStep, Skip, Admit, Acquire, Return, CommitMessage, queueVars
  <2>2. Begun' = Begun
    BY <2>1 DEF QueueTyped
  <2> QED
    BY <1>1, <2>1, <2>2
<1> QED
  BY <1>2, <1>3, <1>4, <1>5, <1>6, <1>7 DEF Next, FetcherStep

\* RunConsumer implements Dispatcher: every message that it fetches is begun once,
\* and when a drain ends it, none is left in its queue or in its hand.
THEOREM ConsumerDispatches == Spec => ImplementsDispatcher
<1>1. Spec => []QueueInv
  BY QueueInvInit, QueueInvNext, PTL DEF Spec
<1> QED
  BY <1>1, DispatcherInit, DispatcherStep, PTL
  DEF Spec, ImplementsDispatcher, D!DispatchSpec

\* The loop never waits on the condition variable while there is an item or a drain
\* to be noticed: no wakeup is lost.
THEOREM WakeupsArrive == Spec => []NoLostWakeup
<1>1. Init => NoLostWakeup
  BY DEF Init, NoLostWakeup
<1>2. NoLostWakeup /\ [Next]_vars => NoLostWakeup'
  <2> SUFFICES ASSUME NoLostWakeup, [Next]_vars PROVE NoLostWakeup'
    OBVIOUS
  <2>1. CASE Push \/ SetDrain
    BY <2>1 DEF Push, SetDrain, Woken, NoLostWakeup
  <2>2. CASE Pop
    BY <2>2 DEF Pop, NoLostWakeup
  <2>3. CASE \/ RequestDrain \/ Signal \/ Exit \/ Check \/ FetchMessage \/ FetchError
             \/ \E m \in Msgs : Produce(m) \/ TaskStep(m)
             \/ UNCHANGED vars
    BY <2>3 DEF RequestDrain, Signal, Exit, Check, FetchMessage, FetchError,
                Produce, TaskStep, Skip, Admit, Acquire, Return, CommitMessage,
                queueVars, vars, NoLostWakeup
  <2> QED
    BY <2>1, <2>2, <2>3 DEF Next, FetcherStep
<1> QED
  BY <1>1, <1>2, PTL DEF Spec

-----------------------------------------------------------------------------
(* The limiter *)

\* The goroutines that run a handler of type y.
Inside(y) == {m \in Msgs : run[m] = "running" /\ Type[m] = y}

SlotsTyped ==
  /\ run \in [Msgs -> {"none", "admit", "acquire", "running", "commit", "done"}]
  /\ slots \in [Types -> Nat]

SlotInv ==
  /\ SlotsTyped
  /\ \A y \in Types : IsFiniteSet(Inside(y))
  /\ SlotsAreHeld

\* A goroutine goes inside, and takes a slot if there is a limit.
LEMMA SlotAcquired ==
  ASSUME SlotInv, NEW m \in Msgs, Acquire(m)
  PROVE  SlotInv'
<1> USE DEF SlotInv
<1>0. Limit \in Nat /\ Type[m] \in Types
  BY ConsumerAssumption DEF ConsumerAssumption
<1>1. /\ run[m] = "acquire" /\ run' = [run EXCEPT ![m] = "running"]
      /\ \/ Limit = 0 /\ slots' = slots
         \/ /\ slots[Type[m]] < Limit
            /\ slots' = [slots EXCEPT ![Type[m]] = @ + 1]
  BY DEF Acquire
<1>2. SlotsTyped'
  BY <1>1 DEF SlotsTyped
<1>3. Inside(Type[m])' = Inside(Type[m]) \cup {m} /\ m \notin Inside(Type[m])
  BY <1>1 DEF SlotsTyped, Inside
<1>4. \A y \in Types \ {Type[m]} : Inside(y)' = Inside(y)
  BY <1>1 DEF SlotsTyped, Inside
<1>5. /\ IsFiniteSet(Inside(Type[m])')
      /\ Cardinality(Inside(Type[m])') = Cardinality(Inside(Type[m])) + 1
      /\ Cardinality(Inside(Type[m])) \in Nat
  BY <1>0, <1>3, FS_AddElement, FS_CardinalityType
<1>6. ASSUME NEW y \in Types
      PROVE  /\ IsFiniteSet(Inside(y))'
             /\ (Limit > 0 => slots[y] <= Limit)'
             /\ (slots[y] = IF Limit = 0 THEN 0 ELSE Cardinality(Inside(y)))'
  <2>1. CASE y # Type[m]
    BY <1>1, <1>4, <2>1 DEF SlotsAreHeld, SlotsTyped, Inside
  <2>2. CASE y = Type[m]
    <3>1. slots[y] \in Nat
      BY DEF SlotsTyped
    <3>2. slots[y] = IF Limit = 0 THEN 0 ELSE Cardinality(Inside(y))
      BY DEF SlotsAreHeld, Inside
    <3> QED
      BY <1>0, <1>1, <1>5, <2>2, <3>1, <3>2 DEF SlotsTyped
  <2> QED
    BY <2>1, <2>2
<1> QED
  BY <1>2, <1>6 DEF SlotsAreHeld, Inside

\* A goroutine comes out, and gives its slot back.
LEMMA SlotReleased ==
  ASSUME SlotInv, NEW m \in Msgs, Return(m)
  PROVE  SlotInv'
<1> USE DEF SlotInv
<1>0. Limit \in Nat /\ Type[m] \in Types
  BY ConsumerAssumption DEF ConsumerAssumption
<1>1. /\ run[m] = "running" /\ run' = [run EXCEPT ![m] = "commit"]
      /\ slots' = IF Limit = 0 THEN slots ELSE [slots EXCEPT ![Type[m]] = @ - 1]
  BY DEF Return
<1>2. Inside(Type[m])' = Inside(Type[m]) \ {m} /\ m \in Inside(Type[m])
  BY <1>1 DEF SlotsTyped, Inside
<1>3. \A y \in Types \ {Type[m]} : Inside(y)' = Inside(y)
  BY <1>1 DEF SlotsTyped, Inside
<1>4. /\ IsFiniteSet(Inside(Type[m])')
      /\ Cardinality(Inside(Type[m])') = Cardinality(Inside(Type[m])) - 1
      /\ Cardinality(Inside(Type[m])') \in Nat
      /\ Cardinality(Inside(Type[m])) \in Nat
  BY <1>0, <1>2, FS_RemoveElement, FS_CardinalityType
<1>5. \A y \in Types : /\ slots[y] \in Nat
                       /\ Limit > 0 => slots[y] <= Limit
                       /\ slots[y] = IF Limit = 0 THEN 0 ELSE Cardinality(Inside(y))
  BY DEF SlotsTyped, SlotsAreHeld, Inside
<1>6. SlotsTyped'
  <2>1. run' \in [Msgs -> {"none", "admit", "acquire", "running", "commit", "done"}]
    BY <1>1 DEF SlotsTyped
  <2>2. Limit # 0 => slots[Type[m]] - 1 \in Nat
    BY <1>0, <1>4, <1>5
  <2> QED
    BY <1>0, <1>1, <2>1, <2>2 DEF SlotsTyped
<1>7. ASSUME NEW y \in Types
      PROVE  /\ IsFiniteSet(Inside(y))'
             /\ (Limit > 0 => slots[y] <= Limit)'
             /\ (slots[y] = IF Limit = 0 THEN 0 ELSE Cardinality(Inside(y)))'
  <2>1. CASE y # Type[m]
    BY <1>1, <1>3, <1>5, <2>1 DEF SlotsTyped
  <2>2. CASE y = Type[m]
    BY <1>0, <1>1, <1>4, <1>5, <2>2 DEF SlotsTyped
  <2> QED
    BY <2>1, <2>2
<1> QED
  BY <1>6, <1>7 DEF SlotsAreHeld, Inside

\* What is in hand or in the queue has no goroutine yet.
WaitingIsNotBegun == \A m \in hand \cup items : run[m] = "none"

LEMMA WaitingNext ==
  ASSUME QueueInv, WaitingIsNotBegun, [Next]_vars
  PROVE  WaitingIsNotBegun'
<1> USE DEF QueueInv
<1>0. hand \subseteq Msgs /\ items \subseteq Msgs
  BY DEF QueueTyped
<1>1. CASE FetchMessage
  <2>1. position < Len(topic) /\ UNCHANGED <<items, run>>
        /\ (UNCHANGED hand \/ hand' = {topic[position + 1]})
    BY <1>1 DEF FetchMessage
  <2> QED
    BY <2>1, NextIsNew DEF WaitingIsNotBegun, Begun
<1>2. CASE Push
  BY <1>2 DEF Push, WaitingIsNotBegun
<1>3. CASE Pop
  <2>1. \/ UNCHANGED <<items, run>>
        \/ \E m \in items : /\ items' = items \ {m}
                            /\ run' = [run EXCEPT ![m] = "admit"]
    BY <1>3 DEF Pop
  <2>2. UNCHANGED hand
    BY <1>3 DEF Pop
  <2> QED
    BY <1>0, <2>1, <2>2 DEF WaitingIsNotBegun, Handover, QueueTyped
<1>4. ASSUME NEW m \in Msgs, TaskStep(m)
      PROVE  WaitingIsNotBegun'
  <2>1. UNCHANGED <<hand, items>> /\ run[m] # "none"
    BY <1>4 DEF TaskStep, Skip, Admit, Acquire, Return, CommitMessage, queueVars
  <2>2. \A k \in Msgs \ {m} : run'[k] = run[k]
    BY <1>4 DEF TaskStep, Skip, Admit, Acquire, Return, CommitMessage, QueueTyped
  <2> QED
    BY <1>0, <2>1, <2>2 DEF WaitingIsNotBegun
<1>5. CASE UNCHANGED <<hand, items, run>>
  BY <1>5 DEF WaitingIsNotBegun
<1> QED
  BY <1>1, <1>2, <1>3, <1>4, <1>5
  DEF Next, vars, queueVars, RequestDrain, Signal, Exit, FetcherStep, Check, SetDrain,
      FetchError, Produce

LEMMA SlotInvNext ==
  ASSUME QueueInv, WaitingIsNotBegun, SlotInv, [Next]_vars
  PROVE  SlotInv'
<1>1. ASSUME UNCHANGED slots, SlotsTyped',
             \A m \in Msgs : run'[m] = "running" <=> run[m] = "running"
      PROVE  SlotInv'
  <2>1. \A y \in Types : Inside(y)' = Inside(y)
    BY <1>1 DEF Inside
  <2> QED
    BY <1>1, <2>1 DEF SlotInv, SlotsAreHeld, Inside
<1>2. CASE UNCHANGED <<run, slots>>
  BY <1>1, <1>2 DEF SlotInv, SlotsTyped
<1>3. CASE Pop
  <2>1. \/ UNCHANGED run
        \/ \E m \in items : run' = [run EXCEPT ![m] = "admit"]
    BY <1>3 DEF Pop
  <2>2. UNCHANGED slots
    BY <1>3 DEF Pop
  <2>3. ASSUME NEW m \in items, run' = [run EXCEPT ![m] = "admit"]
        PROVE  SlotInv'
    <3>1. m \in Msgs /\ run[m] = "none"
      BY DEF QueueInv, QueueTyped, WaitingIsNotBegun
    <3> QED
      BY <1>1, <2>2, <2>3, <3>1 DEF SlotInv, SlotsTyped
  <2> QED
    BY <1>2, <2>1, <2>2, <2>3
<1>4. ASSUME NEW m \in Msgs, Skip(m) \/ Admit(m) \/ CommitMessage(m)
      PROVE  SlotInv'
  BY <1>1, <1>4 DEF Skip, Admit, CommitMessage, SlotInv, SlotsTyped
<1> QED
  BY <1>2, <1>3, <1>4, SlotAcquired, SlotReleased
  DEF Next, vars, queueVars, RequestDrain, Signal, Exit, FetcherStep, Check,
      FetchMessage, Push, SetDrain, FetchError, Produce, TaskStep

LEMMA SlotInvInit == Init => WaitingIsNotBegun /\ SlotInv
<1> SUFFICES ASSUME Init PROVE WaitingIsNotBegun /\ SlotInv
  OBVIOUS
<1>1. hand = {} /\ items = {} /\ Limit \in Nat
  BY ConsumerAssumption DEF Init, ConsumerAssumption
<1>2. \A y \in Types : Inside(y) = {} /\ slots[y] = 0
  BY DEF Init, Inside
<1>3. SlotsTyped
  BY DEF Init, SlotsTyped
<1> QED
  BY <1>1, <1>2, <1>3, FS_EmptySet DEF WaitingIsNotBegun, SlotInv, SlotsAreHeld, Inside

\* The slots of a type are those of the goroutines inside, at most as many as the
\* limiter admits, whichever way process returns.
THEOREM SlotsAreAccountedFor == Spec => []SlotsAreHeld
<1>1. QueueInv /\ WaitingIsNotBegun /\ SlotInv /\ [Next]_vars
        => (QueueInv /\ WaitingIsNotBegun /\ SlotInv)'
  BY QueueInvNext, WaitingNext, SlotInvNext
<1>2. SlotInv => SlotsAreHeld
  BY DEF SlotInv
<1> QED
  BY <1>1, <1>2, QueueInvInit, SlotInvInit, PTL DEF Spec

-----------------------------------------------------------------------------
(* Types *)

\* The part of the type invariant that is neither the queue's nor the limiter's.
ProcessTyped ==
  /\ fetcher \in {"check", "fetch", "push", "drain", "exited"}
  /\ drain \in BOOLEAN
  /\ drainRequested \in BOOLEAN
  /\ up \in BOOLEAN

LEMMA ProcessTypedNext ==
  ASSUME ProcessTyped, [Next]_vars
  PROVE  ProcessTyped'
<1> USE DEF ProcessTyped
<1>1. CASE RequestDrain \/ Signal \/ Exit
  BY <1>1 DEF RequestDrain, Signal, Exit, queueVars
<1>2. CASE FetcherStep \/ FetchError
  BY <1>2 DEF FetcherStep, Check, FetchMessage, Push, SetDrain, FetchError
<1>3. CASE Pop
  BY <1>3 DEF Pop
<1>4. ASSUME NEW m \in Msgs, Produce(m) \/ TaskStep(m)
      PROVE  ProcessTyped'
  BY <1>4 DEF Produce, TaskStep, Skip, Admit, Acquire, Return, CommitMessage, queueVars
<1>5. CASE UNCHANGED vars
  BY <1>5 DEF vars
<1> QED
  BY <1>1, <1>2, <1>3, <1>4, <1>5 DEF Next

\* The queue, the goroutines and the limiter stay of their types; that no slot counter
\* becomes negative rests on SlotsAreHeld.
THEOREM ConsumerTypes == Spec => []ConsumerTypeOK
<1>1. Init => ProcessTyped
  BY DEF Init, ProcessTyped
<1>2. Init => QueueInv /\ WaitingIsNotBegun /\ SlotInv
  BY QueueInvInit, SlotInvInit
<1>3. QueueInv /\ WaitingIsNotBegun /\ SlotInv /\ ProcessTyped /\ [Next]_vars
        => (QueueInv /\ WaitingIsNotBegun /\ SlotInv /\ ProcessTyped)'
  BY QueueInvNext, WaitingNext, SlotInvNext, ProcessTypedNext
<1>4. QueueInv /\ SlotInv /\ ProcessTyped => ConsumerTypeOK
  BY DEF QueueInv, QueueTyped, SlotInv, SlotsTyped, ProcessTyped, ConsumerTypeOK
<1> QED
  BY <1>1, <1>2, <1>3, <1>4, PTL DEF Spec
=============================================================================
