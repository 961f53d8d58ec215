--------------------------- MODULE FrontEndsProofs ---------------------------
(***************************************************************************)
(* Proofs about RateLimiter, and about FrontEnds: the limiter inside the   *)
(* API server, with its two questions for each request, its many requests  *)
(* at once and its restarts, is the limiter of RateLimiter, so that what   *)
(* is proved of the one holds of the other; the system behind the server   *)
(* keeps its promises; what users are told is true; and trying again after *)
(* an error makes no more duplicates than there were failures.             *)
(***************************************************************************)
EXTENDS FrontEnds, JobSystemPromiseProofs, FiniteSetTheorems

-----------------------------------------------------------------------------
(* Arithmetic, and what a bucket holds *)

LEMMA Distribute ==
  ASSUME NEW a \in Int, NEW b \in Int, NEW c \in Int
  PROVE  c * (a + b) = c * a + c * b /\ (a + b) * c = a * c + b * c
OBVIOUS

LEMMA ProductIsInt ==
  ASSUME NEW a \in Int, NEW b \in Int
  PROVE  a * b \in Int
OBVIOUS

LEMMA Monotone ==
  ASSUME NEW a \in Nat, NEW b \in Nat, NEW c \in Nat, a <= b
  PROVE  a * c <= b * c
<1> DEFINE d == b - a
<1>1. d \in Nat /\ b = a + d
  OBVIOUS
<1>2. b * c = a * c + d * c
  BY <1>1, Distribute
<1>3. d * c \in Nat /\ a * c \in Nat
  BY <1>1
<1> QED BY <1>2, <1>3

LEMMA RatesAreNat == \A b \in Buckets : Rate(b) \in Nat
BY LimiterAssumption DEF Rate

\* A limit that is set lets at least one request through at once, and never more
\* than the requests of a minute.
LEMMA BurstBounds ==
  ASSUME NEW p \in Nat
  PROVE  Burst(p) \in Nat /\ Burst(p) <= p /\ (p > 0 => Burst(p) >= 1)
<1>1. CASE p < 60
  BY <1>1 DEF Burst
<1>2. CASE p >= 60
  <2>1. p \div 6 \in Nat /\ p \div 6 <= p /\ p \div 6 >= 1
    BY <1>2
  <2> QED BY <1>2, <2>1 DEF Burst
<1> QED BY <1>1, <1>2

LEMMA FullIsNat ==
  \A b \in Buckets : Full(b) \in Nat /\ (Limited(b) => Full(b) >= Minute)
<1> SUFFICES ASSUME NEW b \in Buckets
             PROVE  Full(b) \in Nat /\ (Limited(b) => Full(b) >= Minute)
  OBVIOUS
<1> DEFINE r == Rate(b)
           u == Burst(r)
<1>1. r \in Nat
  BY RatesAreNat
<1>2. u \in Nat /\ (r > 0 => u >= 1)
  BY <1>1, BurstBounds
<1>3. u * Minute \in Nat
  BY <1>2, LimiterAssumption
<1>4. u >= 1 => 1 * Minute <= u * Minute
  BY <1>2, LimiterAssumption, Monotone
<1> QED BY <1>2, <1>3, <1>4, LimiterAssumption DEF Full, Limited

\* What a bucket holds by now: no more than it can, and no more than it gained.
LEMMA LevelNowBounds ==
  ASSUME LimiterTypeOK, NEW b \in Buckets
  PROVE  /\ LevelNow(b) \in Nat
         /\ LevelNow(b) <= Full(b)
         /\ LevelNow(b) <= level[b] + Rate(b) * (now - last[b])
         /\ Rate(b) * (now - last[b]) \in Nat
<1> DEFINE s == now - last[b]
           g == Rate(b) * s
<1>1. s \in Nat /\ Rate(b) \in Nat /\ level[b] \in Nat /\ Full(b) \in Nat
  BY RatesAreNat, FullIsNat DEF LimiterTypeOK
<1>2. g \in Nat
  BY <1>1
<1> HIDE DEF g
<1>3. LevelNow(b) = IF level[b] + g < Full(b) THEN level[b] + g ELSE Full(b)
  BY DEF LevelNow, g
<1> QED BY <1>1, <1>2, <1>3 DEF g

-----------------------------------------------------------------------------
(* A bucket gives no more than it had and gained *)

\* The tokens given since the i-th one, that one included, and those left, were
\* all in the bucket then or gained since.
Budget ==
  \A b \in Buckets : \A i \in 1 .. Len(taken[b]) :
    /\ taken[b][i] <= last[b]
    /\ (Len(taken[b]) - i + 1) * Minute + level[b]
         <= Full(b) + Rate(b) * (last[b] - taken[b][i])

LimiterInv == LimiterTypeOK /\ Budget /\ LimitRespected

LEMMA LimiterStarts == LimiterInit => LimiterInv
<1> SUFFICES ASSUME LimiterInit PROVE LimiterInv
  OBVIOUS
<1>1. LimiterTypeOK
  BY FullIsNat DEF LimiterInit, LimiterTypeOK
<1>2. \A b \in Buckets : taken[b] = << >>
  BY DEF LimiterInit
<1> QED BY <1>1, <1>2 DEF LimiterInv, Budget, LimitRespected

\* The bucket that gives a token.
LEMMA TakeKeepsBudget ==
  ASSUME LimiterInv, NEW c \in Buckets, Take(c), UNCHANGED now
  PROVE  LimiterInv'
<1> DEFINE n == Len(taken[c])
<1>1. LimiterTypeOK /\ Minute \in Nat \ {0} /\ Rate(c) \in Nat /\ Full(c) \in Nat
  BY LimiterAssumption, RatesAreNat, FullIsNat DEF LimiterInv
<1>2. LevelNow(c) \in Nat /\ LevelNow(c) <= Full(c) /\ LevelNow(c) >= Minute
      /\ LevelNow(c) <= level[c] + Rate(c) * (now - last[c])
  BY <1>1, LevelNowBounds DEF Take, HasToken
<1>3. /\ level' = [level EXCEPT ![c] = LevelNow(c) - Minute]
      /\ last' = [last EXCEPT ![c] = now]
      /\ taken' = [taken EXCEPT ![c] = Append(@, now)]
      /\ now' = now
  BY DEF Take
<1>4. \A b \in Buckets \ {c} :
        level'[b] = level[b] /\ last'[b] = last[b] /\ taken'[b] = taken[b]
  BY <1>1, <1>3 DEF LimiterTypeOK
<1>5. level'[c] = LevelNow(c) - Minute /\ last'[c] = now /\ now \in Nat
  BY <1>1, <1>3 DEF LimiterTypeOK
<1>6. /\ taken'[c] = Append(taken[c], now)
      /\ taken[c] \in Seq(Nat)
      /\ n \in Nat /\ Len(taken'[c]) = n + 1
      /\ taken'[c][n + 1] = now
      /\ \A i \in 1 .. n : taken'[c][i] = taken[c][i] /\ taken[c][i] \in Nat
  BY <1>1, <1>3 DEF LimiterTypeOK
<1>7. \A b \in Buckets : Full(b)' = Full(b) /\ Rate(b)' = Rate(b)
  BY DEF Full, Rate
<1>8. LimiterTypeOK'
  <2>1. level' \in [Buckets -> Nat] /\ last' \in [Buckets -> Nat]
        /\ taken' \in [Buckets -> Seq(Nat)] /\ now' \in Nat
    BY <1>1, <1>2, <1>3, <1>5, <1>6 DEF LimiterTypeOK
  <2>2. ASSUME NEW b \in Buckets PROVE level'[b] <= Full(b) /\ last'[b] <= now'
    <3>1. CASE b = c
      BY <3>1, <1>1, <1>2, <1>3, <1>5
    <3>2. CASE b # c
      BY <3>2, <1>1, <1>3, <1>4 DEF LimiterTypeOK
    <3> QED BY <3>1, <3>2
  <2> QED BY <2>1, <2>2, <1>7 DEF LimiterTypeOK
<1>9. ASSUME NEW i \in 1 .. n + 1
      PROVE  /\ taken'[c][i] <= now
             /\ (n + 1 - i + 1) * Minute + level'[c]
                  <= Full(c) + Rate(c) * (now - taken'[c][i])
  <2>1. CASE i = n + 1
    <3>1. (n + 1 - i + 1) * Minute = Minute
      BY <2>1, <1>1, <1>6
    <3>2. Rate(c) * (now - taken'[c][i]) = 0
      BY <2>1, <1>1, <1>5, <1>6
    <3> QED BY <2>1, <3>1, <3>2, <1>1, <1>2, <1>5, <1>6
  <2>2. CASE i \in 1 .. n
    <3> DEFINE t == taken[c][i]
               l == last[c]
               r == Rate(c)
               a == (n - i + 1) * Minute
    <3>1. /\ t \in Nat /\ l \in Nat /\ t <= l /\ l <= now
          /\ a + level[c] <= Full(c) + r * (l - t)
          /\ level[c] \in Nat
      BY <2>2, <1>1, <1>6 DEF LimiterInv, Budget, LimiterTypeOK
    <3>2. taken'[c][i] = t /\ r \in Nat
      BY <2>2, <1>1, <1>6
    <3>3. LevelNow(c) <= level[c] + r * (now - l)
      BY <1>2
    <3> HIDE DEF t, l, r
    <3>4. r \in Int /\ l - t \in Int /\ now - l \in Int /\ now - t = (l - t) + (now - l)
      BY <3>1, <3>2, <1>5
    <3>5. r * (now - t) = r * (l - t) + r * (now - l)
      BY <3>4, Distribute
    <3>6. r * (l - t) \in Int /\ r * (now - l) \in Int
      BY <3>4, ProductIsInt
    <3>7. (n + 1 - i + 1) * Minute = a + Minute /\ a \in Int
      <4>1. n + 1 - i + 1 = (n - i + 1) + 1 /\ n - i + 1 \in Int
        BY <2>2, <1>6
      <4> QED BY <4>1, <1>1, Distribute, ProductIsInt
    <3> HIDE DEF a
    <3> DEFINE u == r * (l - t)
               v == r * (now - l)
               w == r * (now - t)
               k == LevelNow(c)
               z == level[c]
    <3>8. /\ u \in Int /\ v \in Int /\ w = u + v /\ a \in Int /\ k \in Nat /\ z \in Nat
          /\ a + z <= Full(c) + u /\ k <= z + v /\ Full(c) \in Nat
      BY <3>1, <3>3, <3>5, <3>6, <3>7, <1>1, <1>2
    <3> HIDE DEF u, v, w, k, z
    <3>9. a + Minute + (k - Minute) <= Full(c) + w
      BY <3>8, <1>1
    <3>10. a + Minute + (LevelNow(c) - Minute) <= Full(c) + r * (now - t)
      BY <3>9 DEF k, w
    <3>11. t <= now
      BY <3>1, <1>5
    <3> QED BY <3>2, <3>7, <3>10, <3>11, <1>5 DEF r
  <2> QED BY <2>1, <2>2, <1>6
<1>10. Budget'
  <2>1. ASSUME NEW b \in Buckets, NEW i \in 1 .. Len(taken'[b])
        PROVE  /\ taken'[b][i] <= last'[b]
               /\ (Len(taken'[b]) - i + 1) * Minute + level'[b]
                    <= Full(b) + Rate(b) * (last'[b] - taken'[b][i])
    <3>1. CASE b = c
      BY <3>1, <1>5, <1>6, <1>9
    <3>2. CASE b # c
      BY <3>2, <1>4 DEF LimiterInv, Budget
    <3> QED BY <3>1, <3>2
  <2> QED BY <2>1, <1>7 DEF Budget
<1>11. LimitRespected'
  <2>1. ASSUME NEW b \in Buckets, NEW i \in 1 .. Len(taken'[b]),
               NEW j \in 1 .. Len(taken'[b]), i <= j
        PROVE  (j - i + 1) * Minute
                 <= Full(b) + Rate(b) * (taken'[b][j] - taken'[b][i])
    <3>1. CASE b # c
      BY <3>1, <2>1, <1>4 DEF LimiterInv, LimitRespected
    <3>2. CASE b = c /\ j = n + 1
      <4>1. (n + 1 - i + 1) * Minute + level'[c]
              <= Full(c) + Rate(c) * (now - taken'[c][i])
        BY <3>2, <1>6, <1>9
      <4>2. level'[c] \in Nat /\ (n + 1 - i + 1) * Minute \in Int
        BY <3>2, <1>1, <1>2, <1>5, <1>6
      <4>3. taken'[c][i] \in Nat
        BY <3>2, <1>5, <1>6
      <4>4. Rate(c) * (now - taken'[c][i]) \in Int
        <5>1. Rate(c) \in Int /\ now - taken'[c][i] \in Int
          BY <4>3, <1>1, <1>5
        <5> QED BY <5>1, ProductIsInt
      <4> DEFINE x == (n + 1 - i + 1) * Minute
                 y == Rate(c) * (now - taken'[c][i])
                 z == level'[c]
      <4>5. x \in Int /\ y \in Int /\ z \in Nat /\ x + z <= Full(c) + y /\ Full(c) \in Nat
        BY <4>1, <4>2, <4>4, <1>1
      <4> HIDE DEF x, y, z
      <4>6. x <= Full(c) + y
        BY <4>5
      <4> QED BY <3>2, <4>6, <1>6 DEF x, y
    <3>3. CASE b = c /\ j # n + 1
      <4>1. i \in 1 .. n /\ j \in 1 .. n
        BY <3>3, <2>1, <1>6
      <4> QED BY <3>3, <4>1, <2>1, <1>6 DEF LimiterInv, LimitRespected
    <3> QED BY <3>1, <3>2, <3>3
  <2> QED BY <2>1, <1>7 DEF LimitRespected
<1> QED BY <1>8, <1>10, <1>11 DEF LimiterInv

LEMMA LimiterKeeps == LimiterInv /\ [LimiterNext]_<<now, limiterVars>> => LimiterInv'
<1> SUFFICES ASSUME LimiterInv, [LimiterNext]_<<now, limiterVars>>
             PROVE  LimiterInv'
  OBVIOUS
<1>1. ASSUME NEW b \in Buckets, Take(b), UNCHANGED now
      PROVE  LimiterInv'
  BY <1>1, TakeKeepsBudget
<1>2. ASSUME now' \in Nat, now' >= now, UNCHANGED limiterVars
      PROVE  LimiterInv'
  <2>1. LimiterTypeOK'
    BY <1>2 DEF LimiterInv, LimiterTypeOK, limiterVars, Full, Rate
  <2>2. Budget' /\ LimitRespected'
    BY <1>2 DEF LimiterInv, Budget, LimitRespected, limiterVars, Full, Rate
  <2> QED BY <2>1, <2>2 DEF LimiterInv
<1>3. CASE UNCHANGED <<now, limiterVars>>
  <2>1. now' \in Nat /\ now' >= now /\ UNCHANGED limiterVars
    BY <1>3 DEF LimiterInv, LimiterTypeOK
  <2> QED BY <2>1, <1>2
<1>4. ASSUME NewLimiter, UNCHANGED now
      PROVE  LimiterInv'
  <2>1. \A b \in Buckets : Full(b)' = Full(b) /\ Full(b) \in Nat
    BY FullIsNat DEF Full, Rate
  <2>2. LimiterTypeOK'
    BY <1>4, <2>1 DEF NewLimiter, LimiterInv, LimiterTypeOK
  <2>3. \A b \in Buckets : taken'[b] = << >>
    BY <1>4 DEF NewLimiter
  <2> QED BY <2>2, <2>3 DEF LimiterInv, Budget, LimitRespected
<1> QED BY <1>1, <1>2, <1>3, <1>4 DEF LimiterNext

\* Between any two requests that a bucket let through, it let through no more than
\* its burst and what it gained in between, for every limit and any interleaving
\* of requests to all the queues.
THEOREM LimitIsRespected == LimiterSpec => []LimitRespected
<1>1. LimiterInv => LimitRespected
  BY DEF LimiterInv
<1> QED BY <1>1, LimiterStarts, LimiterKeeps, PTL DEF LimiterSpec

\* After a minute without a grant the bucket has a token, for every limit.
LEMMA TokenAfterAMinute == LimiterInv => RetryAfterIsEnough
<1> SUFFICES ASSUME LimiterInv, NEW b \in Buckets, Limited(b), now >= last[b] + Minute
             PROVE  HasToken(b)
  BY DEF RetryAfterIsEnough
<1> DEFINE s == now - last[b]
<1>1. LimiterTypeOK /\ Minute \in Nat \ {0} /\ Rate(b) \in Nat /\ Rate(b) >= 1
  BY LimiterAssumption, RatesAreNat DEF LimiterInv, Limited
<1>2. level[b] \in Nat /\ now \in Nat /\ last[b] \in Nat /\ s \in Nat /\ s >= Minute
  BY <1>1 DEF LimiterTypeOK
<1>3. 1 * s <= Rate(b) * s
  BY <1>1, <1>2, Monotone
<1>4. Rate(b) * s >= Minute /\ Rate(b) * s \in Nat
  BY <1>1, <1>2, <1>3
<1>5. Full(b) \in Nat /\ Full(b) >= Minute
  BY FullIsNat
<1> HIDE DEF s
<1>6. LevelNow(b) = IF level[b] + Rate(b) * s < Full(b)
                    THEN level[b] + Rate(b) * s ELSE Full(b)
  BY DEF LevelNow, s
<1> QED BY <1>1, <1>2, <1>4, <1>5, <1>6 DEF HasToken

\* A caller who waits for the Retry-After of its refusal finds a token, unless
\* somebody else was given one, for every limit.
THEOREM RetryAfterSuffices == LimiterSpec => []RetryAfterIsEnough
<1> QED BY LimiterStarts, LimiterKeeps, TokenAfterAMinute, PTL DEF LimiterSpec

-----------------------------------------------------------------------------
(* The limiter inside the server *)

\* What the steps of the limiter rest on: the requests and the exchanges are
\* records, and a body names a queue that has a bucket.
Served ==
  /\ now \in Nat
  /\ APITypeOK
  /\ http \in [Jobs -> Exchanges]

LEMMA BodyType ==
  ASSUME now \in Nat, NEW i \in Wishes
  PROVE  BodyOf(Wish(i).endpoint.offer, Wish(i).key) \in [work: Works, maxRetry: Int]
<1> DEFINE o == Wish(i).endpoint.offer
           k == Wish(i).key
<1>1. o \in OfferType /\ k \in Keys \cup {NoKey}
  BY FrontEndsAssumption DEF EndpointType
<1>2. o.payload.good \in BOOLEAN /\ o.maxRetry \in Nat /\ o.delay \in Nat
  BY <1>1 DEF OfferType, PayloadType
<1>3. TypeOf(o.payload) \in JobTypes
  BY DEF TypeOf, JobTypes
<1>4. (IF o.delay = 0 THEN 0 ELSE now + Second) \in Nat
  BY <1>2, SecondAssumption
<1>5. DefaultQueue \in Queues
  BY StoreAssumption
<1> QED BY <1>1, <1>2, <1>3, <1>4, <1>5 DEF BodyOf, Works

LEMMA ServedStarts == FrontEndsInit => Served
<1> SUFFICES ASSUME FrontEndsInit PROVE Served
  OBVIOUS
<1>1. Blank \in Works
  BY StoreAssumption DEF Blank, Works, JobTypes
<1>2. APITypeOK
  BY <1>1 DEF FrontEndsInit, Init, APIInit, APITypeOK, Requests
<1>3. http \in [Jobs -> Exchanges]
  BY <1>1 DEF FrontEndsInit, RestInit, Exchanges
<1>4. now \in Nat
  BY DEF FrontEndsInit, LimiterInit
<1> QED BY <1>2, <1>3, <1>4 DEF Served

\* The steps of the backend keep the type of its requests.
LEMMA BackendServed ==
  ASSUME APITypeOK, NEW j \in Jobs, RequestStep(j)
  PROVE  APITypeOK' /\ now' = now
<1>1. CASE Lookup(j)
  BY <1>1 DEF Lookup, APITypeOK, Requests, Goto, Reply, SameKey
<1>2. CASE CreateRow(j)
  BY <1>2 DEF CreateRow, APITypeOK, Requests, Goto
<1>3. CASE Dispatch(j)
  BY <1>3 DEF Dispatch, APITypeOK, Requests, Goto, Reply
<1> QED BY <1>1, <1>2, <1>3 DEF RequestStep

LEMMA StageType ==
  ASSUME http \in [Jobs -> Exchanges], NEW j \in Jobs,
         NEW p \in {"global", "serving"}, AtStage(j, p)
  PROVE  http' \in [Jobs -> Exchanges]
<1>1. [http[j] EXCEPT !.pc = p] \in Exchanges
  BY DEF Exchanges
<1>2. http' = [http EXCEPT ![j] = [http[j] EXCEPT !.pc = p]]
  BY DEF AtStage
<1> QED BY <1>1, <1>2

LEMMA AnswerType ==
  ASSUME http \in [Jobs -> Exchanges], NEW j \in Jobs,
         NEW c \in {0, 201, 400, 429, 500}, NEW id \in SUBSET Jobs,
         Answer(j, c, id)
  PROVE  http' \in [Jobs -> Exchanges]
<1> DEFINE h1 == [http EXCEPT ![j].pc = "answered"]
           h2 == [h1 EXCEPT ![j].code = c]
           h3 == [h2 EXCEPT ![j].id = id]
           codes == {0, 201, 400, 429, 500}
           bodies == [work: Works, maxRetry: Int]
<1>1. c \in codes
  OBVIOUS
<1>2. h1 \in [Jobs -> Exchanges]
  BY DEF Exchanges
<1> HIDE DEF h1
<1>3. Exchanges = [pc: {"none", "received", "global", "serving", "answered", "dead"},
                   body: bodies, typed: BOOLEAN, code: codes,
                   id: SUBSET Jobs]
  BY DEF Exchanges
<1> HIDE DEF codes, bodies
<1>4. h2 \in [Jobs -> Exchanges]
  BY <1>1, <1>2, <1>3
<1> HIDE DEF h2
<1>5. h3 \in [Jobs -> Exchanges]
  BY <1>3, <1>4
<1>6. http' = h3
  BY DEF Answer, h1, h2
<1> QED BY <1>5, <1>6

LEMMA ServeKeeps ==
  ASSUME Served, NEW j \in Jobs, ServeStep(j)
  PROVE  Served' /\ [LimiterNext]_<<now, limiterVars>>
<1>1. now \in Nat /\ APITypeOK /\ http \in [Jobs -> Exchanges]
  BY DEF Served
<1>2. http[j].body \in [work: Works, maxRetry: Int] /\ http[j].body.work.queue \in Queues
  BY <1>1 DEF Exchanges, Works
<1>3. CASE RejectBody(j)
  <2>1. Answer(j, 400, {}) /\ UNCHANGED <<now, req, cancel, limiterVars>>
    BY <1>3 DEF RejectBody, storeVars, apiVars
  <2>2. http' \in [Jobs -> Exchanges]
    BY <1>1, <2>1, AnswerType
  <2> QED BY <1>1, <2>1, <2>2 DEF Served, APITypeOK
<1>4. CASE AskGlobal(j)
  <2>1. UNCHANGED <<now, req, cancel>> /\ (AtStage(j, "global") \/ Answer(j, 429, {}))
        /\ (Admits(Everything) \/ Refuses(Everything))
    BY <1>4 DEF AskGlobal, storeVars, apiVars
  <2>2. http' \in [Jobs -> Exchanges]
    BY <1>1, <2>1, StageType, AnswerType
  <2>3. [LimiterNext]_<<now, limiterVars>>
    BY <2>1 DEF Admits, Refuses, LimiterNext, Buckets
  <2> QED BY <1>1, <2>1, <2>2, <2>3 DEF Served, APITypeOK
<1>5. CASE AskQueue(j)
  <2> DEFINE q == http[j].body.work.queue
  <2>1. /\ UNCHANGED now
        /\ AtStage(j, "serving") \/ Answer(j, 429, {})
        /\ Admits(q) \/ Refuses(q)
        /\ Submit(j, http[j].body) \/ UNCHANGED <<req, cancel>>
    BY <1>5 DEF AskQueue, Submit, storeVars, apiVars
  <2>2. APITypeOK'
    BY <1>1, <1>2, <2>1 DEF Submit, APITypeOK, Requests
  <2>3. http' \in [Jobs -> Exchanges]
    BY <1>1, <2>1, StageType, AnswerType
  <2>4. [LimiterNext]_<<now, limiterVars>>
    BY <1>2, <2>1 DEF Admits, Refuses, LimiterNext, Buckets
  <2> QED BY <1>1, <2>1, <2>2, <2>3, <2>4 DEF Served
<1>6. CASE Respond(j)
  <2>1. req[j].reply \in SUBSET Jobs
    BY <1>1 DEF APITypeOK, Requests
  <2>2. UNCHANGED <<now, req, cancel, limiterVars>>
        /\ (Answer(j, 201, req[j].reply) \/ Answer(j, 500, {}))
    BY <1>6 DEF Respond, storeVars, apiVars
  <2>3. http' \in [Jobs -> Exchanges]
    BY <1>1, <2>1, <2>2, AnswerType
  <2> QED BY <1>1, <2>2, <2>3 DEF Served, APITypeOK
<1>7. CASE RequestStep(j) /\ UNCHANGED <<limiterVars, http>>
  BY <1>1, <1>7, BackendServed DEF Served
<1> QED BY <1>3, <1>4, <1>5, <1>6, <1>7 DEF ServeStep

LEMMA RestartKeeps ==
  ASSUME Served, RestartAPI
  PROVE  Served' /\ LimiterNext
<1>1. now \in Nat /\ APITypeOK /\ http \in [Jobs -> Exchanges]
  BY DEF Served
<1>2. /\ http' = [j \in Jobs |-> IF j \in Open THEN [http[j] EXCEPT !.pc = "dead"]
                                               ELSE http[j]]
      /\ req' = [j \in Jobs |->
                   IF req[j].pc \in {"lookup", "create", "dispatch"}
                   THEN [req[j] EXCEPT !.pc = "failed"] ELSE req[j]]
      /\ NewLimiter /\ now' = now /\ cancel' = cancel
  BY DEF RestartAPI
<1>3. http' \in [Jobs -> Exchanges]
  BY <1>1, <1>2 DEF Exchanges
<1>4. APITypeOK'
  BY <1>1, <1>2 DEF APITypeOK, Requests
<1> QED BY <1>1, <1>2, <1>3, <1>4 DEF Served, LimiterNext

LEMMA AskKeeps ==
  ASSUME Served, NEW i \in Wishes, Ask(i)
  PROVE  Served' /\ UNCHANGED <<now, limiterVars>>
<1> DEFINE j == CHOOSE k \in Unused : TRUE
           body == BodyOf(Wish(i).endpoint.offer, Wish(i).key)
<1>1. now \in Nat /\ APITypeOK /\ http \in [Jobs -> Exchanges]
  BY DEF Served
<1>2. j \in Jobs /\ body \in [work: Works, maxRetry: Int] /\ Wish(i).typed \in BOOLEAN
  <2>1. Unused # {} /\ Unused \subseteq Jobs
    BY DEF Ask, Unused
  <2> QED BY <1>1, <2>1, BodyType, FrontEndsAssumption
<1> HIDE DEF j, body
<1>3. /\ UNCHANGED <<now, req, cancel, limiterVars>>
      /\ Arrive(j, body, Wish(i).typed) \/ UNCHANGED http
  BY DEF Ask, storeVars, apiVars, j, body
<1>4. http' \in [Jobs -> Exchanges]
  BY <1>1, <1>2, <1>3 DEF Arrive, Exchanges
<1> QED BY <1>1, <1>3, <1>4 DEF Served, APITypeOK

LEMMA FrontEndsKeep ==
  Served /\ [FrontEndsNext]_frontVars => Served' /\ [LimiterNext]_<<now, limiterVars>>
<1> SUFFICES ASSUME Served, [FrontEndsNext]_frontVars
             PROVE  Served' /\ [LimiterNext]_<<now, limiterVars>>
  OBVIOUS
<1>1. ASSUME UNCHANGED <<now, apiVars, limiterVars, http>>
      PROVE  Served' /\ [LimiterNext]_<<now, limiterVars>>
  BY <1>1 DEF Served, APITypeOK, apiVars
<1>2. CASE Tick /\ UNCHANGED <<apiVars, workerVars, promoVars, limiterVars, http, call>>
  <2>1. now' = now + 1 /\ now \in Nat
    BY <1>2 DEF Tick, Served
  <2> QED BY <1>2, <2>1 DEF Served, APITypeOK, apiVars, LimiterNext
<1>3. ASSUME NEW i \in Wishes, Ask(i)
      PROVE  Served' /\ [LimiterNext]_<<now, limiterVars>>
  BY <1>3, AskKeeps
<1>4. ASSUME NEW j \in Jobs, CallStep(j) \/ LoseContact(j)
      PROVE  Served' /\ [LimiterNext]_<<now, limiterVars>>
  <2>1. CASE ServeStep(j)
    BY <2>1, ServeKeeps
  <2>2. CASE Deliver(j)
    BY <2>2, <1>1 DEF Deliver, storeVars
  <2>3. CASE LoseContact(j)
    BY <2>3, <1>1 DEF LoseContact
  <2> QED BY <1>4, <2>1, <2>2, <2>3 DEF CallStep
<1>5. CASE RestartAPI
  BY <1>5, RestartKeeps
<1>6. CASE PromoterNext /\ UNCHANGED <<apiVars, workerVars, limiterVars, http, call>>
  <2>1. now' = now
    BY <1>6 DEF PromoterNext, PromoterStep, PromoterRestart, List, PromoteEnqueue,
                PromoteUpdate, storeVars
  <2> QED BY <1>1, <1>6, <2>1
<1>7. CASE UNCHANGED frontVars
  BY <1>1, <1>7 DEF frontVars, vars, storeVars
<1> QED BY <1>2, <1>3, <1>4, <1>5, <1>6, <1>7 DEF FrontEndsNext

\* The API server, with whoever calls it, implements the limiter: each step is a
\* grant, a restart, the passing of time, or none of the limiter's business.
THEOREM ServerLimits == FrontEndsSpec => LimiterSpec
<1>1. FrontEndsInit => Served /\ LimiterInit
  BY ServedStarts DEF FrontEndsInit
<1> QED BY <1>1, FrontEndsKeep, PTL DEF FrontEndsSpec, LimiterSpec

\* No queue, and not all of them together, is served faster than its limit allows,
\* whatever the front ends ask and however often.
THEOREM SubmissionsAreLimited == FrontEndsSpec => []LimitRespected
<1> QED BY ServerLimits, LimitIsRespected, PTL

\* Whoever is refused and waits for the Retry-After finds a token in the bucket,
\* unless somebody else was let through in the meantime.
THEOREM WaitingIsEnough == FrontEndsSpec => []RetryAfterIsEnough
<1> QED BY ServerLimits, RetryAfterSuffices, PTL

-----------------------------------------------------------------------------
(* Front ends around the system *)

FrontTypes == http \in [Jobs -> Exchanges] /\ call \in [Jobs -> Calls]

\* What is in the rows of the requests that were answered.
RepliesAreRows ==
  \A j \in Jobs :
    req[j].pc = "done" =>
      \E k \in Jobs : /\ req[j].reply = {k}
                      /\ Exists(k) /\ jobs[k].work.type = req[j].work.type

\* No front end cancels.
NoneCancelled == \A j \in Jobs : jobs[j].status # "cancelled"

\* How far the backend is with a request, given how far its exchange is.
ExchangeFits(h, r) ==
  /\ h.code # 0 <=> h.pc = "answered"
  /\ h.code = 201 <=> h.id # {}
  /\ h.pc \in {"none", "received", "global"} \/ h.code \in {400, 429} => r.pc = "idle"
  /\ h.pc = "serving" => r.pc # "idle"
  /\ h.pc = "dead" => r.pc \in {"idle", "done", "failed"}
  /\ h.code = 201 => r.pc = "done" /\ h.id = r.reply
  /\ h.code = 500 => r.pc = "failed"
  /\ r.pc # "idle" => r.work = h.body.work

ExchangesFit == \A j \in Jobs : ExchangeFits(http[j], req[j])

\* A body says what its wish says.
BodyFits(w, i) ==
  /\ w.type = TypeOf(Wish(i).endpoint.offer.payload)
  /\ w.queue = DefaultQueue
  /\ w.key = Wish(i).key

\* What a user knows of a try has been the answer to it.
CallFits(c, h) ==
  /\ c.view = "none" => h.pc = "none"
  /\ h.pc # "none" => BodyFits(h.body.work, c.wish)
  /\ c.view = "waiting" => h.pc # "none"
  /\ c.view = "success" => h.code = 201 /\ c.id \subseteq h.id

CallsFit == \A j \in Jobs : CallFits(call[j], http[j])

\* Nobody tries again before the last try has ended in an error.
OneAtATime ==
  \A j, k \in Jobs :
    /\ call[j].view \in {"waiting", "success"} /\ call[k].view \in {"waiting", "success"}
    /\ call[j].wish = call[k].wish
    => j = k

\* The tries that a failure has left a job of, or may still leave one of.
Costly(j) ==
  \/ /\ call[j].view = "error"
     /\ Exists(j) \/ http[j].pc \in {"received", "global", "serving"}
  \/ /\ call[j].view = "waiting"
     /\ http[j].pc = "dead" \/ (req[j].pc = "failed" /\ Exists(j))

CostlyTries(i) == {j \in Tries(i) : Costly(j)}

\* Each of them was paid for with a failure.
FailuresPaid ==
  \A i \in Wishes :
    IsFiniteSet(CostlyTries(i)) /\ Cardinality(CostlyTries(i)) <= faults

FrontInv ==
  /\ SystemInv /\ RowIsAsked
  /\ FrontTypes /\ ExchangesFit /\ CallsFit
  /\ RepliesAreRows /\ NoneCancelled
  /\ OneAtATime /\ FailuresPaid

\* What the steps do to an exchange and to a call.
LEMMA AtStageDoes ==
  ASSUME FrontTypes, NEW j \in Jobs, NEW p, AtStage(j, p)
  PROVE  /\ http'[j] = [http[j] EXCEPT !.pc = p]
         /\ http'[j].pc = p /\ http'[j].code = http[j].code
         /\ http'[j].id = http[j].id /\ http'[j].body = http[j].body
         /\ \A k \in Jobs \ {j} : http'[k] = http[k]
BY DEF FrontTypes, AtStage, Exchanges

LEMMA AnswerDoes ==
  ASSUME FrontTypes, NEW j \in Jobs, NEW c, NEW id, Answer(j, c, id)
  PROVE  /\ http'[j].pc = "answered" /\ http'[j].code = c
         /\ http'[j].id = id /\ http'[j].body = http[j].body
         /\ \A k \in Jobs \ {j} : http'[k] = http[k]
<1> DEFINE h1 == [http[j] EXCEPT !.pc = "answered"]
           h2 == [h1 EXCEPT !.code = c]
           h3 == [h2 EXCEPT !.id = id]
<1>1. http[j] \in Exchanges
  BY DEF FrontTypes
<1>2. h3.pc = "answered" /\ h3.code = c /\ h3.id = id /\ h3.body = http[j].body
  BY <1>1 DEF Exchanges
<1>3. http' = [http EXCEPT ![j] = h3]
  BY DEF FrontTypes, Answer
<1> QED
  BY <1>2, <1>3 DEF FrontTypes

LEMMA ArriveDoes ==
  ASSUME FrontTypes, NEW j \in Jobs, NEW body, NEW typed, Arrive(j, body, typed)
  PROVE  /\ http[j].pc = "none" /\ http'[j].pc = "received"
         /\ http'[j].code = http[j].code /\ http'[j].id = http[j].id
         /\ http'[j].body = body
         /\ \A k \in Jobs \ {j} : http'[k] = http[k]
BY DEF FrontTypes, Arrive, Exchanges

LEMMA SeeDoes ==
  ASSUME FrontTypes, NEW j \in Jobs, NEW view, NEW id, See(j, view, id)
  PROVE  /\ call'[j].wish = call[j].wish
         /\ call'[j].view = view /\ call'[j].id = id
         /\ \A k \in Jobs \ {j} : call'[k] = call[k]
BY DEF FrontTypes, See, Calls

LEMMA AskDoes ==
  ASSUME FrontTypes, NEW i \in Wishes, Ask(i)
  PROVE  /\ UNCHANGED <<jobs, outbox, paused, log, now, apiVars, limiterVars>>
         /\ \A k \in Tries(i) : call[k].view = "error"
         /\ \E j \in Jobs :
              /\ call[j].view = "none" /\ call'[j].wish = i
              /\ \A k \in Jobs \ {j} : call'[k] = call[k]
              /\ \/ /\ call'[j].view = "waiting" /\ UNCHANGED faults
                    /\ Arrive(j, BodyOf(Wish(i).endpoint.offer, Wish(i).key),
                              Wish(i).typed)
                 \/ /\ call'[j].view = "error" /\ Fault /\ UNCHANGED http
<1> DEFINE j == CHOOSE k \in Unused : TRUE
<1>1. j \in Jobs /\ call[j].view = "none"
  BY DEF Ask, Unused
<1> HIDE DEF j
<1>2. /\ \A k \in Tries(i) : call[k].view = "error"
      /\ \/ /\ Arrive(j, BodyOf(Wish(i).endpoint.offer, Wish(i).key), Wish(i).typed)
            /\ call' = [call EXCEPT ![j].wish = i, ![j].view = "waiting"]
            /\ UNCHANGED storeVars
         \/ /\ Fault
            /\ call' = [call EXCEPT ![j].wish = i, ![j].view = "error"]
            /\ UNCHANGED <<http, jobs, outbox, paused, log, now>>
      /\ UNCHANGED <<apiVars, limiterVars>>
  BY DEF Ask, j
<1>3. ASSUME NEW v, call' = [call EXCEPT ![j].wish = i, ![j].view = v]
      PROVE  /\ call'[j].wish = i /\ call'[j].view = v
             /\ \A k \in Jobs \ {j} : call'[k] = call[k]
  BY <1>1, <1>3 DEF FrontTypes, Calls
<1> QED
  BY <1>1, <1>2, <1>3 DEF storeVars

\* What a step of the composition is: a step of the clock, of the promoter, or of
\* nobody, behind the backs of all users; or one of those that users see.
Behind ==
  /\ [Next]_vars
  /\ UNCHANGED <<req, http, call>>
  /\ faults' >= faults
  /\ \A j \in Jobs : jobs'[j].status = "cancelled" => jobs[j].status = "cancelled"

Before(j) ==
  /\ \/ ServeStep(j) /\ UNCHANGED call
     \/ Deliver(j) \/ LoseContact(j)
  /\ UNCHANGED <<workerVars, promoVars>>

LEMMA FrontSteps ==
  ASSUME Typed, [FrontEndsNext]_frontVars
  PROVE  \/ Behind
         \/ \E i \in Wishes : Ask(i) /\ UNCHANGED <<workerVars, promoVars>>
         \/ \E j \in Jobs : Before(j)
         \/ RestartAPI /\ UNCHANGED call /\ UNCHANGED <<workerVars, promoVars>>
<1>0. /\ faults \in Nat /\ jobs \in [Jobs -> Rows] /\ current \subseteq DueItems
      /\ due \subseteq DueItems
  BY DEF Typed, TypeOK, StoreTypeOK, PromoterTypeOK
<1>1. CASE Tick /\ UNCHANGED <<apiVars, workerVars, promoVars, limiterVars, http, call>>
  BY <1>0, <1>1 DEF Behind, Tick, Next, apiVars
<1>2. CASE PromoterNext /\ UNCHANGED <<apiVars, workerVars, limiterVars, http, call>>
  <2>1. faults' >= faults
    BY <1>0, <1>2
    DEF PromoterNext, PromoterStep, PromoterRestart, List, PromoteEnqueue, EnqueueOk,
        EnqueueError, PromoteUpdate, TryStatus, Fault, storeVars
  <2>2. ASSUME NEW k \in due, PromoteUpdate(k)
        PROVE  \A j \in Jobs : jobs'[j].status \in {jobs[j].status, "pending"}
    <3>1. k.job \in Jobs
      BY <1>0, <2>2 DEF DueItems
    <3> QED
      BY <1>0, <2>2, <3>1 DEF PromoteUpdate, TryStatus, WithStatus, Rows
  <2>3. (\E k \in due : PromoteUpdate(k)) \/ UNCHANGED jobs
    BY <1>2 DEF PromoterNext, PromoterStep, PromoterRestart, List, PromoteEnqueue,
                storeVars
  <2>4. \A j \in Jobs : jobs'[j].status = "cancelled" => jobs[j].status = "cancelled"
    BY <2>2, <2>3
  <2> QED
    BY <1>2, <2>1, <2>4 DEF Behind, Next, apiVars
<1>3. CASE UNCHANGED frontVars
  BY <1>0, <1>3 DEF Behind, frontVars, vars, apiVars, storeVars
<1> QED
  BY <1>1, <1>2, <1>3 DEF FrontEndsNext, CallStep, Before

\* So the system takes a step of its own, or is asked from outside, or rests.
LEMMA FrontEndsAreOpen ==
  ASSUME Typed, FrontTypes, [FrontEndsNext]_frontVars
  PROVE  [OpenNext]_vars
<1>0. req \in [Jobs -> Requests] /\ faults \in Nat
  BY DEF Typed, TypeOK, StoreTypeOK, APITypeOK
<1>1. ASSUME Fault, UNCHANGED <<jobs, outbox, paused, log, now, apiVars>>,
             UNCHANGED <<workerVars, promoVars>>
      PROVE  Outside
  <2>1. req' = [j \in Jobs |->
                  IF j \in {} /\ req[j].pc \in {"lookup", "create", "dispatch"}
                  THEN [req[j] EXCEPT !.pc = "failed"] ELSE req[j]]
    BY <1>0, <1>1 DEF apiVars
  <2>2. faults' \in Nat
    BY <1>0, <1>1 DEF Fault
  <2>3. Setback
    <3> DEFINE Ends(S) == req' = [j \in Jobs |->
                                    IF /\ j \in S
                                       /\ req[j].pc \in {"lookup", "create", "dispatch"}
                                    THEN [req[j] EXCEPT !.pc = "failed"] ELSE req[j]]
    <3>1. Ends({}) /\ {} \in SUBSET Jobs
      BY <2>1
    <3>2. \E S \in SUBSET Jobs : Ends(S)
      BY <3>1
    <3> QED
      BY <1>1, <2>2, <3>2 DEF Setback, apiVars
  <2> QED
    BY <1>1, <2>3 DEF Outside
<1>2. CASE RestartAPI /\ UNCHANGED call /\ UNCHANGED <<workerVars, promoVars>>
  <2>1. req' = [j \in Jobs |->
                  IF j \in Jobs /\ req[j].pc \in {"lookup", "create", "dispatch"}
                  THEN [req[j] EXCEPT !.pc = "failed"] ELSE req[j]]
    BY <1>2 DEF RestartAPI
  <2>2. faults' \in Nat
    BY <1>0, <1>2 DEF RestartAPI, Fault
  <2>3. Setback
    BY <1>2, <2>1, <2>2 DEF Setback, RestartAPI
  <2> QED
    BY <1>2, <2>3 DEF Outside, OpenNext
<1>3. ASSUME NEW i \in Wishes, Ask(i), UNCHANGED <<workerVars, promoVars>>
      PROVE  [OpenNext]_vars
  <2>1. UNCHANGED <<jobs, outbox, paused, log, now, apiVars>> /\ (Fault \/ UNCHANGED faults)
    BY <1>3, AskDoes
  <2> QED
    BY <1>1, <1>3, <2>1 DEF OpenNext, vars, storeVars
<1>4. ASSUME NEW j \in Jobs, Deliver(j) \/ LoseContact(j),
             UNCHANGED <<workerVars, promoVars>>
      PROVE  [OpenNext]_vars
  BY <1>1, <1>4 DEF Deliver, LoseContact, OpenNext, vars, storeVars
<1>5. ASSUME NEW j \in Jobs, ServeStep(j), UNCHANGED <<workerVars, promoVars>>
      PROVE  [OpenNext]_vars
  <2>1. CASE RequestStep(j)
    BY <1>5, <2>1 DEF RequestStep, OpenNext, Next, APINext
  <2>2. CASE Submit(j, http[j].body)
    <3>1. http[j].body \in Bodies
      BY DEF FrontTypes, Exchanges, Bodies
    <3> QED
      BY <1>5, <2>2, <3>1 DEF Outside, OpenNext
  <2>3. CASE UNCHANGED <<storeVars, apiVars>>
    BY <1>5, <2>3 DEF vars
  <2> QED
    BY <1>5, <2>1, <2>2, <2>3 DEF ServeStep, RejectBody, AskGlobal, AskQueue, Respond
<1> QED
  BY <1>2, <1>3, <1>4, <1>5, FrontSteps DEF Behind, OpenNext, Before

-----------------------------------------------------------------------------
(* The steps keep the invariant *)

LEMMA FrontFacts ==
  ASSUME FrontInv, [FrontEndsNext]_frontVars
  PROVE  /\ [OpenNext]_vars
         /\ Typed /\ RowInv /\ StoreTypeOK /\ APITypeOK /\ Served /\ FrontTypes
         /\ req \in [Jobs -> Requests] /\ faults \in Nat
BY FrontEndsAreOpen
DEF FrontInv, SystemInv, RowInv, Typed, TypeOK, StoreTypeOK, APITypeOK, Served,
    FrontTypes

LEMMA FrontTypesNext ==
  ASSUME FrontInv, [FrontEndsNext]_frontVars
  PROVE  FrontTypes'
<1>0. Typed /\ Served /\ FrontTypes /\ call \in [Jobs -> Calls]
  BY FrontFacts DEF FrontTypes
<1>1. http' \in [Jobs -> Exchanges]
  BY <1>0, FrontEndsKeep DEF Served
<1>2. UNCHANGED call => call' \in [Jobs -> Calls]
  BY <1>0
<1>3. ASSUME NEW i \in Wishes, Ask(i)
      PROVE  call' \in [Jobs -> Calls]
  <2> DEFINE j == CHOOSE k \in Unused : TRUE
  <2>1. \E v \in {"waiting", "error"} :
          call' = [call EXCEPT ![j].wish = i, ![j].view = v]
    BY <1>3 DEF Ask
  <2>2. j \in Jobs
    BY <1>3 DEF Ask, Unused
  <2> HIDE DEF j
  <2>3. PICK v \in {"waiting", "error"} :
          call' = [call EXCEPT ![j].wish = i, ![j].view = v]
    BY <2>1
  <2> DEFINE c1 == [call EXCEPT ![j].wish = i]
             c2 == [c1 EXCEPT ![j].view = v]
  <2>4. c1 \in [Jobs -> Calls]
    BY <1>0, <1>3, <2>2 DEF Calls
  <2> HIDE DEF c1
  <2>5. c2 \in [Jobs -> Calls]
    BY <2>2, <2>3, <2>4 DEF Calls
  <2>6. call' = c2
    BY <2>3 DEF c1
  <2> QED
    BY <2>5, <2>6
<1>4. ASSUME NEW j \in Jobs, NEW v \in {"success", "error"}, NEW id \in SUBSET Jobs,
             See(j, v, id)
      PROVE  call' \in [Jobs -> Calls]
  <2> DEFINE c1 == [call EXCEPT ![j].view = v]
             c2 == [c1 EXCEPT ![j].id = id]
  <2>1. c1 \in [Jobs -> Calls]
    BY <1>0 DEF Calls
  <2> HIDE DEF c1
  <2>2. c2 \in [Jobs -> Calls]
    BY <2>1 DEF Calls
  <2>3. call' = c2
    BY <1>4 DEF See, c1
  <2> QED
    BY <2>2, <2>3
<1>5. ASSUME NEW j \in Jobs, Before(j)
      PROVE  call' \in [Jobs -> Calls]
  <2>1. http[j].id \in SUBSET Jobs
    BY <1>0 DEF FrontTypes, Exchanges
  <2>2. \/ UNCHANGED call
        \/ See(j, "success", http[j].id)
        \/ See(j, "success", {}) \/ See(j, "error", {})
    BY <1>5 DEF Before, Deliver, LoseContact
  <2>3. {} \in SUBSET Jobs
    OBVIOUS
  <2> QED
    BY <1>2, <1>4, <2>1, <2>2, <2>3
<1> QED
  BY <1>0, <1>1, <1>2, <1>3, <1>5, FrontSteps DEF FrontTypes, Behind

LEMMA RequestDoes ==
  ASSUME APITypeOK, NEW j \in Jobs, RequestStep(j)
  PROVE  /\ req[j].pc \in {"lookup", "create", "dispatch"}
         /\ req'[j].pc \in {"create", "dispatch", "done", "failed"}
         /\ req'[j].work = req[j].work
         /\ \A k \in Jobs \ {j} : req'[k] = req[k]
BY DEF RequestStep, Lookup, CreateRow, Dispatch, Goto, Reply, APITypeOK, Requests

LEMMA SubmitDoes ==
  ASSUME APITypeOK, NEW j \in Jobs, NEW s, Submit(j, s)
  PROVE  /\ req[j].pc = "idle" /\ req'[j].pc \in {"lookup", "create"}
         /\ req'[j].work = s.work
         /\ \A k \in Jobs \ {j} : req'[k] = req[k]
BY DEF Submit, APITypeOK

\* What the server does about an exchange, with the request behind it.
LEMMA ServeDoes ==
  ASSUME FrontTypes, APITypeOK, NEW j \in Jobs, ServeStep(j)
  PROVE  /\ \A k \in Jobs \ {j} : http'[k] = http[k] /\ req'[k] = req[k]
         /\ http'[j].body = http[j].body
         /\ \/ /\ http[j].pc \in {"received", "global"} /\ req'[j] = req[j]
               /\ \/ /\ http'[j].pc = "global"
                     /\ http'[j].code = http[j].code /\ http'[j].id = http[j].id
                  \/ /\ http'[j].pc = "answered"
                     /\ http'[j].code \in {400, 429} /\ http'[j].id = {}
            \/ /\ http[j].pc = "global" /\ http'[j].pc = "serving"
               /\ http'[j].code = http[j].code /\ http'[j].id = http[j].id
               /\ req'[j].pc \in {"lookup", "create"}
               /\ req'[j].work = http[j].body.work
            \/ /\ http[j].pc = "serving" /\ http'[j].pc = "answered"
               /\ req'[j] = req[j]
               /\ \/ /\ req[j].pc = "done"
                     /\ http'[j].code = 201 /\ http'[j].id = req[j].reply
                  \/ /\ req[j].pc = "failed"
                     /\ http'[j].code = 500 /\ http'[j].id = {}
            \/ /\ http' = http
               /\ req[j].pc \in {"lookup", "create", "dispatch"}
               /\ req'[j].pc \in {"create", "dispatch", "done", "failed"}
               /\ req'[j].work = req[j].work
<1>1. CASE RejectBody(j)
  <2>1. Answer(j, 400, {}) /\ req' = req /\ http[j].pc = "received"
    BY <1>1 DEF RejectBody, apiVars
  <2> QED
    BY <2>1, AnswerDoes
<1>2. CASE AskGlobal(j)
  <2>1. /\ req' = req /\ http[j].pc = "received"
        /\ AtStage(j, "global") \/ Answer(j, 429, {})
    BY <1>2 DEF AskGlobal, apiVars
  <2>2. CASE AtStage(j, "global")
    BY <2>1, <2>2, AtStageDoes
  <2>3. CASE Answer(j, 429, {})
    BY <2>1, <2>3, AnswerDoes
  <2> QED
    BY <2>1, <2>2, <2>3
<1>3. CASE AskQueue(j)
  <2>1. /\ http[j].pc = "global"
        /\ \/ AtStage(j, "serving") /\ Submit(j, http[j].body)
           \/ Answer(j, 429, {}) /\ req' = req
    BY <1>3 DEF AskQueue, apiVars
  <2>2. CASE AtStage(j, "serving") /\ Submit(j, http[j].body)
    BY <2>1, <2>2, AtStageDoes, SubmitDoes
  <2>3. CASE Answer(j, 429, {}) /\ req' = req
    BY <2>1, <2>3, AnswerDoes
  <2> QED
    BY <2>1, <2>2, <2>3
<1>4. CASE Respond(j)
  <2>1. /\ http[j].pc = "serving" /\ req' = req
        /\ \/ req[j].pc = "done" /\ Answer(j, 201, req[j].reply)
           \/ req[j].pc = "failed" /\ Answer(j, 500, {})
    BY <1>4 DEF Respond, apiVars
  <2> QED
    BY <2>1, AnswerDoes
<1>5. CASE RequestStep(j) /\ UNCHANGED <<limiterVars, http>>
  BY <1>5, RequestDoes
<1> QED
  BY <1>1, <1>2, <1>3, <1>4, <1>5 DEF ServeStep

LEMMA RestartDoes ==
  ASSUME FrontTypes, APITypeOK, RestartAPI, NEW k \in Jobs
  PROVE  /\ http'[k] = IF http[k].pc \in {"received", "global", "serving"}
                       THEN [http[k] EXCEPT !.pc = "dead"] ELSE http[k]
         /\ req'[k] = IF req[k].pc \in {"lookup", "create", "dispatch"}
                      THEN [req[k] EXCEPT !.pc = "failed"] ELSE req[k]
BY DEF RestartAPI, Open

LEMMA ExchangesFitNext ==
  ASSUME FrontInv, [FrontEndsNext]_frontVars
  PROVE  ExchangesFit'
<1> SUFFICES ASSUME NEW k \in Jobs PROVE ExchangeFits(http'[k], req'[k])
  BY DEF ExchangesFit
<1>0. /\ Typed /\ FrontTypes /\ APITypeOK /\ http[k] \in Exchanges /\ req[k] \in Requests
      /\ ExchangeFits(http[k], req[k])
      /\ req[k].pc = "done" => req[k].reply # {}
  BY FrontFacts DEF FrontInv, ExchangesFit, FrontTypes, RepliesAreRows
<1>1. CASE http'[k] = http[k] /\ req'[k] = req[k]
  BY <1>0, <1>1
<1>2. ASSUME NEW i \in Wishes, Ask(i)
      PROVE  ExchangeFits(http'[k], req'[k])
  <2> DEFINE body == BodyOf(Wish(i).endpoint.offer, Wish(i).key)
  <2>1. /\ UNCHANGED req
        /\ UNCHANGED http \/ \E j \in Jobs : Arrive(j, body, Wish(i).typed)
    BY <1>0, <1>2, AskDoes DEF apiVars
  <2> HIDE DEF body
  <2>2. ASSUME NEW j \in Jobs, Arrive(j, body, Wish(i).typed)
        PROVE  ExchangeFits(http'[k], req'[k])
    BY <1>0, <1>1, <2>1, <2>2, ArriveDoes DEF ExchangeFits
  <2> QED
    BY <1>1, <2>1, <2>2
<1>3. ASSUME NEW j \in Jobs, ServeStep(j)
      PROVE  ExchangeFits(http'[k], req'[k])
  <2>1. CASE j # k
    BY <1>0, <1>1, <1>3, <2>1, ServeDoes
  <2>2. CASE j = k
    BY <1>0, <1>3, <2>2, ServeDoes DEF ExchangeFits, Exchanges, Requests
  <2> QED
    BY <2>1, <2>2
<1>4. CASE RestartAPI
  <2>1. /\ http'[k].code = http[k].code /\ http'[k].id = http[k].id
        /\ http'[k].body = http[k].body
        /\ IF http[k].pc \in {"received", "global", "serving"}
           THEN http'[k].pc = "dead" ELSE http'[k] = http[k]
    <3> DEFINE h == [http[k] EXCEPT !.pc = "dead"]
    <3>1. /\ h.pc = "dead" /\ h.code = http[k].code /\ h.id = http[k].id
          /\ h.body = http[k].body
      BY <1>0 DEF Exchanges
    <3>2. http'[k] = IF http[k].pc \in {"received", "global", "serving"}
                     THEN h ELSE http[k]
      BY <1>0, <1>4, RestartDoes
    <3> HIDE DEF h
    <3> QED
      BY <3>1, <3>2
  <2>2. /\ req'[k] = req[k] \/ req'[k].pc = "failed"
        /\ req'[k].work = req[k].work /\ req'[k].reply = req[k].reply
        /\ req[k].pc \notin {"lookup", "create", "dispatch"} => req'[k] = req[k]
    BY <1>0, <1>4, RestartDoes DEF Requests
  <2>3. CASE http[k].pc \in {"received", "global", "serving"}
    <3>1. http'[k].pc = "dead" /\ http'[k].code = 0
      BY <1>0, <2>1, <2>3 DEF ExchangeFits
    <3>2. req'[k].pc \in {"idle", "done", "failed"}
      BY <1>0, <1>4, RestartDoes DEF Requests
    <3> QED
      BY <1>0, <2>1, <2>2, <2>3, <3>1, <3>2 DEF ExchangeFits
  <2>4. CASE http[k].pc \in {"none", "answered", "dead"}
    <3>1. http'[k] = http[k] /\ req[k].pc \in {"idle", "done", "failed"}
      BY <1>0, <2>1, <2>4 DEF ExchangeFits, Exchanges
    <3>2. req'[k] = req[k]
      BY <2>2, <3>1
    <3> QED
      BY <1>1, <3>1, <3>2
  <2> QED
    BY <1>0, <2>3, <2>4 DEF Exchanges
<1>5. ASSUME NEW j \in Jobs, Before(j)
      PROVE  ExchangeFits(http'[k], req'[k])
  BY <1>1, <1>3, <1>5 DEF Before, Deliver, LoseContact, apiVars
<1> QED
  BY <1>0, <1>1, <1>2, <1>4, <1>5, FrontSteps DEF Behind

LEMMA CallsFitNext ==
  ASSUME FrontInv, [FrontEndsNext]_frontVars
  PROVE  CallsFit'
<1> SUFFICES ASSUME NEW k \in Jobs PROVE CallFits(call'[k], http'[k])
  BY DEF CallsFit
<1>0. /\ Typed /\ FrontTypes /\ APITypeOK /\ http[k] \in Exchanges /\ call[k] \in Calls
      /\ CallFits(call[k], http[k])
      /\ http[k].code # 0 => http[k].pc = "answered"
  BY FrontFacts DEF FrontInv, ExchangesFit, ExchangeFits, CallsFit, FrontTypes
<1>1. CASE http'[k] = http[k] /\ call'[k] = call[k]
  BY <1>0, <1>1
<1>2. ASSUME NEW i \in Wishes, Ask(i)
      PROVE  CallFits(call'[k], http'[k])
  <2> DEFINE body == BodyOf(Wish(i).endpoint.offer, Wish(i).key)
  <2>1. BodyFits(body.work, i)
    BY DEF BodyFits, BodyOf
  <2>2. PICK j \in Jobs :
              /\ call[j].view = "none" /\ call'[j].wish = i
              /\ \A l \in Jobs \ {j} : call'[l] = call[l]
              /\ \/ /\ call'[j].view = "waiting"
                    /\ Arrive(j, body, Wish(i).typed)
                 \/ call'[j].view = "error" /\ UNCHANGED http
    BY <1>0, <1>2, AskDoes
  <2> HIDE DEF body
  <2>3. CASE Arrive(j, body, Wish(i).typed) /\ call'[j].view = "waiting"
    BY <1>0, <1>1, <2>1, <2>2, <2>3, ArriveDoes DEF CallFits
  <2>4. CASE call'[j].view = "error" /\ UNCHANGED http
    BY <1>0, <1>1, <2>2, <2>4 DEF CallFits
  <2> QED
    BY <2>2, <2>3, <2>4
<1>3. ASSUME NEW j \in Jobs, ServeStep(j), UNCHANGED call
      PROVE  CallFits(call'[k], http'[k])
  <2>1. CASE j # k
    BY <1>0, <1>1, <1>3, <2>1, ServeDoes
  <2>2. CASE j = k
    BY <1>0, <1>3, <2>2, ServeDoes DEF CallFits
  <2> QED
    BY <2>1, <2>2
<1>4. ASSUME NEW j \in Jobs, Deliver(j) \/ LoseContact(j)
      PROVE  CallFits(call'[k], http'[k])
  <2>1. /\ http' = http /\ call[j].view = "waiting"
        /\ \/ http[j].code = 201 /\ See(j, "success", http[j].id)
           \/ http[j].code = 201 /\ See(j, "success", {})
           \/ See(j, "error", {})
    BY <1>4 DEF Deliver, LoseContact
  <2>2. CASE http[j].code = 201 /\ See(j, "success", http[j].id)
    BY <1>0, <1>1, <2>1, <2>2, SeeDoes DEF CallFits
  <2>3. CASE http[j].code = 201 /\ See(j, "success", {})
    BY <1>0, <1>1, <2>1, <2>3, SeeDoes DEF CallFits
  <2>4. CASE See(j, "error", {})
    BY <1>0, <1>1, <2>1, <2>4, SeeDoes DEF CallFits
  <2> QED
    BY <2>1, <2>2, <2>3, <2>4
<1>5. CASE RestartAPI /\ UNCHANGED call
  <2>1. \/ http'[k] = http[k]
        \/ /\ http[k].pc \in {"received", "global", "serving"}
           /\ http'[k] = [http[k] EXCEPT !.pc = "dead"]
    BY <1>0, <1>5, RestartDoes
  <2>2. ASSUME http[k].pc \in {"received", "global", "serving"},
               http'[k] = [http[k] EXCEPT !.pc = "dead"]
        PROVE  CallFits(call'[k], http'[k])
    <3>1. http'[k].pc = "dead" /\ http'[k].body = http[k].body
      BY <1>0, <2>2 DEF Exchanges
    <3> QED
      BY <1>0, <1>5, <2>2, <3>1 DEF CallFits
  <2> QED
    BY <1>1, <1>5, <2>1, <2>2
<1> QED
  BY <1>0, <1>1, <1>2, <1>3, <1>4, <1>5, FrontSteps DEF Behind, Before

\* What happens to a call: it begins with an exchange or an error, or ends.
LEMMA CallSteps ==
  ASSUME FrontInv, [FrontEndsNext]_frontVars, NEW k \in Jobs
  PROVE  \/ call'[k] = call[k]
         \/ /\ call[k].view = "waiting" /\ call'[k].view \in {"success", "error"}
            /\ call'[k].wish = call[k].wish
            /\ \A j \in Jobs \ {k} : call'[j] = call[j]
         \/ \E i \in Wishes :
              /\ Ask(i) /\ call[k].view = "none"
              /\ call'[k].view \in {"waiting", "error"} /\ call'[k].wish = i
              /\ \A j \in Jobs \ {k} : call'[j] = call[j]
              /\ \A j \in Tries(i) : call[j].view = "error"
<1>0. Typed /\ FrontTypes
  BY FrontFacts
<1>1. ASSUME NEW i \in Wishes, Ask(i), call'[k] # call[k]
      PROVE  /\ call[k].view = "none"
             /\ call'[k].view \in {"waiting", "error"} /\ call'[k].wish = i
             /\ \A j \in Jobs \ {k} : call'[j] = call[j]
             /\ \A j \in Tries(i) : call[j].view = "error"
  BY <1>0, <1>1, AskDoes
<1>2. ASSUME NEW j \in Jobs, Deliver(j) \/ LoseContact(j), call'[k] # call[k]
      PROVE  /\ call[k].view = "waiting" /\ call'[k].view \in {"success", "error"}
             /\ call'[k].wish = call[k].wish
             /\ \A l \in Jobs \ {k} : call'[l] = call[l]
  <2>1. /\ call[j].view = "waiting"
        /\ \/ See(j, "success", http[j].id)
           \/ See(j, "success", {})
           \/ See(j, "error", {})
    BY <1>2 DEF Deliver, LoseContact
  <2>2. CASE See(j, "success", http[j].id)
    BY <1>0, <1>2, <2>1, <2>2, SeeDoes
  <2>3. CASE See(j, "success", {})
    BY <1>0, <1>2, <2>1, <2>3, SeeDoes
  <2>4. CASE See(j, "error", {})
    BY <1>0, <1>2, <2>1, <2>4, SeeDoes
  <2> QED
    BY <2>1, <2>2, <2>3, <2>4
<1> QED
  BY <1>0, <1>1, <1>2, FrontSteps DEF Behind, Before

LEMMA OneAtATimeNext ==
  ASSUME FrontInv, [FrontEndsNext]_frontVars
  PROVE  OneAtATime'
<1> SUFFICES ASSUME NEW j \in Jobs, NEW k \in Jobs, j # k,
                    call'[j].view \in {"waiting", "success"},
                    call'[k].view \in {"waiting", "success"},
                    call'[j].wish = call'[k].wish
             PROVE  FALSE
  BY DEF OneAtATime
<1>1. ASSUME NEW a \in Jobs, NEW b \in Jobs, a # b, call[a].view = "none",
             call'[a].view # "none", call'[b].view \in {"waiting", "success"}
      PROVE  call'[a].wish # call'[b].wish
  <2>1. PICK i \in Wishes : /\ call'[a].wish = i /\ call'[b] = call[b]
                            /\ \A l \in Tries(i) : call[l].view = "error"
    BY <1>1, CallSteps
  <2> QED
    BY <1>1, <2>1 DEF Tries
<1>2. call[j].view # "none" /\ call[k].view # "none"
  BY <1>1
<1>3. /\ call[j].view \in {"waiting", "success"} /\ call[j].wish = call'[j].wish
      /\ call[k].view \in {"waiting", "success"} /\ call[k].wish = call'[k].wish
  BY <1>2, CallSteps
<1> QED
  BY <1>3 DEF FrontInv, OneAtATime

LEMMA RepliesAreRowsNext ==
  ASSUME FrontInv, [FrontEndsNext]_frontVars
  PROVE  RepliesAreRows'
<1>0. /\ Typed /\ RowInv /\ FrontTypes /\ APITypeOK /\ req \in [Jobs -> Requests]
      /\ RowsKept /\ RowsOfRequests /\ RepliesAreRows
  BY FrontFacts, OpenKeepsRows DEF FrontInv, RowInv
<1>1. ASSUME NEW j \in Jobs, req'[j].pc = "done"
      PROVE  \E k \in Jobs : /\ req'[j].reply = {k}
                             /\ Exists(k) /\ jobs[k].work.type = req'[j].work.type
  <2>1. CASE req'[j] = req[j]
    BY <1>0, <1>1, <2>1 DEF RepliesAreRows
  <2>2. CASE RequestStep(j)
    <3>1. CASE Lookup(j)
      BY <1>0, <1>1, <3>1 DEF Lookup, Goto, Reply, SameKey, Requests
    <3>2. CASE CreateRow(j)
      BY <1>0, <1>1, <3>2 DEF CreateRow, Goto, Requests
    <3>3. CASE Dispatch(j)
      <4>1. Exists(j) /\ jobs[j].work = req[j].work
        BY <1>0, <3>3 DEF Dispatch, RowsOfRequests
      <4>2. req'[j].reply = {j} /\ req'[j].work = req[j].work
        BY <1>0, <1>1, <3>3 DEF Dispatch, Goto, Reply, Requests
      <4> QED
        BY <4>1, <4>2
    <3> QED
      BY <2>2, <3>1, <3>2, <3>3 DEF RequestStep
  <2>3. CASE RestartAPI
    BY <1>0, <1>1, <2>1, <2>3, RestartDoes DEF Requests
  <2>4. ASSUME NEW k \in Jobs, ServeStep(k)
        PROVE  req'[j] = req[j] \/ RequestStep(j)
    <3>1. CASE k # j
      BY <1>0, <2>4, <3>1, ServeDoes
    <3>2. CASE k = j
      <4>1. ~Submit(j, http[j].body)
        BY <1>0, <1>1, SubmitDoes
      <4> QED
        BY <2>4, <3>2, <4>1
        DEF ServeStep, RejectBody, AskGlobal, AskQueue, Respond, apiVars
    <3> QED
      BY <3>1, <3>2
  <2>5. ASSUME NEW i \in Wishes, Ask(i)
        PROVE  req' = req
    BY <2>5 DEF Ask, apiVars
  <2> QED
    BY <1>0, <2>1, <2>2, <2>3, <2>4, <2>5, FrontSteps
    DEF Behind, Before, Deliver, LoseContact, apiVars
<1>2. ASSUME NEW j \in Jobs, req'[j].pc = "done"
      PROVE  \E k \in Jobs : /\ req'[j].reply = {k}
                             /\ Exists(k)' /\ jobs'[k].work.type = req'[j].work.type
  <2>1. PICK k \in Jobs : /\ req'[j].reply = {k}
                          /\ Exists(k) /\ jobs[k].work.type = req'[j].work.type
    BY <1>1, <1>2
  <2>2. Exists(k)' /\ jobs'[k].work = jobs[k].work
    BY <1>0, <2>1 DEF RowsKept, Exists
  <2> QED
    BY <2>1, <2>2
<1> QED
  BY <1>2 DEF RepliesAreRows

LEMMA NoneCancelledNext ==
  ASSUME FrontInv, [FrontEndsNext]_frontVars
  PROVE  NoneCancelled'
<1>0. Typed /\ FrontTypes /\ StoreTypeOK /\ NoneCancelled
  BY FrontFacts DEF FrontInv
<1>1. CASE UNCHANGED jobs
  BY <1>0, <1>1 DEF NoneCancelled
<1>2. ASSUME NEW j \in Jobs, CreateRow(j)
      PROVE  NoneCancelled'
  <2>1. ASSUME NEW w, NEW s \in {"scheduled", "pending"}, jobs' = WithRow(j, s, w),
               NEW k \in Jobs
        PROVE  jobs'[k] = jobs[k] \/ jobs'[k].status = s
    BY <1>0, <2>1 DEF WithRow, StoreTypeOK
  <2>2. \/ UNCHANGED jobs
        \/ \E s \in {"scheduled", "pending"} : jobs' = WithRow(j, s, req[j].work)
    BY <1>2 DEF CreateRow
  <2> QED
    BY <1>0, <1>1, <2>1, <2>2 DEF NoneCancelled
<1>3. CASE Behind
  BY <1>0, <1>3 DEF Behind, NoneCancelled
<1>4. ASSUME NEW j \in Jobs, ServeStep(j)
      PROVE  UNCHANGED jobs \/ CreateRow(j)
  BY <1>4
  DEF ServeStep, RejectBody, AskGlobal, AskQueue, Submit, Respond, RequestStep, Lookup,
      Dispatch, storeVars
<1>5. ASSUME NEW j \in Jobs, Before(j)
      PROVE  UNCHANGED jobs \/ CreateRow(j)
  BY <1>4, <1>5 DEF Before, Deliver, LoseContact, storeVars
<1>6. ASSUME NEW i \in Wishes, Ask(i)
      PROVE  UNCHANGED jobs
  BY <1>0, <1>6, AskDoes
<1> QED
  BY <1>0, <1>1, <1>2, <1>3, <1>5, <1>6, FrontSteps DEF RestartAPI

-----------------------------------------------------------------------------
(* Failures and duplicates *)

LEMMA FaultsGrow ==
  ASSUME FrontInv, [FrontEndsNext]_frontVars
  PROVE  faults \in Nat /\ faults' \in Nat /\ faults' >= faults
<1>0. Typed /\ FrontTypes /\ faults \in Nat /\ APITypeOK
  BY FrontFacts
<1>1. ASSUME Fault \/ UNCHANGED faults
      PROVE  faults' >= faults
  BY <1>0, <1>1 DEF Fault
<1>2. ASSUME NEW j \in Jobs, ServeStep(j)
      PROVE  Fault \/ UNCHANGED faults
  BY <1>2
  DEF ServeStep, RejectBody, AskGlobal, AskQueue, Submit, Respond, RequestStep, Lookup,
      CreateRow, Dispatch, EnqueueOk, EnqueueError, storeVars
<1>3. ASSUME NEW j \in Jobs, Before(j)
      PROVE  Fault \/ UNCHANGED faults
  BY <1>2, <1>3 DEF Before, Deliver, LoseContact, storeVars
<1>4. ASSUME NEW i \in Wishes, Ask(i)
      PROVE  Fault \/ UNCHANGED faults
  BY <1>0, <1>4, AskDoes
<1>5. faults' >= faults
  BY <1>0, <1>1, <1>3, <1>4, FrontSteps DEF Behind, RestartAPI
<1>6. faults' \in Nat
  BY FrontFacts, SystemInvNext DEF FrontInv, SystemInv, RowInv, Typed, TypeOK, StoreTypeOK
<1> QED
  BY <1>0, <1>5, <1>6

\* A row appears only while the server serves the exchange that would create it.
LEMMA RowsAreServed ==
  ASSUME FrontInv, [FrontEndsNext]_frontVars, NEW k \in Jobs, ~Exists(k), Exists(k)'
  PROVE  CreateRow(k) /\ req[k].pc = "create" /\ http[k].pc = "serving"
<1>0. RowInv /\ [OpenNext]_vars /\ http[k] \in Exchanges /\ ExchangeFits(http[k], req[k])
  BY FrontFacts DEF FrontInv, FrontTypes, ExchangesFit
<1>1. CreateRow(k) /\ req[k].pc = "create"
  BY <1>0, NewRow DEF CreateRow
<1> QED
  BY <1>0, <1>1 DEF ExchangeFits, Exchanges

\* What a failure costs is the present try of its wish.
LEMMA NewlyCostly ==
  ASSUME FrontInv, [FrontEndsNext]_frontVars, NEW k \in Jobs, Costly(k)', ~Costly(k)
  PROVE  /\ faults' = faults + 1
         /\ call[k].view = "waiting" /\ call'[k].wish = call[k].wish
<1>0. /\ Typed /\ FrontTypes /\ APITypeOK /\ RowsOfRequests /\ req[k] \in Requests
      /\ http[k] \in Exchanges /\ ExchangeFits(http[k], req[k]) /\ CallFits(call[k], http[k])
  BY FrontFacts DEF FrontInv, RowInv, ExchangesFit, CallsFit, FrontTypes
<1>1. /\ http[k].pc = "none" => req[k].pc = "idle"
      /\ req[k].pc = "idle" => ~Exists(k)
  BY <1>0 DEF ExchangeFits, RowsOfRequests
<1>2. CASE call[k].view = "none"
  <2>1. ~Exists(k)' /\ http[k].pc = "none"
    <3>1. http[k].pc = "none"
      BY <1>0, <1>2 DEF CallFits
    <3> QED
      BY <1>1, <3>1, RowsAreServed
  <2>2. PICK i \in Wishes : /\ Ask(i) /\ call'[k].view \in {"waiting", "error"}
    BY <1>2, CallSteps DEF Costly
  <2>3. /\ req' = req
        /\ \E j \in Jobs :
             /\ call[j].view = "none"
             /\ \A l \in Jobs \ {j} : call'[l] = call[l]
             /\ \/ call'[j].view = "waiting" /\ \E b, y : Arrive(j, b, y)
                \/ call'[j].view = "error" /\ UNCHANGED http
    BY <1>0, <2>2, AskDoes DEF apiVars
  <2>4. PICK j \in Jobs :
              /\ \A l \in Jobs \ {j} : call'[l] = call[l]
              /\ \/ call'[j].view = "waiting" /\ \E b, y : Arrive(j, b, y)
                 \/ call'[j].view = "error" /\ UNCHANGED http
    BY <2>3
  <2>5. j = k
    BY <1>2, <2>2, <2>4
  <2>6. \/ call'[k].view = "waiting" /\ http'[k].pc = "received"
        \/ call'[k].view = "error" /\ http'[k].pc = "none"
    BY <1>0, <2>1, <2>4, <2>5, ArriveDoes
  <2> QED
    BY <2>1, <2>6 DEF Costly
<1>3. CASE call[k].view = "success"
  BY <1>3, CallSteps DEF Costly
<1>4. CASE call[k].view = "error"
  <2>1. call'[k] = call[k] /\ ~Exists(k) /\ ~Exists(k)'
    BY <1>4, CallSteps, RowsAreServed DEF Costly
  <2>2. http[k].pc \notin {"received", "global", "serving"}
    BY <1>4 DEF Costly
  <2>3. http'[k].pc \in {"received", "global", "serving"}
    BY <1>4, <2>1 DEF Costly
  <2>4. ~RestartAPI
    BY <1>0, <2>2, <2>3, RestartDoes
  <2>5. ASSUME NEW j \in Jobs, ServeStep(j)
        PROVE  FALSE
    BY <1>0, <2>2, <2>3, <2>5, ServeDoes
  <2>6. ASSUME NEW i \in Wishes, Ask(i)
        PROVE  FALSE
    <3>1. PICK j \in Jobs :
              /\ call[j].view = "none"
              /\ UNCHANGED http \/ \E b, y : Arrive(j, b, y)
      BY <1>0, <2>6, AskDoes
    <3>2. j # k
      BY <1>4, <3>1
    <3> QED
      BY <1>0, <2>2, <2>3, <3>1, <3>2, ArriveDoes
  <2> QED
    BY <1>0, <2>2, <2>3, <2>4, <2>5, <2>6, FrontSteps
    DEF Behind, Before, Deliver, LoseContact
<1>5. CASE call[k].view = "waiting"
  <2>1. call'[k].wish = call[k].wish
    BY <1>5, CallSteps
  <2>2. CASE Fault
    BY <1>5, <2>1, <2>2 DEF Fault
  <2>3. CASE Deliver(k) \/ LoseContact(k)
    <3>1. UNCHANGED <<jobs, http>>
      BY <2>3 DEF Deliver, LoseContact, storeVars
    <3>2. CASE http[k].pc = "dead"
      BY <1>5, <3>2 DEF Costly
    <3>3. CASE http[k].pc = "answered" /\ http[k].code # 201 /\ ~Fault
      <4>1. req[k].pc \in {"idle", "failed"}
        BY <1>0, <3>3 DEF ExchangeFits, Exchanges
      <4>2. ~Exists(k)
        BY <1>1, <1>5, <4>1 DEF Costly
      <4>3. ~Exists(k)' /\ http'[k].pc = "answered"
        BY <3>1, <3>3, <4>2, RowsAreServed
      <4>4. call'[k].view # "waiting"
        <5>1. ~LoseContact(k)
          BY <3>3 DEF LoseContact
        <5>2. See(k, "error", {})
          BY <2>3, <3>3, <5>1 DEF Deliver
        <5> QED
          BY <1>0, <5>2, SeeDoes
      <4> QED
        BY <4>3, <4>4 DEF Costly
    <3>4. CASE See(k, "success", http[k].id)
      BY <1>0, <3>4, SeeDoes DEF Costly
    <3>5. \/ Fault \/ http[k].pc = "dead" \/ See(k, "success", http[k].id)
          \/ http[k].pc = "answered" /\ http[k].code # 201
      BY <2>3 DEF Deliver, LoseContact
    <3> QED
      BY <2>2, <3>2, <3>3, <3>4, <3>5
  <2>4. CASE ServeStep(k) /\ UNCHANGED call
    <3>1. http'[k].pc # "dead" /\ req'[k].pc = "failed" /\ Exists(k)'
      BY <1>0, <1>5, <2>4, ServeDoes DEF Costly
    <3>2. req[k].pc # "failed"
      <4>1. SUFFICES ASSUME req[k].pc = "failed" PROVE FALSE
        OBVIOUS
      <4>2. Exists(k)
        BY <3>1, <4>1, RowsAreServed
      <4> QED
        BY <1>5, <4>1, <4>2 DEF Costly
    <3>3. RequestStep(k)
      <4>1. ~Submit(k, http[k].body)
        BY <1>0, <3>1, SubmitDoes
      <4> QED
        BY <2>4, <3>1, <3>2, <4>1
        DEF ServeStep, RejectBody, AskGlobal, AskQueue, Respond, apiVars
    <3>4. CASE Lookup(k)
      BY <1>0, <2>2, <3>1, <3>4 DEF Lookup, Goto, Reply, APITypeOK, Requests
    <3>5. CASE CreateRow(k)
      <4>1. ~Exists(k)
        BY <1>0, <3>5 DEF CreateRow, RowsOfRequests
      <4>2. jobs' # jobs
        BY <3>1, <4>1 DEF Exists
      <4> QED
        BY <1>0, <2>2, <3>1, <3>5, <4>2 DEF CreateRow, Goto, APITypeOK, Requests
    <3>6. CASE Dispatch(k)
      BY <1>0, <2>2, <3>1, <3>6
      DEF Dispatch, Goto, Reply, EnqueueError, APITypeOK, Requests
    <3> QED
      BY <3>3, <3>4, <3>5, <3>6 DEF RequestStep
  <2>5. ASSUME http'[k] = http[k], call'[k] = call[k], req'[k] = req[k]
        PROVE  FALSE
    <3>1. Exists(k)' /\ ~Exists(k) /\ req[k].pc = "failed"
      BY <1>5, <2>5 DEF Costly
    <3> QED
      BY <3>1, RowsAreServed
  <2>6. ASSUME NEW j \in Jobs, j # k, Before(j)
        PROVE  FALSE
    <3>1. call'[k] = call[k]
      BY <1>0, <1>5, <2>6, SeeDoes DEF Before, Deliver, LoseContact
    <3> QED
      BY <1>0, <2>5, <2>6, <3>1, ServeDoes DEF Before, Deliver, LoseContact, apiVars
  <2>7. ASSUME NEW i \in Wishes, Ask(i)
        PROVE  FALSE
    <3>1. PICK j \in Jobs :
              /\ call[j].view = "none"
              /\ \A l \in Jobs \ {j} : call'[l] = call[l]
              /\ UNCHANGED http \/ \E b, y : Arrive(j, b, y)
      BY <1>0, <2>7, AskDoes
    <3>2. j # k /\ req' = req
      BY <1>0, <1>5, <2>7, <3>1, AskDoes DEF apiVars
    <3> QED
      BY <1>0, <2>5, <3>1, <3>2, ArriveDoes
  <2> QED
    BY <1>0, <2>2, <2>3, <2>4, <2>5, <2>6, <2>7, FrontSteps
    DEF Behind, Before, RestartAPI
<1> QED
  BY <1>0, <1>2, <1>3, <1>4, <1>5 DEF CallsFit, FrontTypes, Calls

LEMMA OneElement ==
  ASSUME NEW S, \A x, y \in S : x = y
  PROVE  IsFiniteSet(S) /\ Cardinality(S) <= 1
<1>1. CASE S = {}
  BY <1>1, FS_EmptySet
<1>2. ASSUME NEW x \in S
      PROVE  IsFiniteSet(S) /\ Cardinality(S) <= 1
  <2>1. S = {x}
    BY <1>2
  <2>2. IsFiniteSet({x}) /\ Cardinality({x}) = 1
    BY FS_Singleton
  <2> QED
    BY <2>1, <2>2
<1> QED
  BY <1>1, <1>2

LEMMA OneMore ==
  ASSUME NEW S, IsFiniteSet(S), NEW n \in Nat, Cardinality(S) <= n, NEW x,
         NEW T, T \subseteq S \cup {x}
  PROVE  IsFiniteSet(T) /\ Cardinality(T) <= n + 1
<1>1. /\ IsFiniteSet(S \cup {x}) /\ Cardinality(S) \in Nat
      /\ Cardinality(S \cup {x}) \in {Cardinality(S), Cardinality(S) + 1}
  BY FS_AddElement, FS_CardinalityType
<1>2. /\ IsFiniteSet(T) /\ Cardinality(T) \in Nat
      /\ Cardinality(T) <= Cardinality(S \cup {x})
  BY <1>1, FS_Subset, FS_CardinalityType
<1> QED
  BY <1>1, <1>2

LEMMA FailuresPaidNext ==
  ASSUME FrontInv, [FrontEndsNext]_frontVars
  PROVE  FailuresPaid'
<1> SUFFICES ASSUME NEW i \in Wishes
             PROVE  /\ IsFiniteSet(CostlyTries(i)')
                    /\ Cardinality(CostlyTries(i)') <= faults'
  BY DEF FailuresPaid
<1> DEFINE S == CostlyTries(i)
           T == CostlyTries(i)'
<1>0. /\ faults \in Nat /\ faults' \in Nat /\ faults' >= faults
      /\ IsFiniteSet(S) /\ Cardinality(S) <= faults /\ OneAtATime
  BY FaultsGrow DEF FrontInv, FailuresPaid
<1>1. ASSUME NEW k \in T
      PROVE  k \in Jobs /\ Costly(k)' /\ call'[k].wish = i
  BY <1>1 DEF CostlyTries, Tries
<1>2. ASSUME NEW k \in T, k \notin S
      PROVE  /\ faults' = faults + 1
             /\ call[k].view = "waiting" /\ call[k].wish = i /\ k \in Jobs
  <2>1. CASE Costly(k)
    <3>1. call[k].view # "none"
      BY <2>1 DEF Costly
    <3>2. call'[k].wish = call[k].wish
      BY <1>1, <3>1, CallSteps
    <3> QED
      BY <1>1, <1>2, <2>1, <3>2 DEF CostlyTries, Tries
  <2>2. CASE ~Costly(k)
    BY <1>1, <2>2, NewlyCostly
  <2> QED
    BY <2>1, <2>2
<1> HIDE DEF S, T
<1>3. CASE T \subseteq S
  <2>1. IsFiniteSet(T) /\ Cardinality(T) <= Cardinality(S)
    BY <1>0, <1>3, FS_Subset
  <2>2. Cardinality(T) \in Nat /\ Cardinality(S) \in Nat
    BY <1>0, <2>1, FS_CardinalityType
  <2>3. IsFiniteSet(T) /\ Cardinality(T) <= faults'
    BY <1>0, <2>1, <2>2
  <2> QED
    BY <2>3 DEF T
<1>4. ASSUME NEW k \in T, k \notin S
      PROVE  IsFiniteSet(T) /\ Cardinality(T) <= faults'
  <2>1. T \subseteq S \cup {k}
    BY <1>0, <1>2, <1>4 DEF OneAtATime
  <2> QED
    BY <1>0, <1>2, <1>4, <2>1, OneMore
<1> QED
  BY <1>3, <1>4 DEF T

\* With a key there is one job; without one, those that failures have left, and the
\* one of the try that did not end in an error.
LEMMA FailuresBoundDuplicates == FrontInv => DuplicatesAreBounded
<1> SUFFICES ASSUME FrontInv, NEW i \in Wishes
             PROVE  Cardinality({j \in Tries(i) : Exists(j)})
                      <= IF Wish(i).key = NoKey THEN 1 + faults ELSE 1
  BY DEF DuplicatesAreBounded
<1> DEFINE E == {j \in Tries(i) : Exists(j)}
<1>0. /\ faults \in Nat /\ http \in [Jobs -> Exchanges] /\ call \in [Jobs -> Calls]
      /\ RowsOfRequests /\ KeysAreUnique
  BY DEF FrontInv, SystemInv, RowInv, Typed, TypeOK, StoreTypeOK, FrontTypes, KeyInv
<1>1. ASSUME NEW j \in E
      PROVE  /\ j \in Jobs /\ Exists(j) /\ call[j].wish = i
             /\ call[j].view # "none" /\ BodyFits(jobs[j].work, i)
  <2>1. j \in Jobs /\ Exists(j) /\ call[j].wish = i
    BY DEF Tries
  <2>2. req[j].pc # "idle" /\ jobs[j].work = req[j].work
    BY <1>0, <2>1 DEF RowsOfRequests, FrontInv, RowIsAsked
  <2>3. http[j].pc # "none" /\ req[j].work = http[j].body.work
    BY <2>1, <2>2 DEF FrontInv, ExchangesFit, ExchangeFits
  <2> QED
    BY <2>1, <2>2, <2>3 DEF FrontInv, CallsFit, CallFits
<1> HIDE DEF E
<1>2. CASE Wish(i).key # NoKey
  <2>1. \A j, k \in E : j = k
    BY <1>0, <1>1, <1>2 DEF KeysAreUnique, BodyFits
  <2> QED
    BY <1>2, <2>1, OneElement DEF E
<1>3. CASE Wish(i).key = NoKey
  <2> DEFINE S == CostlyTries(i)
  <2>1. IsFiniteSet(S) /\ Cardinality(S) <= faults
    BY DEF FrontInv, FailuresPaid
  <2>2. ASSUME NEW j \in E
        PROVE  j \in S \/ call[j].view \in {"waiting", "success"}
    BY <1>0, <1>1, <2>2 DEF CostlyTries, Tries, Costly, Calls
  <2> HIDE DEF S
  <2>3. CASE E \subseteq S
    <3>1. Cardinality(E) <= Cardinality(S) /\ IsFiniteSet(E)
      BY <2>1, <2>3, FS_Subset
    <3>2. Cardinality(E) \in Nat /\ Cardinality(S) \in Nat
      BY <2>1, <3>1, FS_CardinalityType
    <3>3. Cardinality(E) <= 1 + faults
      BY <1>0, <2>1, <3>1, <3>2
    <3> QED
      BY <1>3, <3>3 DEF E
  <2>4. ASSUME NEW k \in E, k \notin S
        PROVE  Cardinality(E) <= 1 + faults
    <3>1. E \subseteq S \cup {k}
      BY <1>1, <2>2, <2>4 DEF FrontInv, OneAtATime
    <3>2. Cardinality(E) <= faults + 1
      BY <1>0, <2>1, <3>1, OneMore
    <3> QED
      BY <1>0, <3>2
  <2>5. Cardinality(E) <= 1 + faults
    BY <1>3, <2>3, <2>4 DEF E
  <2> QED
    BY <1>3, <2>5 DEF E
<1> QED
  BY <1>2, <1>3

-----------------------------------------------------------------------------
(* The theorems about front ends *)

LEMMA FrontInvInit == FrontEndsInit => FrontInv
<1> SUFFICES ASSUME FrontEndsInit PROVE FrontInv
  OBVIOUS
<1>1. SystemInv /\ Served
  BY SystemInvInit, ServedStarts DEF FrontEndsInit
<1>2. \A j \in Jobs :
        /\ jobs[j].status = "absent" /\ req[j].pc = "idle"
        /\ http[j].pc = "none" /\ http[j].code = 0 /\ http[j].id = {}
        /\ call[j].view = "none"
  BY DEF FrontEndsInit, Init, StoreInit, APIInit, RestInit
<1>3. call \in [Jobs -> Calls]
  BY DEF FrontEndsInit, Calls
<1>4. FailuresPaid
  <2>1. \A i \in Wishes : CostlyTries(i) = {}
    BY <1>2 DEF CostlyTries, Tries, Costly
  <2>2. faults \in Nat
    BY <1>1 DEF SystemInv, RowInv, Typed, TypeOK, StoreTypeOK
  <2> QED
    BY <2>1, <2>2, FS_EmptySet DEF FailuresPaid
<1> QED
  BY <1>1, <1>2, <1>3, <1>4
  DEF FrontInv, Served, RowIsAsked, Exists, FrontTypes, ExchangesFit, ExchangeFits,
      CallsFit, CallFits, RepliesAreRows, NoneCancelled, OneAtATime

LEMMA FrontInvNext == FrontInv /\ [FrontEndsNext]_frontVars => FrontInv'
<1> SUFFICES ASSUME FrontInv, [FrontEndsNext]_frontVars PROVE FrontInv'
  OBVIOUS
<1>1. SystemInv' /\ RowIsAsked'
  BY FrontFacts, SystemInvNext, RowIsAskedNext DEF FrontInv
<1> QED
  BY <1>1, FrontTypesNext, ExchangesFitNext, CallsFitNext, RepliesAreRowsNext,
     NoneCancelledNext, OneAtATimeNext, FailuresPaidNext DEF FrontInv

\* Exchanges and calls are what they are declared to be, the backend is at work for
\* every exchange that is being served, and an answer names a job if and only if it
\* is 201.
THEOREM FrontEndsTypes == FrontEndsSpec => []FrontEndsTypeOK
<1>1. FrontInv => TypeOK /\ RestTypeOK /\ call \in [Jobs -> Calls]
  BY DEF FrontInv, SystemInv, RowInv, Typed, FrontTypes, ExchangesFit, ExchangeFits,
         RestTypeOK
<1>2. LimiterInv => LimiterTypeOK
  BY DEF LimiterInv
<1>3. LimiterSpec => []LimiterTypeOK
  BY <1>2, LimiterStarts, LimiterKeeps, PTL DEF LimiterSpec
<1>4. FrontEndsSpec => [](TypeOK /\ RestTypeOK /\ call \in [Jobs -> Calls])
  BY <1>1, FrontInvInit, FrontInvNext, PTL DEF FrontEndsSpec
<1> QED
  BY <1>3, <1>4, ServerLimits, PTL DEF FrontEndsTypeOK

\* What users are told is true: of success, of the id, and of a refusal.
LEMMA FrontInvAnswers == FrontInv => AnswersAreTrue
<1> SUFFICES ASSUME FrontInv PROVE AnswersAreTrue
  OBVIOUS
<1>0. /\ \A j \in Jobs : ExchangeFits(http[j], req[j]) /\ CallFits(call[j], http[j])
      /\ RowsOfRequests /\ MessagesMatchRows /\ AcceptedIsRemembered /\ NoneCancelled
  BY SystemInvPromises
  DEF FrontInv, SystemInv, RowInv, ExchangesFit, CallsFit, Promises
<1>1. ASSUME NEW j \in Jobs, call[j].view = "success"
      PROVE  \E k \in req[j].reply :
               /\ call[j].id \subseteq {k}
               /\ Exists(k)
               /\ jobs[k].work.type = TypeOf(Wish(call[j].wish).endpoint.offer.payload)
               /\ k = j => MessagesOf(j) # {} \/ jobs[j].status = "scheduled"
  <2>1. /\ req[j].pc = "done" /\ call[j].id \subseteq req[j].reply
        /\ http[j].pc # "none" /\ req[j].work = http[j].body.work
    BY <1>0, <1>1 DEF ExchangeFits, CallFits
  <2>2. req[j].work.type = TypeOf(Wish(call[j].wish).endpoint.offer.payload)
    BY <1>0, <2>1 DEF CallFits, BodyFits
  <2>3. PICK k \in Jobs : /\ req[j].reply = {k} /\ Exists(k)
                          /\ jobs[k].work.type = req[j].work.type
    BY <2>1 DEF FrontInv, RepliesAreRows
  <2>4. k = j => MessagesOf(j) # {} \/ jobs[j].status = "scheduled"
    BY <1>0, <2>3 DEF AcceptedIsRemembered, NoneCancelled
  <2> QED
    BY <2>1, <2>2, <2>3, <2>4
<1>2. ASSUME NEW j \in Jobs, http[j].code \in {400, 429}
      PROVE  ~Exists(j) /\ MessagesOf(j) = {}
  <2>1. ~Exists(j)
    BY <1>0, <1>2 DEF ExchangeFits, RowsOfRequests
  <2> QED
    BY <1>0, <2>1 DEF MessagesMatchRows, MessagesOf
<1> QED
  BY <1>1, <1>2 DEF AnswersAreTrue

\* Who was told of a success has the job that was asked for, whoever else asks at the
\* same time, whatever answers are lost and however often the server ends.
THEOREM AnswersStayTrue == FrontEndsSpec => []AnswersAreTrue
<1> QED
  BY FrontInvInit, FrontInvNext, FrontInvAnswers, PTL DEF FrontEndsSpec

\* Trying again after an error makes at most one job more than there were failures,
\* and with an idempotency key one job at all.
THEOREM DuplicatesStayBounded == FrontEndsSpec => []DuplicatesAreBounded
<1> QED
  BY FrontInvInit, FrontInvNext, FailuresBoundDuplicates, PTL DEF FrontEndsSpec

\* Behind the server, which may be stopped at any time, the system keeps its promises.
THEOREM FrontEndsKeepPromises == FrontEndsSpec => []Promises
<1>1. FrontInv => Promises
  BY SystemInvPromises DEF FrontInv
<1> QED
  BY <1>1, FrontInvInit, FrontInvNext, PTL DEF FrontEndsSpec
=============================================================================
