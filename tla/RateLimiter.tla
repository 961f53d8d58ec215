----------------------------- MODULE RateLimiter -----------------------------
(***************************************************************************)
(* TokenBucketLimiter (internal/api/ratelimit.go): a token bucket for each *)
(* queue and one for all submissions together.  A bucket of p requests per *)
(* minute gains p tokens in a minute, holds at most Burst(p) of them, and  *)
(* gives one to each request it lets through.  Tokens are counted in parts *)
(* of 1/Minute, so that each second adds p parts and a request costs       *)
(* Minute of them.  A bucket is brought up to date only when it is asked,  *)
(* as golang.org/x/time/rate does, and a queue's bucket that is not yet    *)
(* created (getQueueLimiter) is the same as a full one.                    *)
(***************************************************************************)
EXTENDS JobStore

CONSTANTS
  PerQueue,    \* RATE_LIMIT_PER_QUEUE: requests per minute, 0 for no limit
  Global,      \* RATE_LIMIT_GLOBAL
  Minute,      \* the seconds in a minute
  Everything   \* the name of the bucket that all queues share

ASSUME LimiterAssumption ==
  /\ PerQueue \in Nat
  /\ Global \in Nat
  /\ Minute \in Nat \ {0}
  /\ Everything \notin Queues

Buckets == Queues \cup {Everything}

Rate(b) == IF b = Everything THEN Global ELSE PerQueue

\* Mutant: a tenth of a minute's requests, for small limits too.
Burst_Tenth(perMin) == IF perMin < 60 THEN perMin \div 10 ELSE perMin \div 6

\* burst: all of a small limit at once, and at least 10 of a larger one.
Burst(perMin) ==
  IF perMin < 10 THEN perMin ELSE IF perMin < 60 THEN 10 ELSE perMin \div 6

Limited(b) == Rate(b) > 0

Full(b) == Burst(Rate(b)) * Minute

VARIABLES
  level,  \* the tokens of each bucket, in parts, when last counted
  last,   \* when that was
  taken   \* the times at which each bucket gave a token (an auxiliary variable)

limiterVars == <<level, last, taken>>

LimiterTypeOK ==
  /\ now \in Nat
  /\ level \in [Buckets -> Nat]
  /\ last \in [Buckets -> Nat]
  /\ taken \in [Buckets -> Seq(Nat)]
  /\ \A b \in Buckets : level[b] <= Full(b) /\ last[b] <= now

LimiterInit ==
  /\ now = 1
  /\ level = [b \in Buckets |-> Full(b)]
  /\ last = [b \in Buckets |-> 1]
  /\ taken = [b \in Buckets |-> << >>]

\* advance: what the bucket holds by now.
LevelNow(b) ==
  LET gained == level[b] + Rate(b) * (now - last[b]) IN
  IF gained < Full(b) THEN gained ELSE Full(b)

HasToken(b) == LevelNow(b) >= Minute

\* Mutant: a request that is let through costs nothing.
Take_Free(b) ==
  /\ Limited(b) /\ HasToken(b)
  /\ level' = [level EXCEPT ![b] = LevelNow(b)]
  /\ last' = [last EXCEPT ![b] = now]
  /\ taken' = [taken EXCEPT ![b] = Append(@, now)]

\* Limiter.Allow returning true.
Take(b) ==
  /\ Limited(b) /\ HasToken(b)
  /\ level' = [level EXCEPT ![b] = LevelNow(b) - Minute]
  /\ last' = [last EXCEPT ![b] = now]
  /\ taken' = [taken EXCEPT ![b] = Append(@, now)]

\* One of the two questions of TokenBucketLimiter.Allow answered yes, and no.  A
\* refusal leaves the bucket as it is.
Admits(b) == Take(b) \/ (~Limited(b) /\ UNCHANGED limiterVars)

Refuses(b) == Limited(b) /\ ~HasToken(b) /\ UNCHANGED limiterVars

\* NewTokenBucketLimiter: the API process starts again.
NewLimiter ==
  /\ level' = [b \in Buckets |-> Full(b)]
  /\ last' = [b \in Buckets |-> now]
  /\ taken' = [b \in Buckets |-> << >>]

LimiterNext ==
  \/ now' \in Nat /\ now' >= now /\ UNCHANGED limiterVars
  \/ \E b \in Buckets : Take(b) /\ UNCHANGED now
  \/ NewLimiter /\ UNCHANGED now

LimiterSpec == LimiterInit /\ [][LimiterNext]_<<now, limiterVars>>

-----------------------------------------------------------------------------
(* Properties *)

\* "limits job submit requests per queue and/or globally": between any two
\* requests that a bucket let through, no more were let through than a full
\* bucket and the tokens gained in the meantime allow, however requests to the
\* queues interleave and whatever was refused in between.
LimitRespected ==
  \A b \in Buckets : \A i, j \in 1 .. Len(taken[b]) :
    i <= j =>
      (j - i + 1) * Minute <= Full(b) + Rate(b) * (taken[b][j] - taken[b][i])

\* The Retry-After of 60 seconds is long enough: a bucket that gave nothing for a
\* minute has a token, whatever its limit (and so its burst) is.
RetryAfterIsEnough ==
  \A b \in Buckets :
    Limited(b) /\ now >= last[b] + Minute => HasToken(b)
=============================================================================
