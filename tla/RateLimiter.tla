----------------------------- MODULE RateLimiter ------------------------------
(***************************************************************************)
(* TokenBucketRateLimiter (infrastructure/resilience/RateLimiter.ts): a    *)
(* bucket that is filled completely once its window is over, a queue of    *)
(* waiters, and a timer for each of them.  A timer fires at its time or    *)
(* later, and of several that are due any may fire first.                  *)
(***************************************************************************)
EXTENDS Integers, Sequences, FiniteSets

CONSTANTS
  Callers,       \* calls of acquire() and tryAcquire()
  maxRequests,   \* tokens of a full bucket
  windowMs,      \* ticks of a window
  maxWaitMs,     \* longest wait acquire() accepts
  maxQueueSize,  \* waiters the queue accepts
  Throwing,      \* is onLimit 'throw'?
  MaxTime        \* bound: ticks explored

ASSUME LimiterAssumption ==
  /\ maxRequests \in Nat \ {0} /\ windowMs \in Nat \ {0}
  /\ maxWaitMs \in Nat /\ maxQueueSize \in Nat
  /\ Throwing \in BOOLEAN
  /\ MaxTime \in Nat

VARIABLES
  now,
  tokens,
  lastRefill,
  waitQueue,  \* the callers that wait
  due,        \* when the timer of each waiting caller fires
  outcome,    \* what became of each call
  grants      \* history: the calls granted since the last reset(), each with its tick

limiterVars == <<now, tokens, lastRefill, waitQueue, due, outcome, grants>>

LimiterInit ==
  /\ now = 0
  /\ tokens = maxRequests
  /\ lastRefill = 0
  /\ waitQueue = <<>>
  /\ due = [c \in Callers |-> 0]
  /\ outcome = [c \in Callers |-> "idle"]
  /\ grants = {}

-----------------------------------------------------------------------------
\* Variant: a refill does not restart the window.
RefillAgain(queue) ==
  IF now - lastRefill >= windowMs
  THEN LET n == IF Len(queue) < maxRequests THEN Len(queue) ELSE maxRequests
       IN [tokens |-> maxRequests - n, lastRefill |-> lastRefill,
           queue |-> SubSeq(queue, n + 1, Len(queue)),
           served |-> {queue[i] : i \in 1..n}]
  ELSE [tokens |-> tokens, lastRefill |-> lastRefill, queue |-> queue, served |-> {}]

\* refill() with processWaitQueue(): a full bucket when the window is over, from
\* which the waiters are served first.
Refill(queue) ==
  IF now - lastRefill >= windowMs
  THEN LET n == IF Len(queue) < maxRequests THEN Len(queue) ELSE maxRequests
       IN [tokens |-> maxRequests - n, lastRefill |-> now,
           queue |-> SubSeq(queue, n + 1, Len(queue)),
           served |-> {queue[i] : i \in 1..n}]
  ELSE [tokens |-> tokens, lastRefill |-> lastRefill, queue |-> queue, served |-> {}]

\* The step of a call c that comes out of a refill r with a verdict and leaves
\* some queue; those the refill served are granted as well.
Settles(r, c, verdict, queue) ==
  LET granted == r.served \cup IF verdict = "granted" THEN {c} ELSE {}
  IN /\ tokens' = r.tokens - IF verdict = "granted" THEN 1 ELSE 0
     /\ lastRefill' = r.lastRefill
     /\ waitQueue' = queue
     /\ outcome' = [x \in Callers |-> IF x \in granted THEN "granted"
                                      ELSE IF x = c THEN verdict ELSE outcome[x]]
     /\ grants' = grants \cup (granted \X {now})

WaitTime(r) == IF windowMs > now - r.lastRefill THEN windowMs - (now - r.lastRefill) ELSE 0

acquire(c) ==
  /\ outcome[c] = "idle"
  /\ now + windowMs <= MaxTime
  /\ LET r == Refill(waitQueue)
         refused == Throwing \/ Len(r.queue) >= maxQueueSize \/ WaitTime(r) > maxWaitMs
     IN \/ /\ r.tokens > 0
           /\ Settles(r, c, "granted", r.queue)
           /\ UNCHANGED due
        \/ /\ r.tokens = 0 /\ refused
           /\ Settles(r, c, "refused", r.queue)
           /\ UNCHANGED due
        \/ /\ r.tokens = 0 /\ ~refused
           /\ Settles(r, c, "waiting", Append(r.queue, c))
           /\ due' = [due EXCEPT ![c] = now + WaitTime(r)]
  /\ UNCHANGED now

tryAcquire(c) ==
  /\ outcome[c] = "idle"
  /\ LET r == Refill(waitQueue)
     IN Settles(r, c, IF r.tokens > 0 THEN "granted" ELSE "refused", r.queue)
  /\ UNCHANGED <<now, due>>

Without(queue, i) == SubSeq(queue, 1, i - 1) \o SubSeq(queue, i + 1, Len(queue))

\* Variant: a timer that finds no token gives up without a word.
TimerFiresSilently(c) ==
  \E i \in 1..Len(waitQueue) :
    /\ waitQueue[i] = c
    /\ now >= due[c]
    /\ LET r == Refill(Without(waitQueue, i))
       IN Settles(r, c, IF r.tokens > 0 THEN "granted" ELSE "waiting", r.queue)
    /\ UNCHANGED <<now, due>>

\* The timer of a waiter: it leaves the queue, then tries for itself.
TimerFires(c) ==
  \E i \in 1..Len(waitQueue) :
    /\ waitQueue[i] = c
    /\ now >= due[c]
    /\ LET r == Refill(Without(waitQueue, i))
       IN Settles(r, c, IF r.tokens > 0 THEN "granted" ELSE "starved", r.queue)
    /\ UNCHANGED <<now, due>>

\* getAvailableTokens() and getWaitTime() refill as well.
Inspect ==
  /\ now - lastRefill >= windowMs
  /\ LET r == Refill(waitQueue)
     IN /\ tokens' = r.tokens /\ lastRefill' = r.lastRefill /\ waitQueue' = r.queue
        /\ outcome' = [x \in Callers |-> IF x \in r.served THEN "granted" ELSE outcome[x]]
        /\ grants' = grants \cup (r.served \X {now})
  /\ UNCHANGED <<now, due>>

\* Variant: a reset fills the bucket and leaves the queue alone.
ResetKeepingQueue ==
  /\ tokens' = maxRequests
  /\ lastRefill' = now
  /\ grants' = {}
  /\ UNCHANGED <<now, waitQueue, due, outcome>>

\* reset() drops the timers and the queue; it neither resolves nor rejects the
\* promises of the callers that wait: nobody will.
reset ==
  /\ tokens' = maxRequests
  /\ lastRefill' = now
  /\ waitQueue' = <<>>
  /\ outcome' = [c \in Callers |-> IF outcome[c] = "waiting" THEN "dropped" ELSE outcome[c]]
  /\ grants' = {}
  /\ UNCHANGED <<now, due>>

Tick ==
  /\ now < MaxTime
  /\ now' = now + 1
  /\ UNCHANGED <<tokens, lastRefill, waitQueue, due, outcome, grants>>

LimiterNext ==
  \/ Tick \/ Inspect \/ reset
  \/ \E c \in Callers : acquire(c) \/ tryAcquire(c) \/ TimerFires(c)

LimiterSpec == LimiterInit /\ [][LimiterNext]_limiterVars

\* Time goes on, and a timer that is due fires in the end.
LimiterFairSpec ==
  LimiterSpec /\ WF_limiterVars(Tick) /\ \A c \in Callers : WF_limiterVars(TimerFires(c))

-----------------------------------------------------------------------------
(* Every variable has its type. *)
LimiterTypeOK ==
  /\ now \in 0..MaxTime
  /\ tokens \in 0..maxRequests
  /\ lastRefill \in 0..now
  /\ waitQueue \in Seq(Callers) /\ Len(waitQueue) <= maxQueueSize
  /\ due \in [Callers -> 0..(MaxTime + windowMs)]
  /\ outcome \in [Callers -> {"idle", "waiting", "granted", "refused", "starved", "dropped"}]
  /\ grants \subseteq Callers \X (0..now)

GrantedBetween(from, to) == {g \in grants : g[2] \in from..to}

(* Within any stretch of a window's length at most two buckets are granted,  *)
(* whoever refills: new calls, timers or inspections (RateLimiter.ts:225-237)*)
(* The header calls it a sliding window, which would see one bucket only.    *)
AtMostTwoBuckets ==
  \A t \in 0..MaxTime : t + windowMs - 1 <= MaxTime
    => Cardinality(GrantedBetween(t, t + windowMs - 1)) <= 2 * maxRequests

(* No token lies in the bucket while a caller queues for one, so no later    *)
(* call takes what an earlier one waits for: refills serve the queue first   *)
(* and reset() empties it (RateLimiter.ts:193-204, 270-279).                 *)
NoIdleToken == tokens > 0 => waitQueue = <<>>

(* The timer of a waiter finds a token ("Still no tokens, this shouldn't     *)
(* happen", RateLimiter.ts:257).                                             *)
TimerFindsToken == \A c \in Callers : outcome[c] # "starved"

(* A call of acquire() that waits is answered in the end: only a reset()     *)
(* leaves its promise unsettled (RateLimiter.ts:193-204, 242-264).           *)
CallsAreAnswered ==
  \A c \in Callers : outcome[c] = "waiting" ~> outcome[c] # "waiting"
=============================================================================
