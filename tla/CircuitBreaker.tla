---------------------------- MODULE CircuitBreaker ----------------------------
(***************************************************************************)
(* CircuitBreaker (infrastructure/resilience/CircuitBreaker.ts) as the     *)
(* steps its users compose with the call it protects: execute() is Ask or  *)
(* Refuse when the call starts and recordSuccess or recordFailure when the *)
(* promise of that call settles, which may be long after the state that    *)
(* admitted it is gone.  Times are ages, and an age stops growing where no *)
(* comparison of the code can tell it from an older one.                   *)
(***************************************************************************)
EXTENDS Naturals, Sequences, FiniteSets

CONSTANTS
  failureThreshold, successThreshold,
  resetTimeout,   \* ticks an open breaker refuses calls
  windowMs,       \* ticks a failure counts
  maxFailures     \* longest list of failures kept

ASSUME BreakerAssumption ==
  /\ failureThreshold \in Nat \ {0} /\ successThreshold \in Nat
  /\ resetTimeout \in Nat /\ windowMs \in Nat
  /\ maxFailures \in Nat /\ maxFailures >= failureThreshold

VARIABLES
  state,                \* "closed", "open" or "half-open"
  failures,             \* the ages of the recorded failures
  consecutiveSuccesses,
  openAge               \* how long ago the breaker opened

breaker == <<state, failures, consecutiveSuccesses, openAge>>

BreakerTypeOK ==
  /\ state \in {"closed", "open", "half-open"}
  /\ failures \in Seq(0..windowMs)
  /\ Len(failures) <= maxFailures
  /\ consecutiveSuccesses \in 0..successThreshold
  /\ openAge \in 0..resetTimeout

BreakerInit ==
  /\ state = "closed" /\ failures = <<>>
  /\ consecutiveSuccesses = 0 /\ openAge = 0

\* pruneOldFailures(): the failures inside the window, the latest maxFailures of
\* them; the list is in the order of time, so both cut a prefix.
Recent(list) ==
  LET young == Cardinality({i \in 1..Len(list) : list[i] < windowMs})
      kept  == IF young > maxFailures THEN maxFailures ELSE young
  IN SubSeq(list, Len(list) + 1 - kept, Len(list))

\* Variant: the list of failures survives the transition.
CloseKeepingFailures ==
  /\ state' = "closed" /\ failures' = failures
  /\ consecutiveSuccesses' = 0 /\ openAge' = 0

\* transitionTo('closed'), reset(), and a new breaker.
Close ==
  /\ state' = "closed" /\ failures' = <<>>
  /\ consecutiveSuccesses' = 0 /\ openAge' = 0

Passes == state # "open" \/ openAge >= resetTimeout

\* execute() lets the call through; the first one after the timeout makes the
\* breaker half-open.  isOpen() makes the same transition.
Ask ==
  /\ Passes
  /\ state' = IF state = "open" THEN "half-open" ELSE state
  /\ UNCHANGED <<failures, consecutiveSuccesses, openAge>>

\* Variant: a refused call restarts the timeout.
RefuseAndWait == ~Passes /\ openAge' = 0 /\ UNCHANGED <<state, failures, consecutiveSuccesses>>

\* execute() throws a CircuitOpenError.
Refuse == ~Passes /\ UNCHANGED breaker

recordSuccess ==
  IF state = "half-open" /\ consecutiveSuccesses + 1 >= successThreshold
  THEN Close
  ELSE /\ consecutiveSuccesses' = IF consecutiveSuccesses < successThreshold
                                  THEN consecutiveSuccesses + 1 ELSE successThreshold
       /\ failures' = IF state = "closed" THEN Recent(failures) ELSE failures
       /\ UNCHANGED <<state, openAge>>

recordFailure ==
  /\ consecutiveSuccesses' = 0
  /\ failures' = Recent(Append(failures, 0))
  /\ IF state = "half-open" \/ (state = "closed" /\ Len(failures') >= failureThreshold)
     THEN state' = "open" /\ openAge' = 0
     ELSE UNCHANGED <<state, openAge>>

Older(age, limit) == IF age < limit THEN age + 1 ELSE limit

\* Date.now() moves on.
Age ==
  /\ failures' = [i \in DOMAIN failures |-> Older(failures[i], windowMs)]
  /\ openAge' = IF state = "open" THEN Older(openAge, resetTimeout) ELSE openAge
  /\ UNCHANGED <<state, consecutiveSuccesses>>

-----------------------------------------------------------------------------
\* A closed breaker holds fewer failures than open it: what late failures leave
\* behind while it is open is gone when it closes again, or the first failure
\* after a recovery would open it at once (recordFailure(), transitionTo()).
ClosedIsBelowThreshold == state = "closed" => Len(failures) < failureThreshold
=============================================================================
