-------------------------- MODULE ToolExecutionProofs --------------------------
(***************************************************************************)
(* What a caller of a tool is told stays true, for any number of calls at  *)
(* the same time and any configuration of the breaker.                     *)
(*                                                                         *)
(* The managed loop builds on it: its controller gives a write key back    *)
(* only when it is told that a call of this key never started, its own or  *)
(* one of an earlier execution, and completes only when nothing it asked   *)
(* for is open or uncertain.                                               *)
(***************************************************************************)
EXTENDS ManagedLoop, FiniteSetTheorems, SequenceTheorems, TLAPS

\* What the record r of a call knows, with gone for a manager that is destroyed:
\* a caller is told when it has left or its call has settled; it was told nothing
\* final exactly if it left an entered body, and only then is it owed a notice.
Knows(r, gone) ==
  LET over == r.promise \in {"fulfilled", "rejected"}
      told == r.status # "none"
  IN /\ told <=> r.completion # "none"
     /\ told => r.signal # "clear" \/ over
     /\ r.abandoned => told
     /\ r.promise \in {"none", "hooks"} => ~r.executionStarted
     /\ r.completion = "not_started" => ~r.executionStarted
     /\ r.completion = "settled" => over /\ ~r.abandoned
     /\ r.completion = "unknown" => r.abandoned
     /\ r.late \in {0, 1}
     /\ r.late = 1 => over /\ r.abandoned
     /\ r.abandoned /\ over /\ ~gone => r.late = 1

IInv == ExecutionTypeOK /\ \A c \in Calls : Knows(call[c], destroyed)

-----------------------------------------------------------------------------
LEMMA NoCallKnows == NoCall \in CallRecords /\ Knows(NoCall, FALSE) /\ Knows(NoCall, TRUE)
  BY DEF NoCall, CallRecords, Knows, Statuses, Completions

LEMMA InitIInv == Init => IInv
  BY NoCallKnows DEF Init, ExecutionInit, IInv, ExecutionTypeOK

\* A step that replaces the record of one call.
LEMMA OneCall ==
  ASSUME IInv, NEW c \in Calls, NEW r \in CallRecords, Knows(r, destroyed),
         call' = [call EXCEPT ![c] = r], UNCHANGED destroyed
  PROVE  IInv'
  BY DEF IInv, ExecutionTypeOK

LEMMA RecycleStep ==
  ASSUME IInv, NEW c \in Calls, Recycle(c)
  PROVE  IInv'
<1>1. Knows(NoCall, destroyed)
  BY NoCallKnows DEF IInv, ExecutionTypeOK
<1> QED BY <1>1, NoCallKnows, OneCall DEF Recycle

LEMMA StartStep ==
  ASSUME IInv, NEW c \in Calls, executeWithOutcome(c)
  PROVE  IInv'
<1>1. NoCall \in CallRecords
  BY NoCallKnows
<1>2. /\ NoCall.promise = "none" /\ NoCall.signal = "clear" /\ ~NoCall.executionStarted
      /\ NoCall.status = "none" /\ NoCall.completion = "none" /\ ~NoCall.abandoned /\ NoCall.late = 0
  BY DEF NoCall
<1>3. ASSUME NEW signal \in {"caller"}
      PROVE  LET r == [NoCall EXCEPT !.signal = signal] IN r \in CallRecords /\ Knows(r, destroyed)
  BY <1>1, <1>2 DEF CallRecords, Knows
<1>4. ASSUME NEW promise \in {"rejected", "hooks"}
      PROVE  LET r == [NoCall EXCEPT !.promise = promise] IN r \in CallRecords /\ Knows(r, destroyed)
  BY <1>1, <1>2 DEF CallRecords, Knows
<1>5. UNCHANGED destroyed
      /\ \/ call' = [call EXCEPT ![c] = [NoCall EXCEPT !.signal = "caller"]]
         \/ call' = [call EXCEPT ![c] = [NoCall EXCEPT !.promise = "rejected"]]
         \/ call' = [call EXCEPT ![c] = [NoCall EXCEPT !.promise = "hooks"]]
  BY DEF executeWithOutcome
<1> QED BY <1>3, <1>4, <1>5, OneCall

LEMMA SettleStep ==
  ASSUME IInv, NEW c \in Calls, call[c].promise \in {"hooks", "body"},
         NEW promise \in {"fulfilled", "rejected"}, NEW verdict \in {"succeeded", "failed"},
         NEW counted \in BOOLEAN, Settles(c, promise, verdict, counted)
  PROVE  IInv'
<1> DEFINE late == IF call[c].abandoned /\ ~destroyed THEN call[c].late + 1 ELSE call[c].late
           r == [call[c] EXCEPT !.promise = promise, !.verdict = verdict, !.late = late]
<1>1. call[c] \in CallRecords /\ Knows(call[c], destroyed)
  BY DEF IInv, ExecutionTypeOK
<1>2. call[c].late = 0
  BY <1>1 DEF Knows
<1>3. late \in {0, 1}
  BY <1>2
<1>4. r \in CallRecords
  <2>1. ASSUME NEW q \in CallRecords PROVE [q EXCEPT !.promise = promise] \in CallRecords
    BY DEF CallRecords
  <2>2. ASSUME NEW q \in CallRecords PROVE [q EXCEPT !.verdict = verdict] \in CallRecords
    BY DEF CallRecords
  <2>3. ASSUME NEW q \in CallRecords, NEW l \in {0, 1} PROVE [q EXCEPT !.late = l] \in CallRecords
    BY DEF CallRecords
  <2> HIDE DEF late
  <2> QED BY <1>1, <1>3, <2>1, <2>2, <2>3, Zenon
<1>5. Knows(r, destroyed)
  BY <1>1, <1>2 DEF Knows, CallRecords
<1>6. call' = [call EXCEPT ![c] = r] /\ UNCHANGED destroyed
  BY DEF Settles
<1> QED BY <1>4, <1>5, <1>6, OneCall

LEMMA PipelineStep ==
  ASSUME IInv, NEW c \in Calls, Pipeline(c)
  PROVE  IInv'
<1>1. CASE HooksPass(c)
  <2> DEFINE r == [call[c] EXCEPT !.promise = "body", !.executionStarted = TRUE]
  <2>1. call[c] \in CallRecords /\ Knows(call[c], destroyed)
    BY DEF IInv, ExecutionTypeOK
  <2>2. r \in CallRecords
    BY <2>1 DEF CallRecords
  <2>3. Knows(r, destroyed)
    BY <1>1, <2>1 DEF HooksPass, Knows, CallRecords
  <2>4. call' = [call EXCEPT ![c] = r] /\ UNCHANGED destroyed
    BY <1>1 DEF HooksPass
  <2> QED BY <2>2, <2>3, <2>4, OneCall
<1>2. CASE HookAnswers(c)
  BY <1>2, SettleStep DEF HookAnswers
<1>3. CASE HooksThrow(c)
  BY <1>3, SettleStep DEF HooksThrow
<1>4. CASE BodyReturns(c)
  BY <1>4, SettleStep DEF BodyReturns
<1>5. CASE BodyThrows(c)
  BY <1>5, SettleStep DEF BodyThrows
<1> QED BY <1>1, <1>2, <1>3, <1>4, <1>5 DEF Pipeline

LEMMA AbortStep ==
  ASSUME IInv, NEW c \in Calls, NEW why \in {"timeout", "caller"}, Abort(c, why)
  PROVE  IInv'
<1> DEFINE r == [call[c] EXCEPT !.signal = why]
<1>1. call[c] \in CallRecords /\ Knows(call[c], destroyed)
  BY DEF IInv, ExecutionTypeOK
<1>2. r \in CallRecords
  BY <1>1 DEF CallRecords
<1>3. Knows(r, destroyed)
  BY <1>1 DEF Abort, Knows, CallRecords
<1> QED BY <1>2, <1>3, OneCall DEF Abort

\* The outcome a caller is told fits the call it leaves behind.
LEMMA ReportStep ==
  ASSUME IInv, NEW c \in Calls, Report(c)
  PROVE  IInv'
<1> DEFINE left == ~Settled(c)
           r == [call[c] EXCEPT !.status = StatusOf(c), !.completion = CompletionOf(c), !.abandoned = left]
<1>1. call[c] \in CallRecords /\ Knows(call[c], destroyed)
  BY DEF IInv, ExecutionTypeOK
<1>2. call[c].status = "none" /\ (call[c].signal # "clear" \/ Settled(c))
  BY DEF Report, Waiting, Reported
<1>3. StatusOf(c) \in Statuses
  BY <1>1 DEF StatusOf, Statuses, CallRecords
<1>4. /\ ~call[c].executionStarted => CompletionOf(c) = "not_started"
      /\ call[c].executionStarted /\ Settled(c) => CompletionOf(c) = "settled"
      /\ call[c].executionStarted /\ ~Settled(c) => CompletionOf(c) = "unknown"
  BY DEF CompletionOf
<1>5. CompletionOf(c) \in Completions
  BY <1>4 DEF Completions
<1>6. left \in BOOLEAN
  BY DEF Settled
<1>7. r \in CallRecords
  BY <1>1, <1>3, <1>5, <1>6 DEF CallRecords
<1>8. Knows(r, destroyed)
  BY <1>1, <1>2, <1>3, <1>4 DEF Knows, CallRecords, Statuses, Settled
<1>9. call' = [call EXCEPT ![c] = r] /\ UNCHANGED destroyed
  BY DEF Report, Told
<1> QED BY <1>7, <1>8, <1>9, OneCall

\* A call that loses its breaker, and one whose signal is aborted with the manager.
LEMMA Dropped ==
  ASSUME NEW q \in CallRecords, NEW gone \in BOOLEAN, Knows(q, gone)
  PROVE  /\ Knows(q, TRUE)
         /\ [q EXCEPT !.mine = FALSE] \in CallRecords
         /\ Knows([q EXCEPT !.mine = FALSE], gone)
         /\ \A signal \in {q.signal, "destroy"} :
              /\ [q EXCEPT !.mine = FALSE, !.signal = signal] \in CallRecords
              /\ Knows([q EXCEPT !.mine = FALSE, !.signal = signal], TRUE)
<1>1. Knows(q, TRUE)
  BY DEF Knows
<1>2. [q EXCEPT !.mine = FALSE] \in CallRecords
  BY DEF CallRecords
<1>3. Knows([q EXCEPT !.mine = FALSE], gone)
  BY DEF Knows, CallRecords
<1>4. ASSUME NEW signal \in {q.signal, "destroy"}
      PROVE  /\ [q EXCEPT !.mine = FALSE, !.signal = signal] \in CallRecords
             /\ Knows([q EXCEPT !.mine = FALSE, !.signal = signal], TRUE)
  <2>1. [q EXCEPT !.mine = FALSE, !.signal = signal] \in CallRecords
    BY DEF CallRecords
  <2>2. Knows([q EXCEPT !.mine = FALSE, !.signal = signal], TRUE)
    BY DEF Knows, CallRecords
  <2> QED BY <2>1, <2>2
<1> QED BY <1>1, <1>2, <1>3, <1>4

LEMMA DestroyStep ==
  ASSUME IInv, destroy
  PROVE  IInv'
<1> DEFINE signal(c) == IF Waiting(c) /\ call[c].signal = "clear" THEN "destroy" ELSE call[c].signal
           dropped(c) == [call[c] EXCEPT !.mine = FALSE, !.signal = signal(c)]
<1>1. /\ destroyed' = TRUE
      /\ call' = [c \in Calls |-> IF Free(c) THEN call[c] ELSE dropped(c)]
  BY DEF destroy
<1>2. ASSUME NEW c \in Calls
      PROVE  /\ call[c] \in CallRecords /\ Knows(call[c], TRUE)
             /\ dropped(c) \in CallRecords /\ Knows(dropped(c), TRUE)
  <2>1. call[c] \in CallRecords /\ Knows(call[c], destroyed) /\ destroyed \in BOOLEAN
    BY DEF IInv, ExecutionTypeOK
  <2>2. signal(c) \in {call[c].signal, "destroy"}
    OBVIOUS
  <2> HIDE DEF signal
  <2> QED BY <2>1, <2>2, Dropped
<1> HIDE DEF dropped
<1> QED BY <1>1, <1>2 DEF IInv, ExecutionTypeOK

LEMMA ReplaceStep ==
  ASSUME IInv, ReplaceBreaker
  PROVE  IInv'
<1> DEFINE dropped(c) == [call[c] EXCEPT !.mine = FALSE]
<1>1. /\ UNCHANGED destroyed
      /\ call' = [c \in Calls |-> IF Free(c) THEN call[c] ELSE dropped(c)]
  BY DEF ReplaceBreaker
<1>2. ASSUME NEW c \in Calls
      PROVE  dropped(c) \in CallRecords /\ Knows(dropped(c), destroyed)
  BY Dropped DEF IInv, ExecutionTypeOK
<1> HIDE DEF dropped
<1> QED BY <1>1, <1>2 DEF IInv, ExecutionTypeOK

LEMMA NextIInv == IInv /\ [Next]_vars => IInv'
<1> SUFFICES ASSUME IInv, [Next]_vars PROVE IInv'
  OBVIOUS
<1>1. ASSUME NEW c \in Calls,
             Recycle(c) \/ executeWithOutcome(c) \/ Pipeline(c) \/ Report(c)
             \/ \E why \in {"timeout", "caller"} : Abort(c, why)
      PROVE  IInv'
  BY <1>1, RecycleStep, StartStep, PipelineStep, ReportStep, AbortStep
<1>2. CASE destroy
  BY <1>2, DestroyStep
<1>3. CASE ReplaceBreaker
  BY <1>3, ReplaceStep
<1>4. CASE resetToolCircuitBreaker \/ Tick \/ UNCHANGED vars
  <2>1. UNCHANGED <<call, destroyed>>
    BY <1>4 DEF resetToolCircuitBreaker, Tick, execution, vars
  <2> QED BY <2>1 DEF IInv, ExecutionTypeOK
<1> QED BY <1>1, <1>2, <1>3, <1>4 DEF Next

-----------------------------------------------------------------------------
(* The breaker, whose steps do not depend on the calls that cause them.     *)

LEMMA RecentShortens ==
  ASSUME NEW list \in Seq(0..windowMs)
  PROVE  /\ Recent(list) \in Seq(0..windowMs)
         /\ Len(Recent(list)) \in Nat
         /\ Len(Recent(list)) <= Len(list) /\ Len(Recent(list)) <= maxFailures
<1> DEFINE recent == {i \in 1..Len(list) : list[i] < windowMs}
           young == Cardinality(recent)
           kept == IF young > maxFailures THEN maxFailures ELSE young
<1>1. Len(list) \in Nat /\ \A i \in 1..Len(list) : list[i] \in 0..windowMs
  BY LenProperties, ElementOfSeq
<1>2. IsFiniteSet(1..Len(list)) /\ Cardinality(1..Len(list)) = Len(list)
  <2>1. 1 \in Int /\ Len(list) \in Int /\ (1 > Len(list) => Len(list) = 0)
    BY <1>1
  <2>2. Len(list) - 1 + 1 = Len(list)
    BY <1>1
  <2> QED BY <2>1, <2>2, FS_Interval
<1>3. recent \in SUBSET (1..Len(list))
  OBVIOUS
<1>4. IsFiniteSet(recent) /\ young <= Len(list)
  BY <1>2, <1>3, FS_Subset
<1>5. young \in Nat
  BY <1>4, FS_CardinalityType
<1> HIDE DEF recent, young
<1>6. kept \in Nat /\ kept <= Len(list) /\ kept <= maxFailures
  BY <1>1, <1>4, <1>5, BreakerAssumption
<1> HIDE DEF kept
<1>7. /\ SubSeq(list, Len(list) + 1 - kept, Len(list)) \in Seq(0..windowMs)
      /\ Len(SubSeq(list, Len(list) + 1 - kept, Len(list))) = kept
  <2> DEFINE m == Len(list) + 1 - kept
  <2>1. m \in Int /\ Len(list) \in Int /\ m >= 1
    BY <1>1, <1>6
  <2>2. \A i \in m..Len(list) : list[i] \in 0..windowMs
    BY <1>1, <2>1
  <2>3. SubSeq(list, m, Len(list)) \in Seq(0..windowMs)
        /\ Len(SubSeq(list, m, Len(list))) = IF m <= Len(list) THEN Len(list) - m + 1 ELSE 0
    BY <2>1, <2>2, SubSeqProperties
  <2> QED BY <2>1, <2>3, <1>1, <1>6
<1>8. Recent(list) = SubSeq(list, Len(list) + 1 - kept, Len(list))
  BY DEF Recent, kept, young, recent
<1> QED BY <1>1, <1>6, <1>7, <1>8

BreakerInv == BreakerTypeOK /\ ClosedIsBelowThreshold

LEMMA CloseStep == ASSUME Close PROVE BreakerInv'
  BY BreakerAssumption DEF Close, BreakerInv, BreakerTypeOK, ClosedIsBelowThreshold

LEMMA AskStep == ASSUME BreakerInv, Ask \/ Refuse PROVE BreakerInv'
  BY BreakerAssumption DEF Ask, Refuse, breaker, BreakerInv, BreakerTypeOK, ClosedIsBelowThreshold

LEMMA SuccessStep ==
  ASSUME BreakerInv, recordSuccess
  PROVE  BreakerInv'
<1>1. CASE state = "half-open" /\ consecutiveSuccesses + 1 >= successThreshold
  BY <1>1, CloseStep DEF recordSuccess
<1>2. CASE ~(state = "half-open" /\ consecutiveSuccesses + 1 >= successThreshold)
  <2>1. /\ UNCHANGED <<state, openAge>>
        /\ failures' = IF state = "closed" THEN Recent(failures) ELSE failures
        /\ consecutiveSuccesses' = IF consecutiveSuccesses < successThreshold
                                   THEN consecutiveSuccesses + 1 ELSE successThreshold
    BY <1>2 DEF recordSuccess
  <2>2. consecutiveSuccesses' \in 0..successThreshold
    BY <2>1, BreakerAssumption DEF BreakerInv, BreakerTypeOK
  <2>3. /\ failures' \in Seq(0..windowMs) /\ Len(failures') \in Nat
        /\ Len(failures') <= Len(failures) /\ Len(failures') <= maxFailures
    BY <2>1, RecentShortens DEF BreakerInv, BreakerTypeOK
  <2> QED BY <2>1, <2>2, <2>3, BreakerAssumption
    DEF BreakerInv, BreakerTypeOK, ClosedIsBelowThreshold
<1> QED BY <1>1, <1>2

LEMMA FailureStep ==
  ASSUME BreakerInv, recordFailure
  PROVE  BreakerInv'
<1>1. Append(failures, 0) \in Seq(0..windowMs)
  BY BreakerAssumption DEF BreakerInv, BreakerTypeOK
<1>2. failures' \in Seq(0..windowMs) /\ Len(failures') \in Nat /\ Len(failures') <= maxFailures
  BY <1>1, RecentShortens DEF recordFailure
<1>3. consecutiveSuccesses' \in 0..successThreshold
  BY BreakerAssumption DEF recordFailure
<1>4. CASE state = "half-open" \/ (state = "closed" /\ Len(failures') >= failureThreshold)
  BY <1>2, <1>3, <1>4, BreakerAssumption
  DEF recordFailure, BreakerInv, BreakerTypeOK, ClosedIsBelowThreshold
<1>5. CASE ~(state = "half-open" \/ (state = "closed" /\ Len(failures') >= failureThreshold))
  BY <1>2, <1>3, <1>5, BreakerAssumption
  DEF recordFailure, BreakerInv, BreakerTypeOK, ClosedIsBelowThreshold
<1> QED BY <1>4, <1>5

LEMMA AgeStep ==
  ASSUME BreakerInv, Age
  PROVE  BreakerInv'
<1>1. failures \in Seq(0..windowMs) /\ DOMAIN failures = 1..Len(failures) /\ Len(failures) \in Nat
  BY DEF BreakerInv, BreakerTypeOK
<1>2. \A i \in 1..Len(failures) : Older(failures[i], windowMs) \in 0..windowMs
  BY <1>1, BreakerAssumption DEF Older
<1>3. failures' = [i \in 1..Len(failures) |-> Older(failures[i], windowMs)]
  BY <1>1 DEF Age
<1>4. failures' \in Seq(0..windowMs) /\ Len(failures') = Len(failures)
  BY <1>1, <1>2, <1>3
<1>5. openAge' \in 0..resetTimeout
  BY BreakerAssumption DEF Age, Older, BreakerInv, BreakerTypeOK
<1> QED BY <1>4, <1>5 DEF Age, BreakerInv, BreakerTypeOK, ClosedIsBelowThreshold

LEMMA CallBreakerSteps ==
  ASSUME NEW c \in Calls,
         Pipeline(c) \/ Recycle(c) \/ executeWithOutcome(c) \/ Report(c)
         \/ \E why \in {"timeout", "caller"} : Abort(c, why)
  PROVE  Ask \/ Refuse \/ recordSuccess \/ recordFailure \/ UNCHANGED breaker
<1>1. CASE Pipeline(c)
  BY <1>1 DEF Pipeline, HooksPass, HookAnswers, HooksThrow, BodyReturns, BodyThrows, Settles, breaker
<1>2. CASE ~Pipeline(c)
  BY <1>2 DEF Recycle, executeWithOutcome, Report, Told, Abort, breaker
<1> QED BY <1>1, <1>2

LEMMA BreakerStep ==
  ASSUME BreakerInv, Close \/ Ask \/ Refuse \/ recordSuccess \/ recordFailure \/ Age \/ UNCHANGED breaker
  PROVE  BreakerInv'
<1>1. CASE UNCHANGED breaker
  BY <1>1 DEF breaker, BreakerInv, BreakerTypeOK, ClosedIsBelowThreshold
<1> QED BY <1>1, CloseStep, AskStep, SuccessStep, FailureStep, AgeStep

LEMMA BreakerSteps ==
  ASSUME BreakerInv, [Next]_vars
  PROVE  BreakerInv'
<1>1. Close \/ Ask \/ Refuse \/ recordSuccess \/ recordFailure \/ Age \/ UNCHANGED breaker
  BY CallBreakerSteps DEF Next, destroy, ReplaceBreaker, resetToolCircuitBreaker, Tick, vars, breaker
<1> QED BY <1>1, BreakerStep

LEMMA BreakerInvariance == Spec => []BreakerInv
<1>1. Init => BreakerInv
  BY BreakerAssumption
  DEF Init, BreakerInit, BreakerInv, BreakerTypeOK, ClosedIsBelowThreshold
<1>2. BreakerInv /\ [Next]_vars => BreakerInv'
  BY BreakerSteps
<1> QED BY <1>1, <1>2, PTL DEF Spec

-----------------------------------------------------------------------------
LEMMA Invariance == Spec => []IInv
  BY InitIInv, NextIInv, PTL DEF Spec

(* Type correctness of the breaker, of the calls and of what their callers   *)
(* are told.                                                                 *)
THEOREM TypeCorrect == Spec => []TypeOK
<1>1. IInv /\ BreakerInv => TypeOK BY DEF IInv, BreakerInv, TypeOK
<1> QED BY <1>1, Invariance, BreakerInvariance, PTL

(* A breaker that is closed has fewer failures on its list than open it,     *)
(* whatever calls admitted earlier report (CircuitBreaker.ts:205-260).       *)
THEOREM ClosedStaysBelow == Spec => []ClosedIsBelowThreshold
<1>1. BreakerInv => ClosedIsBelowThreshold BY DEF BreakerInv
<1> QED BY <1>1, BreakerInvariance, PTL

(* A call that was reported as not started is never started afterwards       *)
(* (ToolManager.ts:1220-1222).                                               *)
THEOREM NotStartedStays == Spec => []NotStartedIsFinal
<1>1. IInv => NotStartedIsFinal BY DEF IInv, Knows, NotStartedIsFinal
<1> QED BY <1>1, Invariance, PTL

(* Whoever was told nothing final is told once when its call settles, and a  *)
(* settled outcome is never reopened (ToolManager.ts:1239-1291).             *)
THEOREM LateIsOnce == Spec => []LateOnce
<1>1. ASSUME IInv PROVE LateOnce
  <2> SUFFICES ASSUME NEW c \in Calls
               PROVE  /\ call[c].late <= 1
                      /\ call[c].late = 1 => Settled(c) /\ call[c].abandoned
                      /\ call[c].completion = "settled" => Settled(c) /\ call[c].late = 0
                      /\ call[c].completion = "unknown" /\ Settled(c) /\ ~destroyed => call[c].late = 1
    BY DEF LateOnce
  <2>1. call[c] \in CallRecords /\ Knows(call[c], destroyed)
    BY <1>1 DEF IInv, ExecutionTypeOK
  <2> QED BY <2>1 DEF Knows, Settled, CallRecords
<1> QED BY <1>1, Invariance, PTL

-----------------------------------------------------------------------------
(* The managed loop.  A write key is held by the call that asked for it until *)
(* the controller has seen that this call never started.  admit() hands a key *)
(* to one call at a time, except that each imported "not_started" of an       *)
(* earlier execution takes the admission from a call that still holds it.     *)

Holders(k) == {c \in Calls : key[c] = k /\ ~(c \in observed /\ call[c].completion = "not_started")}
Released(k) == Imported(k, {"not_started"})

Account(k) ==
  Cardinality(Holders(k)) <= Cardinality(Released(k)) + (IF k \in admitted THEN 1 ELSE 0)

EarlierRecords ==
  [key : Writes \cup Reads, fate : {"open", "cancelled", "not_started", "unknown", "settled"}]

LoopTypes ==
  /\ phase \in {"start", "deliver", "model", "tools", "cancelling", "over"}
  /\ reason \in {"none", "completed", "uncertain_effect", "stopped"}
  /\ iterations \in 0..maxIterations /\ recoveryAttempts \in 0..maxRecoveryAttempts
  /\ phase \in {"start", "deliver"} => iterations < maxIterations
  /\ consecutiveToolFailures \in 0..maxConsecutiveToolFailures
  /\ refused \in 0..maxConsecutiveToolFailures
  /\ lastBatchFailure \in BOOLEAN
  /\ key \in [Calls -> Writes \cup Reads \cup {"none"}]
  /\ background \subseteq Calls /\ observed \subseteq Calls
  /\ delivered \subseteq Calls /\ cancelled \subseteq Calls
  /\ uncertain \subseteq Calls \cup Earlier
  /\ admitted \subseteq Writes
  /\ earlier \in [Earlier -> EarlierRecords]

\* Each call asks in a slot of its own and is observed after its report.
SlotsInv ==
  /\ \A c \in observed : Asking(c) /\ Reported(c)
  /\ \A c \in Calls : ~Asking(c) => Free(c)
  /\ \A c \in background : Asking(c)
  /\ delivered \subseteq observed

AdmittedInv == \A k \in Writes : Account(k)

\* The model is asked only when no blocking call is open, and an uncertain effect
\* ends the policy.
CertainInv ==
  /\ phase \in {"start", "deliver", "model"} => ~BlockingOpen
  /\ reason \in {"none", "completed"} => uncertain = {}
  /\ \A c \in observed : UncertainEffect(c) => c \in uncertain
  /\ reason = "completed" => /\ phase = "over" /\ Open = {}
                             /\ \A c \in Calls \ cancelled : Asking(c) => c \in observed

LoopInv == LoopTypes /\ SlotsInv /\ AdmittedInv /\ CertainInv

\* Subsets of the calls and of the earlier calls can be counted.
LEMMA Counted ==
  ASSUME NEW S, S \subseteq Calls \/ S \subseteq Earlier
  PROVE  /\ IsFiniteSet(S) /\ Cardinality(S) \in Nat
         /\ \A T \in SUBSET S : Cardinality(T) <= Cardinality(S)
<1>1. IsFiniteSet(S)
  BY LoopAssumption, FS_Subset
<1> QED BY <1>1, FS_Subset, FS_CardinalityType

LEMMA AccountCounted ==
  /\ \A k : Cardinality(Holders(k)) \in Nat /\ Cardinality(Released(k)) \in Nat
  /\ \A k : Cardinality(Holders(k)') \in Nat /\ Cardinality(Released(k)') \in Nat
<1>1. \A k : Holders(k) \subseteq Calls /\ Holders(k)' \subseteq Calls
  BY DEF Holders
<1>2. \A k : Released(k) \subseteq Earlier /\ Released(k)' \subseteq Earlier
  BY DEF Released, Imported
<1> QED BY <1>1, <1>2, Counted

\* A step that gives nobody the key, takes back no admission and no release.
LEMMA AccountKept ==
  ASSUME NEW k, Account(k), Holders(k)' \subseteq Holders(k), Released(k) \subseteq Released(k)',
         k \in admitted => k \in admitted'
  PROVE  Account(k)'
<1>1. Holders(k) \subseteq Calls /\ Released(k)' \subseteq Earlier
  BY DEF Holders, Released, Imported
<1>2. Cardinality(Holders(k)') <= Cardinality(Holders(k))
      /\ Cardinality(Released(k)) <= Cardinality(Released(k)')
  BY <1>1, Counted
<1>3. Account(k)' <=> Cardinality(Holders(k)') <= Cardinality(Released(k)') + (IF k \in admitted' THEN 1 ELSE 0)
  BY DEF Account
<1>4. Cardinality(Holders(k)) <= Cardinality(Released(k)) + (IF k \in admitted THEN 1 ELSE 0)
  BY DEF Account
<1> QED BY <1>2, <1>3, <1>4, AccountCounted

\* A call that goes on keeps its slot and what its caller was told.
Keeps(c) ==
  /\ Free(c) => Free(c)'
  /\ Reported(c) => Reported(c)' /\ call'[c].completion = call[c].completion

LEMMA ToolStepsKeep ==
  ASSUME IInv, NEW c \in Calls, NEW d \in Calls, ToolSteps(d)
  PROVE  Keeps(c)
<1>1. call[c] \in CallRecords /\ call[d] \in CallRecords /\ DOMAIN call = Calls
  BY DEF IInv, ExecutionTypeOK
<1>2. CASE Pipeline(d)
  <2>1. ~Free(d)
    <3>1. call[d].promise # "none"
      BY <1>2 DEF Pipeline, HooksPass, HookAnswers, HooksThrow, BodyReturns, BodyThrows
    <3>2. NoCall.promise = "none"
      BY DEF NoCall
    <3> QED BY <3>1, <3>2 DEF Free
  <2>2. /\ c # d => call'[c] = call[c]
        /\ call'[d].status = call[d].status /\ call'[d].completion = call[d].completion
    <3>1. CASE HooksPass(d)
      BY <1>1, <3>1 DEF HooksPass, CallRecords
    <3>2. CASE ~HooksPass(d)
      <4>1. PICK promise, verdict, counted : Settles(d, promise, verdict, counted)
        BY <1>2, <3>2 DEF Pipeline, HookAnswers, HooksThrow, BodyReturns, BodyThrows
      <4>2. PICK late : call' = [call EXCEPT ![d] =
                                  [call[d] EXCEPT !.promise = promise, !.verdict = verdict, !.late = late]]
        BY <4>1 DEF Settles
      <4> QED BY <1>1, <4>2 DEF CallRecords
    <3> QED BY <3>1, <3>2
  <2> QED BY <2>1, <2>2 DEF Keeps, Free, Reported
<1>3. CASE Report(d) \/ Abort(d, "timeout")
  <2>1. Waiting(d) /\ (c # d => call'[c] = call[c])
    BY <1>1, <1>3 DEF Report, Told, Abort
  <2> QED BY <2>1 DEF Keeps, Free, Reported, Waiting
<1> QED BY <1>2, <1>3 DEF ToolSteps

LEMMA CancelKeeps ==
  ASSUME IInv, NEW c \in Calls, Cancel
  PROVE  Keeps(c)
<1>1. call[c] \in CallRecords
  BY DEF IInv, ExecutionTypeOK
<1>2. Waiting(c) \/ call'[c] = call[c]
  BY DEF Cancel
<1> QED BY <1>2 DEF Keeps, Free, Reported, Waiting

LEMMA CancelStep ==
  ASSUME IInv, Cancel
  PROVE  IInv'
<1> DEFINE aborted(c) == [call[c] EXCEPT !.signal = "caller"]
<1>1. /\ UNCHANGED destroyed
      /\ call' = [c \in Calls |-> IF Asking(c) /\ Waiting(c) /\ call[c].signal = "clear"
                                  THEN aborted(c) ELSE call[c]]
  BY DEF Cancel
<1>2. ASSUME NEW c \in Calls, call[c].signal = "clear"
      PROVE  aborted(c) \in CallRecords /\ Knows(aborted(c), destroyed)
  <2>1. call[c] \in CallRecords /\ Knows(call[c], destroyed)
    BY DEF IInv, ExecutionTypeOK
  <2>2. aborted(c) \in CallRecords
    BY <2>1 DEF CallRecords
  <2> QED BY <1>2, <2>1, <2>2 DEF Knows, CallRecords
<1> HIDE DEF aborted
<1> QED BY <1>1, <1>2 DEF IInv, ExecutionTypeOK

\* So does cancelAsyncTool() with those it drops.
LEMMA DropKeeps ==
  ASSUME IInv, NEW own, NEW left, Drop(own, left), NEW c \in Calls
  PROVE  Keeps(c)
<1>1. call[c] \in CallRecords
  BY DEF IInv, ExecutionTypeOK
<1>2. Waiting(c) \/ call'[c] = call[c]
  BY DEF Drop
<1> QED BY <1>2 DEF Keeps, Free, Reported, Waiting

LEMMA DropStep ==
  ASSUME IInv, NEW own, NEW left, Drop(own, left)
  PROVE  IInv'
<1> DEFINE aborted(c) == [call[c] EXCEPT !.signal = "caller"]
<1>1. /\ UNCHANGED destroyed
      /\ call' = [c \in Calls |-> IF c \in own /\ Waiting(c) /\ call[c].signal = "clear"
                                  THEN aborted(c) ELSE call[c]]
  BY DEF Drop
<1>2. ASSUME NEW c \in Calls, call[c].signal = "clear"
      PROVE  aborted(c) \in CallRecords /\ Knows(aborted(c), destroyed)
  <2>1. call[c] \in CallRecords /\ Knows(call[c], destroyed)
    BY DEF IInv, ExecutionTypeOK
  <2>2. aborted(c) \in CallRecords
    BY <2>1 DEF CallRecords
  <2> QED BY <1>2, <2>1, <2>2 DEF Knows, CallRecords
<1> HIDE DEF aborted
<1> QED BY <1>1, <1>2 DEF IInv, ExecutionTypeOK

\* Which calls are dropped at once, with those of earlier executions.
LEMMA Drops ==
  ASSUME cancelAsyncTool \/ cancelAllAsyncTools
  PROVE  \E own \in SUBSET Tracked, left \in SUBSET Open : phase # "over" /\ Drop(own, left)
<1>1. CASE cancelAllAsyncTools
  BY <1>1 DEF cancelAllAsyncTools
<1>2. ASSUME NEW c \in Tracked, Drop({c}, {}), phase # "over"
      PROVE  \E own \in SUBSET Tracked, left \in SUBSET Open : phase # "over" /\ Drop(own, left)
  BY <1>2, Zenon
<1>3. ASSUME NEW e \in Open, Drop({}, {e}), phase # "over"
      PROVE  \E own \in SUBSET Tracked, left \in SUBSET Open : phase # "over" /\ Drop(own, left)
  BY <1>3, Zenon
<1> QED BY <1>1, <1>2, <1>3 DEF cancelAsyncTool

LEMMA LoopKeepsCalls ==
  ASSUME IInv, [LoopNext]_loopState
  PROVE  IInv'
<1>1. CASE UNCHANGED execution
  BY <1>1 DEF execution, IInv, ExecutionTypeOK
<1>2. CASE Start \/ BeginIteration \/ ModelAnswers \/ ModelAsksForTools \/ EndBatch \/ EndCancelled \/ UNCHANGED loopState
  <2>1. UNCHANGED execution
    BY <1>2 DEF Start, BeginIteration, Import, ModelAnswers, EndIteration, ModelAsksForTools, EndBatch,
                EndCancelled, loopState, vars
  <2> QED BY <1>1, <2>1
<1>8. CASE cancelAsyncTool \/ cancelAllAsyncTools
  BY <1>8, Drops, DropStep
<1>3. CASE Cancel
  BY <1>3, CancelStep
<1>4. ASSUME NEW k \in Writes \cup Reads, NEW b \in BOOLEAN, StartTool(k, b) PROVE IInv'
  <2>1. PICK c \in Calls : executeWithOutcome(c)
    BY <1>4 DEF StartTool, NextSlot
  <2> QED BY <2>1, StartStep
<1>5. ASSUME NEW k \in Writes \cup Reads, RefuseTool(k) PROVE IInv'
  BY <1>1, <1>5 DEF RefuseTool
<1>6. ASSUME NEW c \in Calls, ObserveTool(c) PROVE IInv'
  BY <1>1, <1>6 DEF ObserveTool
<1>7. ASSUME NEW c \in Calls, ToolSteps(c) PROVE IInv'
  BY <1>7, PipelineStep, ReportStep, AbortStep DEF ToolSteps
<1> QED BY <1>2, <1>3, <1>4, <1>5, <1>6, <1>7, <1>8 DEF LoopNext

\* Steps of the tools and of cancel() disturb nothing the loop knows.
Undisturbed == UNCHANGED ledger /\ UNCHANGED <<reason, counters, batch>>

LEMMA ToolsKeepLoop ==
  ASSUME LoopInv, Undisturbed, \A c \in Calls : Keeps(c),
         phase' = phase \/ (phase' = "cancelling" /\ phase # "over")
  PROVE  LoopInv'
<1>1. /\ key' = key /\ background' = background /\ admitted' = admitted /\ observed' = observed
      /\ delivered' = delivered /\ cancelled' = cancelled /\ earlier' = earlier
      /\ uncertain' = uncertain /\ reason' = reason
  BY DEF Undisturbed, ledger, queue
<1>2. LoopTypes'
  BY <1>1 DEF Undisturbed, LoopInv, LoopTypes, counters, batch
<1>3. SlotsInv'
  BY <1>1 DEF LoopInv, LoopTypes, SlotsInv, Keeps, Asking
<1>4. \A c \in observed : call'[c].completion = call[c].completion
  BY DEF LoopInv, LoopTypes, SlotsInv, Keeps
<1>5. \A k : Holders(k)' = Holders(k) /\ Released(k)' = Released(k)
  BY <1>1, <1>4 DEF Holders, Released, Imported
<1>6. AdmittedInv'
  BY <1>1, <1>5, AccountKept DEF LoopInv, AdmittedInv
<1>7. CertainInv'
  <2>1. \A c \in observed : UncertainEffect(c)' <=> UncertainEffect(c)
    BY <1>1, <1>4 DEF UncertainEffect
  <2>2. (BlockingOpen' <=> BlockingOpen) /\ Open' = Open
    BY <1>1 DEF BlockingOpen, Asking, Open
  <2>3. \A c \in Calls : Asking(c)' <=> Asking(c)
    BY <1>1 DEF Asking
  <2> QED BY <1>1, <2>1, <2>2, <2>3 DEF LoopInv, CertainInv
<1> QED BY <1>2, <1>3, <1>6, <1>7 DEF LoopInv

\* What is dropped stays what it is; a key is neither held nor released by it.
LEMMA DropKeepsLoop ==
  ASSUME IInv, LoopInv, NEW own \in SUBSET Tracked, NEW left \in SUBSET Open, Drop(own, left), phase # "over"
  PROVE  LoopInv'
<1>1. /\ UNCHANGED <<phase, reason, counters, batch, key, background, admitted, observed, delivered, uncertain>>
      /\ cancelled' = cancelled \cup own
      /\ earlier' = [e \in Earlier |-> IF e \in left THEN [earlier[e] EXCEPT !.fate = "cancelled"] ELSE earlier[e]]
  BY DEF Drop
<1>2. \A c \in Calls : Keeps(c)
  BY DropKeeps
<1>3. LoopTypes'
  <2>1. earlier' \in [Earlier -> EarlierRecords]
    BY <1>1 DEF LoopInv, LoopTypes, EarlierRecords
  <2>2. cancelled' \subseteq Calls
    BY <1>1 DEF LoopInv, LoopTypes, Tracked
  <2> QED BY <1>1, <2>1, <2>2 DEF LoopInv, LoopTypes, counters, batch
<1>4. SlotsInv'
  BY <1>1, <1>2 DEF LoopInv, LoopTypes, SlotsInv, Keeps, Asking
<1>5. \A c \in observed : call'[c].completion = call[c].completion
  BY <1>2 DEF LoopInv, LoopTypes, SlotsInv, Keeps
<1>6. AdmittedInv'
  <2>1. \A e \in Earlier : earlier[e].fate = "not_started" => earlier'[e] = earlier[e]
    BY <1>1 DEF Open
  <2>2. \A k : Holders(k)' \subseteq Holders(k) /\ Released(k) \subseteq Released(k)'
    BY <1>1, <1>5, <2>1 DEF Holders, Released, Imported
  <2> QED BY <1>1, <2>2, AccountKept DEF LoopInv, AdmittedInv
<1>7. CertainInv'
  <2>1. \A c \in observed : UncertainEffect(c)' <=> UncertainEffect(c)
    BY <1>1, <1>5 DEF UncertainEffect
  <2>2. BlockingOpen' <=> BlockingOpen
    BY <1>1 DEF BlockingOpen, Asking
  <2> QED BY <1>1, <2>1, <2>2 DEF LoopInv, CertainInv
<1> QED BY <1>3, <1>4, <1>6, <1>7 DEF LoopInv

\* A new call takes a free slot and a key nobody holds.
LEMMA StartKeepsLoop ==
  ASSUME IInv, LoopInv, NEW k \in Writes \cup Reads, NEW b \in BOOLEAN, StartTool(k, b)
  PROVE  LoopInv'
<1>1. PICK c \in Calls :
        /\ ~Asking(c) /\ executeWithOutcome(c)
        /\ phase = "tools" /\ Admits(k)
        /\ key' = [key EXCEPT ![c] = k]
        /\ background' = background \cup {d \in {c} : b}
        /\ admitted' = admitted \cup ({k} \cap Writes)
        /\ UNCHANGED <<phase, reason, counters, batch, observed, queue, uncertain>>
  BY DEF StartTool, NextSlot
<1>2. k # "none" /\ c \notin observed /\ c \notin background
  BY <1>1, LoopAssumption DEF LoopInv, SlotsInv
<1>3. /\ key'[c] = k
      /\ \A d \in Calls : d # c => key'[d] = key[d] /\ call'[d] = call[d]
  BY <1>1 DEF LoopInv, LoopTypes, IInv, ExecutionTypeOK, executeWithOutcome
<1>4. LoopTypes'
  BY <1>1 DEF LoopInv, LoopTypes, counters, batch, queue
<1>5. SlotsInv'
  <2>1. \A d \in Calls : d # c => (Asking(d)' <=> Asking(d)) /\ (Reported(d)' <=> Reported(d)) /\ (Free(d)' <=> Free(d))
    BY <1>3 DEF Asking, Reported, Free
  <2>2. Asking(c)'
    BY <1>2, <1>3 DEF Asking
  <2> QED BY <1>1, <1>2, <2>1, <2>2 DEF LoopInv, LoopTypes, SlotsInv, queue
<1>6. AdmittedInv'
  <2>1. \A j : Released(j)' = Released(j)
    BY <1>1 DEF Released, Imported, queue
  <2>2. \A j : j # k => Holders(j)' \subseteq Holders(j)
    BY <1>1, <1>3 DEF Holders
  <2>3. \A j \in Writes : j # k => Account(j)'
    BY <1>1, <2>1, <2>2, AccountKept DEF LoopInv, AdmittedInv
  <2>4. ASSUME k \in Writes PROVE Account(k)'
    <3>1. k \notin admitted /\ k \in admitted'
      BY <1>1, <2>4 DEF Admits
    <3>2. Holders(k)' \subseteq Holders(k) \cup {c}
      BY <1>1, <1>3 DEF Holders
    <3>3. Holders(k) \subseteq Calls /\ Holders(k) \cup {c} \subseteq Calls
      BY DEF Holders
    <3>4. Cardinality(Holders(k) \cup {c}) <= Cardinality(Holders(k)) + 1
      BY <3>3, Counted, FS_AddElement, AccountCounted
    <3>5. Cardinality(Holders(k)') <= Cardinality(Holders(k) \cup {c}) /\ Cardinality(Holders(k) \cup {c}) \in Nat
      BY <3>2, <3>3, Counted
    <3>6. Cardinality(Holders(k)) <= Cardinality(Released(k)) + 0
      BY <2>4, <3>1, AccountCounted DEF LoopInv, AdmittedInv, Account
    <3>7. Cardinality(Released(k)') = Cardinality(Released(k))
      BY <2>1
    <3>8. Cardinality(Holders(k)') <= Cardinality(Released(k)') + 1
      BY <3>4, <3>5, <3>6, <3>7, AccountCounted
    <3> QED BY <3>1, <3>8 DEF Account
  <2> QED BY <2>3, <2>4 DEF AdmittedInv
<1>7. CertainInv'
  <2>1. \A d \in observed : UncertainEffect(d)' <=> UncertainEffect(d)
    BY <1>2, <1>3 DEF UncertainEffect, LoopInv, LoopTypes
  <2> QED BY <1>1, <2>1 DEF LoopInv, CertainInv, Admits, Stopped
<1> QED BY <1>4, <1>5, <1>6, <1>7 DEF LoopInv

\* A call that never started gives its key back, and holds it no longer.
LEMMA ObserveKeepsLoop ==
  ASSUME LoopInv, NEW c \in Calls, ObserveTool(c)
  PROVE  LoopInv'
<1>1. /\ Asking(c) /\ Reported(c) /\ c \notin observed
      /\ observed' = observed \cup {c}
      /\ uncertain' = uncertain \cup {d \in {c} : UncertainEffect(d)}
      /\ reason' = IF UncertainEffect(c) THEN "uncertain_effect" ELSE reason
      /\ admitted' = admitted \ {k \in {key[c]} : call[c].completion = "not_started"}
      /\ UNCHANGED <<phase, counters, refused, key, background, queue, execution, breaker>>
  BY DEF ObserveTool, Observe
<1>2. LoopTypes'
  <2>1. /\ consecutiveToolFailures' \in 0..maxConsecutiveToolFailures
        /\ lastBatchFailure' \in BOOLEAN
    BY LoopAssumption DEF ObserveTool, Observe, Older, LoopInv, LoopTypes
  <2> QED BY <1>1, <2>1 DEF LoopInv, LoopTypes, counters, queue
<1>3. SlotsInv'
  BY <1>1 DEF LoopInv, LoopTypes, SlotsInv, Asking, Reported, Free, execution, queue
<1>4. AdmittedInv'
  <2>1. \A k : Released(k)' = Released(k)
    BY <1>1 DEF Released, Imported, queue
  <2>2. \A k : Holders(k)' \subseteq Holders(k)
    BY <1>1 DEF Holders, execution
  <2>3. ASSUME NEW k \in Writes, ~(k = key[c] /\ call[c].completion = "not_started") PROVE Account(k)'
    BY <1>1, <2>1, <2>2, <2>3, AccountKept DEF LoopInv, AdmittedInv
  <2>4. ASSUME NEW k \in Writes, k = key[c], call[c].completion = "not_started" PROVE Account(k)'
    <3>1. c \in Holders(k)
      BY <1>1, <2>4 DEF Holders
    <3>2. Holders(k)' = Holders(k) \ {c}
      BY <1>1, <2>4 DEF Holders, execution
    <3>3. Cardinality(Holders(k)') = Cardinality(Holders(k)) - 1
      BY <3>1, <3>2, FS_RemoveElement, Counted DEF Holders
    <3>4. Cardinality(Holders(k)) <= Cardinality(Released(k)) + (IF k \in admitted THEN 1 ELSE 0)
      BY DEF LoopInv, AdmittedInv, Account
    <3>5. Cardinality(Holders(k)') <= Cardinality(Released(k))
      BY <3>3, <3>4, AccountCounted
    <3>6. Cardinality(Holders(k)') <= Cardinality(Released(k)') + (IF k \in admitted' THEN 1 ELSE 0)
      BY <2>1, <3>5, AccountCounted
    <3> QED BY <3>6 DEF Account
  <2> QED BY <2>3, <2>4 DEF AdmittedInv
<1>5. CertainInv'
  <2>1. \A d \in Calls : UncertainEffect(d)' <=> UncertainEffect(d)
    BY <1>1 DEF UncertainEffect, execution
  <2>2. (BlockingOpen' => BlockingOpen) /\ Open' = Open
    BY <1>1 DEF BlockingOpen, Asking, Open, queue
  <2>3. reason' \in {"none", "completed"} => reason' = reason /\ ~UncertainEffect(c)
    BY <1>1
  <2>4. reason' \in {"none", "completed"} => uncertain' = {}
    BY <1>1, <2>3 DEF LoopInv, CertainInv
  <2>5. \A d \in observed' : UncertainEffect(d)' => d \in uncertain'
    BY <1>1, <2>1 DEF LoopInv, LoopTypes, CertainInv
  <2>6. reason' = "completed" => /\ phase' = "over" /\ Open' = {}
                                 /\ \A d \in Calls \ cancelled' : Asking(d)' => d \in observed'
    BY <1>1, <2>2, <2>3 DEF LoopInv, CertainInv, Asking, queue
  <2> QED BY <1>1, <2>2, <2>4, <2>5, <2>6 DEF LoopInv, CertainInv
<1> QED BY <1>2, <1>3, <1>4, <1>5 DEF LoopInv

\* The failures in a row after a delivery are counted up to the limit.
LEMMA FailuresAreCounted ==
  ASSUME LoopInv, NEW outcome \in Deliveries
  PROVE  FailuresAfter(outcome) \subseteq 0..maxConsecutiveToolFailures
<1> DEFINE failed == {e \in DOMAIN outcome : outcome[e].failed}
           count == consecutiveToolFailures + Cardinality(failed)
<1>1. DOMAIN outcome \subseteq Earlier
  BY DEF Deliveries, Open
<1>2. Cardinality(failed) \in Nat
  BY <1>1, Counted
<1>3. count \in Nat /\ maxConsecutiveToolFailures \in Nat
  BY <1>2, LoopAssumption DEF LoopInv, LoopTypes
<1>4. FailuresAfter(outcome) = IF failed = DOMAIN outcome
        THEN {IF count > maxConsecutiveToolFailures THEN maxConsecutiveToolFailures ELSE count}
        ELSE {n \in 0..maxConsecutiveToolFailures : n <= Cardinality(failed)}
  BY DEF FailuresAfter
<1> HIDE DEF failed, count
<1>5. (IF count > maxConsecutiveToolFailures THEN maxConsecutiveToolFailures ELSE count) \in 0..maxConsecutiveToolFailures
  BY <1>3
<1> QED BY <1>4, <1>5

\* Every verdict that ends a batch, a delivery or an answer is one of these.
LEMMA Verdicts ==
  ASSUME LoopInv
  PROVE  /\ \A why : Finish(why).reason = why /\ Finish(why).attempts = recoveryAttempts
         /\ Recover.reason \in {"none", "stopped"} /\ Recover.attempts \in 0..maxRecoveryAttempts
         /\ \A why, count, failure : \A v \in AfterTools(why, count, failure) :
              /\ v.attempts \in 0..maxRecoveryAttempts
              /\ v.reason \in {why, "none", "stopped"} /\ (why # "none" => v.reason = why)
<1>1. \A why : Finish(why).reason = why /\ Finish(why).attempts = recoveryAttempts
  BY DEF Finish
<1>2. Recover.reason \in {"none", "stopped"} /\ Recover.attempts \in 0..maxRecoveryAttempts
  BY LoopAssumption DEF Recover, LoopInv, LoopTypes
<1>3. recoveryAttempts \in 0..maxRecoveryAttempts
  BY DEF LoopInv, LoopTypes
<1>4. ASSUME NEW why, NEW count, NEW failure, NEW v \in AfterTools(why, count, failure)
      PROVE  /\ v.attempts \in 0..maxRecoveryAttempts
             /\ v.reason \in {why, "none", "stopped"} /\ (why # "none" => v.reason = why)
  <2>1. /\ v \in {Finish(why), Finish("stopped"), Recover, Finish("none")}
        /\ why # "none" => v = Finish(why)
    BY <1>4 DEF AfterTools
  <2> QED BY <1>1, <1>2, <1>3, <2>1
<1> QED BY <1>1, <1>2, <1>4

\* An imported "not_started" takes an admission and is one release more; other
\* results take none.
LEMMA ImportAccount ==
  ASSUME LoopInv, NEW outcome \in Deliveries, Import(outcome), NEW k \in Writes
  PROVE  Account(k)'
<1> DEFINE told(e) == e \in DOMAIN outcome
           freed == \E e \in Earlier : told(e) /\ earlier[e].key = k /\ outcome[e].completion = "not_started"
<1>1. DOMAIN outcome \subseteq Open
  BY DEF Deliveries
<1>2. /\ earlier' = [e \in Earlier |-> IF told(e) THEN [earlier[e] EXCEPT !.fate = outcome[e].completion]
                                       ELSE earlier[e]]
      /\ k \in admitted /\ ~freed => k \in admitted'
      /\ UNCHANGED <<key, observed, call>>
  BY DEF Import, execution
<1>3. earlier \in [Earlier -> EarlierRecords]
  BY DEF LoopInv, LoopTypes
<1>4. \A e \in Earlier : ~told(e) => earlier'[e] = earlier[e]
  BY <1>2
<1>5. \A e \in Earlier : told(e) => /\ earlier[e].fate = "open" /\ earlier'[e].key = earlier[e].key
                                    /\ earlier'[e].fate = outcome[e].completion
  BY <1>1, <1>2, <1>3 DEF Open, EarlierRecords
<1> HIDE DEF told
<1>6. Holders(k)' = Holders(k)
  BY <1>2 DEF Holders
<1>7. Released(k) \subseteq Released(k)'
  BY <1>4, <1>5 DEF Released, Imported
<1>8. Account(k)
  BY DEF LoopInv, AdmittedInv
<1>9. CASE ~freed
  BY <1>2, <1>6, <1>7, <1>8, <1>9, AccountKept
<1>10. CASE freed
  <2>1. PICK e \in Earlier : told(e) /\ earlier[e].key = k /\ outcome[e].completion = "not_started"
    BY <1>10
  <2>2. e \notin Released(k) /\ e \in Released(k)'
    BY <1>5, <2>1 DEF Released, Imported
  <2>3. Released(k) \subseteq Earlier /\ Released(k)' \subseteq Earlier /\ Released(k) \cup {e} \subseteq Released(k)'
    BY <1>7, <2>2 DEF Released, Imported
  <2>4. Cardinality(Released(k) \cup {e}) = Cardinality(Released(k)) + 1
    BY <2>2, <2>3, Counted, FS_AddElement
  <2>5. Cardinality(Released(k) \cup {e}) <= Cardinality(Released(k)')
    BY <2>3, Counted
  <2>6. Cardinality(Holders(k)) <= Cardinality(Released(k)) + 1
    BY <1>8, AccountCounted DEF Account
  <2>7. Cardinality(Holders(k)') <= Cardinality(Released(k)')
    BY <1>6, <2>4, <2>5, <2>6, AccountCounted
  <2>8. Cardinality(Holders(k)') <= Cardinality(Released(k)') + (IF k \in admitted' THEN 1 ELSE 0)
    BY <2>7, AccountCounted
  <2> QED BY <2>8 DEF Account
<1> QED BY <1>9, <1>10

\* A delivery, at the start or at the top of an iteration: it may end the policy,
\* never complete it.
LEMMA ImportKeepsLoop ==
  ASSUME LoopInv, NEW outcome \in Deliveries, Import(outcome),
         phase \in {"start", "deliver"}, phase' \in {"deliver", "model", "over"},
         iterations' \in 0..maxIterations, phase' = "deliver" => iterations' < maxIterations,
         delivered' = delivered \/ delivered' = delivered \cup (Tracked \cap observed)
  PROVE  LoopInv'
<1> DEFINE unsure == {e \in DOMAIN outcome : earlier[e].key \in Writes /\ outcome[e].completion = "unknown"}
           why == IF unsure # {} THEN "uncertain_effect" ELSE reason
<1>1. /\ earlier' = [e \in Earlier |-> IF e \in DOMAIN outcome
                                       THEN [earlier[e] EXCEPT !.fate = outcome[e].completion] ELSE earlier[e]]
      /\ uncertain' = uncertain \cup unsure
      /\ consecutiveToolFailures' \in FailuresAfter(outcome)
      /\ lastBatchFailure' = (lastBatchFailure /\ DOMAIN outcome = {})
      /\ UNCHANGED <<key, background, observed, cancelled, refused, execution, breaker>>
  BY DEF Import
<1>2. admitted' \subseteq Writes
  BY DEF Import, LoopInv, LoopTypes
<1>3. DOMAIN outcome \subseteq Earlier /\ \A e \in DOMAIN outcome : outcome[e] \in Outcomes
  BY DEF Deliveries, Open
<1>4. \E v : /\ reason' = v.reason /\ recoveryAttempts' = v.attempts
             /\ v \in {Finish(why), Finish("stopped")} \/ \E n, f : v \in AfterTools(why, n, f)
  BY DEF Import
<1>5. reason # "completed" /\ reason \in {"none", "uncertain_effect", "stopped"}
  BY DEF LoopInv, LoopTypes, CertainInv
<1>6. why \in {"none", "uncertain_effect", "stopped"} /\ (why = "none" => unsure = {} /\ reason = "none")
  BY <1>5
<1> HIDE DEF why
<1>7. /\ recoveryAttempts' \in 0..maxRecoveryAttempts
      /\ reason' \in {why, "none", "stopped"} /\ (reason' = "none" => why = "none")
  <2>1. recoveryAttempts \in 0..maxRecoveryAttempts
    BY DEF LoopInv, LoopTypes
  <2>2. PICK v : /\ reason' = v.reason /\ recoveryAttempts' = v.attempts
                 /\ v \in {Finish(why), Finish("stopped")} \/ \E n, f : v \in AfterTools(why, n, f)
    BY <1>4
  <2>3. CASE v \in {Finish(why), Finish("stopped")}
    BY <2>1, <2>2, <2>3, Verdicts
  <2>4. ASSUME NEW n, NEW f, v \in AfterTools(why, n, f)
        PROVE  /\ recoveryAttempts' \in 0..maxRecoveryAttempts
               /\ reason' \in {why, "none", "stopped"} /\ (reason' = "none" => why = "none")
    BY <2>2, <2>4, Verdicts
  <2> QED BY <2>2, <2>3, <2>4
<1>8. LoopTypes'
  <2>1. earlier' \in [Earlier -> EarlierRecords]
    <3>1. \A e \in DOMAIN outcome : outcome[e].completion \in {"not_started", "unknown", "settled"}
      BY <1>3 DEF Outcomes, Completions
    <3> QED BY <1>1, <3>1 DEF LoopInv, LoopTypes, EarlierRecords
  <2>2. uncertain' \subseteq Calls \cup Earlier
    BY <1>1, <1>3 DEF LoopInv, LoopTypes
  <2>3. consecutiveToolFailures' \in 0..maxConsecutiveToolFailures
    BY <1>1, FailuresAreCounted
  <2>4. reason' \in {"none", "completed", "uncertain_effect", "stopped"}
    BY <1>6, <1>7
  <2>5. delivered' \subseteq Calls /\ lastBatchFailure' \in BOOLEAN /\ refused' \in 0..maxConsecutiveToolFailures
    BY <1>1 DEF LoopInv, LoopTypes
  <2> QED BY <1>1, <1>2, <1>7, <2>1, <2>2, <2>3, <2>4, <2>5 DEF LoopInv, LoopTypes
<1>9. SlotsInv'
  BY <1>1 DEF LoopInv, SlotsInv, Asking, Reported, Free, execution
<1>10. AdmittedInv'
  BY ImportAccount DEF AdmittedInv
<1>11. CertainInv'
  <2>1. ~BlockingOpen'
    BY <1>1 DEF BlockingOpen, Asking, LoopInv, CertainInv
  <2>2. reason' # "completed" /\ (reason' = "none" => unsure = {} /\ reason = "none")
    BY <1>6, <1>7
  <2>3. reason' = "none" => uncertain' = {}
    BY <1>1, <2>2 DEF LoopInv, CertainInv
  <2>4. \A c \in observed' : UncertainEffect(c)' => c \in uncertain'
    BY <1>1 DEF LoopInv, LoopTypes, CertainInv, UncertainEffect, execution
  <2> QED BY <2>1, <2>2, <2>3, <2>4 DEF CertainInv
<1> QED BY <1>8, <1>9, <1>10, <1>11 DEF LoopInv

\* An iteration ends when no blocking call is open; the verdict that completes the
\* execution is given only when nothing is left in the background.
LEMMA EndKeepsLoop ==
  ASSUME LoopInv, ~BlockingOpen, NEW verdict,
         verdict.reason \in {"none", "completed", "uncertain_effect", "stopped"},
         verdict.attempts \in 0..maxRecoveryAttempts,
         EndIteration(verdict),
         verdict.reason \in {"none", "completed"} => reason = "none",
         verdict.reason = "completed" => Tracked = {} /\ Open = {},
         consecutiveToolFailures' \in 0..maxConsecutiveToolFailures,
         refused' \in 0..maxConsecutiveToolFailures, lastBatchFailure' \in BOOLEAN
  PROVE  LoopInv'
<1>1. /\ reason' = IF verdict.reason # "none" \/ iterations < maxIterations THEN verdict.reason ELSE "stopped"
      /\ recoveryAttempts' = verdict.attempts
      /\ phase' = IF reason' = "none" THEN "deliver" ELSE "over"
      /\ iterations' = iterations /\ UNCHANGED <<key, background, admitted, observed, uncertain, execution>>
      /\ delivered' = delivered /\ cancelled' = cancelled /\ earlier' = earlier
  BY DEF EndIteration, ledger, queue
<1>2. /\ reason' \in {"none", "completed", "uncertain_effect", "stopped"}
      /\ phase' \in {"deliver", "over"} /\ (reason' = "completed" => phase' = "over" /\ verdict.reason = "completed")
      /\ reason' \in {"none", "completed"} => reason = "none"
  BY <1>1
<1>3. LoopTypes'
  BY <1>1, <1>2 DEF LoopInv, LoopTypes
<1>4. SlotsInv'
  BY <1>1 DEF LoopInv, SlotsInv, Asking, Reported, Free, execution
<1>5. AdmittedInv'
  <2>1. \A k : Holders(k)' = Holders(k) /\ Released(k)' = Released(k)
    BY <1>1 DEF Holders, Released, Imported, execution
  <2> QED BY <1>1, <2>1, AccountKept DEF LoopInv, AdmittedInv
<1>6. CertainInv'
  <2>1. ~BlockingOpen' /\ Open' = Open
    BY <1>1 DEF BlockingOpen, Asking, Open
  <2>2. \A c \in observed' : UncertainEffect(c)' => c \in uncertain'
    BY <1>1 DEF LoopInv, LoopTypes, CertainInv, UncertainEffect, execution
  <2>3. ASSUME reason' = "completed" PROVE \A c \in Calls \ cancelled' : Asking(c)' => c \in observed'
    <3>1. background \subseteq observed \cup cancelled
      BY <1>2, <2>3 DEF LoopInv, SlotsInv, Tracked
    <3> QED BY <1>1, <3>1 DEF BlockingOpen, Asking
  <2>4. reason' \in {"none", "completed"} => uncertain' = {}
    BY <1>1, <1>2 DEF LoopInv, CertainInv
  <2>5. reason' = "completed" => phase' = "over" /\ Open' = {}
    BY <1>2, <2>1
  <2> QED BY <2>1, <2>2, <2>3, <2>4, <2>5 DEF CertainInv
<1> QED BY <1>3, <1>4, <1>5, <1>6 DEF LoopInv

\* Steps that only move the loop on, or note a refused call, with no verdict.
LEMMA MovesKeepLoop ==
  ASSUME LoopInv, UNCHANGED ledger, UNCHANGED call,
         UNCHANGED <<iterations, recoveryAttempts, consecutiveToolFailures, lastBatchFailure>>,
         refused' \in 0..maxConsecutiveToolFailures,
         \/ phase \in {"model", "tools"} /\ phase' = "tools" /\ reason' \in {reason, "stopped"}
         \/ reason' = "stopped" /\ phase' = "over"
         \/ reason' = reason /\ phase' = phase
  PROVE  LoopInv'
<1>1. /\ key' = key /\ background' = background /\ admitted' = admitted /\ observed' = observed
      /\ delivered' = delivered /\ cancelled' = cancelled /\ earlier' = earlier
      /\ uncertain' = uncertain /\ call' = call
  BY DEF ledger, queue
<1>2. LoopTypes'
  BY <1>1 DEF LoopInv, LoopTypes
<1>3. SlotsInv'
  BY <1>1 DEF LoopInv, SlotsInv, Asking, Reported, Free
<1>4. AdmittedInv'
  <2>1. \A k : Holders(k)' = Holders(k) /\ Released(k)' = Released(k)
    BY <1>1 DEF Holders, Released, Imported
  <2> QED BY <1>1, <2>1, AccountKept DEF LoopInv, AdmittedInv
<1>5. CertainInv'
  <2>1. \A c \in observed' : UncertainEffect(c)' => c \in uncertain'
    BY <1>1 DEF UncertainEffect, LoopInv, CertainInv
  <2>2. (BlockingOpen' <=> BlockingOpen) /\ Open' = Open /\ \A c \in Calls : (Asking(c)' <=> Asking(c))
    BY <1>1 DEF BlockingOpen, Asking, Open
  <2> QED BY <1>1, <2>1, <2>2 DEF LoopInv, CertainInv
<1> QED BY <1>2, <1>3, <1>4, <1>5 DEF LoopInv

LEMMA DeliveryKeepsLoop ==
  ASSUME LoopInv, Start \/ BeginIteration
  PROVE  LoopInv'
<1>1. PICK outcome \in Deliveries : Import(outcome)
  BY DEF Start, BeginIteration
<1>2. /\ phase \in {"start", "deliver"} /\ phase' \in {"deliver", "model", "over"}
      /\ delivered' = delivered \/ delivered' = delivered \cup (Tracked \cap observed)
  BY DEF Start, BeginIteration
<1>3. iterations' \in 0..maxIterations /\ (phase' = "deliver" => iterations' < maxIterations)
  <2>1. CASE Start
    BY <2>1, LoopAssumption DEF Start, LoopInv, LoopTypes, CertainInv
  <2>2. CASE BeginIteration
    BY <2>2, LoopAssumption DEF BeginIteration, LoopInv, LoopTypes
  <2> QED BY <2>1, <2>2
<1> QED BY <1>1, <1>2, <1>3, ImportKeepsLoop

LEMMA AnswerKeepsLoop ==
  ASSUME LoopInv, ModelAnswers
  PROVE  LoopInv'
<1>1. PICK verdict \in Candidate \cup {GoOn} : EndIteration(verdict)
  BY DEF ModelAnswers
<1>2. /\ phase = "model" /\ ~BlockingOpen /\ reason # "completed"
      /\ UNCHANGED <<consecutiveToolFailures, lastBatchFailure, refused>>
  BY DEF ModelAnswers, batch, LoopInv, CertainInv
<1>3. verdict \in {Recover, Finish("stopped"), Finish("completed"), GoOn}
  BY DEF Candidate
<1>4. /\ reason # "none" => verdict = GoOn
      /\ reason = "none" => \/ verdict \in {Finish("stopped"), GoOn}
                            \/ Tracked = {} /\ Open = {}
  BY DEF Candidate, Stopped
<1>5. GoOn.reason = reason
  BY Verdicts DEF GoOn
<1>6. /\ verdict.reason \in {"none", "completed"} => reason = "none"
      /\ verdict.reason = "completed" => Tracked = {} /\ Open = {}
  BY <1>2, <1>4, <1>5, Verdicts
<1>7. /\ consecutiveToolFailures' \in 0..maxConsecutiveToolFailures
      /\ refused' \in 0..maxConsecutiveToolFailures /\ lastBatchFailure' \in BOOLEAN
  BY <1>2 DEF LoopInv, LoopTypes
<1>8. /\ verdict.reason \in {"none", "completed", "uncertain_effect", "stopped"}
      /\ verdict.attempts \in 0..maxRecoveryAttempts
  BY <1>3, <1>5, Verdicts DEF GoOn, LoopInv, LoopTypes
<1> QED BY <1>1, <1>2, <1>6, <1>7, <1>8, EndKeepsLoop

LEMMA BatchKeepsLoop ==
  ASSUME LoopInv, EndBatch
  PROVE  LoopInv'
<1> DEFINE count == consecutiveToolFailures + refused
           failure == lastBatchFailure \/ refused # 0
<1>1. PICK verdict \in AfterTools(reason, count, failure) : EndIteration(verdict)
  BY DEF EndBatch
<1>2. phase = "tools" /\ ~BlockingOpen /\ reason # "completed"
      /\ reason \in {"none", "completed", "uncertain_effect", "stopped"}
  BY DEF EndBatch, LoopInv, LoopTypes, CertainInv
<1>3. /\ verdict.attempts \in 0..maxRecoveryAttempts
      /\ verdict.reason \in {reason, "none", "stopped"} /\ (reason # "none" => verdict.reason = reason)
  BY <1>1, Verdicts
<1>4. /\ verdict.reason \in {"none", "completed", "uncertain_effect", "stopped"}
      /\ verdict.reason \in {"none", "completed"} => reason = "none"
      /\ verdict.reason # "completed"
  BY <1>2, <1>3
<1>5. /\ consecutiveToolFailures' = IF count > maxConsecutiveToolFailures
                                    THEN maxConsecutiveToolFailures ELSE count
      /\ lastBatchFailure' = FALSE /\ refused' = 0
  BY DEF EndBatch
<1>6. count \in Nat /\ maxConsecutiveToolFailures \in Nat
  BY LoopAssumption DEF LoopInv, LoopTypes
<1> HIDE DEF count, failure
<1>7. consecutiveToolFailures' \in 0..maxConsecutiveToolFailures
  BY <1>5, <1>6
<1>8. refused' \in 0..maxConsecutiveToolFailures /\ lastBatchFailure' \in BOOLEAN
  <2>1. 0 \in 0..maxConsecutiveToolFailures
    BY <1>6
  <2> QED BY <1>5, <2>1
<1> QED BY <1>1, <1>2, <1>3, <1>4, <1>7, <1>8, EndKeepsLoop

LEMMA LoopStep ==
  ASSUME IInv, LoopInv, [LoopNext]_loopState
  PROVE  LoopInv'
<1>1. CASE Start \/ BeginIteration
  BY <1>1, DeliveryKeepsLoop
<1>2. CASE ModelAnswers \/ EndBatch
  BY <1>2, AnswerKeepsLoop, BatchKeepsLoop
<1>3. CASE ModelAsksForTools \/ EndCancelled \/ UNCHANGED loopState
  <2>1. UNCHANGED ledger /\ UNCHANGED call
        /\ UNCHANGED <<iterations, recoveryAttempts, consecutiveToolFailures, lastBatchFailure, refused>>
    BY <1>3 DEF ModelAsksForTools, EndCancelled, execution, loopState, loopVars, vars, counters, batch
  <2>2. \/ phase = "model" /\ phase' = "tools" /\ reason' = reason
        \/ reason' = "stopped" /\ phase' = "over"
        \/ reason' = reason /\ phase' = phase
    BY <1>3 DEF ModelAsksForTools, EndCancelled, loopState, loopVars
  <2>3. refused' \in 0..maxConsecutiveToolFailures
    BY <2>1 DEF LoopInv, LoopTypes
  <2> QED BY <2>1, <2>2, <2>3, MovesKeepLoop
<1>4. CASE Cancel
  <2>1. \A c \in Calls : Keeps(c)
    BY <1>4, CancelKeeps
  <2> QED BY <1>4, <2>1, ToolsKeepLoop DEF Cancel, Undisturbed
<1>5. CASE cancelAsyncTool \/ cancelAllAsyncTools
  BY <1>5, Drops, DropKeepsLoop
<1>6. ASSUME NEW k \in Writes \cup Reads, RefuseTool(k) PROVE LoopInv'
  <2>1. /\ phase = "tools" /\ phase' = phase /\ reason' \in {reason, "stopped"}
        /\ refused' = Older(refused, maxConsecutiveToolFailures)
        /\ UNCHANGED <<iterations, recoveryAttempts, consecutiveToolFailures, lastBatchFailure>>
        /\ UNCHANGED ledger /\ UNCHANGED call
    BY <1>6 DEF RefuseTool, counters, execution
  <2>2. refused' \in 0..maxConsecutiveToolFailures
    BY <2>1, LoopAssumption DEF Older, LoopInv, LoopTypes
  <2> QED BY <2>1, <2>2, MovesKeepLoop
<1>7. ASSUME NEW c \in Calls, ToolSteps(c), UNCHANGED loopVars PROVE LoopInv'
  <2>1. \A d \in Calls : Keeps(d)
    BY <1>7, ToolStepsKeep
  <2>2. Undisturbed /\ phase' = phase
    BY <1>7 DEF loopVars, Undisturbed
  <2> QED BY <2>1, <2>2, ToolsKeepLoop
<1>8. ASSUME NEW k \in Writes \cup Reads, RefuseTool(k) \/ \E b \in BOOLEAN : StartTool(k, b) PROVE LoopInv'
  BY <1>6, <1>8, StartKeepsLoop
<1>9. ASSUME NEW c \in Calls, ObserveTool(c) \/ (ToolSteps(c) /\ UNCHANGED loopVars) PROVE LoopInv'
  BY <1>7, <1>9, ObserveKeepsLoop
<1>10. CASE LoopNext
  BY <1>1, <1>2, <1>3, <1>4, <1>5, <1>8, <1>9, <1>10, Zenon DEF LoopNext
<1> QED BY <1>3, <1>10, Zenon

\* The loop's own steps leave the breaker alone.
LEMMA LoopKeepsBreaker ==
  ASSUME BreakerInv, [LoopNext]_loopState
  PROVE  BreakerInv'
<1>1. CASE \/ Start \/ BeginIteration \/ ModelAnswers \/ ModelAsksForTools \/ EndBatch
           \/ EndCancelled \/ Cancel \/ UNCHANGED loopState
  <2>1. UNCHANGED breaker
    BY <1>1 DEF Start, BeginIteration, Import, ModelAnswers, EndIteration, ModelAsksForTools, EndBatch, EndCancelled, Cancel, loopState, vars
  <2> QED BY <2>1, BreakerStep
<1>2. ASSUME NEW k \in Writes \cup Reads, RefuseTool(k) PROVE BreakerInv'
  BY <1>2, BreakerStep DEF RefuseTool
<1>3. ASSUME NEW c \in Calls, ObserveTool(c) PROVE BreakerInv'
  BY <1>3, BreakerStep DEF ObserveTool
<1>4. ASSUME NEW k \in Writes \cup Reads, NEW b \in BOOLEAN, StartTool(k, b) PROVE BreakerInv'
  <2>1. PICK c \in Calls : executeWithOutcome(c)
    BY <1>4 DEF StartTool, NextSlot
  <2> QED BY <2>1, CallBreakerSteps, BreakerStep
<1>5. ASSUME NEW c \in Calls, ToolSteps(c) PROVE BreakerInv'
  BY <1>5, CallBreakerSteps, BreakerStep DEF ToolSteps
<1>6. CASE cancelAsyncTool \/ cancelAllAsyncTools
  <2>1. UNCHANGED breaker
    BY <1>6, Drops DEF Drop
  <2> QED BY <2>1, BreakerStep
<1> QED BY <1>1, <1>2, <1>3, <1>4, <1>5, <1>6 DEF LoopNext

LEMMA LoopInvariance == LoopSpec => [](IInv /\ LoopInv)
<1>1. Init /\ LoopInit => IInv /\ LoopInv
  <2>1. Init /\ LoopInit => LoopInv
    <3> SUFFICES ASSUME Init, LoopInit PROVE LoopInv
      OBVIOUS
    <3>1. LoopTypes
      <4>1. iterations \in 0..maxIterations /\ recoveryAttempts \in 0..maxRecoveryAttempts
            /\ iterations < maxIterations
            /\ consecutiveToolFailures \in 0..maxConsecutiveToolFailures
            /\ refused \in 0..maxConsecutiveToolFailures
        BY LoopAssumption DEF LoopInit
      <4>2. earlier \in [Earlier -> EarlierRecords]
        BY DEF LoopInit, EarlierRecords
      <4> QED BY <4>1, <4>2 DEF LoopInit, LoopTypes
    <3>2. \A c \in Calls : ~Asking(c) /\ Free(c)
      BY DEF Init, ExecutionInit, LoopInit, Asking, Free
    <3>3. SlotsInv /\ CertainInv
      BY <3>2 DEF LoopInit, SlotsInv, CertainInv, BlockingOpen
    <3>4. ASSUME NEW k \in Writes PROVE Account(k)
      <4>1. Holders(k) = {}
        BY LoopAssumption DEF LoopInit, Holders
      <4>2. Cardinality(Holders(k)) = 0
        BY <4>1, FS_EmptySet
      <4>3. Cardinality(Holders(k)) <= Cardinality(Released(k)) + (IF k \in admitted THEN 1 ELSE 0)
        BY <4>2, AccountCounted
      <4> QED BY <4>3 DEF Account
    <3> QED BY <3>1, <3>3, <3>4 DEF LoopInv, AdmittedInv
  <2> QED BY <2>1, InitIInv
<1>2. IInv /\ LoopInv /\ [LoopNext]_loopState => (IInv /\ LoopInv)'
  BY LoopKeepsCalls, LoopStep
<1> QED BY <1>1, <1>2, PTL DEF LoopSpec

(* Type correctness of a managed execution, of its controller and of the      *)
(* calls and the breaker below it.                                            *)
THEOREM LoopTyped == LoopSpec => []LoopTypeOK
<1>1. Init => BreakerInv
  BY BreakerAssumption
  DEF Init, BreakerInit, BreakerInv, BreakerTypeOK, ClosedIsBelowThreshold
<1>2. BreakerInv /\ [LoopNext]_loopState => BreakerInv'
  BY LoopKeepsBreaker
<1>3. LoopSpec => []BreakerInv
  BY <1>1, <1>2, PTL DEF LoopSpec
<1>4. IInv /\ LoopInv /\ BreakerInv => LoopTypeOK
  <2> SUFFICES ASSUME IInv, LoopTypes, BreakerInv PROVE LoopTypeOK
    BY DEF LoopInv
  <2>1. TypeOK
    BY DEF IInv, BreakerInv, TypeOK
  <2>2. earlier \in [Earlier -> [key : Writes \cup Reads, fate : {"open", "cancelled"} \cup Completions]]
    BY DEF LoopTypes, EarlierRecords, Completions
  <2> QED BY <2>1, <2>2 DEF LoopTypes, LoopTypeOK
<1> QED BY <1>3, <1>4, LoopInvariance, PTL

(* A write with the same arguments is entered once in a managed execution,   *)
(* and once more at most for each imported result of an earlier execution    *)
(* that never started, for any tools, calls and limits (LoopController.ts).  *)
THEOREM StartsAreAccounted == LoopSpec => []StartsAreAccountedFor
<1>1. ASSUME IInv, LoopInv PROVE StartsAreAccountedFor
  <2> SUFFICES ASSUME NEW k \in Writes
               PROVE  Cardinality(StartsOf(k)) <= 1 + Cardinality(Imported(k, {"not_started"}))
    BY DEF StartsAreAccountedFor
  <2>1. StartsOf(k) \subseteq Holders(k) /\ Holders(k) \subseteq Calls
    BY <1>1 DEF StartsOf, Holders, IInv, Knows
  <2>2. Cardinality(StartsOf(k)) <= Cardinality(Holders(k)) /\ Cardinality(StartsOf(k)) \in Nat
    BY <2>1, Counted
  <2>3. Account(k)
    BY <1>1 DEF LoopInv, AdmittedInv
  <2>4. Cardinality(Holders(k)) <= Cardinality(Released(k)) + 1
    BY <2>3, AccountCounted DEF Account
  <2>5. Cardinality(StartsOf(k)) <= 1 + Cardinality(Released(k))
    BY <2>2, <2>4, AccountCounted
  <2> QED BY <2>5 DEF Released
<1> QED BY <1>1, LoopInvariance, PTL

(* An execution that ends as completed has observed every call it made that  *)
(* was not dropped, has no uncertain effect, in the background either, and    *)
(* leaves no result of an earlier execution behind.                          *)
THEOREM CompletionIsCertain == LoopSpec => []CompletedIsCertain
<1>1. ASSUME LoopInv PROVE CompletedIsCertain
  <2> SUFFICES ASSUME reason = "completed"
               PROVE  /\ uncertain = {} /\ Open = {}
                      /\ \A c \in Calls \ cancelled : Asking(c) => c \in observed
                      /\ \A c \in Calls \ cancelled : key[c] \in Writes => call[c].completion # "unknown"
    BY DEF CompletedIsCertain
  <2>1. uncertain = {} /\ Open = {} /\ \A c \in Calls \ cancelled : Asking(c) => c \in observed
    BY <1>1 DEF LoopInv, CertainInv
  <2>2. ASSUME NEW c \in Calls \ cancelled, key[c] \in Writes PROVE call[c].completion # "unknown"
    <3>1. c \in observed
      BY <2>1, <2>2, LoopAssumption DEF Asking
    <3> QED BY <1>1, <2>1, <2>2, <3>1 DEF LoopInv, CertainInv, UncertainEffect
  <2> QED BY <2>1, <2>2
<1> QED BY <1>1, LoopInvariance, PTL
=============================================================================
