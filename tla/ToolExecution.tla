---------------------------- MODULE ToolExecution -----------------------------
(***************************************************************************)
(* One tool of ToolManager.executeWithOutcome() (core/ToolManager.ts) with *)
(* its circuit breaker and its pipeline of hooks: the promise of a call    *)
(* goes on whatever the caller does, the caller stops waiting when the     *)
(* signal of the call aborts, and the outcome it is given says whether the *)
(* body has been started and whether it is over.  A slot of Calls is used  *)
(* by one call after another.                                              *)
(***************************************************************************)
EXTENDS CircuitBreaker

CONSTANT Calls   \* slots: the calls that are open at the same time

VARIABLES
  call,       \* the call in each slot
  destroyed   \* has destroy() been called?

execution == <<call, destroyed>>

Completions == {"not_started", "unknown", "settled"}
Statuses == {"succeeded", "failed", "timed_out", "cancelled"}

\* promise: where breaker.execute(pipeline.execute(...)) stands; signal: why the
\* signal of the call aborted; mine: is its breaker still the one of the tool?;
\* late: the tool:late-complete notices of the call.
CallRecords ==
  [promise : {"none", "hooks", "body", "fulfilled", "rejected"},
   signal : {"clear", "timeout", "caller", "destroy"},
   executionStarted : BOOLEAN, mine : BOOLEAN, verdict : {"succeeded", "failed"},
   status : Statuses \cup {"none"}, completion : Completions \cup {"none"},
   abandoned : BOOLEAN, late : 0..2]

ExecutionTypeOK == call \in [Calls -> CallRecords] /\ destroyed \in BOOLEAN

NoCall == [promise |-> "none", signal |-> "clear", executionStarted |-> FALSE,
           mine |-> TRUE, verdict |-> "failed", status |-> "none",
           completion |-> "none", abandoned |-> FALSE, late |-> 0]

ExecutionInit == call = [c \in Calls |-> NoCall] /\ destroyed = FALSE

Free(c) == call[c] = NoCall
Settled(c) == call[c].promise \in {"fulfilled", "rejected"}
Reported(c) == call[c].status # "none"
Waiting(c) == ~Free(c) /\ ~Reported(c)

\* A slot whose call is over is free for the next one.
Recycle(c) ==
  /\ Reported(c) /\ call[c].promise \in {"none", "fulfilled", "rejected"}
  /\ call' = [call EXCEPT ![c] = NoCall]
  /\ UNCHANGED <<breaker, destroyed>>

-----------------------------------------------------------------------------
\* The call begins: refused because the caller's signal is aborted already,
\* refused by the breaker, or handed to the pipeline.
executeWithOutcome(c) ==
  /\ Free(c) /\ ~destroyed
  /\ \/ /\ call' = [call EXCEPT ![c] = [NoCall EXCEPT !.signal = "caller"]]
        /\ UNCHANGED breaker
     \/ /\ Refuse
        /\ call' = [call EXCEPT ![c] = [NoCall EXCEPT !.promise = "rejected"]]
     \/ /\ Ask
        /\ call' = [call EXCEPT ![c] = [NoCall EXCEPT !.promise = "hooks"]]
  /\ UNCHANGED destroyed

\* The promise of c settles: the breaker of the call records it, unless isRetryable
\* does not count the error, and a caller that has left is told.
Settles(c, promise, verdict, counted) ==
  /\ call' = [call EXCEPT ![c].promise = promise, ![c].verdict = verdict,
                ![c].late = IF call[c].abandoned /\ ~destroyed THEN @ + 1 ELSE @]
  /\ IF ~call[c].mine \/ (promise = "rejected" /\ ~counted) THEN UNCHANGED breaker
     ELSE IF promise = "fulfilled" THEN recordSuccess ELSE recordFailure
  /\ UNCHANGED destroyed

\* Variant: the body is entered without a look at the signal.
HooksPassUnchecked(c) ==
  /\ call[c].promise = "hooks"
  /\ call' = [call EXCEPT ![c].promise = "body", ![c].executionStarted = TRUE]
  /\ UNCHANGED <<breaker, destroyed>>

\* The beforeExecute hooks are through and invoke() enters the tool's function.
HooksPass(c) ==
  /\ call[c].promise = "hooks" /\ call[c].signal = "clear"
  /\ call' = [call EXCEPT ![c].promise = "body", ![c].executionStarted = TRUE]
  /\ UNCHANGED <<breaker, destroyed>>

\* A hook answers for the tool, or onError recovers from one that threw.
HookAnswers(c) ==
  /\ call[c].promise = "hooks"
  /\ Settles(c, "fulfilled", "succeeded", TRUE)

\* A hook throws, or the aborted signal is seen between two of them.
HooksThrow(c) ==
  /\ call[c].promise = "hooks"
  /\ \E counted \in BOOLEAN : Settles(c, "rejected", "failed", counted)

\* The tool and its afterExecute or onError hooks are through; a tool may report
\* a failure and still return (the breaker counts the promise, not the verdict).
BodyReturns(c) ==
  /\ call[c].promise = "body"
  /\ \E verdict \in {"succeeded", "failed"} : Settles(c, "fulfilled", verdict, TRUE)

BodyThrows(c) ==
  /\ call[c].promise = "body"
  /\ \E counted \in BOOLEAN : Settles(c, "rejected", "failed", counted)

\* The deadline's timer fires, or the caller cancels: the first reason stays.
Abort(c, why) ==
  /\ Waiting(c) /\ call[c].signal = "clear"
  /\ call' = [call EXCEPT ![c].signal = why]
  /\ UNCHANGED <<breaker, destroyed>>

\* destroy(): every active call is aborted and the breakers are dropped.
destroy ==
  /\ ~destroyed /\ destroyed' = TRUE
  /\ call' = [c \in Calls |->
       IF Free(c) THEN call[c]
       ELSE [call[c] EXCEPT !.mine = FALSE,
               !.signal = IF Waiting(c) /\ @ = "clear" THEN "destroy" ELSE @]]
  /\ Close

\* unregister() and setCircuitBreakerConfig(): the next call makes a new breaker,
\* those under way keep the old one.
ReplaceBreaker ==
  /\ call' = [c \in Calls |-> IF Free(c) THEN call[c] ELSE [call[c] EXCEPT !.mine = FALSE]]
  /\ Close /\ UNCHANGED destroyed

resetToolCircuitBreaker == Close /\ UNCHANGED execution

Tick == Age /\ UNCHANGED execution

StatusOf(c) ==
  CASE call[c].signal = "timeout" -> "timed_out"
    [] call[c].signal \in {"caller", "destroy"} -> "cancelled"
    [] OTHER -> call[c].verdict

CompletionOf(c) ==
  CASE ~call[c].executionStarted -> "not_started"
    [] call[c].executionStarted /\ Settled(c) -> "settled"
    [] OTHER -> "unknown"

Told(c, abandoned) ==
  /\ call' = [call EXCEPT ![c].status = StatusOf(c), ![c].completion = CompletionOf(c),
                          ![c].abandoned = abandoned]
  /\ UNCHANGED <<breaker, destroyed>>

\* Variant: only a timeout leaves an execution behind.
ReportTimeoutsOnly(c) ==
  /\ Waiting(c) /\ (call[c].signal # "clear" \/ Settled(c))
  /\ Told(c, call[c].signal = "timeout" /\ ~Settled(c))

\* Variant: the caller waits for the promise whatever its signal says.
ReportSettled(c) == Waiting(c) /\ Settled(c) /\ Told(c, FALSE)

\* withAbort() returns: the caller gets its one outcome, and what goes on without
\* it is abandoned.
Report(c) ==
  /\ Waiting(c) /\ (call[c].signal # "clear" \/ Settled(c))
  /\ Told(c, ~Settled(c))

Pipeline(c) == HooksPass(c) \/ HookAnswers(c) \/ HooksThrow(c) \/ BodyReturns(c) \/ BodyThrows(c)

Init == BreakerInit /\ ExecutionInit

Next ==
  \/ \E c \in Calls : \/ Recycle(c) \/ executeWithOutcome(c)
                      \/ Pipeline(c) \/ Report(c)
                      \/ \E why \in {"timeout", "caller"} : Abort(c, why)
  \/ destroy \/ ReplaceBreaker \/ resetToolCircuitBreaker \/ Tick

vars == <<breaker, execution>>

Spec == Init /\ [][Next]_vars

\* Clocks run, a timer that is set fires and a caller whose wait is over goes on;
\* a hook or a tool need never return.
Fairness ==
  /\ WF_vars(Tick)
  /\ \A c \in Calls : WF_vars(Report(c)) /\ WF_vars(Abort(c, "timeout"))

FairSpec == Spec /\ Fairness

-----------------------------------------------------------------------------
TypeOK == BreakerTypeOK /\ ExecutionTypeOK

\* "not_started: the tool function was never entered" also holds afterwards: a
\* call that was reported so is not started by hooks that are still running, so a
\* write may be repeated (invoke() and the pipeline look at the signal again).
NotStartedIsFinal == \A c \in Calls : call[c].completion = "not_started" => ~call[c].executionStarted

\* Exactly the executions a caller was told nothing final about are reported
\* late, once, when they settle; a completion "settled" is never reopened
\* (abandoned, settled and the settlement handler of executeWithOutcome()).
LateOnce ==
  \A c \in Calls :
    /\ call[c].late <= 1
    /\ call[c].late = 1 => Settled(c) /\ call[c].abandoned
    /\ call[c].completion = "settled" => Settled(c) /\ call[c].late = 0
    /\ call[c].completion = "unknown" /\ Settled(c) /\ ~destroyed => call[c].late = 1

Failed == \E c \in Calls : call[c].promise # "rejected" /\ call'[c].promise = "rejected"
                           /\ call[c].promise # "none"
Asked == \E c \in Calls : Free(c) /\ call'[c].promise \in {"hooks", "rejected"}

\* A breaker whose tool works again closes: if calls keep coming, each ends (its
\* slot is used again) and none fails any more, it is closed in the end and stays so.
Recovers == ([]<><<Asked>>_vars /\ <>[][~Failed]_vars) => <>[](state = "closed")
=============================================================================
