----------------------------- MODULE ManagedLoop ------------------------------
(***************************************************************************)
(* One managed execution of an agent with a loop policy: LoopController    *)
(* (core/agent-loop/LoopController.ts), the loop of Agent.ts that drives   *)
(* it, and the tool executions it admits.  Blocking calls of one model     *)
(* response run one after another, background calls go on beside them and  *)
(* beside later responses.  The background calls of earlier executions of  *)
(* the agent share its tracker and its result queue: their results are     *)
(* delivered to this execution and observed by its controller.             *)
(***************************************************************************)
EXTENDS ToolExecution, FiniteSets

CONSTANTS
  Writes, Reads,   \* (name, arguments) pairs of tools with and without an effect
  Earlier,         \* background calls that earlier executions have left behind
  maxIterations, maxRecoveryAttempts, maxConsecutiveToolFailures

ASSUME LoopAssumption ==
  /\ Writes \cap Reads = {} /\ "none" \notin Writes \cup Reads
  /\ IsFiniteSet(Calls) /\ IsFiniteSet(Earlier)
  /\ maxIterations \in Nat \ {0} /\ maxRecoveryAttempts \in Nat
  /\ maxConsecutiveToolFailures \in Nat \ {0}

VARIABLES
  phase,        \* "start" of the execution, "deliver" at the top of an iteration,
                \* "model" while the provider answers, "tools" during a batch
  reason,       \* of finish(): "none" while the policy goes on, and of the others
                \* only "completed" and "uncertain_effect" are told apart
  iterations, recoveryAttempts, consecutiveToolFailures, lastBatchFailure,
  refused,      \* failures of this batch that never became an execution
  key,          \* what each call asks for
  background,   \* the calls that do not block
  admitted,     \* the write keys that are admitted
  observed,     \* calls whose outcome the controller has seen
  delivered,    \* background calls whose result is in the conversation
  cancelled,    \* background calls dropped by cancelAsyncTool()
  earlier,      \* what each earlier call asked for, and its fate: "open" while it is
                \* tracked or queued, "cancelled", or the completion that was imported
  uncertain     \* diagnostics.uncertainEffects

counters == <<iterations, recoveryAttempts>>
queue == <<delivered, cancelled, earlier>>
ledger == <<key, background, admitted, observed, queue, uncertain>>
batch == <<consecutiveToolFailures, lastBatchFailure, refused>>
loopVars == <<phase, reason, counters, batch, ledger>>

Stopped == reason # "none"
Asking(c) == key[c] # "none"
BlockingOpen == \E c \in Calls : Asking(c) /\ c \notin observed \cup background

\* What _asyncToolTracker and _asyncResultQueue still hold.
Tracked == background \ (delivered \cup cancelled)
Open == {e \in Earlier : earlier[e].fate = "open"}
Imported(k, fates) == {e \in Earlier : earlier[e].key = k /\ earlier[e].fate \in fates}

\* Does the controller have an entry for k in its calls?
Known(k) == (\E c \in Calls : key[c] = k) \/ Imported(k, Completions) # {}

LoopInit ==
  /\ phase = "start" /\ reason = "none"
  /\ iterations = 0 /\ recoveryAttempts = 0
  /\ consecutiveToolFailures = 0 /\ lastBatchFailure = FALSE /\ refused = 0
  /\ key = [c \in Calls |-> "none"]
  /\ background = {} /\ admitted = {} /\ observed = {} /\ uncertain = {}
  /\ delivered = {} /\ cancelled = {}
  /\ earlier \in [Earlier -> [key : Writes \cup Reads, fate : {"open"}]]

-----------------------------------------------------------------------------
(* LoopController's operations.                                             *)

\* admit(): a write is admitted once unless it is known not to have started.
Admits(k) == ~Stopped /\ ~(k \in Writes /\ k \in admitted)

\* admit() of a repeated write, or of a read that returned the same result too
\* often, stops the policy.
StopsOn(k) == IF k \in Writes THEN k \in admitted
              ELSE (\E c \in observed : key[c] = k) \/ Imported(k, Completions) # {}

UncertainEffect(c) == key[c] \in Writes /\ call[c].completion = "unknown"

\* Variant: any cancelled or failed write may be tried again.
ObserveReleasing(c) ==
  LET failed == call[c].status # "succeeded"
  IN /\ observed' = observed \cup {c}
     /\ consecutiveToolFailures' = IF failed THEN Older(consecutiveToolFailures, maxConsecutiveToolFailures) ELSE 0
     /\ lastBatchFailure' = (lastBatchFailure \/ failed)
     /\ uncertain' = uncertain \cup {d \in {c} : UncertainEffect(d)}
     /\ reason' = IF UncertainEffect(c) THEN "uncertain_effect" ELSE reason
     /\ admitted' = admitted \ {k \in {key[c]} : failed}

\* observe() of the outcome of c, each execution once (seenCalls).
Observe(c) ==
  LET failed == call[c].status # "succeeded"
  IN /\ observed' = observed \cup {c}
     /\ consecutiveToolFailures' = IF failed THEN Older(consecutiveToolFailures, maxConsecutiveToolFailures) ELSE 0
     /\ lastBatchFailure' = (lastBatchFailure \/ failed)
     /\ uncertain' = uncertain \cup {d \in {c} : UncertainEffect(d)}
     /\ reason' = IF UncertainEffect(c) THEN "uncertain_effect" ELSE reason
     /\ admitted' = admitted \ {k \in {key[c]} : call[c].completion = "not_started"}

\* recover(): feedback for another attempt, or the end of the policy.
Recover ==
  IF recoveryAttempts >= maxRecoveryAttempts
  THEN [reason |-> "stopped", attempts |-> recoveryAttempts]
  ELSE [reason |-> "none", attempts |-> recoveryAttempts + 1]

Finish(why) == [reason |-> why, attempts |-> recoveryAttempts]
GoOn == Finish(reason)

\* What afterTools() may decide after count failures in a row, with and without a
\* progress check and whatever that check says.
AfterTools(why, count, failure) ==
  IF why # "none" THEN {Finish(why)}
  ELSE IF count >= maxConsecutiveToolFailures THEN {Finish("stopped")}
  ELSE {Recover, Finish("stopped")} \cup {v \in {Finish("none")} : ~failure}

\* Variant: calls in the background do not keep the answer from completing.
CandidateBesides == IF Stopped THEN {GoOn}
  ELSE {Finish("completed"), Finish("stopped"), Recover}

\* What checkLoopCandidate() may decide of an answer: beside a background call that
\* is tracked or queued, an earlier execution's too, it is no candidate; otherwise
\* the completion check decides.
Candidate ==
  IF Stopped THEN {GoOn}
  ELSE IF Tracked # {} \/ Open # {} THEN {Finish("stopped")}
  ELSE {Finish("completed"), Finish("stopped"), Recover}

-----------------------------------------------------------------------------
(* The delivery of background results.                                      *)

Outcomes == {o \in [completion : Completions, failed : BOOLEAN] : o.completion = "unknown" => o.failed}

\* The failures in a row after the given earlier results, in whatever order they
\* are queued: a success among them sets the count to 0.
FailuresAfter(outcome) ==
  LET failed == {e \in DOMAIN outcome : outcome[e].failed}
      count == consecutiveToolFailures + Cardinality(failed)
  IN IF failed = DOMAIN outcome
     THEN {IF count > maxConsecutiveToolFailures THEN maxConsecutiveToolFailures ELSE count}
     ELSE {n \in 0..maxConsecutiveToolFailures : n <= Cardinality(failed)}

\* importLoopToolObservations(): the controller observes each given earlier result.
\* The result of a write it does not know yet counts as admitted; "not_started"
\* takes back the admission of that key, whoever holds it.
Import(outcome) ==
  LET told(e) == e \in DOMAIN outcome
      unsure == {e \in DOMAIN outcome : earlier[e].key \in Writes /\ outcome[e].completion = "unknown"}
  IN /\ earlier' = [e \in Earlier |-> IF told(e) THEN [earlier[e] EXCEPT !.fate = outcome[e].completion]
                                      ELSE earlier[e]]
     /\ admitted' = (admitted \cup {k \in Writes : ~Known(k) /\ \E e \in Earlier : told(e) /\ earlier[e].key = k})
                      \ {k \in Writes : \E e \in Earlier : /\ told(e) /\ earlier[e].key = k
                                                           /\ outcome[e].completion = "not_started"}
     /\ uncertain' = uncertain \cup unsure
     /\ consecutiveToolFailures' \in FailuresAfter(outcome)
     /\ LET why == IF unsure # {} THEN "uncertain_effect" ELSE reason
            failure == lastBatchFailure \/ \E e \in DOMAIN outcome : outcome[e].failed
            verdicts == IF DOMAIN outcome = {} THEN {Finish(why)}
                        ELSE AfterTools(why, consecutiveToolFailures', failure)
        IN \E verdict \in verdicts \cup {Finish("stopped")} :
             reason' = verdict.reason /\ recoveryAttempts' = verdict.attempts
     /\ lastBatchFailure' = (lastBatchFailure /\ DOMAIN outcome = {})
     /\ UNCHANGED <<key, background, observed, cancelled, refused, execution, breaker>>

Deliveries == UNION {[arrived -> Outcomes] : arrived \in SUBSET Open}

\* run() starts with nothing, continueWithAsyncResults() with what is in the queue.
Start ==
  /\ phase = "start"
  /\ \E outcome \in Deliveries : Import(outcome)
  /\ phase' = IF reason' = "none" THEN "deliver" ELSE "over"
  /\ UNCHANGED <<iterations, delivered>>

\* The top of an iteration: what has arrived is injected and, if it comes from an
\* earlier execution, observed and checked (or a listener throws); then step().
BeginIteration ==
  /\ phase = "deliver"
  /\ \E outcome \in Deliveries : Import(outcome)
  /\ delivered' = delivered \cup (Tracked \cap observed)
  /\ phase' = IF reason' = "none" THEN "model" ELSE "over"
  /\ iterations' = IF reason' = "none" THEN iterations + 1 ELSE iterations

\* The given background calls are aborted and dropped, tracked or queued.
Drop(own, left) ==
  /\ cancelled' = cancelled \cup own
  /\ earlier' = [e \in Earlier |-> IF e \in left THEN [earlier[e] EXCEPT !.fate = "cancelled"] ELSE earlier[e]]
  /\ call' = [c \in Calls |-> IF c \in own /\ Waiting(c) /\ call[c].signal = "clear"
                              THEN [call[c] EXCEPT !.signal = "caller"] ELSE call[c]]
  /\ UNCHANGED <<phase, reason, counters, batch, key, background, admitted, observed, delivered,
                 uncertain, breaker, destroyed>>

cancelAsyncTool == phase # "over" /\ ((\E c \in Tracked : Drop({c}, {})) \/ (\E e \in Open : Drop({}, {e})))

cancelAllAsyncTools == phase # "over" /\ Tracked \cup Open # {} /\ Drop(Tracked, Open)

-----------------------------------------------------------------------------
(* The loop of the agent.                                                   *)

\* The end of an iteration: the loop ends, or goes to the top of the next one.
EndIteration(verdict) ==
  /\ reason' = IF verdict.reason # "none" \/ iterations < maxIterations
               THEN verdict.reason ELSE "stopped"
  /\ recoveryAttempts' = verdict.attempts
  /\ phase' = IF reason' = "none" THEN "deliver" ELSE "over"
  /\ UNCHANGED <<iterations, ledger, execution, breaker>>

\* The provider answers; an empty answer is no candidate and is asked for again.
ModelAnswers ==
  /\ phase = "model"
  /\ \E verdict \in Candidate \cup {GoOn} : EndIteration(verdict)
  /\ UNCHANGED batch

ModelAsksForTools == phase = "model" /\ phase' = "tools"
  /\ UNCHANGED <<reason, counters, batch, ledger, execution, breaker>>

\* Every call has a slot of its own; they are taken in a fixed order.
NextSlot == LET unused == {c \in Calls : ~Asking(c)}
            IN {c \in unused : c = CHOOSE d \in unused : TRUE}

\* executeManagedTool(): admitted, the call starts at once.
StartTool(k, inBackground) == \E c \in NextSlot :
  /\ phase = "tools" /\ ~BlockingOpen
  /\ Admits(k)
  /\ executeWithOutcome(c)
  /\ key' = [key EXCEPT ![c] = k]
  /\ background' = background \cup {d \in {c} : inBackground}
  /\ admitted' = admitted \cup ({k} \cap Writes)
  /\ UNCHANGED <<phase, reason, counters, batch, observed, queue, uncertain>>

\* A call of the batch is stopped by the policy or rejected by a permission; its
\* failure is noted when the batch ends (noteFailure()).
RefuseTool(k) ==
  /\ phase = "tools" /\ ~BlockingOpen
  /\ reason' \in {reason} \cup {why \in {"stopped"} : ~Stopped /\ StopsOn(k)}
  /\ refused' = Older(refused, maxConsecutiveToolFailures)
  /\ UNCHANGED <<phase, counters, consecutiveToolFailures, lastBatchFailure, ledger, execution, breaker>>

\* executeManagedTool() goes on with the outcome.
ObserveTool(c) ==
  /\ Asking(c) /\ Reported(c) /\ c \notin observed
  /\ Observe(c)
  /\ UNCHANGED <<phase, counters, refused, key, background, queue, execution, breaker>>

\* checkLoopTools() after the last call of the batch.
EndBatch ==
  /\ phase = "tools" /\ ~BlockingOpen
  /\ LET count == consecutiveToolFailures + refused
     IN /\ \E verdict \in AfterTools(reason, count, lastBatchFailure \/ refused # 0) : EndIteration(verdict)
        /\ consecutiveToolFailures' = IF count > maxConsecutiveToolFailures
                                      THEN maxConsecutiveToolFailures ELSE count
  /\ lastBatchFailure' = FALSE /\ refused' = 0

\* agent.cancel(): the signals of the run's calls abort, those in the background too.
Cancel ==
  /\ phase \notin {"cancelling", "over"} /\ phase' = "cancelling"
  /\ call' = [c \in Calls |-> IF Asking(c) /\ Waiting(c) /\ call[c].signal = "clear"
                              THEN [call[c] EXCEPT !.signal = "caller"] ELSE call[c]]
  /\ UNCHANGED <<reason, counters, batch, ledger, breaker, destroyed>>

\* The catch of run(): finish() whatever the controller said before.
EndCancelled ==
  /\ phase = "cancelling" /\ ~BlockingOpen
  /\ phase' = "over" /\ reason' = "stopped"
  /\ UNCHANGED <<counters, batch, ledger, execution, breaker>>

ToolSteps(c) == Pipeline(c) \/ Report(c) \/ Abort(c, "timeout")

LoopNext ==
  \/ Start \/ BeginIteration \/ cancelAsyncTool \/ cancelAllAsyncTools
  \/ ModelAnswers \/ ModelAsksForTools \/ EndBatch \/ Cancel \/ EndCancelled
  \/ \E k \in Writes \cup Reads : \/ RefuseTool(k)
                                 \/ \E b \in BOOLEAN : StartTool(k, b)
  \/ \E c \in Calls : ObserveTool(c) \/ (ToolSteps(c) /\ UNCHANGED loopVars)

loopState == <<loopVars, vars>>

\* Every call has a deadline, and provider and agent go on; a batch is finite, the
\* model's requests for tools and the calls it makes are under no fairness.
LoopFairness ==
  /\ WF_loopState(Start) /\ WF_loopState(BeginIteration)
  /\ WF_loopState(ModelAnswers) /\ WF_loopState(EndBatch) /\ WF_loopState(EndCancelled)
  /\ \A c \in Calls : /\ WF_loopState(ObserveTool(c))
                      /\ WF_loopState(Report(c) /\ UNCHANGED loopVars)
                      /\ WF_loopState(Abort(c, "timeout") /\ UNCHANGED loopVars)

LoopSpec == Init /\ LoopInit /\ [][LoopNext]_loopState /\ LoopFairness

-----------------------------------------------------------------------------
LoopTypeOK ==
  /\ TypeOK
  /\ phase \in {"start", "deliver", "model", "tools", "cancelling", "over"}
  /\ reason \in {"none", "completed", "uncertain_effect", "stopped"}
  /\ iterations \in 0..maxIterations /\ recoveryAttempts \in 0..maxRecoveryAttempts
  /\ {consecutiveToolFailures, refused} \subseteq 0..maxConsecutiveToolFailures
  /\ lastBatchFailure \in BOOLEAN
  /\ key \in [Calls -> Writes \cup Reads \cup {"none"}]
  /\ {background, observed, delivered, cancelled} \subseteq SUBSET Calls
  /\ uncertain \subseteq Calls \cup Earlier /\ admitted \subseteq Writes
  /\ earlier \in [Earlier -> [key : Writes \cup Reads, fate : {"open", "cancelled"} \cup Completions]]

StartsOf(k) == {c \in Calls : key[c] = k /\ call[c].executionStarted}

\* A write with the same arguments is entered once in a managed execution, and once
\* more at most for each result of an earlier execution that was imported as not
\* started, whatever is cancelled, times out or is asked for again: one whose fate is
\* unknown stays admitted, and one that is released is never started by its old call.
StartsAreAccountedFor ==
  \A k \in Writes :
    Cardinality(StartsOf(k)) <= 1 + Cardinality(Imported(k, {"not_started"}))

\* "A previously admitted identical action cannot execute again in the same policy
\* execution" (docs/AGENT_LOOP_POLICIES.md:119-120), unless its own recorded outcome is
\* "not_started".
WriteStartsOnce == \A k \in Writes : Cardinality(StartsOf(k)) <= 1

\* An execution that ends as completed has left nothing behind: every call it made
\* has been observed and no effect is uncertain, in the background either, and no
\* earlier result is still to come; only a call that the host itself dropped with
\* cancelAsyncTool() may be open.
CompletedIsCertain ==
  reason = "completed" =>
    /\ uncertain = {} /\ Open = {}
    /\ \A c \in Calls \ cancelled : /\ Asking(c) => c \in observed
                                    /\ key[c] \in Writes => call[c].completion # "unknown"

\* The execution ends although the model may always ask for more tools and a tool
\* may never return: its calls have deadlines, its iterations and recoveries a bound.
LoopEnds == <>(phase = "over" /\ reason # "none")
=============================================================================
