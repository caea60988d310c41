------------------------------ MODULE ModelTask -------------------------------
(***************************************************************************)
(* ModelTask (core/model-execution/ModelTask.ts): the budget that the      *)
(* model invocations of a task share.  Every physical attempt reserves     *)
(* what it may use before it is dispatched; an SDK retries below the       *)
(* invocation, the caller may leave while its operation goes on, and the   *)
(* usage that arrives in the end, late or not, replaces the reservation    *)
(* of the attempt that answered.                                           *)
(***************************************************************************)
EXTENDS Naturals, Sequences, FiniteSets

CONSTANTS
  Invocations,
  Externals,    \* ids of usage reports of the host
  maxCalls, maxTokens,
  bound,        \* tokens an attempt may use: descriptor.inputTokenBound + outputTokenBound
  MaxAttempts   \* bound: attempts of an invocation, the SDK's retries included

ASSUME BudgetAssumption ==
  /\ IsFiniteSet(Invocations) /\ IsFiniteSet(Externals)
  /\ maxCalls \in Nat /\ {maxTokens, bound, MaxAttempts} \subseteq Nat \ {0}

VARIABLES
  stage,        \* where the operation of each invocation stands: "calling" while a
                \* request is under way, "ready" before the first and between two
  mode,         \* whether its requests go through the transport hook, or the provider
                \* is the boundary; and whether it is a stream
  attempts,     \* per invocation, in order
  observed,     \* the terminal usage a stream has reported
  usage,        \* of the invocation's record: what it has been settled with
  aborted,      \* invocations whose signal is aborted
  callerStopped,
  ended,        \* "no", or whether cancel() or destroy() ended the task
  external      \* the usage each external report charged

vars == <<stage, mode, attempts, observed, usage, aborted, callerStopped, ended, external>>

Modes == {"transport", "transport stream", "provider", "provider stream"}
Transported(i) == mode[i] \in {"transport", "transport stream"}
Streamed(i) == mode[i] \in {"transport stream", "provider stream"}

\* The tokens an invocation may use, each named by its attempt and its place in it:
\* an amount of tokens is a set of them.
Tokens == (1..MaxAttempts) \X (1..bound)
TokensOf(n) == {n} \X (1..bound)

\* reserved is what reservedTokens counts, used is history: what the attempt really
\* consumes once it is dispatched.
Attempts == [status : {"reserved", "received", "failed", "not_dispatched"},
             dispatched : BOOLEAN, reserved : SUBSET Tokens, used : SUBSET Tokens]

Usage == [known : BOOLEAN, tokens : SUBSET Tokens]
Unknown == [known |-> FALSE, tokens |-> {}]

TypeOK ==
  /\ stage \in [Invocations -> {"idle", "ready", "calling", "over"}]
  /\ mode \in [Invocations -> Modes]
  /\ attempts \in [Invocations -> Seq(Attempts)]
  /\ \A i \in Invocations : Len(attempts[i]) <= MaxAttempts
  /\ observed \in [Invocations -> Usage] /\ usage \in [Invocations -> Usage]
  /\ aborted \subseteq Invocations /\ callerStopped \subseteq Invocations
  /\ ended \in {"no", "cancelled", "destroyed"}
  /\ external \in [Externals -> 0..maxTokens]

Init ==
  /\ stage = [i \in Invocations |-> "idle"]
  /\ mode \in [Invocations -> Modes]
  /\ attempts = [i \in Invocations |-> <<>>]
  /\ observed = [i \in Invocations |-> Unknown] /\ usage = [i \in Invocations |-> Unknown]
  /\ aborted = {} /\ callerStopped = {}
  /\ ended = "no"
  /\ external = [e \in Externals |-> 0]

-----------------------------------------------------------------------------
(* snapshot().totals.                                                       *)

Last(i) == attempts[i][Len(attempts[i])]
\* transportCount > 0: the attempt reserved by execute() has been taken.
Taken(i) == attempts[i][1].dispatched \/ attempts[i][1].status = "not_dispatched"

AttemptIds == {id \in Invocations \X (1..MaxAttempts) : id[2] <= Len(attempts[id[1]])}
Attempt(id) == attempts[id[1]][id[2]]

Active == {id \in AttemptIds : Attempt(id).status # "not_dispatched"}
Sent == {id \in AttemptIds : Attempt(id).dispatched}
Charges == {c \in AttemptIds \X Tokens : c[2] \in Attempt(c[1]).reserved}
Uses == {c \in AttemptIds \X Tokens : c[2] \in Attempt(c[1]).used}

Reports == {e \in Externals : external[e] > 0}
ReportCharges == {c \in Externals \X (1..maxTokens) : c[2] <= external[c[1]]}

ActiveCalls == Cardinality(Active) + Cardinality(Reports)
chargedTokens == Cardinality(Charges) + Cardinality(ReportCharges)

\* reserve(): the record of one more attempt.
reserve(list) ==
  Append(list, [status |-> "reserved", dispatched |-> FALSE,
                reserved |-> TokensOf(Len(list) + 1), used |-> {}])

\* Variant: what is charged already is tested, without the new reservation.
FitsBefore == ended = "no" /\ ActiveCalls + 1 <= maxCalls /\ chargedTokens <= maxTokens

Fits == ended = "no" /\ ActiveCalls + 1 <= maxCalls /\ chargedTokens + bound <= maxTokens

Put(i, a) == attempts' = [attempts EXCEPT ![i][Len(attempts[i])] = a]

\* Variant: every attempt of the invocation is covered by its usage, failed ones too.
CoveredFailed(i, list) == {n \in DOMAIN list : list[n].dispatched}

\* The attempts whose charge a known usage replaces: those that were answered, and
\* all of a provider's.
Covered(i, list) == {n \in DOMAIN list : list[n].status = "received" \/ ~Transported(i)}

\* Legacy transports report a usage of 0 for one they do not know.
Counts(i, report) == report.known /\ (Transported(i) => report.tokens # {})

\* Variant: the undispatched first attempt keeps its reservation.
SettledKeeping(i, list, report) ==
  LET covered == {n \in Covered(i, list) : Counts(i, report)}
  IN [n \in DOMAIN list |->
        IF n \in covered
        THEN [list[n] EXCEPT !.reserved = IF \A m \in covered : m <= n THEN report.tokens ELSE {}]
        ELSE list[n]]

\* settle(): a known usage is charged to the last of the covered attempts, the others
\* of them are charged nothing; attempts that failed keep their reservations, and a
\* first attempt that was never dispatched is released.
Settled(i, list, report) ==
  LET covered == {n \in Covered(i, list) : Counts(i, report)}
  IN [n \in DOMAIN list |->
        IF n = 1 /\ ~list[n].dispatched
        THEN [list[n] EXCEPT !.status = "not_dispatched", !.reserved = {}]
        ELSE IF n \in covered
        THEN [list[n] EXCEPT !.reserved = IF \A m \in covered : m <= n THEN report.tokens ELSE {}]
        ELSE list[n]]

Settle(i, list, report) ==
  /\ attempts' = [attempts EXCEPT ![i] = Settled(i, list, report)]
  /\ usage' = [usage EXCEPT ![i] = IF Counts(i, report) THEN report ELSE @]

\* What a provider may report: the usage of all its requests (AnthropicTextProvider
\* adds them up), or of the last one when an SDK has repeated one that was answered.
Reported(i) ==
  LET covered == Covered(i, attempts[i])
      all == UNION {attempts[i][n].used : n \in covered}
      last == UNION {attempts[i][n].used : n \in {m \in covered : \A k \in covered : k <= m}}
  IN {[known |-> TRUE, tokens |-> t] : t \in {u \in {all, last} : covered # {}}}

-----------------------------------------------------------------------------
\* execute(): the first attempt is reserved, and the operation starts.
execute(i) ==
  /\ stage[i] = "idle" /\ Fits
  /\ stage' = [stage EXCEPT ![i] = "ready"]
  /\ attempts' = [attempts EXCEPT ![i] = reserve(<<>>)]
  /\ UNCHANGED <<mode, observed, usage, aborted, callerStopped, ended, external>>

\* The bytes leave: an attempt is dispatched and uses what it uses.
Dispatch(i, list) ==
  /\ stage' = [stage EXCEPT ![i] = "calling"]
  /\ \E use \in 0..bound :
       attempts' = [attempts EXCEPT ![i] =
         [list EXCEPT ![Len(list)] = [@ EXCEPT !.dispatched = TRUE, !.used = {Len(list)} \X (1..use)]]]
  /\ UNCHANGED <<mode, observed, usage, aborted, callerStopped, ended, external>>

\* Variant: the transport looks at the signal of the task only.
BeginFirstUnchecked(i) ==
  /\ stage[i] = "ready" /\ ended = "no" /\ ~Taken(i)
  /\ Dispatch(i, attempts[i])

\* beginTransport() of the first attempt, or the start of a provider's operation.
BeginFirst(i) ==
  /\ stage[i] = "ready" /\ i \notin aborted /\ ~Taken(i)
  /\ Dispatch(i, attempts[i])

\* beginTransport() of a further request, which reserves an attempt of its own: the
\* SDK retries, or the provider continues what was answered.
BeginRetry(i) ==
  /\ stage[i] = "ready" /\ i \notin aborted /\ Transported(i) /\ Taken(i)
  /\ Len(attempts[i]) < MaxAttempts /\ Fits
  /\ Dispatch(i, reserve(attempts[i]))

\* A request the budget has no room for aborts the invocation.
RetryRefused(i) ==
  /\ stage[i] = "ready" /\ i \notin aborted /\ Transported(i) /\ Taken(i) /\ ~Fits
  /\ aborted' = aborted \cup {i}
  /\ UNCHANGED <<stage, mode, attempts, observed, usage, callerStopped, ended, external>>

\* beforeDispatch() refuses between the reservation and the dispatch, of the
\* first attempt or of a further one.
Withdraw(i) ==
  /\ stage[i] = "ready" /\ i \notin aborted /\ Transported(i)
  /\ LET kept == IF Taken(i) THEN attempts[i] ELSE <<>> IN
     /\ Taken(i) => Len(attempts[i]) < MaxAttempts /\ Fits
     /\ attempts' = [attempts EXCEPT ![i] = Append(kept,
          [status |-> "not_dispatched", dispatched |-> FALSE, reserved |-> {}, used |-> {}])]
  /\ UNCHANGED <<stage, mode, observed, usage, aborted, callerStopped, ended, external>>

\* endTransport(): an answer with a status of 2xx, or anything else.
EndTransport(i, status) ==
  /\ stage[i] = "calling" /\ Transported(i)
  /\ Put(i, [Last(i) EXCEPT !.status = status])
  /\ stage' = [stage EXCEPT ![i] = "ready"]
  /\ UNCHANGED <<mode, observed, usage, aborted, callerStopped, ended, external>>

Answer(i) == EndTransport(i, "received")
AttemptFails(i) == EndTransport(i, "failed")

\* iterate(): the event with the terminal usage comes by.  A second one that says
\* otherwise is an error of the stream.
ObserveUsage(i) ==
  /\ Streamed(i) /\ ~observed[i].known
  /\ stage[i] = IF Transported(i) THEN "ready" ELSE "calling"
  /\ \E report \in Reported(i) : observed' = [observed EXCEPT ![i] = report]
  /\ UNCHANGED <<stage, mode, attempts, usage, aborted, callerStopped, ended, external>>

\* The operation returns, with usage or without, or throws, and is settled even
\* when its caller has gone; at a provider's boundary this is the answer.
OperationEnds(i) ==
  /\ stage[i] = "ready" \/ (stage[i] = "calling" /\ ~Transported(i))
  /\ \E status \in IF Transported(i) THEN {Last(i).status} ELSE {"received", "failed"},
        report \in IF Streamed(i) THEN {observed[i]} ELSE
                   {Unknown} \cup {r \in Reported(i) : stage[i] = "calling" \/ Transported(i)} :
       Settle(i, [attempts[i] EXCEPT ![Len(attempts[i])].status = status], report)
  /\ stage' = [stage EXCEPT ![i] = "over"]
  /\ UNCHANGED <<mode, observed, aborted, callerStopped, ended, external>>

\* The caller's own signal.
CallerAborts(i) ==
  /\ stage[i] \notin {"idle", "over"} /\ i \notin aborted
  /\ aborted' = aborted \cup {i}
  /\ UNCHANGED <<stage, mode, attempts, observed, usage, callerStopped, ended, external>>

\* withAbort() leaves the operation behind; a stream is settled with the usage it
\* has seen, and once more when its operation ends.
CallerLeaves(i) ==
  /\ i \in aborted \ callerStopped /\ stage[i] # "over"
  /\ callerStopped' = callerStopped \cup {i}
  /\ IF Streamed(i) THEN Settle(i, attempts[i], observed[i]) ELSE UNCHANGED <<attempts, usage>>
  /\ UNCHANGED <<stage, mode, observed, aborted, ended, external>>

\* cancel(), the deadline, and destroy().
End(how) ==
  /\ ended # "destroyed" /\ ended # how /\ ended' = how
  /\ aborted' = aborted \cup {i \in Invocations : stage[i] \notin {"idle", "over"}}
  /\ UNCHANGED <<stage, mode, attempts, observed, usage, callerStopped, external>>

\* recordExternal(), once for an id: unknown usage charges the whole budget.
recordExternal(e) ==
  /\ ended # "destroyed" /\ external[e] = 0
  /\ \E tokens \in {1, maxTokens} : external' = [external EXCEPT ![e] = tokens]
  /\ UNCHANGED <<stage, mode, attempts, observed, usage, aborted, callerStopped, ended>>

Next ==
  \/ \E i \in Invocations :
       \/ execute(i) \/ BeginFirst(i) \/ BeginRetry(i) \/ RetryRefused(i) \/ Withdraw(i)
       \/ Answer(i) \/ AttemptFails(i) \/ ObserveUsage(i) \/ OperationEnds(i)
       \/ CallerAborts(i) \/ CallerLeaves(i)
  \/ \E how \in {"cancelled", "destroyed"} : End(how)
  \/ \E e \in Externals : recordExternal(e)

Spec == Init /\ [][Next]_vars

-----------------------------------------------------------------------------
\* What an answered attempt used and the report its invocation was settled with leaves
\* out, although another attempt was answered too.
LeftOut == {c \in Uses : LET i == c[1][1]
                         IN /\ Attempt(c[1]).status = "received"
                            /\ usage[i].known /\ c[2] \notin usage[i].tokens
                            /\ \E id \in AttemptIds \ {c[1]} : id[1] = i /\ Attempt(id).status = "received"}

\* Every token an attempt really uses is charged to its invocation at every moment,
\* and no token twice: over retries and continuations, attempts that failed, usage that
\* was never reported, callers that left and settlements that came late.  Only what a
\* provider answered more than once and did not report in the end is charged no longer.
ChargesCoverUse ==
  /\ \A c \in Uses \ LeftOut : \E d \in Charges : d[1][1] = c[1][1] /\ d[2] = c[2]
  /\ \A c, d \in Charges : c[1][1] = d[1][1] /\ c[2] = d[2] => c = d

\* So the attempts of the task together use no more than its budget, but for what was
\* not reported, nor are there ever more of them than it allows.
WithinBudget == Cardinality(Uses \ LeftOut) <= maxTokens /\ Cardinality(Sent) <= maxCalls

\* Nothing is dispatched for an invocation that was stopped, by an SDK that goes on
\* retrying, by a released first attempt or after the task has ended.
NothingAfterStop == [][\A id \in Sent' \ Sent : id[1] \notin aborted]_vars

\* An invocation that is over holds no reservation for anything it did not dispatch,
\* so that the budget it did not use is there for the others.
ReservationsAreReturned ==
  \A c \in Charges : stage[c[1][1]] = "over" => c[1] \in Sent
=============================================================================
