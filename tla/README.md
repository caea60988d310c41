# OneRingAI agent runtime: specifications, model checking and proofs

TLA+ modules about the concurrent, crash-sensitive core of this repository (a
TypeScript agent library; the code is under `src/` of the repository, which the
paths of `PROJECT.json` write as `src/src/...`), the TLC runs that check them and
the theorems TLAPS proves about them. The modules are translated from the code; where a
document and the code disagree, the code is modelled, and section 8 says how to see
the disagreement.

Contents: [inventory](#1-inventory), [plan](#2-plan),
[modules and code](#3-modules-and-the-code-they-model), [runs](#4-runs),
[bounds](#5-bounds), [fairness and deadlock](#6-fairness-and-deadlock),
[proofs](#7-proofs), [what disagrees](#8-where-code-and-documents-disagree),
[what is not modelled](#9-what-is-not-modelled).

To repeat a run: `tlc -config X.cfg M`; a proof: `tlapm M.tla`.

## 1. Inventory

The library runs language-model agents: its own agents (`src/core`), and,
through the *agent runtime* (`src/agent-runtime`), agents that other SDKs or
managed services execute. Around them are connectors with their OAuth flows,
resilience helpers, tools, stores and providers. The project started with the runtime,
the part with concurrency, persistence and recovery, and then took the library's own
execution path: a managed loop over tool executions over circuit breakers, the budget
of model calls, and the token flow every connector relies on.

### 1.1 Agent runtime

```
 caller ──run/getRun/detach──▶ DefinitionSession ──start──▶ LocalAgentSession ──▶ DriverRun
                                   │ control.update              │ leases          (native side)
                                   ▼                             ▼                     │
 host tool call ─▶ RuntimeHostTools ─outbox─▶ RuntimeControl   workspaceLeases         │ events
                                              │ lease.write                            ▼
                                              ▼                                  AsyncEventHub ─▶ subscribers
                             FileRuntimeSessionStorage (lock, tombstone, record)
```

| Part (file) | State | Operations | What is hard | What makes it correct |
|---|---|---|---|---|
| Control ledger: `RuntimeControl` (`RuntimeSessionStorage.ts`) | the record in memory, a pending write, a promise chain, retained reports | `update`, `serialize`, `reconcileWrite`, `outbox`, `release` | a write can commit without being acknowledged; process and host crash between any two steps; a call id is invoked again after a failure | a tool's action starts at most once; what was acknowledged or delivered is durable; a failed update is not admitted later |
| Storage lease: `FileRuntimeSessionStorage` (same file) | lock file, tombstone file, record file with a revision | `acquire`, `read`, `write`, `delete`, `release` | several processes at once, each losing control at every `await`; owners that die | one writer at a time; a write replaces what it was compared with |
| Definition session (`DefinitionSession.ts`) | request promises, run wrappers, unsaved results; in the record: runs and the active run | `run`, `admit`, `trackRun`, `persistResult`, `getRun`, `detach`, `destroy` | the acknowledgement of an admission or of a result is lost; the session is resumed elsewhere | an input is submitted at most once and never beside another; a result is stored before it is told |
| Execution backend (`LocalExecutionBackend.ts`) | session state, active run, workspace leases, journals | `openSession`, `resumeSession`, `run`, `cancel`, `detachObserver`, `destroy` | a native side that starts late, ignores cancellation or never answers; wall-time limits; observers that detach | no two native runs in one workspace; a run is said to have finished only with proof; no leaked lease; aborts settle |
| Host tools (`RuntimeHostTools.ts`) | a chain of calls over all runs, the current run, promises by call id | `beginRun`, `execute`, `reconcilePending`, `endRun`, `close` | calls whose turn comes after their run was aborted, ended or followed by another with the same call ids; recovery of interrupted calls beside live ones | one call at a time, each once; after a failure no other of its run; an answer is of its own run; closing drains |
| Event hub (`AsyncEventHub.ts`) | journal, next sequence number, subscribers with queues | `publish`, `subscribe`, `complete`, `expire` | bounded journal and queues, late subscribers, wake-ups | order; no loss without an announcement; the end is seen |
| Drivers (`AgentDriver.ts`, `drivers/*`) | of external SDKs | `run`, `cancel`, `destroy` | they promise little | the contract the backend relies on |
| Managed drivers (`ManagedTransport.ts`, `drivers/*ManagedDriver.ts`) | polling cursors, event pages | polling, paging, retries | duplicated or reordered pages, retried posts | planned |
| File transfers (`RuntimeFileTransfers.ts`) | limits of one transfer | upload, download | mostly I/O | not planned |

The parts interact by direct calls and promises within one Node process, and by
the storage files between processes. One promise chain per control (`serialize`)
is the only lock inside a process; the lock file is the only one between them.

### 1.2 The rest of the library

| Part | State | Hard behaviour | Properties worth stating |
|---|---|---|---|
| Rate limiter (`infrastructure/resilience/RateLimiter.ts`) | tokens, window start, queue, timers | timers against refills, queue limits, resets | bounded grants; no lost waiter; no idle token |
| Circuit breaker, backoff (`CircuitBreaker.ts`, `BackoffStrategy.ts`) | state, failures in a window, next retry | calls in flight across state changes, half-open | closed means below the threshold; a breaker whose callee works again closes |
| OAuth flows (`connectors/oauth`) | tokens, refresh locks, pending states and verifiers | concurrent refreshes, rotation, answers without a refresh token, several authorizations of an account, overlapping renamings | refreshing loses no refresh token; a code goes with its own verifier; nobody waits for a refresh that is over |
| Model tasks (`core/model-execution/ModelTask.ts`) | attempts with reservations, aborts, usage seen so far | retries below a call, continuations of what was answered, callers that leave, second settlements | charges cover use, so the budget holds; what was not dispatched is given back; nothing starts after a stop |
| Agent loop (`core/Agent.ts`, `core/agent-loop`) | iterations, admitted writes, observed outcomes, background calls and their result queue, stop reason | time-outs and cancellations whose effect is unknown, results from the background and from earlier executions | a write starts once, but for what earlier results release; nothing completes beside an open call or an uncertain effect; the loop ends |
| Tool execution (`core/ToolManager.ts`, `core/tool-execution`) | breakers, in-flight calls and what their callers were told | time-outs against late results, hooks that go on | an outcome stays true; what was left open is told once |
| Tool evidence (`core/evidence`, `EvidenceStorage.ts`) | blobs, indexes | atomic puts, retention | what is referenced exists |
| Context and compaction (`core/context-nextgen`) | conversation, input, budget | compaction beside new messages | tool calls keep their results |
| Permissions (`core/permissions`) | policies, approval caches | order of policies | a deny wins |
| Orchestrator, routines (`core/orchestrator`, `core/routineRunner.ts`) | task graph, turns | retries, dependencies, cancellation | a task starts after what it depends on |
| Memory system (`memory/MemorySystem.ts`) | entities, facts, versions | optimistic writes, merges | no lost update; merges leave no dangling reference |
| History journal (`FileHistoryJournal.ts`) | a JSONL file | crash in an append | a prefix survives |
| MCP client (`core/mcp/MCPClient.ts`) | connection, attempts | reconnection against explicit disconnects | bounded attempts |
| Scheduling and triggers, providers, portable outcomes, tool packs, voice, applications | various | mostly I/O, conversions and user interfaces | see section 9 |

`PROJECT.json` lists the same parts under `components`, with a status each, and
under `hazards` the places, by line, where this code can go wrong in ways a unit
test hardly reaches, with the properties that would notice.

## 2. Plan

Order of work, the most important behaviour first. Done items are in the modules
described below.

1. **Done** `ControlWriter`, `RuntimeControl` (with the abstract `OutboxPromise`
   it implements): the ledger every durable session relies on.
2. **Done** `RuntimeLease`: the lock under the ledger, at the granularity of awaits.
3. **Done** `RunSupervision`: sessions, workspaces and native runs.
4. **Done** `SessionLedger`, which composes `ControlWriter` with the request
   ledger of `DefinitionSession`.
5. **Done** `EventHub` (with `MCEventHub`, the loops it is compared with), `RateLimiter`.
6. **Proved** the type correctness and every safety property of `RuntimeControl` (with its
   refinement of `OutboxPromise`), `RunSupervision` and `RuntimeLease`.
7. **Done** `HostToolCalls`: the chain of host tool calls over the runs of a session.
8. **Done** `CircuitBreaker`, composed with the pipeline of tool calls in
   `ToolExecution`, composed with the loop of an agent in `ManagedLoop`; `ModelTask`;
   `TokenRefresh`.
9. **Proved** the same of `ToolExecution`, `ManagedLoop`, `HostToolCalls`, `SessionLedger`, `ModelTask`,
   `TokenRefresh`, `EventHub` and `RateLimiter`. Every safety property of a passing run is a theorem, or
   holds in the run's configuration and is a consequence of a theorem about all configurations weakened by what
   the code leaves open (section 7): `DeliveredIsDurable`, `PromiseKept`, `ExclusiveWriter`, `ConflictsNeverOverwrite`.
10. Next to model: `DefinitionSession.detach` and `destroy` step by step, composed with
    `RuntimeLease`; the routine runner; the compaction coordinator; `EvidenceStorage` as
    an atomic map; `MemorySystem` versions; suspension and steering of the loop.
11. Proofs still worth doing: the properties of what item 10 adds.

Runs are kept few: one per component that asks all its questions on one instance, and
one that shows a disagreement. The type invariants are not among the runs'
properties: the modules of section 7 prove them.

## 3. Modules and the code they model

`PROJECT.json`, `map`, has the lines of every definition. An operator marked
"Variant" in a comment is not part of a specification: it is the form a
definition would have with a plausible bug, kept to show that the properties
notice it.

**ControlWriter** (`RuntimeSessionStorage.ts:106-118, 133-167`). The record and how
it is written. `stored` is what a reader of the storage sees, `durable` what
survives a host crash, `record` and `pendingWrite` are the fields of
`RuntimeControl`. `LeaseWrite` has three outcomes: acknowledged, lost before the
rename, or renamed with an error afterwards (the directory sync). `Update` is
`update()`; `Forget` and `RewriteCandidate` are the two ways `reconcileWrite()`
can end, and `acknowledgementRequired` says which is allowed. What the record's
data is belongs to the modules that extend this one.

**RuntimeControl** (`RuntimeSessionStorage.ts:121-196`, `RuntimeHostTools.ts:171-226`,
the resume path of `LocalExecutionBackend.ts`). `tail` is the queue behind
`serialize()`. `outbox()` is cut at its awaits: `Invoke` (the first serialized
`reconcileWrite`), the four branches on the entry it finds (`Redeliver`,
`RepairRetained`, `AskReceipt`, `RequestAdmission`), `Recover`, `Record`, `Admit`, `Perform`,
`ActionEnds`, `Settle`. `reconcilePending()` is `AskSource`, `SourceAnswers`, `Adopt`.
Other updates of the record (admissions, checkpoints, results) are `Updates`, of
which the model only keeps whether they are in the record. A settled entry is
its report: "direct" (the action returned it), "receipt" (the source was asked) or
"unknown". `ProcessRestarts` and `HostRestarts` lose what is in memory, and the
latter may lose writes that were not acknowledged. The in-memory storage of the repository is
the case without crashes and lost writes. `ReconcileWhileRunning` says whether
`reconcilePending()` may run beside live invocations: `resumeSession()` of a
restored session excludes it, of a session that is still attached it does not.

**OutboxPromise** is the abstract specification of the outbox: attempt each call
at most once, answer only after the attempt, never replace a known answer.
`RuntimeControl` implements it with `attempts <- performed`, `answer <- delivered`.

**RuntimeLease** (`RuntimeSessionStorage.ts:50-120, 168-169`). One action per await of
`acquire()` and of the lease's methods. `lock` holds a claimant's nonce, or
`Unwritten` between the creation of the file and its content; `tombstone` is
the gate behind which a dead owner's lock is reclaimed. `Crash` may stop a process
anywhere. `Drained` says whether operations of a control may be queued while it
is being released; `Releasers` are the overlapping calls of `release()`. `late` is history: the leases
of which a write began while they were being released.

**RunSupervision** (`LocalExecutionBackend.ts:432-441, 466-735, 847-890, 1111-1119`).
`phase` is where `executeRun()` of a session's active run stands; its actions go from one
await to the next, and `Caught` is the catch block. `native` is what the native
side is really doing, which the code sees only through `attached` and
`confirmed`. `settleWithin` and `settleOutcomeWithin` are choices between an answer and its
time-out. `Abort` stands for `cancel()`, the wall-time limit, the caller's signal and the
stop of a host tool, which all abort one controller.

**SessionLedger** (`DefinitionSession.ts`, and `resumeSession` and `onNativeAccepted` of
`LocalExecutionBackend.ts`). `admission` is where `admit()` stands, `requests` the map of promises
`run()` returns again for a repeated id, `runs` the wrappers `getRun()` prefers to the
record, `pendingResults` the results not yet stored. A request id names its run:
the run of an admission that never reached the storage exists nowhere, so
repeating the request may reuse the name. Detachment is abstracted to the end of
the process; the ownership that `detach()` hands over is `RuntimeLease`'s subject.

**EventHub** (`AsyncEventHub.ts`). Events are a number and a kind; sizes are
one. A subscriber is an iterator with its snapshot, queue, overflow and the history of what it
got. Publication works on a value (`Current`): `Emit` numbers an event, keeps it and pushes it to
who listens, `Round` is one turn of `compactJournal()`, which trims the journal and replaces the
diagnostic of what was dropped. The code drops events one by one; `Dropped` says which positions that comes to,
the first incremental ones and then the first of the others, and `At` is a journal at some of its positions. Written
so, without recursion, the module can be proved about. **MCEventHub** has the two loops as the code has them,
and `CompactIsTheLoop`, an assumption that TLC evaluates in the run, compares the two forms on every journal that may be
compacted, beside iterators of every status, with any queue.

**RateLimiter** (`RateLimiter.ts:84-281`). `Refill` is `refill()` with
`processWaitQueue()`; every operation calls it first, `TimerFires` after it took the waiter
out of the queue (`Without`), as the code does. `outcome` is what became of each call:
"starved" is the rejection the code calls impossible, "dropped" a promise that a
`reset()` leaves behind. `grants` is history: each granted call with its tick, so that what a stretch of time
saw is a set and can be counted. The metrics counters are left out.

**HostToolCalls** (`RuntimeHostTools.ts:107-206`). `jobs` are the requests of the harness in the order
they were made, each chained on the one before (`after`, `tail`). What `execute()` decides when
a request is made (`Asked`, the run, `ledgerKey`) is kept in its record; `StartJob` is its
turn, `Invoke` the closure that looks at the run again, `Fail` the `catch` with `run.stop`. The
outbox is here what the proofs of `RuntimeControl` say of it: an entry that is absent, executing, unknown or
settled. A session without control storage (`durable = FALSE`) remembers its promises.

**CircuitBreaker** (`CircuitBreaker.ts:130-370`) has the breaker's steps as operators that the module
of a protected call composes: `Ask` or `Refuse` when it starts, `recordSuccess` or `recordFailure`
when its promise settles, in whatever state the breaker is by then. Times are ages.

**ToolExecution** (`ToolManager.ts`, `ToolExecutionPipeline`, `ToolExecutionContext`). `promise` is where the
pipeline of a call stands, `signal` why its combined signal aborted, and `Report` what `withAbort()`
lets the caller have, which may be before the pipeline is through: then the call is
`abandoned`, and its settlement is told late. `ReplaceBreaker` and `destroy` leave calls behind whose
breaker is no longer the tool's (`mine`).

**ManagedLoop** (`LoopController.ts`, and the loop, batch and cancellation of `Agent.ts`) extends
`ToolExecution`: `StartTool` is `admit()` with the start of the execution, `ObserveTool` is `observe()`
of an outcome that was reported, `EndBatch` and `ModelAnswers` let the policy decide with every
verdict its checks may give. Every step of a tool execution is a step of the loop's
specification that leaves the loop alone. The agent's tracker and result queue outlive an execution: `Earlier`
are background calls that earlier executions left behind, and `Import` is `importLoopToolObservations()`, at the
`Start` of `continueWithAsyncResults()` and at the top of each iteration (`BeginIteration`), which injects what has
arrived. Like `observe()`, it releases the key of any result that says "not started", whoever holds the key. `Drop` is
`cancelAsyncTool()`, which takes a call out of tracker and queue at once, with or without an outcome.

**ModelTask** (`ModelTask.ts`). An invocation is a list of attempts; `execute` reserves the first,
`BeginRetry` one for each further request below it, after whatever the last one answered: an SDK retries what
failed, and a provider continues what was answered (`AnthropicTextProvider.ts:190-210`;
`MODEL_TASKS_AND_HELPERS.md:143` has both, `ModelTask.test.ts:60-69` tests two answered requests). `Settle` is `settle()`,
which an operation reaches at its end and a stream also when its caller leaves: it charges the usage to the last
of the attempts it covers and nothing to the others. `mode` says whether requests go through the
transport hook or the provider is the boundary, and whether the call is a stream. `used` is history: what an attempt
really consumes. Tokens are named by their attempt and place, so that an amount of tokens is a set of them and the
model can say *which* use a charge covers: `Reported` is the usage of all answered requests, as
`accumulateAnthropicUsage` adds it up, or of the last one, when an SDK has repeated an answered request whose first answer it
could not read. The code keeps running totals (`chargedTokens`, the number of active calls); the model counts the
sets (`Charges`, `Uses`, `Active`). Costs follow the same rules as tokens and are left out.

**TokenRefresh** (`AuthCodePKCE.ts`, `TokenStore.ts`). `getToken()` is cut at its awaits (`isValid`,
`hasRefreshToken`, `getRefreshToken`, `AskProvider`, `StoreRefreshed`), beside authorization flows
(`getAuthorizationUrl`, `exchangeCode`), `clear`, and the steps of any number of `rekeyAccount()`. Locks, states and
verifiers are kept per *name* (`getMapKey`), tokens per storage key (`Scoped`, `getScopedKey`): a user's account that is
left out is stored like one called "default", so that one token has two locks. The provider is
external: it rotates refresh tokens, or leaves them out of its answers to a refresh; an answer to an authorization
has one or not. `bare` marks a token whose authorization brought none, and `gap` a call during which its account
had no refresh token for such a reason.

**MCRunSupervision**, **MCRuntimeLease**, **MCModelTask** and **MCTokenRefresh** give TLC the functions and the symmetry a
`.cfg` cannot write. The other modules are instantiated by their `.cfg` alone.

## 4. Runs

| Run | Expected | What it asks |
|---|---|---|
| `control` | holds, 239 276 states | Over lost and unacknowledged writes, retries, process and host crashes: is every action started at most once (`ActedAtMostOnce`), every acknowledged update durable (`AcknowledgedNeverLost`), every delivered report recorded durably before it is delivered (`DeliveredIsDurable`), is a failed update never admitted later (`NoRetroactiveAdmission`), and does the outbox implement `OutboxPromise` (`PromiseKept`)? Reconciliation does not overlap live calls. |
| `lease` | holds, 200 982 states | Three claimants in two processes: does a lease that is held and not released stay in the lock file (`ExclusiveWriter`), and does a rename replace the revision that was compared (`ConflictsNeverOverwrite`)? One release at a time, after the control's operations. |
| `supervision` | holds, 76 617 states | A plain, a definition-mode and a managed session on one workspace: `NoOverlap`, `ReadyIsQuiet`, `LeasesAreNotLeaked`, and `AbortSettles` under fairness. |
| `ledger` | holds, 143 306 states | Two requests: `SubmittedOnce`, `OneNativeInput`, and `ToldStaysStored` (only the loss of an unacknowledged write takes a told result back). |
| `hub` | holds, 18 374 states | A subscriber that joins anywhere, lags, leaves or overflows: `NoSilentLoss`, `InOrder`, `EndIsSeen`. Before it starts, TLC compares compaction with its loops (`CompactIsTheLoop`) and selection by positions with filtering (`AtIsTheFilter`). |
| `limiter` | holds, 162 796 states | Timers that fire late, inspections and resets at any time: `AtMostTwoBuckets`, `NoIdleToken`, `CallsAreAnswered`. |
| `tools` | holds, 175 187 states | Two calls of a tool at a time, hooks and tools that never return, deadlines, cancellations, replaced breakers, a destroyed manager: is a closed breaker below its threshold (`ClosedIsBelowThreshold`), does "not started" stay true (`NotStartedIsFinal`), is exactly what was left open told late, once (`LateOnce`), and does the breaker of a tool that works again close (`Recovers`)? |
| `loop` | holds, 1 190 762 states | A managed execution over those tool executions, beside a background call of an earlier one: does a write start once, and once more at most for each earlier result that says it never started (`StartsAreAccountedFor`), does nothing complete beside an open call or an uncertain effect (`CompletedIsCertain`), does the execution end (`LoopEnds`)? |
| `budget` | holds, 1 711 311 states (up to symmetry) | Two invocations and a host report, in four modes of a call: `ChargesCoverUse`, `WithinBudget`, `ReservationsAreReturned`, `NothingAfterStop`. |
| `tokens` | holds, 3 778 138 states (up to symmetry) | Two callers, two authorization flows that may bring no refresh token, under the account's name or without it, revocations and a renaming: is a user asked to authorize again only if the account had nothing to refresh with, for another reason than a refresh (`RefusedOnlyWithoutToken`), does a code go with its own verifier (`VerifierOfItsFlow`), does renaming keep the token (`RenamingKeepsToken`), does a call only wait for a refresh of its name that goes on (`WaitsForARefresh`)? |
| `hosttools` | holds, 128 004 states | Four requests in two runs that share call ids: `Serialized`, `FailureStopsRun`, `ActsOnce`, `AnswerOfItsRun`, and `CloseDrains` under fairness. |
| `tokens_twice` | `OneRefresh` violated | Is an account refreshed by one call at a time? |

Each property of a run that holds comes with a mutant of a definition
(`PROJECT.json`, `mutants`) that breaks it; for instance, an interrupted outbox
entry that may be admitted again breaks `ActedAtMostOnce`, a candidate taken for
acknowledged because it can be read breaks `DeliveredIsDurable`, a reclaimer
that does not compare the nonce under the gate breaks `ExclusiveWriter`, a
time-out taken for a proof of termination breaks `ReadyIsQuiet`, a tool entered without a
second look at the signal breaks `NotStartedIsFinal`, a settlement that also drops the charges of attempts that failed
breaks `ChargesCoverUse`, an answer without a refresh token that overwrites the stored one breaks
`RefusedOnlyWithoutToken`.

## 5. Bounds

| Module | Bound | Why it is enough for the questions asked |
|---|---|---|
| RuntimeControl | two calls, one other update, `MaxRevision = 7` | The ledger's operations are serialized, so conflicts are between two users of it; a call needs two writes, an admission and an update one each, which leaves room for rewrites and repetitions after crashes. The proofs lift the bound. |
| RuntimeLease | three claimants, two processes (two claimants share one), `MaxRevision = 2` | A holder that died, a reclaimer and a newcomer are the three roles; two claimants in one process show the liveness test of a process that is alive for another reason. Two writes show a conflict. The proofs lift the bound. |
| RunSupervision | three sessions of the three kinds, one workspace, `MaxRuns = 2` runs in all | Overlap and leaks concern pairs of runs: of two sessions, or two of one session. The proofs lift the bound. |
| SessionLedger | two requests, `MaxRevision = 9` | Duplicate submission is about one request, exclusion about two; an admitted run takes up to four writes, with room for rewrites and adoptions. The proofs lift the bound. |
| EventHub | one subscriber, a journal of 3, a queue of 2, 6 published events, a range that ends at 8 | Subscribers do not interact. Six events overflow both limits several times and reach the end of the range. The proofs lift the bounds. |
| ToolExecution | two slots, each used by one call after another; thresholds of 2, a list of 2 failures, a window and a reset time-out of two ticks | Interference is between a call and one that was admitted earlier, in another state of the breaker; the slots are reused without a bound, so any number of calls follow each other. The proofs lift the bounds. |
| ManagedLoop | two calls in all, one write, one call left behind by an earlier execution, `maxIterations = 2`, one recovery, one failure allowed | A repeated write needs two calls with one key; a call in the background needs a second response; one earlier result releases one key. The window of the breaker is 0, so it does not open: what it refuses is a failure like others here, and it has its own run. A read changes nothing for the properties of `loop`. The proofs lift the bounds. |
| ModelTask | two invocations, one report of the host, `maxCalls = 3`, `maxTokens = 5`, an attempt of at most 2 tokens, `MaxAttempts = 2` | Two attempts of each invocation do not fit, neither by number nor by tokens, so that both limits bite, with and without the report. Two answered attempts of one invocation do fit. Invocations are interchangeable. The proofs lift the bounds. |
| TokenRefresh | two callers of one account, two accounts of which one is also authorized without its name, two flows, one renaming, `MaxIssued = 2` | Two refreshes of an account race, two flows share its state, renaming needs two accounts. Callers, flows and renamings are interchangeable; the properties are safety properties, so symmetry is sound. The instance leaves two cases to the proofs, which lift all bounds: callers of both names of one token, and renamings that overlap. Smaller instances of them hold too: `Callers = {c1, c2, c3}`, `Asked = {a1, Unnamed}` without renamings, one account and a provider that rotates (1 439 334 states), and `Callers = {c1}`, `Renamings = {r1, r2}` with one that does not (1 542 846 states). |
| HostToolCalls | two call ids, two runs, four requests | A call id that comes again in one run and in the next; three calls chained behind one that fails. The proofs lift the bound. |
| RateLimiter | four callers, one token, a queue of two, a window of two ticks, `MaxTime = 6` | A caller that is served, two that wait and one that is refused or comes late; three windows. `acquire` is not called in the last window, so that a waiter's time comes before the clock stops. The proofs lift the bounds. |

`MaxRevision`, `MaxRuns`, `MaxPublished`, `MaxTime`, `MaxAttempts`, `MaxIssued`, `Asked`, `Authorized`, `LastRun` and `MaxJobs` are
bounds of the models; all other constants are parameters of the code or its environment. No state constraint is used; all bounds are in guards.

## 6. Fairness and deadlock

Safety needs no fairness. Six modules have liveness properties:

* RunSupervision: weak fairness of `HostSteps(s)`, the continuations of the code itself.
  A Node event loop runs every settled continuation, timers fire, and every
  wait of the code for the native side that an abort can reach is raced
  against a time-out (`settleWithin`) or the abort itself. The actions `NativeStarts`,
  `NativeRefuses`, `NativeEnds` have none: the native side owes nothing. `HostSteps` includes the
  answers of the host's own hooks and storage (`Begin`, `Accept`), which the code does
  not bound; `AbortSettles` holds on that condition.
* EventHub: weak fairness of `Consume(s)`: a consumer that does not leave its loop asks for the
  next event. Nothing obliges the run to publish or complete.
* RateLimiter: weak fairness of `Tick` (time passes) and of each `TimerFires(c)` (a timer that is
  due fires, possibly late).
* ToolExecution: weak fairness of `Tick`, of `Report(c)` (a caller whose wait is over goes on) and of
  the deadline `Abort(c, "timeout")`. Hooks and tools need never return. `Recovers` is
  conditional: if calls keep coming and none fails any more, the breaker closes.
* ManagedLoop: weak fairness of the agent's own steps `Start` and `BeginIteration`, of `ModelAnswers` (the provider
  answers in the end instead of asking for tools without end within one response), `EndBatch`, `EndCancelled`,
  `ObserveTool(c)`, and of a call's report and deadline. The calls a model asks for have none: it may ask for more or not.
* HostToolCalls: weak fairness of `JobStep(n)`: storage answers, and a tool returns, because
  `executeWithOutcome()` reports at the latest when the call's deadline passes or its signal aborts.

`CHECK_DEADLOCK FALSE` is set where the system may stop: every process of
RuntimeLease may be dead; all sessions of RunSupervision may be destroyed or failed; an event
hub is done when its run is completed and read; the rate limiter's clock ends at its bound; a managed
execution is over once; a model task is destroyed, or out of attempts; a session of host tools is closed.
RuntimeControl, SessionLedger, ToolExecution and TokenRefresh are checked for deadlock: a crash and
a restart, time, or the expiry of a token are always possible in them.

## 7. Proofs

Eight modules named `...Proofs` hold theorems for every value of the constants: any sets of calls, updates, requests, sessions,
workspaces, claimants, processes, runs, invocations, accounts, flows, subscribers and callers, any thresholds, limits and bounds. Their assumptions only say
of what kind the constants are: `ControlAssumption`, `LedgerAssumption`, `SupervisionAssumption`, `LeaseAssumption`,
`HostToolAssumption`, `RefreshAssumption`; `HubAssumption` and `LimiterAssumption` (budgets, limits and windows are not zero); `BreakerAssumption` (a breaker keeps at least as many failures as open it);
`LoopAssumption` (no write is also a read); `BudgetAssumption` (a task has finitely many invocations and reports); and
`NoneAssumption` of both ledgers (a pending write is never the value that stands for none). TLC evaluates them in every
run. No theorem has further hypotheses: where the code leaves open what would break a property, the theorem says
exactly what is left (the two about the lease) or how much holds anyway (the last two about the control ledger). Each inductive invariant also holds in its run when TLC checks it there (`TwoBuckets` of the rate
limiter, which is about every moment, up to the end of the clock). `LocalRunProofs` holds the proofs about `RunSupervision` and
`EventHub`, `ModelCallProofs` those about `ModelTask` and `RateLimiter`; the others are named after their module.

**Control ledger.** `TypeCorrect`, `AtMostOnce` and `UpdatesSurvive` state that `Spec` implies `[]TypeOK`,
`[]ActedAtMostOnce` and `[]AcknowledgedNeverLost`. Neither of the last two is inductive: an
action that was started must not be started again from *any* copy of the record
a later step can fall back on. The invariant `IInv` therefore says, in
`IntentBeforeAction`, that the intent to act on a started call is in all of the copies
(`stored`, `durable`, `record`, and both sides of `pendingWrite`), in `AckedEverywhere` the same of an
acknowledged update, and in `ReportsAtHand` that an operation that records a
report has one. Every write is computed from one of the copies by adding to it
(lemma `UpdateCopies`), so the copies keep what they share; an intent enters the copies
only with an acknowledgement, which is the one moment at which
they all become the new record.

`FailedStaysFailed` (`NoRetroactiveAdmission`) is about steps. What a caller waits for is in the queue, once (`QueueInv`):
so an operation of a caller that gave up is not run later. And whatever any copy holds a reader sees
(`LedgerInv`), so an update that failed and is not stored is in no copy from which a rewrite could bring it back.
These three properties survive the race that `ReconcileWhileRunning = TRUE` shows (section 8): their proofs do not exclude it.

`AnswersAreDurable` and `OutboxAnswersAgree` say what a caller may rely on whatever is reconciled beside its calls.
`DeliveredIsDurable` and `PromiseKept`, which the run checks with `ReconcileWhileRunning = FALSE`, do not hold without
that condition (section 8): a receipt may take the place of a report that was delivered. It is the only thing that may. An
entry `StandsFor` an answer if it is a report and, when the answer was known, is the same or the receipt of the source. The first theorem
says that the record that survives a host crash stands for every answer ever given; the second that a call is answered only
after its action was started once, and that every later answer stands for the one before. Both rest on `RunInv` (while a run
is admitted the durable record has the data of the one in memory unless an acknowledgement is outstanding), by which a caller
who waited for the pending write reads what every copy holds (`OneEntry`), on `ReportedAfterAction` (a report exists
only after the action) and on `AnswerInv`: every copy stands for the answer, and no operation is under way that could take a known one back
or admit the call again. The refinement of `OutboxPromise` is checked by TLC only, under the condition it needs.

**Run supervision.** `WorkspaceExclusion` (`NoOverlap`), `TerminationProven` (`ReadyIsQuiet` and `FinishedIsProven`),
`NoLeakedLease` (`LeasesAreNotLeaked`) and `TypeCorrect`. `NoOverlap` follows from `LeaseCovers`: whoever is active
or works natively holds its workspace's lease, which has one holder. That is
inductive only with `PhaseKnows` (what each phase of `executeRun()` knows of the native run;
above all, a run is confirmed at its end only if nothing works behind it),
`StateKnows` (ready and finished sessions are confirmed) and `LeasesAreOwn`. There is one lemma
per action, with one step per conjunct.

**Storage lease.** `SingleWriter` and `NoOverwrite` hold for any number of overlapping calls of `release()` and with updates
queued beside them. `release()` sets its flag only after its awaits, so a second call may remove the lock of the next
holder: `ReleasedTwice` is the state in which two calls on one lease have each removed a lock file. The first theorem
says that this is the only way a live holder loses its lock (`ExclusiveWriter \/ ReleasedTwice`; in the
run, with one call of `release()`, that state does not exist, and the property holds as it stands). The second says of every step
before such a state that a deletion takes its holder's own record, and that a write replaces the revision it compared unless some write began
while its lease was being released (`late`): the case of `Drained = FALSE` in section 8, in which
`ConflictsNeverOverwrite` fails. Together theorems and counterexamples say what a caller owes the lease.
Outside `ReleasedTwice`, `ExclusiveWriter` is inductive with what excludes the other hands from the lock file: `OneCreator` (a
lock without content belongs to the claimant that created it), `GateIsExclusive` (one
claimant is behind the tombstone), `OnlyTheDead` (whoever is about to remove a lock for reclaiming
has read a dead owner in it, and it is still there: a nonce is not used twice) and `ReleasesOwnLock` (the first
release that passed its check removes its own lock; one that comes second removes none, or another's and
so reaches `ReleasedTwice`: `RemovalIsOwn`). That state is for ever (`TwiceStays`). For the second theorem, `WritesAreCovered`
says that while nothing began late a write in progress is of a lease that nobody releases, so that by `ExclusiveWriter` no
other write can come between its comparison and its rename.

**Tool execution.** `TypeCorrect`, `NotStartedStays` (`NotStartedIsFinal`), `LateIsOnce` (`LateOnce`) and `ClosedStaysBelow`
(`ClosedIsBelowThreshold`). What a call knows is one predicate, `Knows`, of its record: whoever was told anything has left or
its call has settled, a body is entered only under a clear signal, so never after a caller was told that
it was not, and the notice it is owed is exactly that of an entered call it left. Each step replaces one record (`OneCall`), or drops the
breakers of all (`Dropped`). The breaker's part does not depend on which call does what: every step of a call
is one of the breaker's five or leaves it alone (`BreakerSteps`), and a list that is pruned gets no longer (`RecentShortens`).

**Managed loop.** In `ToolExecutionProofs`, of `LoopSpec`: `LoopTyped`, `StartsAreAccounted` (`StartsAreAccountedFor`) and `CompletionIsCertain`
(`CompletedIsCertain`). Every step of the loop keeps the invariants of the executions below it, also `Cancel`, which aborts all
of them in one step (`LoopKeepsCalls`, `LoopKeepsBreaker`). A call *holds* its write key from its start until it is observed as not
started. `AdmittedInv` counts: the holders of a key are no more than the earlier results that were imported for it as not
started, and one more if it is admitted (`Account`). A key that its own call releases has one holder less, which follows from
`NotStartedIsFinal`: here the loop depends on the promise of the tool execution; one that an import releases may keep its holder, but adds the
import to the account (`ImportAccount`). `CertainInv` says that the
model is asked only when no blocking call is open, that an uncertain effect ends the policy, and that a completed execution has
observed every call that was not dropped and leaves no earlier one open.

**Host tools.** `TypeCorrect`, `OneAtATime` (`Serialized`) and `FailureIsFinal` (`FailureStopsRun`). Both are inductive with `ChainIsLinear` (each request
is chained on the one before) and `PhasesKnow` (nothing acts before its turn; whoever failed has stopped its run). All steps
of a request share one argument (`OnlyJobKeeps`): when its turn comes, all earlier requests have settled, so no other is at work, and
if its run is not aborted none of that run has failed. `ActionIsOnce` (`ActsOnce`) and `AnswerIsOfItsRun` (`AnswerOfItsRun`) are about the keys: a call id is asked
under its own key, or under the later one of its run once the outbox knows the id from another run (`LaterKey`). Runs follow
each other in the chain (`RunsInOrder`), so a request that is chained behind one that acted under the same key is of the same run
(`KeptByLater`), finds the entry of that action (`ActedHasEntry`), and does not act again.

**Session ledger.** `LedgerTyped`, `InputSubmittedOnce` (`SubmittedOnce`), `OneInputAtATime` (`OneNativeInput`) and `ResultsStayStored`
(`ToldStaysStored`). The invariant is again about the copies of the record. An admission is acknowledged before its input
is submitted: from then on every copy knows the request, and names it as the active run until the input
ends (`InputInv`, `AdmissionInv`), so that whichever copy survives a crash, the session that is resumed from it neither
submits that request nor admits another. That a told result is lost only with an
unacknowledged write needs `LedgerInv`: the stored record is the one in memory or the candidate of the pending write, and a candidate
whose acknowledgement is mandatory has been seen stored, so its rewrites change no data.

**Model task.** `TaskTyped`, `UseIsCharged` (`ChargesCoverUse`), `BudgetIsKept` (`WithinBudget`), `NothingIsSentAfterStop` (`NothingAfterStop`) and
`ReservationsComeBack` (`ReservationsAreReturned`). A settlement moves the charges of an invocation from one attempt to another, so the
invariant is about what the *invocation* is charged (`Holds`). `Account` says that every token an attempt used is held or was
`Omitted` by the settlement, that no token is held twice, that an attempt that is waiting for its answer or failed keeps its whole
reservation, and that what a stream has shown is `Honest`: it speaks of uses of the attempts it covers, and of one of
them completely. That is why a second settlement, with the same usage after more attempts, still covers what the first did
(`SettledList`, `ChargedToGreatest`). `GoodList` says what a list of attempts may be at each stage of its operation: what waits for its
dispatch is the first attempt of an operation that has just started, so a released reservation is never dispatched.
`BudgetInv` bounds the tokens charged to invocations (`Charged`) and the active calls; only a
reservation adds to them, and it is tested with the total it will make, in which no token counts twice (`ChargedOnce`). What is used and not
left out is charged, so there is no more of it than the budget (`UsesAreFew`). Totals
are cardinalities of sets, which the library's theorems on finite sets add up.

**Token refresh.** `TokensTyped`, `TokenIsNotLost` (`RefusedOnlyWithoutToken`), `CodeHasItsVerifier` (`VerifierOfItsFlow`), `RenamingIsSafe`
(`RenamingKeepsToken`) and `WaitsEnd` (`WaitsForARefresh`). A stored token can be refreshed unless it is `bare` (`TokensWhole`), because
only an authorization stores one that cannot, and a refresh without a new refresh token stores the one it used: a bare token is never the
work of a refresh. So a call that finds nothing to refresh with has seen its account without a token or with a bare one
(`GapsAreSeen`). A lock stands for a refresh of its name that goes on (`LocksAreHeld`) although two refreshes may
overwrite and remove each other's, and whoever refreshes waits for nobody (`WaitersWait`), so a refresh that settles
takes its waiters and no other refresh with it (`SettleKeeps`). None of this excludes two refreshes at once, which section 8 shows.
A renaming carries its token from the old name to the new one (`RekeyKnows`), each renaming beside any others.

**Event hub.** `HubTyped`, `LossIsAnnounced` (`NoSilentLoss`), `EventsInOrder` (`InOrder`) and `BudgetsAreKept`
(`WithinBudgets`, which is no property of the run and holds there too). What
a subscriber has got, will get of its snapshot and has in its queue is one sequence, `Coming`. The invariant is of the value
publication works on, so that it can be followed through the rounds of a compaction: each iterator is in order and is
*served*, which is to say that what it asked for is coming or a later diagnostic is (`IteratorInv`), and the
journal is in order and has one diagnostic at most, one that subscribers know of (`JournalInv`). An iterator starts from a part of
the journal, and is served because the journal is `Covered`: what it does not have, the diagnostic *in it* announces. Trimming breaks that, and
the diagnostic that follows restores it, being numbered after everything that was ever dropped; the proof therefore
asks it only of the journal between publications, and of a round only that it ends with a diagnostic or dropped nothing (`RoundKeeps`).
That two rounds bring the journal into its budget needs that the second one finds a diagnostic to replace (`CompactKeeps`). The lemmas on
positions (`Rank`, `FirstOf`, `At`) say that a journal at some of its positions is one of its subsequences and
has as many events as there are positions.

**Rate limiter.** `LimiterTyped`, `TokensAreNotIdle` (`NoIdleToken`) and `TwoBucketsAtMost` (`AtMostTwoBuckets`). `NoIdleToken` is
inductive with the types: a refill leaves tokens only when it served everybody. For the other, `Accounts` says that the grants since the
last refill were taken out of its bucket, and that those of a window's length before the refill are of one earlier bucket at most;
`GrantedInWindow` that nothing is granted once a window is over unless it refills. A step then grants into a
stretch that holds one bucket before the refill and what was taken since (`StretchesAreCounted`, `OneMoreGrant`); a refill makes the
current bucket the earlier one (`RefillCounts`), which is possible only because it comes a window later. All counting is
of finite sets (`AtMost`).

Only checked by TLC: `DeliveredIsDurable`, `PromiseKept` and `ConflictsNeverOverwrite`, in the configurations they need;
`CompactIsTheLoop` and `AtIsTheFilter`, whose references are recursive, as the loops of the code are; and all liveness, which is
beyond the prover: `AbortSettles`, `EndIsSeen`, `CallsAreAnswered`, `Recovers`, `LoopEnds` and `CloseDrains`.

## 8. Where code and documents disagree

The run `tokens_twice` ends in a counterexample, and `PROJECT.json`, `findings`, has the quotation:
`getToken()` looks for a running refresh before two awaits and sets its own lock without looking
again (`AuthCodePKCE.ts:264-277`), so two calls refresh at once although the locks are there "to
prevent concurrent refresh" (line 31). With a provider that rotates refresh tokens, the
second presents one that is used up.

Seven more are in the models; each is seen by checking the named property in its module with the change given here:

| Module, change of its `.cfg` | Property | What the counterexample is |
|---|---|---|
| RuntimeControl, `ReconcileWhileRunning = TRUE` | `DeliveredIsDurable` | `resumeSession()` of a session that is still attached reconciles pending entries beside live calls and writes over a report that was settled and delivered meanwhile (`RuntimeHostTools.ts:223`; `outbox()` guards against the same at `RuntimeSessionStorage.ts:191`). |
| RuntimeLease, `Releasers = {r, s}` | `ExclusiveWriter` | `release()` sets its flag after its awaits; two overlapping calls (two `detach()`, or `detach()` and `destroy()`) remove the next holder's lock. |
| RuntimeLease, `Drained = FALSE` | `ConflictsNeverOverwrite` | An update queued beside `release()` can pass its second check and rename its file after the next holder wrote. |
| SessionLedger, none | `ToldIsStored` | A record read at resumption is taken for acknowledged although nothing synced it; a host crash then takes back a terminal result a caller has got ("Seeing the candidate is not a durability acknowledgement", `RuntimeSessionStorage.ts:161`). |
| SessionLedger, none | `SavedIsServed` | After `getRun()` stored a retained result, later calls return the wrapper whose result has failed. |
| RateLimiter, none | `TimerFindsToken` | A timer's refill serves the waiters behind it first and leaves none for the waiter itself, the case the code says should not happen (`RateLimiter.ts:257`). |
| ManagedLoop, none | `WriteStartsOnce` | "A previously admitted identical action cannot execute again in the same policy execution" (`docs/AGENT_LOOP_POLICIES.md:119-122`, which lets a recorded `not_started` outcome release "that admission"). The result queue of an agent outlives its executions, and `observe()` clears the admission of a key for any outcome of the same tool and arguments (`LoopController.ts:148`). This execution starts a write in the background; the result of the same write, asked for by an earlier execution and never started, is imported and releases the key; the model asks again, and the write starts a second time while the first is at work. `StartsAreAccountedFor` is what does hold. |

Also seen while modelling, and part of the models:

* a provider's answer to an authorization that has no refresh token replaces the stored one and its refresh token
  (`AuthCodePKCE.ts:242-245`; a refresh keeps it, lines 346-352), so authorizing again can make a later `getToken()` ask for an
  authorization once more. The comments (90-92; 346-349: some providers issue one on the first
  authorization only) and the tests know answers without refresh tokens; `RefusedOnlyWithoutToken` excepts them by `bare`, and `ExchangeStores` is the step;
* a renaming whose token another renaming or a revocation deletes stores it again, or, if its next access fails, leaves it
  nowhere: `RenamingKeepsToken` excepts renamings so disturbed;
* an answered request whose usage the provider leaves out of what it reports is no longer charged after `settle()`
  (`ModelTask.ts:252-256`): `LeftOut`, the one case in which the attempts of a task may use more than its budget. With
  `Reported` as providers of this repository compute it (the usage of all requests) it occurs only when an SDK repeats a
  request that was answered; without `LeftOut` in their statements, `ChargesCoverUse` and `WithinBudget` fail;
* a half-open breaker is to "Allow one request through" (`CircuitBreaker.ts:170`); it lets any number pass
  until one of them settles (`Ask`);
* a refresh in flight stores its token after the account was revoked, and `rekeyAccount()` may store under
  the new name a refresh token that was rotated meanwhile (`StoreRefreshed`, `RekeyStep`); the repository does
  not say what either promises;
* a host tool call that loses its turn to the end of its run after its admission was written leaves an
  entry that is never resolved by itself, although nothing was started (`Admitted`);
* truncation diagnostics of the event hub take numbers beyond the range
  reserved for it (`AsyncEventHub.ts:191`; `publish()` checks at line 47): `ReplaceDiagnostic`;
* the header of `RateLimiter.ts` speaks of a sliding window; the code refills
  the whole bucket at once, so a stretch of a window's length may see two buckets
  (`AtMostTwoBuckets` is what does hold);
* `reset()` of the rate limiter leaves the promises of its waiters unsettled for ever:
  outcome "dropped", which `CallsAreAnswered` has to except;
* an admission whose write was not acknowledged leaves its run as the active
  one, and a request id whose admission failed gets the same failure for the
  life of the process (`DefinitionSession.ts:78, 102`).

## 9. What is not modelled

* Of the runtime: validation of options and capabilities, bounding of results,
  file transfers, the drivers behind their contract, `inspectState` (its verdict is a
  choice in `RefuseNew`), the individual steps of `detach()` and `destroy()` of a definition
  session, `destroy()` of the backend, tool resolution and projections of the host tools.
* Of the agent and its tools: pause, steering, suspension, streaming and remote tools of the loop, their outcomes in
  `importLoopToolObservations()` included, and its limit of 1000 observations; scope changes that make queued results stale
  (`isCurrent`), but for those the host cancels; registration,
  namespaces, evidence and composition of `ToolManager` (so also the await between the recording of an outcome as evidence
  and its announcement); the connectors' other OAuth flows; metrics and backoff of the breaker; costs of a model task.
* Of a model task: an operation awaits each request before the next; the reported usage is exact for the requests it
  speaks of; the usage that `compactModel()` recovers from an error (`ModelExecutor.ts:127-143`) is one of the
  reports `OperationEnds` chooses from.
* Of the token flows: account ids that contain ":", by which two names may share a map key or a storage key; a user called
  "default".
* Data: reports, inputs, record contents and event payloads are reduced to what
  the properties tell apart; digests and serializations do not occur in any of them.
* The file system is the one the code assumes: exclusive creation and rename are
  atomic, and a file whose directory was synced survives. PIDs are not reused.
* The planned parts of section 2, and, with no plan: providers (conversions between wire formats),
  tool packs (one external call each), schedulers and triggers (thin wrappers of timers),
  voice pipelines, file transfers and the applications.
