---------------------------- MODULE RuntimeControl ----------------------------
(***************************************************************************)
(* The control ledger of one agent session (RuntimeSessionStorage.ts):     *)
(* the serialized writer `RuntimeControl`, its tool-result outbox, and the *)
(* revisioned record it keeps in a session storage.                        *)
(*                                                                         *)
(* A storage write may be acknowledged, may fail before it commits, or may *)
(* commit and fail (a directory fsync that throws).  The process may crash *)
(* and resume the session from what it reads back; the host may crash and  *)
(* lose what was never acknowledged.  A data object is abstracted to the   *)
(* outbox entries and to the set of the other updates it contains.         *)
(***************************************************************************)
EXTENDS ControlWriter, Sequences

CONSTANTS
  Calls,                  \* tool call ids used as outbox keys
  Updates,                \* the other control updates: admissions, checkpoints, results
  ReconcileWhileRunning   \* may reconcilePending run beside live invocations?

ASSUME ControlAssumption ==
  /\ ReconcileWhileRunning \in BOOLEAN
  /\ MaxRevision \in Nat \ {0}

VARIABLES
  tail,             \* RuntimeControl.tail: the operations serialize() still has to run
  admission,        \* of the run that calls the tools: its control update
  invocations,      \* where the outbox() call of each id is
  found,            \* the report an invocation is about to record
  retainedReports,  \* RuntimeControl.retainedReports
  passes,           \* where reconcilePending is with each id
  updates,          \* where each update() call is
  performed,        \* history: how often the action of each id was started
  delivered         \* history: the report last returned to a caller of outbox()

callers == <<admission, invocations, found, retainedReports, passes, updates>>
vars == <<ledger, tail, callers, performed, delivered>>

-----------------------------------------------------------------------------
(* A settled entry is represented by its report: "unknown" when its outcome *)
(* is unknown, "direct" when the action returned it, "receipt" when a       *)
(* trusted resolver read it back from the source.                           *)
Known == {"direct", "receipt"}
Reports == Known \cup {"unknown"}
Entries == Reports \cup {"absent", "executing"}

Unresolved(entry) == entry \in {"executing", "unknown"}

Data == [outbox : [Calls -> Entries], applied : SUBSET Updates]
Records == [revision : Nat, data : Data]
PendingWrites == [before : Records, data : Data, acknowledgementRequired : BOOLEAN]

ASSUME NoneAssumption == None \notin PendingWrites

InvocationStates ==
  {"idle", "inspecting", "recovering", "recording", "admitting", "admitted",
   "acting", "settling"}

Operations ==
  [by : {"invocation"}, id : Calls] \cup [by : {"pass"}, id : Calls]
    \cup [by : {"update"}, id : Updates] \cup [by : {"run"}, id : {None}]

Entry(c) == record.data.outbox[c]
WithEntry(c, e) ==
  [outbox |-> [record.data.outbox EXCEPT ![c] = e], applied |-> record.data.applied]
WithUpdate(u) ==
  [outbox |-> record.data.outbox, applied |-> record.data.applied \cup {u}]

\* An empty ledger, as openSession writes it.
Opened == [revision |-> 1,
           data |-> [outbox |-> [c \in Calls |-> "absent"], applied |-> {}]]

Init ==
  /\ stored = Opened
  /\ durable = Opened
  /\ record = Opened
  /\ pendingWrite = None
  /\ tail = <<>>
  /\ admission = "none"
  /\ invocations = [c \in Calls |-> "idle"]
  /\ found = [c \in Calls |-> "none"]
  /\ retainedReports = [c \in Calls |-> "none"]
  /\ passes = [c \in Calls |-> "idle"]
  /\ updates = [u \in Updates |-> "new"]
  /\ performed = [c \in Calls |-> 0]
  /\ delivered = [c \in Calls |-> "none"]

-----------------------------------------------------------------------------
(* The storage and the serialized writer.                                   *)

\* serialize(): operations run one at a time, in the order they were queued.
Operation(by, id) == [by |-> by, id |-> id]
Queue(by, id) == tail' = Append(tail, Operation(by, id))
IsNext(by, id) == tail # <<>> /\ Head(tail) = Operation(by, id)

\* The first operation of the tail is over: its promise resolved or rejected.
Finished(by, id) == IsNext(by, id) /\ tail' = Tail(tail)

\* The operation throws to its caller.
OperationFails ==
  /\ tail # <<>>
  /\ tail' = Tail(tail)
  /\ LET id == Head(tail).id
     IN \/ /\ Head(tail).by = "run"
           /\ admission' = "none"
           /\ UNCHANGED <<invocations, passes, updates>>
        \/ /\ Head(tail).by = "invocation"
           /\ invocations' = [invocations EXCEPT ![id] = "idle"]
           /\ UNCHANGED <<admission, passes, updates>>
        \/ /\ Head(tail).by = "pass"
           /\ passes' = [passes EXCEPT ![id] = "idle"]
           /\ UNCHANGED <<admission, invocations, updates>>
        \/ /\ Head(tail).by = "update"
           /\ updates' = [updates EXCEPT ![id] = "failed"]
           /\ UNCHANGED <<admission, invocations, passes>>

\* reconcileWrite(), first return: a write that failed before it committed is
\* forgotten, its caller has been told that it failed.
ForgetFailedWrite ==
  /\ tail # <<>>
  /\ Forget
  /\ UNCHANGED <<tail, callers, performed, delivered>>

\* Variant: the candidate is taken for acknowledged because it can be read.
ReconcileWriteByReading ==
  /\ tail # <<>>
  /\ pendingWrite # None
  /\ SeenCandidate
  /\ record' = stored
  /\ pendingWrite' = None
  /\ UNCHANGED <<stored, durable, tail, callers, performed, delivered>>

ReconcileWrite ==
  /\ tail # <<>>
  /\ RewriteCandidate("acked")
  /\ UNCHANGED <<tail, callers, performed, delivered>>

\* reconcileWrite() throws: its read failed, it cannot match what it read, or
\* its rewrite was not acknowledged.
ReconcileWriteFails ==
  /\ pendingWrite # None
  /\ \/ UNCHANGED ledger
     \/ \E outcome \in {"lost", "unacked"} : RewriteCandidate(outcome)
  /\ OperationFails
  /\ UNCHANGED <<found, retainedReports, performed, delivered>>

-----------------------------------------------------------------------------
(* update(): any change of the record that is not an outbox entry.          *)

RequestUpdate(u) ==
  /\ updates[u] = "new"
  /\ updates' = [updates EXCEPT ![u] = "queued"]
  /\ Queue("update", u)
  /\ UNCHANGED <<ledger, admission, invocations, found, retainedReports, passes, performed, delivered>>

\* Variant: a failed directory sync is not reported.
RunUpdateWithoutSync(u) ==
  /\ Finished("update", u)
  /\ \E outcome \in Outcomes :
       /\ Update(WithUpdate(u), outcome)
       /\ updates' = [updates EXCEPT ![u] = IF outcome = "lost" THEN "failed" ELSE "acked"]
  /\ UNCHANGED <<admission, invocations, found, retainedReports, passes, performed, delivered>>

RunUpdate(u) ==
  /\ Finished("update", u)
  /\ \E outcome \in Outcomes :
       /\ Update(WithUpdate(u), outcome)
       /\ updates' = [updates EXCEPT ![u] = IF outcome = "acked" THEN "acked" ELSE "failed"]
  /\ UNCHANGED <<admission, invocations, found, retainedReports, passes, performed, delivered>>

\* The update of DefinitionSession.admit, or of resumeSession when it adopts the
\* active run: only a run that was admitted or adopted can call tools.
RequestRun ==
  /\ admission = "none"
  /\ ReconcileWhileRunning \/ \A c \in Calls : passes[c] = "idle"
  /\ admission' = "queued"
  /\ Queue("run", None)
  /\ UNCHANGED <<ledger, invocations, found, retainedReports, passes, updates, performed, delivered>>

AdmitRun ==
  /\ Finished("run", None)
  /\ \E outcome \in Outcomes :
       /\ Update(record.data, outcome)
       /\ admission' = IF outcome = "acked" THEN "done" ELSE "none"
  /\ UNCHANGED <<invocations, found, retainedReports, passes, updates, performed, delivered>>

-----------------------------------------------------------------------------
(* outbox(callId, action, ..., recover).  A second call of the same id while *)
(* one is active shares its promise, so one invocation per id is modelled.   *)

Invoke(c) ==
  /\ admission = "done"
  /\ invocations[c] = "idle"
  /\ invocations' = [invocations EXCEPT ![c] = "inspecting"]
  /\ Queue("invocation", c)
  /\ UNCHANGED <<ledger, admission, found, retainedReports, passes, updates, performed, delivered>>

\* Its serialized reconcileWrite is done: outbox() branches on the entry.
Inspected(c) ==
  /\ IsNext("invocation", c)
  /\ invocations[c] = "inspecting"
  /\ pendingWrite = None

\* The branch leads to an update of the entry, queued behind the others.
ThenQueue(c, next) ==
  /\ invocations' = [invocations EXCEPT ![c] = next]
  /\ tail' = Append(Tail(tail), Operation("invocation", c))

Redeliver(c) ==
  /\ Inspected(c)
  /\ Entry(c) \in Known
  /\ tail' = Tail(tail)
  /\ delivered' = [delivered EXCEPT ![c] = Entry(c)]
  /\ invocations' = [invocations EXCEPT ![c] = "idle"]
  /\ UNCHANGED <<ledger, admission, found, retainedReports, passes, updates, performed>>

RepairRetained(c) ==
  /\ Inspected(c)
  /\ Unresolved(Entry(c))
  /\ retainedReports[c] # "none"
  /\ found' = [found EXCEPT ![c] = retainedReports[c]]
  /\ ThenQueue(c, "recording")
  /\ UNCHANGED <<ledger, admission, retainedReports, passes, updates, performed, delivered>>

AskReceipt(c) ==
  /\ Inspected(c)
  /\ Unresolved(Entry(c))
  /\ retainedReports[c] = "none"
  /\ tail' = Tail(tail)
  /\ invocations' = [invocations EXCEPT ![c] = "recovering"]
  /\ UNCHANGED <<ledger, admission, found, retainedReports, passes, updates, performed, delivered>>

\* Variant: an interrupted call is started afresh.
RequestReadmission(c) ==
  /\ Inspected(c)
  /\ Entry(c) \notin Reports
  /\ ThenQueue(c, "admitting")
  /\ UNCHANGED <<ledger, admission, found, retainedReports, passes, updates, performed, delivered>>

RequestAdmission(c) ==
  /\ Inspected(c)
  /\ Entry(c) = "absent"
  /\ ThenQueue(c, "admitting")
  /\ UNCHANGED <<ledger, admission, found, retainedReports, passes, updates, performed, delivered>>

\* Variant: a missing receipt is answered like a found one.
RecoverAnyway(c) ==
  /\ invocations[c] = "recovering"
  /\ found' = [found EXCEPT ![c] = "receipt"]
  /\ invocations' = [invocations EXCEPT ![c] = "recording"]
  /\ Queue("invocation", c)
  /\ UNCHANGED <<ledger, admission, retainedReports, passes, updates, performed, delivered>>

\* recover() reads the original receipt from its source, or finds none and
\* outbox() throws.
Recover(c) ==
  /\ invocations[c] = "recovering"
  /\ \/ /\ performed[c] > 0
        /\ found' = [found EXCEPT ![c] = "receipt"]
        /\ invocations' = [invocations EXCEPT ![c] = "recording"]
        /\ Queue("invocation", c)
     \/ /\ invocations' = [invocations EXCEPT ![c] = "idle"]
        /\ UNCHANGED <<tail, found>>
  /\ UNCHANGED <<ledger, admission, retainedReports, passes, updates, performed, delivered>>

\* The update that settles the entry of c with a report: once it is
\* acknowledged, the report is no longer retained and goes to the caller.
SettleWith(c, report) ==
  /\ Finished("invocation", c)
  /\ invocations' = [invocations EXCEPT ![c] = "idle"]
  /\ \E outcome \in Outcomes :
       /\ Update(WithEntry(c, report), outcome)
       /\ IF outcome = "acked"
          THEN /\ retainedReports' = [retainedReports EXCEPT ![c] = "none"]
               /\ delivered' = [delivered EXCEPT ![c] = report]
          ELSE UNCHANGED <<retainedReports, delivered>>
  /\ UNCHANGED <<admission, found, passes, updates, performed>>

\* The reconciled report replaces the unresolved entry.
Record(c) ==
  /\ invocations[c] = "recording"
  /\ SettleWith(c, found[c])

\* The intent to act is written before the action starts.
Admit(c) ==
  /\ invocations[c] = "admitting"
  /\ Finished("invocation", c)
  /\ \E outcome \in Outcomes :
       /\ Update(WithEntry(c, "executing"), outcome)
       /\ invocations' = [invocations EXCEPT ![c] = IF outcome = "acked" THEN "admitted" ELSE "idle"]
  /\ UNCHANGED <<admission, found, retainedReports, passes, updates, performed, delivered>>

Perform(c) ==
  /\ invocations[c] = "admitted"
  /\ performed' = [performed EXCEPT ![c] = @ + 1]
  /\ invocations' = [invocations EXCEPT ![c] = "acting"]
  /\ UNCHANGED <<ledger, tail, admission, found, retainedReports, passes, updates, delivered>>

\* The action returns its report, which is retained, or throws.
ActionEnds(c) ==
  /\ invocations[c] = "acting"
  /\ \/ \E report \in {"direct", "unknown"} :
          /\ retainedReports' = [retainedReports EXCEPT ![c] = report]
          /\ invocations' = [invocations EXCEPT ![c] = "settling"]
          /\ Queue("invocation", c)
     \/ /\ invocations' = [invocations EXCEPT ![c] = "idle"]
        /\ UNCHANGED <<tail, retainedReports>>
  /\ UNCHANGED <<ledger, admission, found, passes, updates, performed, delivered>>

\* The report is recorded unless the entry was settled meanwhile; the recorded
\* report is what the caller gets.
Settle(c) ==
  /\ invocations[c] = "settling"
  /\ SettleWith(c, IF Entry(c) = "executing" THEN retainedReports[c] ELSE Entry(c))

-----------------------------------------------------------------------------
(* RuntimeHostTools.reconcilePending(), run by resumeSession: on a restored  *)
(* control before it is published, and also on a session that is live.       *)

AskSource(c) ==
  /\ ReconcileWhileRunning \/ admission = "none"
  /\ passes[c] = "idle"
  /\ Unresolved(Entry(c))
  /\ passes' = [passes EXCEPT ![c] = "asking"]
  /\ UNCHANGED <<ledger, tail, admission, invocations, found, retainedReports, updates, performed, delivered>>

SourceAnswers(c) ==
  /\ passes[c] = "asking"
  /\ \/ /\ performed[c] > 0
        /\ passes' = [passes EXCEPT ![c] = "adopting"]
        /\ Queue("pass", c)
     \/ /\ passes' = [passes EXCEPT ![c] = "idle"]
        /\ UNCHANGED tail
  /\ UNCHANGED <<ledger, admission, invocations, found, retainedReports, updates, performed, delivered>>

\* The receipt replaces whatever entry the record holds by then.
Adopt(c) ==
  /\ Finished("pass", c)
  /\ \E outcome \in Outcomes : Update(WithEntry(c, "receipt"), outcome)
  /\ passes' = [passes EXCEPT ![c] = "idle"]
  /\ UNCHANGED <<admission, invocations, found, retainedReports, updates, performed, delivered>>

-----------------------------------------------------------------------------
(* Crashes.  resumeSession reads the record back and builds a new control:   *)
(* everything a RuntimeControl keeps in memory is gone.                      *)

Resume(from) ==
  /\ record' = from
  /\ stored' = from
  /\ pendingWrite' = None
  /\ tail' = <<>>
  /\ admission' = "none"
  /\ invocations' = [c \in Calls |-> "idle"]
  /\ found' = [c \in Calls |-> "none"]
  /\ retainedReports' = [c \in Calls |-> "none"]
  /\ passes' = [c \in Calls |-> "idle"]
  /\ updates' = [u \in Updates |-> IF updates[u] = "queued" THEN "failed" ELSE updates[u]]
  /\ UNCHANGED <<performed, delivered>>

\* The process ended (or released its lease) and the session was resumed.
ProcessRestarts ==
  /\ Resume(stored)
  /\ UNCHANGED durable

\* The host went down: an unacknowledged write may or may not be on its disk.
HostRestarts ==
  \E survivor \in {stored, durable} :
    /\ Resume(survivor)
    /\ durable' = survivor

Next ==
  \/ ForgetFailedWrite \/ ReconcileWrite \/ ReconcileWriteFails
  \/ RequestRun \/ AdmitRun
  \/ \E u \in Updates : RequestUpdate(u) \/ RunUpdate(u)
  \/ \E c \in Calls :
       \/ Invoke(c) \/ Redeliver(c) \/ RepairRetained(c) \/ AskReceipt(c)
       \/ RequestAdmission(c) \/ Recover(c) \/ Record(c)
       \/ Admit(c) \/ Perform(c) \/ ActionEnds(c) \/ Settle(c)
       \/ AskSource(c) \/ SourceAnswers(c) \/ Adopt(c)
  \/ ProcessRestarts \/ HostRestarts

Spec == Init /\ [][Next]_vars
-----------------------------------------------------------------------------
(* Every variable has its type. *)
TypeOK ==
  /\ stored \in Records
  /\ durable \in Records
  /\ record \in Records
  /\ pendingWrite \in PendingWrites \cup {None}
  /\ tail \in Seq(Operations)
  /\ admission \in {"none", "queued", "done"}
  /\ invocations \in [Calls -> InvocationStates]
  /\ found \in [Calls -> Reports \cup {"none"}]
  /\ retainedReports \in [Calls -> Reports \cup {"none"}]
  /\ passes \in [Calls -> {"idle", "asking", "adopting"}]
  /\ updates \in [Updates -> {"new", "queued", "acked", "failed"}]
  /\ performed \in [Calls -> Nat]
  /\ delivered \in [Calls -> Reports \cup {"none"}]

(* The action of a call id is started at most once, over failed writes,      *)
(* retries, process and host crashes ("reconcile its original receipt, never *)
(* repeat it", RuntimeSessionStorage.ts:181).                                *)
ActedAtMostOnce == \A c \in Calls : performed[c] <= 1

(* An update() that resolved is in whatever record survives a host crash:    *)
(* reconcileWrite never takes a record it can see for an acknowledged one    *)
(* (RuntimeSessionStorage.ts:161-163).                                       *)
AcknowledgedNeverLost ==
  \A u \in Updates : updates[u] = "acked" => u \in durable.data.applied

(* A report is in the record that survives a host crash before any caller of *)
(* outbox() gets it, and while its outcome is known it is the recorded one.  *)
DeliveredIsDurable ==
  \A c \in Calls :
    /\ delivered[c] = "unknown" => durable.data.outbox[c] \in Reports
    /\ delivered[c] \in Known => durable.data.outbox[c] = delivered[c]

(* An update that failed before it committed is never admitted afterwards by *)
(* a reconciliation (RuntimeSessionStorage.ts:153-155).                      *)
NoRetroactiveAdmission ==
  [][\A u \in Updates :
       (updates[u] = "failed" /\ u \notin stored.data.applied)
         => u \notin stored'.data.applied]_vars

(* The outbox implements its promise: at most one attempt, no answer before  *)
(* it, and a known answer is the answer for ever.                            *)
Promise == INSTANCE OutboxPromise WITH attempts <- performed, answer <- delivered
PromiseKept == Promise!Spec

=============================================================================
