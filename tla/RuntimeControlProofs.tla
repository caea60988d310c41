------------------------- MODULE RuntimeControlProofs -------------------------
(***************************************************************************)
(* RuntimeControl keeps its word for any calls, any updates and any bound. *)
(*                                                                         *)
(* A call's action is started at most once and an acknowledged update is   *)
(* never lost: what was recorded with an acknowledgement is in every copy  *)
(* of the record (the stored one, the durable one, the one in memory and   *)
(* both sides of a pending write), and every write is computed from one of *)
(* these copies by adding to it.                                           *)
(*                                                                         *)
(* A failed update is not admitted later: an operation waits in the queue  *)
(* only while its caller waits for it, and what a reader sees contains     *)
(* whatever a copy contains.                                               *)
(*                                                                         *)
(* What a caller was told stands in every copy of the record, whatever is  *)
(* reconciled beside its calls: a known answer is only ever replaced by    *)
(* the receipt its source gives.                                           *)
(***************************************************************************)
EXTENDS RuntimeControl, TLAPS

\* A report is there whenever an operation that records it is queued.
ReportsAtHand ==
  \A c \in Calls :
    /\ invocations[c] = "settling" => retainedReports[c] \in Reports
    /\ invocations[c] = "recording" => found[c] \in Reports

\* The intent to act on c is in every copy of the record.
IntentRecorded(c) ==
  /\ stored.data.outbox[c] # "absent"
  /\ durable.data.outbox[c] # "absent"
  /\ record.data.outbox[c] # "absent"
  /\ pendingWrite # None =>
       /\ pendingWrite.before.data.outbox[c] # "absent"
       /\ pendingWrite.data.outbox[c] # "absent"

\* An action is started after its intent is recorded everywhere, and an id
\* whose intent is recorded is not admitted again.
IntentBeforeAction ==
  \A c \in Calls :
    /\ performed[c] <= 1
    /\ performed[c] = 1 \/ invocations[c] = "admitted" => IntentRecorded(c)
    /\ invocations[c] \in {"admitting", "admitted"} => performed[c] = 0
    /\ invocations[c] \in {"acting", "settling"} => performed[c] = 1

\* An acknowledged update is in every copy of the record.
AppliedEverywhere(u) ==
  /\ u \in stored.data.applied
  /\ u \in durable.data.applied
  /\ u \in record.data.applied
  /\ pendingWrite # None =>
       /\ u \in pendingWrite.before.data.applied
       /\ u \in pendingWrite.data.applied

AckedEverywhere == \A u \in Updates : updates[u] = "acked" => AppliedEverywhere(u)

IInv == TypeOK /\ ReportsAtHand /\ IntentBeforeAction /\ AckedEverywhere

-----------------------------------------------------------------------------
(* What Update() makes of the copies of the record, for the action lemmas.   *)
LEMMA UpdateCopies ==
  ASSUME TypeOK, NEW data \in Data, NEW outcome \in Outcomes, Update(data, outcome)
  PROVE  /\ stored' \in Records /\ durable' \in Records /\ record' \in Records
         /\ pendingWrite' \in PendingWrites \cup {None}
         /\ stored'.data \in {stored.data, data}
         /\ durable'.data \in {durable.data, data}
         /\ record'.data \in {record.data, data}
         /\ pendingWrite' # None =>
              pendingWrite'.before.data = record.data /\ pendingWrite'.data = data
         /\ outcome = "acked" =>
              /\ stored'.data = data /\ durable'.data = data /\ record'.data = data
              /\ pendingWrite' = None
<1> DEFINE next == [revision |-> record.revision + 1, data |-> data]
<1>1. next \in Records /\ next.data = data
  BY DEF TypeOK, Records
<1>2. /\ stored' \in {stored, next} /\ durable' \in {durable, next}
      /\ outcome = "acked" => stored' = next /\ durable' = next
  BY DEF Update, LeaseWrite, Outcomes
<1>3. CASE outcome = "acked"
  BY <1>1, <1>2, <1>3 DEF Update, TypeOK
<1>4. CASE outcome # "acked"
  <2> DEFINE p == [before |-> record, data |-> data, acknowledgementRequired |-> FALSE]
  <2>1. pendingWrite' = p /\ record' = record
    BY <1>4 DEF Update
  <2>2. p \in PendingWrites /\ p.before.data = record.data /\ p.data = data
    BY DEF TypeOK, PendingWrites
  <2> QED BY <1>1, <1>2, <1>4, <2>1, <2>2 DEF TypeOK
<1> QED BY <1>3, <1>4

(* What the rewrite of reconcileWrite() makes of them: no new data.          *)
LEMMA RewriteCopies ==
  ASSUME TypeOK, NEW outcome \in Outcomes, RewriteCandidate(outcome)
  PROVE  /\ stored' \in Records /\ durable' \in Records /\ record' \in Records
         /\ pendingWrite' \in PendingWrites \cup {None}
         /\ stored'.data \in {stored.data, pendingWrite.data}
         /\ durable'.data \in {durable.data, pendingWrite.data}
         /\ record'.data \in {record.data, pendingWrite.data}
         /\ pendingWrite' # None =>
              pendingWrite'.before.data = stored.data /\ pendingWrite'.data = pendingWrite.data
<1> DEFINE next == [revision |-> stored.revision + 1, data |-> pendingWrite.data]
<1>0. pendingWrite \in PendingWrites
  BY DEF TypeOK, RewriteCandidate
<1>1. next \in Records /\ next.data = pendingWrite.data
  BY <1>0 DEF TypeOK, Records, PendingWrites
<1>2. /\ stored' \in {stored, next} /\ durable' \in {durable, next}
      /\ outcome = "acked" => stored' = next
  BY DEF RewriteCandidate, LeaseWrite, Outcomes
<1>3. CASE outcome = "acked"
  BY <1>1, <1>2, <1>3 DEF RewriteCandidate, TypeOK
<1>4. CASE outcome # "acked"
  <2> DEFINE p == [before |-> stored, data |-> pendingWrite.data, acknowledgementRequired |-> TRUE]
  <2>1. pendingWrite' = p /\ record' = record
    BY <1>4 DEF RewriteCandidate
  <2>2. p \in PendingWrites /\ p.before.data = stored.data /\ p.data = pendingWrite.data
    BY <1>0 DEF TypeOK, PendingWrites
  <2> QED BY <1>1, <1>2, <1>4, <2>1, <2>2 DEF TypeOK
<1> QED BY <1>3, <1>4

(* An update whose data keeps an intent or an applied update keeps it in      *)
(* every copy, and so does a rewrite.                                         *)
LEMMA UpdateKeeps ==
  ASSUME TypeOK, NEW data \in Data, NEW outcome \in Outcomes, Update(data, outcome)
  PROVE  /\ \A c \in Calls : IntentRecorded(c) /\ data.outbox[c] # "absent" => IntentRecorded(c)'
         /\ \A u \in Updates : AppliedEverywhere(u) /\ u \in data.applied => AppliedEverywhere(u)'
BY UpdateCopies DEF IntentRecorded, AppliedEverywhere

LEMMA RewriteKeeps ==
  ASSUME TypeOK, NEW outcome \in Outcomes, RewriteCandidate(outcome)
  PROVE  /\ \A c \in Calls : IntentRecorded(c) => IntentRecorded(c)'
         /\ \A u \in Updates : AppliedEverywhere(u) => AppliedEverywhere(u)'
<1>1. pendingWrite # None
  BY DEF RewriteCandidate
<1> QED BY <1>1, RewriteCopies DEF IntentRecorded, AppliedEverywhere

LEMMA SameLedgerKeeps ==
  ASSUME UNCHANGED ledger
  PROVE  /\ \A c \in Calls : IntentRecorded(c)' <=> IntentRecorded(c)
         /\ \A u \in Updates : AppliedEverywhere(u)' <=> AppliedEverywhere(u)
BY DEF ledger, IntentRecorded, AppliedEverywhere

(* The data an operation writes is typed and adds to the record.              *)
LEMMA EntryWritten ==
  ASSUME TypeOK, NEW c \in Calls, NEW e \in Entries
  PROVE  /\ WithEntry(c, e) \in Data
         /\ WithEntry(c, e).outbox[c] = e
         /\ \A d \in Calls \ {c} : WithEntry(c, e).outbox[d] = record.data.outbox[d]
         /\ WithEntry(c, e).applied = record.data.applied
BY DEF TypeOK, WithEntry, Data, Records

LEMMA UpdateWritten ==
  ASSUME TypeOK, NEW u \in Updates
  PROVE  /\ WithUpdate(u) \in Data
         /\ WithUpdate(u).outbox = record.data.outbox
         /\ WithUpdate(u).applied = record.data.applied \cup {u}
BY DEF TypeOK, WithUpdate, Data, Records

LEMMA TailTyped ==
  ASSUME TypeOK
  PROVE  /\ \A c \in Calls : Operation("invocation", c) \in Operations /\ Operation("pass", c) \in Operations
         /\ \A u \in Updates : Operation("update", u) \in Operations
         /\ Operation("run", None) \in Operations
         /\ \A op \in Operations : Append(tail, op) \in Seq(Operations)
         /\ tail # <<>> => Head(tail) \in Operations /\ Tail(tail) \in Seq(Operations)
         /\ tail # <<>> => \A op \in Operations : Append(Tail(tail), op) \in Seq(Operations)
BY DEF TypeOK, Operation, Operations

LEMMA QueueTyped ==
  ASSUME TypeOK
  PROVE  /\ \A c \in Calls : Queue("invocation", c) \/ Queue("pass", c) => tail' \in Seq(Operations)
         /\ \A u \in Updates : Queue("update", u) => tail' \in Seq(Operations)
         /\ Queue("run", None) => tail' \in Seq(Operations)
BY TailTyped DEF Queue

LEMMA FinishedTyped ==
  ASSUME TypeOK, NEW by, NEW id, Finished(by, id)
  PROVE  tail' \in Seq(Operations)
BY TailTyped DEF Finished, IsNext

-----------------------------------------------------------------------------
LEMMA InitIInv == Init => IInv
BY DEF Init, IInv, TypeOK, ReportsAtHand, IntentBeforeAction, AckedEverywhere,
       IntentRecorded, AppliedEverywhere, Opened, Records, Data, Entries, Reports, Known,
       InvocationStates

(* Each action preserves the invariant.  The first group leaves the ledger    *)
(* alone and moves one caller.                                                *)
LEMMA CallerSteps ==
  ASSUME IInv,
         \/ RequestRun
         \/ \E u \in Updates : RequestUpdate(u)
         \/ \E c \in Calls :
              \/ Invoke(c) \/ Redeliver(c) \/ RepairRetained(c) \/ AskReceipt(c)
              \/ RequestAdmission(c) \/ Recover(c) \/ Perform(c) \/ ActionEnds(c)
              \/ AskSource(c) \/ SourceAnswers(c)
  PROVE  IInv'
<1> USE DEF IInv
<1>0. UNCHANGED ledger
  BY DEF RequestRun, RequestUpdate, Invoke, Redeliver, RepairRetained, AskReceipt,
         RequestAdmission, Recover, Perform, ActionEnds, AskSource, SourceAnswers
<1>1. CASE RequestRun
  <2>1. TypeOK'
    BY <1>1, TailTyped DEF RequestRun, TypeOK, Queue, ledger
  <2> QED BY <1>0, <1>1, <2>1, SameLedgerKeeps
       DEF RequestRun, ReportsAtHand, IntentBeforeAction, AckedEverywhere
<1>2. ASSUME NEW u \in Updates, RequestUpdate(u) PROVE IInv'
  <2>1. TypeOK'
    BY <1>2, TailTyped DEF RequestUpdate, TypeOK, Queue, ledger
  <2> QED BY <1>0, <1>2, <2>1, SameLedgerKeeps
       DEF TypeOK, RequestUpdate, ReportsAtHand, IntentBeforeAction, AckedEverywhere
<1>3. ASSUME NEW c \in Calls, Invoke(c) PROVE IInv'
  <2>1. TypeOK'
    BY <1>3, TailTyped DEF Invoke, TypeOK, Queue, ledger, InvocationStates
  <2> QED BY <1>0, <1>3, <2>1, SameLedgerKeeps
       DEF TypeOK, Invoke, ReportsAtHand, IntentBeforeAction, AckedEverywhere
<1>4. ASSUME NEW c \in Calls, Redeliver(c) PROVE IInv'
  <2>1. TypeOK'
    BY <1>4, TailTyped DEF Redeliver, Inspected, IsNext, TypeOK, ledger, InvocationStates, Reports
  <2> QED BY <1>0, <1>4, <2>1, SameLedgerKeeps
       DEF TypeOK, Redeliver, ReportsAtHand, IntentBeforeAction, AckedEverywhere
<1>5. ASSUME NEW c \in Calls, RepairRetained(c) PROVE IInv'
  <2>1. TypeOK'
    BY <1>5, TailTyped DEF RepairRetained, Inspected, IsNext, ThenQueue, TypeOK, ledger, InvocationStates
  <2>2. ReportsAtHand'
    BY <1>5 DEF TypeOK, RepairRetained, ThenQueue, ReportsAtHand
  <2> QED BY <1>0, <1>5, <2>1, <2>2, SameLedgerKeeps
       DEF TypeOK, RepairRetained, ThenQueue, IntentBeforeAction, AckedEverywhere
<1>6. ASSUME NEW c \in Calls, AskReceipt(c) PROVE IInv'
  <2>1. TypeOK'
    BY <1>6, TailTyped DEF AskReceipt, Inspected, IsNext, TypeOK, ledger, InvocationStates
  <2> QED BY <1>0, <1>6, <2>1, SameLedgerKeeps
       DEF TypeOK, AskReceipt, ReportsAtHand, IntentBeforeAction, AckedEverywhere
<1>7. ASSUME NEW c \in Calls, RequestAdmission(c) PROVE IInv'
  <2>1. TypeOK'
    BY <1>7, TailTyped DEF RequestAdmission, Inspected, IsNext, ThenQueue, TypeOK, ledger, InvocationStates
  <2>2. performed[c] = 0
    BY <1>7 DEF TypeOK, RequestAdmission, Entry, IntentBeforeAction, IntentRecorded
  <2> QED BY <1>0, <1>7, <2>1, <2>2, SameLedgerKeeps
       DEF TypeOK, RequestAdmission, ThenQueue, ReportsAtHand, IntentBeforeAction, AckedEverywhere
<1>8. ASSUME NEW c \in Calls, Recover(c) PROVE IInv'
  <2>1. TypeOK'
    <3>1. tail' \in Seq(Operations)
      BY <1>8, QueueTyped DEF Recover, TypeOK
    <3> QED BY <1>8, <3>1 DEF Recover, TypeOK, ledger, InvocationStates, Reports, Known
  <2>2. ReportsAtHand'
    BY <1>8 DEF TypeOK, Recover, ReportsAtHand, Reports, Known
  <2> QED BY <1>0, <1>8, <2>1, <2>2, SameLedgerKeeps
       DEF TypeOK, Recover, IntentBeforeAction, AckedEverywhere
<1>9. ASSUME NEW c \in Calls, Perform(c) PROVE IInv'
  <2>1. TypeOK'
    BY <1>9 DEF Perform, TypeOK, ledger, InvocationStates
  <2>2. IntentBeforeAction'
    BY <1>0, <1>9, SameLedgerKeeps DEF TypeOK, Perform, IntentBeforeAction
  <2> QED BY <1>0, <1>9, <2>1, <2>2, SameLedgerKeeps
       DEF TypeOK, Perform, ReportsAtHand, AckedEverywhere
<1>10. ASSUME NEW c \in Calls, ActionEnds(c) PROVE IInv'
  <2>1. TypeOK'
    <3>1. tail' \in Seq(Operations)
      BY <1>10, QueueTyped DEF ActionEnds, TypeOK
    <3>2. /\ invocations' \in [Calls -> InvocationStates]
          /\ retainedReports' \in [Calls -> Reports \cup {"none"}]
      <4>1. ASSUME NEW report \in {"direct", "unknown"},
                   retainedReports' = [retainedReports EXCEPT ![c] = report]
            PROVE  retainedReports' \in [Calls -> Reports \cup {"none"}]
        BY <4>1 DEF TypeOK, Reports, Known
      <4>2. invocations' \in [Calls -> InvocationStates]
        BY <1>10 DEF ActionEnds, TypeOK, InvocationStates
      <4> QED BY <1>10, <4>1, <4>2 DEF ActionEnds, TypeOK
    <3> QED BY <1>10, <3>1, <3>2 DEF ActionEnds, TypeOK, ledger
  <2>2. ReportsAtHand'
    BY <1>10 DEF TypeOK, ActionEnds, ReportsAtHand, Reports, Known
  <2> QED BY <1>0, <1>10, <2>1, <2>2, SameLedgerKeeps
       DEF TypeOK, ActionEnds, IntentBeforeAction, AckedEverywhere
<1>11. ASSUME NEW c \in Calls, AskSource(c) PROVE IInv'
  <2>1. TypeOK'
    BY <1>11 DEF AskSource, TypeOK, ledger
  <2> QED BY <1>0, <1>11, <2>1, SameLedgerKeeps
       DEF AskSource, ReportsAtHand, IntentBeforeAction, AckedEverywhere
<1>12. ASSUME NEW c \in Calls, SourceAnswers(c) PROVE IInv'
  <2>1. TypeOK'
    <3>1. tail' \in Seq(Operations)
      BY <1>12, QueueTyped DEF SourceAnswers, TypeOK
    <3> QED BY <1>12, <3>1 DEF SourceAnswers, TypeOK, ledger
  <2> QED BY <1>0, <1>12, <2>1, SameLedgerKeeps
       DEF SourceAnswers, ReportsAtHand, IntentBeforeAction, AckedEverywhere
<1> QED BY <1>1, <1>2, <1>3, <1>4, <1>5, <1>6, <1>7, <1>8, <1>9, <1>10, <1>11, <1>12

(* The second group runs the operation at the head of the tail: it writes the *)
(* record with one more update or one entry settled.                          *)
LEMMA WriteSteps ==
  ASSUME IInv,
         \/ AdmitRun
         \/ \E u \in Updates : RunUpdate(u)
         \/ \E c \in Calls : Record(c) \/ Admit(c) \/ Settle(c) \/ Adopt(c)
  PROVE  IInv'
<1> USE DEF IInv
<1>1. CASE AdmitRun
  <2> PICK outcome \in Outcomes : Update(record.data, outcome)
    BY <1>1 DEF AdmitRun
  <2>0. record.data \in Data
    BY DEF TypeOK, Records
  <2>1. TypeOK'
    BY <1>1, <2>0, FinishedTyped, UpdateCopies DEF AdmitRun, TypeOK
  <2>2. IntentBeforeAction'
    BY <1>1, <2>0, UpdateKeeps DEF AdmitRun, IntentBeforeAction, IntentRecorded
  <2>3. AckedEverywhere'
    BY <1>1, <2>0, UpdateKeeps DEF AdmitRun, AckedEverywhere, AppliedEverywhere
  <2> QED BY <1>1, <2>1, <2>2, <2>3 DEF AdmitRun, ReportsAtHand
<1>2. ASSUME NEW u \in Updates, RunUpdate(u) PROVE IInv'
  <2> PICK outcome \in Outcomes :
         /\ Update(WithUpdate(u), outcome)
         /\ updates' = [updates EXCEPT ![u] = IF outcome = "acked" THEN "acked" ELSE "failed"]
    BY <1>2 DEF RunUpdate
  <2>1. TypeOK'
    BY <1>2, UpdateWritten, FinishedTyped, UpdateCopies DEF RunUpdate, TypeOK
  <2>2. IntentBeforeAction'
    BY <1>2, UpdateWritten, UpdateKeeps DEF RunUpdate, IntentBeforeAction, IntentRecorded
  <2>3. outcome = "acked" => AppliedEverywhere(u)'
    BY UpdateWritten, UpdateCopies DEF AppliedEverywhere
  <2>4. ASSUME NEW v \in Updates, updates'[v] = "acked" PROVE AppliedEverywhere(v)'
    <3>1. CASE v = u
      <4>1. outcome = "acked"
        BY <2>4, <3>1 DEF TypeOK
      <4> QED BY <2>3, <3>1, <4>1
    <3>2. CASE v # u
      <4>1. AppliedEverywhere(v)
        BY <2>4, <3>2 DEF TypeOK, AckedEverywhere
      <4>2. v \in WithUpdate(u).applied
        BY <4>1, UpdateWritten DEF AppliedEverywhere
      <4> QED BY <4>1, <4>2, UpdateWritten, UpdateKeeps
    <3> QED BY <3>1, <3>2
  <2>5. AckedEverywhere'
    BY <2>4 DEF AckedEverywhere
  <2> QED BY <1>2, <2>1, <2>2, <2>5 DEF RunUpdate, ReportsAtHand
<1>3. ASSUME NEW c \in Calls, NEW report \in Reports, SettleWith(c, report) PROVE IInv'
  <2> PICK outcome \in Outcomes :
         /\ Update(WithEntry(c, report), outcome)
         /\ IF outcome = "acked"
            THEN /\ retainedReports' = [retainedReports EXCEPT ![c] = "none"]
                 /\ delivered' = [delivered EXCEPT ![c] = report]
            ELSE UNCHANGED <<retainedReports, delivered>>
    BY <1>3 DEF SettleWith
  <2>0. report \in Entries /\ report # "absent"
    BY DEF Entries, Reports, Known
  <2>1. TypeOK'
    <3>1. tail' \in Seq(Operations)
      BY <1>3, FinishedTyped DEF SettleWith
    <3>2. /\ invocations' \in [Calls -> InvocationStates]
          /\ retainedReports' \in [Calls -> Reports \cup {"none"}]
          /\ delivered' \in [Calls -> Reports \cup {"none"}]
      BY <1>3 DEF SettleWith, TypeOK, InvocationStates
    <3>3. UNCHANGED <<admission, found, passes, updates, performed>>
      BY <1>3 DEF SettleWith
    <3> QED BY <2>0, <3>1, <3>2, <3>3, EntryWritten, UpdateCopies DEF TypeOK
  <2>2. IntentBeforeAction'
    <3>1. performed' = performed /\ invocations' = [invocations EXCEPT ![c] = "idle"]
      BY <1>3 DEF SettleWith
    <3>2. \A d \in Calls : IntentRecorded(d) => IntentRecorded(d)'
      BY <2>0, EntryWritten, UpdateKeeps DEF IntentRecorded
    <3> QED BY <3>1, <3>2 DEF TypeOK, IntentBeforeAction
  <2>3. AckedEverywhere'
    BY <1>3, <2>0, EntryWritten, UpdateKeeps DEF SettleWith, AckedEverywhere, AppliedEverywhere
  <2>4. ReportsAtHand'
    BY <1>3 DEF TypeOK, SettleWith, ReportsAtHand
  <2> QED BY <2>1, <2>2, <2>3, <2>4
<1>4. ASSUME NEW c \in Calls, Record(c) PROVE IInv'
  BY <1>3, <1>4 DEF Record, ReportsAtHand
<1>5. ASSUME NEW c \in Calls, Settle(c) PROVE IInv'
  <2> DEFINE report == IF Entry(c) = "executing" THEN retainedReports[c] ELSE Entry(c)
  <2>1. report \in Reports
    <3>1. Entry(c) \in Entries /\ Entry(c) # "absent"
      BY <1>5 DEF Settle, TypeOK, Records, Data, Entry, IntentBeforeAction, IntentRecorded
    <3> QED BY <1>5, <3>1 DEF Settle, ReportsAtHand, Entries
  <2> QED BY <1>3, <1>5, <2>1 DEF Settle
<1>6. ASSUME NEW c \in Calls, Admit(c) PROVE IInv'
  <2> PICK outcome \in Outcomes :
         /\ Update(WithEntry(c, "executing"), outcome)
         /\ invocations' = [invocations EXCEPT ![c] = IF outcome = "acked" THEN "admitted" ELSE "idle"]
    BY <1>6 DEF Admit
  <2>0. "executing" \in Entries
    BY DEF Entries
  <2>1. TypeOK'
    BY <1>6, <2>0, EntryWritten, FinishedTyped, UpdateCopies
       DEF Admit, TypeOK, InvocationStates
  <2>2. outcome = "acked" => IntentRecorded(c)'
    BY <2>0, EntryWritten, UpdateCopies DEF IntentRecorded
  <2>3. IntentBeforeAction'
    <3>1. performed' = performed /\ invocations[c] = "admitting"
      BY <1>6 DEF Admit
    <3>2. \A d \in Calls : IntentRecorded(d) => IntentRecorded(d)'
      BY <2>0, EntryWritten, UpdateKeeps DEF IntentRecorded
    <3>3. invocations'[c] = (IF outcome = "acked" THEN "admitted" ELSE "idle")
      BY DEF TypeOK
    <3>4. \A d \in Calls \ {c} : invocations'[d] = invocations[d]
      BY DEF TypeOK
    <3> QED BY <2>2, <3>1, <3>2, <3>3, <3>4 DEF IntentBeforeAction
  <2>4. AckedEverywhere'
    BY <1>6, <2>0, EntryWritten, UpdateKeeps DEF Admit, AckedEverywhere, AppliedEverywhere
  <2> QED BY <1>6, <2>1, <2>3, <2>4 DEF TypeOK, Admit, ReportsAtHand
<1>7. ASSUME NEW c \in Calls, Adopt(c) PROVE IInv'
  <2> PICK outcome \in Outcomes : Update(WithEntry(c, "receipt"), outcome)
    BY <1>7 DEF Adopt
  <2>0. "receipt" \in Entries
    BY DEF Entries, Reports, Known
  <2>1. TypeOK'
    BY <1>7, <2>0, EntryWritten, FinishedTyped, UpdateCopies DEF Adopt, TypeOK
  <2>2. IntentBeforeAction'
    BY <1>7, <2>0, EntryWritten, UpdateKeeps DEF Adopt, IntentBeforeAction, IntentRecorded
  <2>3. AckedEverywhere'
    BY <1>7, <2>0, EntryWritten, UpdateKeeps DEF Adopt, AckedEverywhere, AppliedEverywhere
  <2> QED BY <1>7, <2>1, <2>2, <2>3 DEF Adopt, ReportsAtHand
<1> QED BY <1>1, <1>2, <1>4, <1>5, <1>6, <1>7

(* The third group is reconcileWrite() and the restarts: no new data enters   *)
(* the ledger, a copy of the record replaces others.                          *)
LEMMA FailedOperationKeeps ==
  ASSUME TypeOK, OperationFails
  PROVE  /\ tail' \in Seq(Operations)
         /\ admission' \in {"none", "queued", "done"}
         /\ invocations' \in [Calls -> InvocationStates]
         /\ passes' \in [Calls -> {"idle", "asking", "adopting"}]
         /\ updates' \in [Updates -> {"new", "queued", "acked", "failed"}]
         /\ \A c \in Calls : invocations'[c] \in {invocations[c], "idle"}
         /\ \A u \in Updates : updates'[u] \in {updates[u], "failed"}
<1>1. tail' \in Seq(Operations)
  BY TailTyped DEF OperationFails
<1>2. /\ admission' \in {"none", "queued", "done"}
      /\ passes' \in [Calls -> {"idle", "asking", "adopting"}]
  BY DEF OperationFails, TypeOK
<1>3. /\ invocations' \in [Calls -> InvocationStates]
      /\ \A c \in Calls : invocations'[c] \in {invocations[c], "idle"}
  BY DEF OperationFails, TypeOK, InvocationStates
<1>4. /\ updates' \in [Updates -> {"new", "queued", "acked", "failed"}]
      /\ \A u \in Updates : updates'[u] \in {updates[u], "failed"}
  BY DEF OperationFails, TypeOK
<1> QED BY <1>1, <1>2, <1>3, <1>4

LEMMA ReconcileSteps ==
  ASSUME IInv, ForgetFailedWrite \/ ReconcileWrite \/ ReconcileWriteFails
  PROVE  IInv'
<1> USE DEF IInv
<1>1. CASE ForgetFailedWrite
  <2>1. TypeOK'
    BY <1>1 DEF ForgetFailedWrite, Forget, TypeOK, callers
  <2> QED BY <1>1, <2>1 DEF ForgetFailedWrite, Forget, callers, ReportsAtHand, IntentBeforeAction,
       IntentRecorded, AckedEverywhere, AppliedEverywhere
<1>2. CASE ReconcileWrite
  <2> USE DEF Outcomes
  <2>0. RewriteCandidate("acked") /\ UNCHANGED <<tail, callers, performed, delivered>>
    BY <1>2 DEF ReconcileWrite
  <2>1. TypeOK'
    BY <2>0, RewriteCopies DEF TypeOK, callers
  <2> QED BY <2>0, <2>1, RewriteKeeps
       DEF callers, ReportsAtHand, IntentBeforeAction, AckedEverywhere
<1>3. CASE ReconcileWriteFails
  <2>0. OperationFails /\ UNCHANGED <<found, retainedReports, performed, delivered>>
    BY <1>3 DEF ReconcileWriteFails
  <2>1. CASE UNCHANGED ledger
    <3>1. TypeOK'
      BY <2>0, <2>1, FailedOperationKeeps DEF TypeOK, ledger
    <3> QED BY <2>0, <2>1, <3>1, FailedOperationKeeps, SameLedgerKeeps
         DEF ReportsAtHand, IntentBeforeAction, AckedEverywhere
  <2>2. ASSUME NEW outcome \in Outcomes, RewriteCandidate(outcome) PROVE IInv'
    <3>1. TypeOK'
      BY <2>0, <2>2, FailedOperationKeeps, RewriteCopies DEF TypeOK
    <3> QED BY <2>0, <2>2, <3>1, FailedOperationKeeps, RewriteKeeps
         DEF ReportsAtHand, IntentBeforeAction, AckedEverywhere
  <2> QED BY <1>3, <2>1, <2>2 DEF ReconcileWriteFails, Outcomes
<1> QED BY <1>1, <1>2, <1>3

LEMMA RestartSteps ==
  ASSUME IInv, ProcessRestarts \/ HostRestarts
  PROVE  IInv'
<1> USE DEF IInv
<1>1. ASSUME NEW survivor \in {stored, durable}, Resume(survivor),
             durable' \in {durable, survivor}
      PROVE  IInv'
  <2>1. TypeOK'
    BY <1>1 DEF Resume, TypeOK, InvocationStates
  <2>2. IntentBeforeAction'
    BY <1>1 DEF Resume, IntentBeforeAction, IntentRecorded
  <2>3. AckedEverywhere'
    BY <1>1 DEF TypeOK, Resume, AckedEverywhere, AppliedEverywhere
  <2>4. ReportsAtHand'
    BY <1>1 DEF Resume, ReportsAtHand
  <2> QED BY <2>1, <2>2, <2>3, <2>4
<1>2. CASE ProcessRestarts
  BY <1>1, <1>2 DEF ProcessRestarts
<1>3. CASE HostRestarts
  BY <1>1, <1>3 DEF HostRestarts
<1> QED BY <1>2, <1>3

LEMMA NextIInv == IInv /\ [Next]_vars => IInv'
<1>1. ASSUME IInv, UNCHANGED vars PROVE IInv'
  BY <1>1 DEF IInv, vars, ledger, callers, TypeOK, ReportsAtHand, IntentBeforeAction,
       IntentRecorded, AckedEverywhere, AppliedEverywhere
<1>2. ASSUME IInv, Next PROVE IInv'
  BY <1>2, CallerSteps, WriteSteps, ReconcileSteps, RestartSteps DEF Next
<1> QED BY <1>1, <1>2

-----------------------------------------------------------------------------
(* The inductive invariant holds in every reachable state. *)
THEOREM Invariance == Spec => []IInv
BY InitIInv, NextIInv, PTL DEF Spec

(* Every variable of the ledger keeps its type. *)
THEOREM TypeCorrect == Spec => []TypeOK
BY Invariance, PTL DEF IInv

(* outbox() starts the action of a call id at most once, whatever fails,      *)
(* retries or crashes, and however often the session is resumed.              *)
THEOREM AtMostOnce == Spec => []ActedAtMostOnce
<1>1. IInv => ActedAtMostOnce
  BY DEF IInv, IntentBeforeAction, ActedAtMostOnce
<1> QED BY <1>1, Invariance, PTL

(* An update() that resolved survives every later failure and crash.          *)
THEOREM UpdatesSurvive == Spec => []AcknowledgedNeverLost
<1>1. IInv => AcknowledgedNeverLost
  BY DEF IInv, AckedEverywhere, AppliedEverywhere, AcknowledgedNeverLost
<1> QED BY <1>1, Invariance, PTL

-----------------------------------------------------------------------------
(* The queue of the serialized writer: an operation that waits in it waits    *)
(* for a caller, and no caller waits twice.                                   *)

Waits(op) ==
  /\ op.by = "run" => admission = "queued"
  /\ op.by = "pass" => passes[op.id] = "adopting"
  /\ op.by = "invocation" => invocations[op.id] \in {"inspecting", "recording", "admitting", "settling"}
  /\ op.by = "update" => updates[op.id] = "queued"

Queued(op) == \E i \in DOMAIN tail : tail[i] = op

QueueInv ==
  /\ \A op \in Operations : Queued(op) => Waits(op)
  /\ \A i, j \in DOMAIN tail : tail[i] = tail[j] => i = j

\* A waiting operation of one kind is known by its id.
LEMMA OperationIs ==
  ASSUME NEW op \in Operations
  PROVE  /\ op = Operation(op.by, op.id)
         /\ op.by \in {"invocation", "pass"} => op.id \in Calls
         /\ op.by = "update" => op.id \in Updates
         /\ op.by = "run" => op.id = None
         /\ op.by \in {"invocation", "pass", "update", "run"}
BY DEF Operations, Operation

LEMMA OperationParts ==
  \A by, id : Operation(by, id).by = by /\ Operation(by, id).id = id
BY DEF Operation

LEMMA QueueSame ==
  ASSUME TypeOK, QueueInv, tail' = tail, \A op \in Operations : Waits(op) => Waits(op)'
  PROVE  QueueInv'
BY DEF TypeOK, QueueInv, Queued

LEMMA QueueGrows ==
  ASSUME TypeOK, QueueInv, NEW new \in Operations, tail' = Append(tail, new), ~Waits(new), Waits(new)',
         \A op \in Operations : op # new /\ Waits(op) => Waits(op)'
  PROVE  QueueInv'
<1>1. /\ tail \in Seq(Operations) /\ Len(tail) \in Nat /\ DOMAIN tail = 1..Len(tail)
      /\ DOMAIN tail' = 1..(Len(tail) + 1)
      /\ \A i \in 1..Len(tail) : tail'[i] = tail[i] /\ tail[i] \in Operations
      /\ tail'[Len(tail) + 1] = new
  BY DEF TypeOK
<1>2. \A i \in 1..Len(tail) : tail[i] # new
  BY <1>1 DEF QueueInv, Queued
<1>3. \A i \in DOMAIN tail' : i \in 1..Len(tail) \/ i = Len(tail) + 1
  BY <1>1
<1>4. \A op \in Operations : Queued(op)' => Waits(op)'
  BY <1>1, <1>2, <1>3 DEF QueueInv, Queued
<1>5. \A i, j \in DOMAIN tail' : tail'[i] = tail'[j] => i = j
  BY <1>1, <1>2, <1>3 DEF QueueInv
<1> QED BY <1>4, <1>5 DEF QueueInv

LEMMA QueueShrinks ==
  ASSUME TypeOK, QueueInv, tail # <<>>, tail' = Tail(tail),
         \A op \in Operations : op # Head(tail) /\ Waits(op) => Waits(op)'
  PROVE  QueueInv'
<1>1. /\ tail \in Seq(Operations) /\ Len(tail) \in Nat /\ Len(tail) # 0 /\ DOMAIN tail = 1..Len(tail)
      /\ DOMAIN tail' = 1..(Len(tail) - 1) /\ Head(tail) = tail[1]
      /\ \A i \in 1..(Len(tail) - 1) : tail'[i] = tail[i + 1] /\ i + 1 \in 1..Len(tail) /\ i + 1 # 1
      /\ \A i \in 1..Len(tail) : tail[i] \in Operations
  BY DEF TypeOK
<1>2. \A i \in 1..(Len(tail) - 1) : tail'[i] # Head(tail)
  BY <1>1 DEF QueueInv
<1>3. \A op \in Operations : Queued(op)' => Waits(op)'
  BY <1>1, <1>2 DEF QueueInv, Queued
<1>4. \A i, j \in DOMAIN tail' : tail'[i] = tail'[j] => i = j
  <2> SUFFICES ASSUME NEW i \in DOMAIN tail', NEW j \in DOMAIN tail', tail'[i] = tail'[j]
               PROVE  i = j
    OBVIOUS
  <2>1. i + 1 = j + 1
    BY <1>1 DEF QueueInv
  <2> QED BY <1>1, <2>1
<1> QED BY <1>3, <1>4 DEF QueueInv

\* The head goes to the end: outbox() inspected the entry and queues its update.
LEMMA QueueTurns ==
  ASSUME TypeOK, QueueInv, tail # <<>>, NEW first, first = Head(tail),
         tail' = Append(Tail(tail), first), Waits(first)',
         \A op \in Operations : op # first /\ Waits(op) => Waits(op)'
  PROVE  QueueInv'
<1>1. /\ tail \in Seq(Operations) /\ Len(tail) \in Nat /\ Len(tail) # 0 /\ DOMAIN tail = 1..Len(tail)
      /\ DOMAIN tail' = 1..Len(tail) /\ first = tail[1]
      /\ \A i \in 1..Len(tail) : tail[i] \in Operations
  BY DEF TypeOK
<1>0. Len(tail) \in Nat /\ Len(tail) # 0 /\ 1 \in 1..Len(tail)
  BY <1>1
<1>2. /\ \A i \in 1..Len(tail) : i # Len(tail) => tail'[i] = tail[i + 1] /\ i + 1 \in 1..Len(tail) /\ i + 1 # 1
      /\ tail'[Len(tail)] = tail[1]
  <2> DEFINE rest == Tail(tail)
  <2>1. /\ rest \in Seq(Operations) /\ Len(rest) = Len(tail) - 1
        /\ \A i \in 1..(Len(tail) - 1) : rest[i] = tail[i + 1]
    BY <1>1
  <2>2. /\ \A i \in 1..Len(rest) : Append(rest, tail[1])[i] = rest[i]
        /\ Append(rest, tail[1])[Len(rest) + 1] = tail[1]
    BY <2>1
  <2>3. tail' = Append(rest, tail[1])
    BY <1>1
  <2> HIDE DEF rest
  <2>4. tail'[Len(tail)] = tail[1]
    BY <1>1, <2>1, <2>2, <2>3
  <2>5. ASSUME NEW i \in 1..Len(tail), i # Len(tail)
        PROVE  tail'[i] = tail[i + 1] /\ i + 1 \in 1..Len(tail) /\ i + 1 # 1
    <3>1. i \in 1..(Len(tail) - 1) /\ i + 1 \in 1..Len(tail) /\ i + 1 # 1
      BY <1>0, <2>5
    <3>2. tail'[i] = rest[i]
      BY <2>1, <2>2, <2>3, <3>1
    <3> QED BY <2>1, <3>1, <3>2
  <2> QED BY <2>4, <2>5
<1>3. ASSUME NEW op \in Operations, Queued(op)' PROVE Waits(op)'
  <2>1. PICK i \in 1..Len(tail) : tail'[i] = op
    BY <1>1, <1>3 DEF Queued
  <2>2. i # Len(tail) => i + 1 \in 1..Len(tail) /\ tail[i + 1] = op
    BY <1>2, <2>1
  <2>3. i = Len(tail) => tail[1] = op
    BY <1>2, <2>1
  <2>4. Queued(op)
    BY <1>0, <1>1, <2>2, <2>3 DEF Queued
  <2>5. CASE op = first
    BY <2>5
  <2>6. CASE op # first
    BY <2>4, <2>6 DEF QueueInv
  <2> QED BY <2>5, <2>6
<1>4. \A i, j \in DOMAIN tail' : tail'[i] = tail'[j] => i = j
  <2> SUFFICES ASSUME NEW i \in DOMAIN tail', NEW j \in DOMAIN tail', tail'[i] = tail'[j]
               PROVE  i = j
    OBVIOUS
  <2> DEFINE next(k) == IF k = Len(tail) THEN 1 ELSE k + 1
  <2>0. ASSUME NEW k \in DOMAIN tail' PROVE tail'[k] = tail[next(k)] /\ next(k) \in DOMAIN tail
    <3>1. CASE k = Len(tail)
      <4>1. next(k) = 1
        BY <3>1
      <4> QED BY <1>0, <1>1, <1>2, <3>1, <4>1
    <3>2. CASE k # Len(tail)
      <4>1. k \in 1..Len(tail)
        BY <1>1
      <4>2. tail'[k] = tail[k + 1] /\ k + 1 \in 1..Len(tail)
        BY <1>2, <3>2, <4>1
      <4>3. next(k) = k + 1
        BY <3>2
      <4> QED BY <1>1, <4>2, <4>3
    <3> QED BY <3>1, <3>2
  <2>1. tail'[i] = tail[next(i)] /\ tail'[j] = tail[next(j)] /\ next(i) \in DOMAIN tail /\ next(j) \in DOMAIN tail
    BY <2>0
  <2>2. next(i) = next(j)
    BY <2>1 DEF QueueInv
  <2> QED BY <1>1, <2>2
<1> QED BY <1>3, <1>4 DEF QueueInv

\* A caller that moves changes what its own operation waits for, and no other.
WaitingStates == {"inspecting", "recording", "admitting", "settling"}

LEMMA InvocationMoves ==
  ASSUME TypeOK, NEW c \in Calls, NEW next, invocations' = [invocations EXCEPT ![c] = next],
         UNCHANGED <<admission, passes, updates>>
  PROVE  /\ \A op \in Operations : op # Operation("invocation", c) /\ Waits(op) => Waits(op)'
         /\ next \in WaitingStates => Waits(Operation("invocation", c))'
         /\ Waits(Operation("invocation", c)) => invocations[c] \in WaitingStates
<1>1. invocations'[c] = next /\ \A d \in Calls : d # c => invocations'[d] = invocations[d]
  BY DEF TypeOK
<1>2. ASSUME NEW op \in Operations, op # Operation("invocation", c), Waits(op) PROVE Waits(op)'
  <2>1. op.by = "invocation" => op.id \in Calls /\ op.id # c
    BY <1>2, OperationIs
  <2> QED BY <1>1, <1>2, <2>1 DEF Waits
<1> QED BY <1>1, <1>2, OperationParts DEF Waits, WaitingStates

LEMMA PassMoves ==
  ASSUME TypeOK, NEW c \in Calls, NEW next, passes' = [passes EXCEPT ![c] = next],
         UNCHANGED <<admission, invocations, updates>>
  PROVE  /\ \A op \in Operations : op # Operation("pass", c) /\ Waits(op) => Waits(op)'
         /\ next = "adopting" => Waits(Operation("pass", c))'
         /\ Waits(Operation("pass", c)) => passes[c] = "adopting"
<1>1. passes'[c] = next /\ \A d \in Calls : d # c => passes'[d] = passes[d]
  BY DEF TypeOK
<1>2. ASSUME NEW op \in Operations, op # Operation("pass", c), Waits(op) PROVE Waits(op)'
  <2>1. op.by = "pass" => op.id \in Calls /\ op.id # c
    BY <1>2, OperationIs
  <2> QED BY <1>1, <1>2, <2>1 DEF Waits
<1> QED BY <1>1, <1>2, OperationParts DEF Waits

LEMMA UpdateMoves ==
  ASSUME TypeOK, NEW u \in Updates, NEW next, updates' = [updates EXCEPT ![u] = next],
         UNCHANGED <<admission, invocations, passes>>
  PROVE  /\ \A op \in Operations : op # Operation("update", u) /\ Waits(op) => Waits(op)'
         /\ next = "queued" => Waits(Operation("update", u))'
         /\ Waits(Operation("update", u)) => updates[u] = "queued"
<1>1. updates'[u] = next /\ \A v \in Updates : v # u => updates'[v] = updates[v]
  BY DEF TypeOK
<1>2. ASSUME NEW op \in Operations, op # Operation("update", u), Waits(op) PROVE Waits(op)'
  <2>1. op.by = "update" => op.id \in Updates /\ op.id # u
    BY <1>2, OperationIs
  <2> QED BY <1>1, <1>2, <2>1 DEF Waits
<1> QED BY <1>1, <1>2, OperationParts DEF Waits

LEMMA RunMoves ==
  ASSUME UNCHANGED <<invocations, passes, updates>>
  PROVE  /\ \A op \in Operations : op # Operation("run", None) /\ Waits(op) => Waits(op)'
         /\ admission' = "queued" => Waits(Operation("run", None))'
         /\ Waits(Operation("run", None)) => admission = "queued"
<1>1. ASSUME NEW op \in Operations, op # Operation("run", None), Waits(op) PROVE Waits(op)'
  <2>1. op.by # "run"
    BY <1>1, OperationIs
  <2> QED BY <1>1, <2>1 DEF Waits
<1> QED BY <1>1, OperationParts DEF Waits

LEMMA OperationTyped ==
  /\ \A c \in Calls : Operation("invocation", c) \in Operations /\ Operation("pass", c) \in Operations
  /\ \A u \in Updates : Operation("update", u) \in Operations
  /\ Operation("run", None) \in Operations
BY DEF Operation, Operations

\* The three ways a caller uses the queue.
LEMMA NextInQueue ==
  ASSUME NEW by, NEW id
  PROVE  /\ IsNext(by, id) => tail # <<>> /\ Head(tail) = Operation(by, id)
         /\ Finished(by, id) => tail # <<>> /\ Head(tail) = Operation(by, id) /\ tail' = Tail(tail)
         /\ Queue(by, id) => tail' = Append(tail, Operation(by, id))
BY DEF IsNext, Finished, Queue

LEMMA QueueOfInvocation ==
  ASSUME TypeOK, QueueInv, NEW c \in Calls, NEW next, invocations' = [invocations EXCEPT ![c] = next],
         UNCHANGED <<admission, passes, updates>>,
         \/ tail' = tail /\ invocations[c] \notin WaitingStates
         \/ Queue("invocation", c) /\ invocations[c] \notin WaitingStates /\ next \in WaitingStates
         \/ IsNext("invocation", c) /\ tail' = Tail(tail)
         \/ IsNext("invocation", c) /\ next \in WaitingStates
            /\ tail' = Append(Tail(tail), Operation("invocation", c))
  PROVE  QueueInv'
<1>1. CASE tail' = tail /\ invocations[c] \notin WaitingStates
  <2>1. ~Waits(Operation("invocation", c))
    BY <1>1, InvocationMoves
  <2>2. \A op \in Operations : Waits(op) => Waits(op)'
    BY <2>1, InvocationMoves
  <2> QED BY <1>1, <2>2, QueueSame
<1>2. CASE Queue("invocation", c) /\ invocations[c] \notin WaitingStates /\ next \in WaitingStates
  <2>1. ~Waits(Operation("invocation", c)) /\ Waits(Operation("invocation", c))'
    BY <1>2, InvocationMoves
  <2> QED BY <1>2, <2>1, QueueGrows, OperationTyped, NextInQueue, InvocationMoves
<1>3. CASE IsNext("invocation", c) /\ tail' = Tail(tail)
  <2>1. tail # <<>> /\ Head(tail) = Operation("invocation", c)
    BY <1>3, NextInQueue
  <2> QED BY <1>3, <2>1, QueueShrinks, InvocationMoves
<1>4. CASE IsNext("invocation", c) /\ next \in WaitingStates
           /\ tail' = Append(Tail(tail), Operation("invocation", c))
  <2>1. tail # <<>> /\ Operation("invocation", c) = Head(tail)
    BY <1>4, NextInQueue
  <2>2. Waits(Operation("invocation", c))'
    BY <1>4, InvocationMoves
  <2> QED BY <1>4, <2>1, <2>2, QueueTurns, InvocationMoves
<1> QED BY <1>1, <1>2, <1>3, <1>4

LEMMA QueueStep ==
  ASSUME TypeOK, QueueInv, [Next]_vars
  PROVE  QueueInv'
<1>1. CASE UNCHANGED vars
  BY <1>1, QueueSame DEF vars, callers, Waits
<1>2. CASE ForgetFailedWrite \/ ReconcileWrite
  BY <1>2, QueueSame DEF ForgetFailedWrite, ReconcileWrite, callers, Waits
<1>3. CASE ReconcileWriteFails
  <2> DEFINE first == Head(tail)
  <2>1. /\ tail # <<>> /\ tail' = Tail(tail) /\ first \in Operations
        /\ \/ /\ first.by = "run" /\ UNCHANGED <<invocations, passes, updates>>
           \/ /\ first.by = "invocation" /\ invocations' = [invocations EXCEPT ![first.id] = "idle"]
              /\ UNCHANGED <<admission, passes, updates>>
           \/ /\ first.by = "pass" /\ passes' = [passes EXCEPT ![first.id] = "idle"]
              /\ UNCHANGED <<admission, invocations, updates>>
           \/ /\ first.by = "update" /\ updates' = [updates EXCEPT ![first.id] = "failed"]
              /\ UNCHANGED <<admission, invocations, passes>>
    BY <1>3, TailTyped DEF ReconcileWriteFails, OperationFails
  <2>2. /\ first = Operation(first.by, first.id)
        /\ first.by \in {"invocation", "pass"} => first.id \in Calls
        /\ first.by = "update" => first.id \in Updates
        /\ first.by = "run" => first.id = None
    BY <2>1, OperationIs
  <2>3. \A op \in Operations : op # first /\ Waits(op) => Waits(op)'
    <3> HIDE DEF first
    <3>1. CASE first.by = "run"
      BY <2>1, <2>2, <3>1, RunMoves
    <3>2. CASE first.by = "invocation"
      BY <2>1, <2>2, <3>2, InvocationMoves
    <3>3. CASE first.by = "pass"
      BY <2>1, <2>2, <3>3, PassMoves
    <3>4. CASE first.by = "update"
      BY <2>1, <2>2, <3>4, UpdateMoves
    <3> QED BY <2>1, <3>1, <3>2, <3>3, <3>4
  <2> QED BY <2>1, <2>3, QueueShrinks
<1>4. CASE RequestRun
  <2>1. ~Waits(Operation("run", None)) /\ Waits(Operation("run", None))'
    BY <1>4, RunMoves DEF RequestRun
  <2> QED BY <1>4, <2>1, QueueGrows, OperationTyped, NextInQueue, RunMoves DEF RequestRun
<1>5. CASE AdmitRun
  BY <1>5, QueueShrinks, NextInQueue, RunMoves DEF AdmitRun
<1>6. ASSUME NEW u \in Updates, RequestUpdate(u) PROVE QueueInv'
  <2>1. updates' = [updates EXCEPT ![u] = "queued"] /\ UNCHANGED <<admission, invocations, passes>>
        /\ updates[u] # "queued" /\ Queue("update", u)
    BY <1>6 DEF RequestUpdate
  <2>2. ~Waits(Operation("update", u)) /\ Waits(Operation("update", u))'
    BY <2>1, UpdateMoves
  <2> QED BY <2>1, <2>2, QueueGrows, OperationTyped, NextInQueue, UpdateMoves
<1>7. ASSUME NEW u \in Updates, RunUpdate(u) PROVE QueueInv'
  <2>1. PICK next : updates' = [updates EXCEPT ![u] = next]
    BY <1>7 DEF RunUpdate
  <2>2. UNCHANGED <<admission, invocations, passes>> /\ Finished("update", u)
    BY <1>7 DEF RunUpdate
  <2> QED BY <2>1, <2>2, QueueShrinks, NextInQueue, UpdateMoves
<1>8. ASSUME NEW c \in Calls,
             \/ Invoke(c) \/ Redeliver(c) \/ RepairRetained(c) \/ AskReceipt(c)
             \/ RequestAdmission(c) \/ Recover(c) \/ Record(c) \/ Admit(c) \/ Perform(c)
             \/ ActionEnds(c) \/ Settle(c)
      PROVE  QueueInv'
  <2>1. UNCHANGED <<admission, passes, updates>>
    BY <1>8 DEF Invoke, Redeliver, RepairRetained, AskReceipt, RequestAdmission, Recover, Record, Admit,
                Perform, ActionEnds, Settle, SettleWith
  <2> USE DEF WaitingStates
  <2>2. CASE Invoke(c)
    BY <2>1, <2>2, QueueOfInvocation DEF Invoke
  <2>3. CASE Redeliver(c)
    BY <2>1, <2>3, QueueOfInvocation DEF Redeliver, Inspected
  <2>4. CASE RepairRetained(c)
    BY <2>1, <2>4, QueueOfInvocation DEF RepairRetained, Inspected, ThenQueue
  <2>5. CASE AskReceipt(c)
    BY <2>1, <2>5, QueueOfInvocation DEF AskReceipt, Inspected
  <2>6. CASE RequestAdmission(c)
    BY <2>1, <2>6, QueueOfInvocation DEF RequestAdmission, Inspected, ThenQueue
  <2>7. CASE Recover(c)
    BY <2>1, <2>7, QueueOfInvocation DEF Recover
  <2>8. CASE Record(c)
    BY <2>1, <2>8, QueueOfInvocation DEF Record, SettleWith, Finished
  <2>9. CASE Admit(c)
    <3>1. PICK next : invocations' = [invocations EXCEPT ![c] = next]
      BY <2>9 DEF Admit
    <3> QED BY <2>1, <2>9, <3>1, QueueOfInvocation DEF Admit, Finished
  <2>10. CASE Perform(c)
    BY <2>1, <2>10, QueueOfInvocation DEF Perform
  <2>11. CASE ActionEnds(c)
    BY <2>1, <2>11, QueueOfInvocation DEF ActionEnds
  <2>12. CASE Settle(c)
    BY <2>1, <2>12, QueueOfInvocation DEF Settle, SettleWith, Finished
  <2> QED BY <1>8, <2>2, <2>3, <2>4, <2>5, <2>6, <2>7, <2>8, <2>9, <2>10, <2>11, <2>12
<1>9. ASSUME NEW c \in Calls, AskSource(c) \/ SourceAnswers(c) \/ Adopt(c) PROVE QueueInv'
  <2>1. UNCHANGED <<admission, invocations, updates>>
    BY <1>9 DEF AskSource, SourceAnswers, Adopt
  <2>2. CASE AskSource(c)
    <3>1. passes' = [passes EXCEPT ![c] = "asking"] /\ passes[c] # "adopting" /\ tail' = tail
      BY <2>2 DEF AskSource
    <3>2. \A op \in Operations : Waits(op) => Waits(op)'
      BY <2>1, <3>1, PassMoves
    <3> QED BY <3>1, <3>2, QueueSame
  <2>3. CASE SourceAnswers(c)
    <3>1. ASSUME passes' = [passes EXCEPT ![c] = "adopting"], Queue("pass", c) PROVE QueueInv'
      <4>1. ~Waits(Operation("pass", c)) /\ Waits(Operation("pass", c))'
        BY <2>1, <2>3, <3>1, PassMoves DEF SourceAnswers
      <4> QED BY <2>1, <3>1, <4>1, QueueGrows, OperationTyped, NextInQueue, PassMoves
    <3>2. ASSUME passes' = [passes EXCEPT ![c] = "idle"], tail' = tail PROVE QueueInv'
      <4>1. ~Waits(Operation("pass", c))
        BY <2>1, <2>3, <3>2, PassMoves DEF SourceAnswers
      <4>2. \A op \in Operations : Waits(op) => Waits(op)'
        BY <2>1, <3>2, <4>1, PassMoves
      <4> QED BY <3>2, <4>2, QueueSame
    <3> QED BY <2>3, <3>1, <3>2 DEF SourceAnswers
  <2>4. CASE Adopt(c)
    <3>1. passes' = [passes EXCEPT ![c] = "idle"] /\ Finished("pass", c)
      BY <2>4 DEF Adopt
    <3> QED BY <2>1, <3>1, QueueShrinks, NextInQueue, PassMoves
  <2> QED BY <1>9, <2>2, <2>3, <2>4
<1>10. CASE ProcessRestarts \/ HostRestarts
  <2>1. tail' = <<>>
    BY <1>10 DEF ProcessRestarts, HostRestarts, Resume
  <2> QED BY <2>1 DEF QueueInv, Queued
<1> QED BY <1>1, <1>2, <1>3, <1>4, <1>5, <1>6, <1>7, <1>8, <1>9, <1>10 DEF Next

\* The operation that runs is one its caller waits for.
LEMMA NextWaits ==
  ASSUME TypeOK, QueueInv, NEW by, NEW id, IsNext(by, id), Operation(by, id) \in Operations
  PROVE  Waits(Operation(by, id))
<1>1. tail # <<>> /\ Head(tail) = Operation(by, id)
  BY NextInQueue
<1>2. 1 \in DOMAIN tail /\ tail[1] = Operation(by, id)
  BY <1>1 DEF TypeOK
<1> QED BY <1>2 DEF QueueInv, Queued

-----------------------------------------------------------------------------
(* The copies of the record.  What a reader sees holds every update that any  *)
(* of them holds; an update that is pending either was forgotten at that      *)
(* moment or is what a reader sees.                                           *)
LedgerInv ==
  /\ durable.data.applied \subseteq stored.data.applied
  /\ record.data.applied \subseteq stored.data.applied
  /\ pendingWrite = None => stored = record
  /\ pendingWrite # None =>
       /\ pendingWrite.acknowledgementRequired => stored.data = pendingWrite.data
       /\ ~pendingWrite.acknowledgementRequired => pendingWrite.before = record

\* What a step does with the ledger.
Writes(data) == \E outcome \in Outcomes : Update(data, outcome)

LEMMA LedgerSteps ==
  ASSUME IInv, [Next]_vars
  PROVE  \/ UNCHANGED ledger
         \/ Forget
         \/ \E outcome \in Outcomes : RewriteCandidate(outcome)
         \/ Writes(record.data)
         \/ \E u \in Updates : Finished("update", u) /\ Writes(WithUpdate(u))
         \/ \E c \in Calls, e \in Entries : Writes(WithEntry(c, e))
         \/ ProcessRestarts
         \/ HostRestarts
<1>1. CASE UNCHANGED vars
  BY <1>1 DEF vars
<1>2. CASE ForgetFailedWrite \/ ReconcileWrite \/ ReconcileWriteFails
  BY <1>2 DEF ForgetFailedWrite, ReconcileWrite, ReconcileWriteFails, Outcomes
<1>3. CASE \/ RequestRun
           \/ \E u \in Updates : RequestUpdate(u)
           \/ \E c \in Calls :
                \/ Invoke(c) \/ Redeliver(c) \/ RepairRetained(c) \/ AskReceipt(c)
                \/ RequestAdmission(c) \/ Recover(c) \/ Perform(c) \/ ActionEnds(c)
                \/ AskSource(c) \/ SourceAnswers(c)
  <2>1. UNCHANGED ledger
    BY <1>3 DEF RequestRun, RequestUpdate, Invoke, Redeliver, RepairRetained, AskReceipt,
         RequestAdmission, Recover, Perform, ActionEnds, AskSource, SourceAnswers
  <2> QED BY <2>1
<1>4. CASE AdmitRun
  BY <1>4 DEF AdmitRun, Writes
<1>5. ASSUME NEW u \in Updates, RunUpdate(u) PROVE Finished("update", u) /\ Writes(WithUpdate(u))
  BY <1>5 DEF RunUpdate, Writes
<1>6. ASSUME NEW c \in Calls, Record(c) \/ Admit(c) \/ Settle(c) \/ Adopt(c)
      PROVE  \E e \in Entries : Writes(WithEntry(c, e))
  <2>1. CASE Record(c)
    <3>1. found[c] \in Entries /\ Writes(WithEntry(c, found[c]))
      BY <2>1 DEF Record, SettleWith, Writes, IInv, ReportsAtHand, Entries
    <3> QED BY <3>1
  <2>2. CASE Settle(c)
    <3> DEFINE report == IF Entry(c) = "executing" THEN retainedReports[c] ELSE Entry(c)
    <3>1. report \in Entries /\ Writes(WithEntry(c, report))
      BY <2>2 DEF Settle, SettleWith, Writes, IInv, ReportsAtHand, TypeOK, Records, Data, Entry, Entries
    <3> QED BY <3>1
  <2>3. CASE Admit(c)
    <3>1. "executing" \in Entries /\ Writes(WithEntry(c, "executing"))
      BY <2>3 DEF Admit, Writes, Entries
    <3> QED BY <3>1
  <2>4. CASE Adopt(c)
    <3>1. "receipt" \in Entries /\ Writes(WithEntry(c, "receipt"))
      BY <2>4 DEF Adopt, Writes, Entries, Reports, Known
    <3> QED BY <3>1
  <2> QED BY <1>6, <2>1, <2>2, <2>3, <2>4
<1> QED BY <1>1, <1>2, <1>3, <1>4, <1>5, <1>6 DEF Next

LEMMA WriteKeepsLedger ==
  ASSUME TypeOK, LedgerInv, NEW data \in Data, Writes(data),
         record.data.applied \subseteq data.applied
  PROVE  LedgerInv'
<1> PICK outcome \in Outcomes : Update(data, outcome)
  BY DEF Writes
<1> DEFINE next == [revision |-> record.revision + 1, data |-> data]
<1>1. pendingWrite = None /\ stored = record /\ next.data = data
  BY DEF Update, LedgerInv
<1>2. CASE outcome = "acked"
  <2>1. stored' = next /\ durable' = next /\ record' = next /\ pendingWrite' = None
    BY <1>1, <1>2 DEF Update, LeaseWrite
  <2> QED BY <1>1, <2>1 DEF LedgerInv
<1>3. CASE outcome # "acked"
  <2> DEFINE p == [before |-> record, data |-> data, acknowledgementRequired |-> FALSE]
  <2>1. /\ stored' \in {stored, next} /\ durable' = durable /\ record' = record /\ pendingWrite' = p
        /\ p.before = record /\ ~p.acknowledgementRequired
    BY <1>1, <1>3 DEF Update, LeaseWrite
  <2>0. p \in PendingWrites
    BY DEF PendingWrites, TypeOK
  <2>2. p # None
    BY <2>0, NoneAssumption
  <2>3. durable.data.applied \subseteq stored'.data.applied /\ record.data.applied \subseteq stored'.data.applied
    BY <1>1, <2>1 DEF LedgerInv
  <2> HIDE DEF p
  <2> QED BY <2>1, <2>2, <2>3 DEF LedgerInv
<1> QED BY <1>2, <1>3

LEMMA RewriteKeepsLedger ==
  ASSUME TypeOK, LedgerInv, NEW outcome \in Outcomes, RewriteCandidate(outcome)
  PROVE  LedgerInv' /\ stored'.data = stored.data
<1> DEFINE next == [revision |-> stored.revision + 1, data |-> pendingWrite.data]
<1>1. pendingWrite # None /\ stored.data = pendingWrite.data /\ next.data = stored.data
  BY DEF RewriteCandidate, LedgerInv, SeenCandidate
<1>2. CASE outcome = "acked"
  <2>1. stored' = next /\ durable' = next /\ record' = next /\ pendingWrite' = None
    BY <1>1, <1>2 DEF RewriteCandidate, LeaseWrite
  <2> QED BY <1>1, <2>1 DEF LedgerInv
<1>3. CASE outcome # "acked"
  <2> DEFINE p == [before |-> stored, data |-> pendingWrite.data, acknowledgementRequired |-> TRUE]
  <2>1. /\ stored' \in {stored, next} /\ durable' = durable /\ record' = record /\ pendingWrite' = p
        /\ p.data = pendingWrite.data /\ p.acknowledgementRequired
    BY <1>1, <1>3 DEF RewriteCandidate, LeaseWrite
  <2>3. stored'.data = stored.data
    BY <1>1, <2>1
  <2>0. p \in PendingWrites
    <3>1. pendingWrite \in PendingWrites
      BY <1>1 DEF TypeOK
    <3> QED BY <3>1 DEF PendingWrites, TypeOK
  <2>2. p # None
    BY <2>0, NoneAssumption
  <2> HIDE DEF p
  <2>4. pendingWrite'.data = pendingWrite.data
    BY <2>1
  <2> QED BY <1>1, <2>1, <2>2, <2>3, <2>4 DEF LedgerInv
<1> QED BY <1>2, <1>3

LEMMA RestartKeepsLedger ==
  ASSUME LedgerInv, ProcessRestarts \/ HostRestarts
  PROVE  LedgerInv' /\ stored'.data.applied \subseteq stored.data.applied
<1>1. PICK survivor \in {stored, durable} : Resume(survivor) /\ durable' \in {durable, survivor}
  BY DEF ProcessRestarts, HostRestarts
<1>2. stored' = survivor /\ record' = survivor /\ pendingWrite' = None
  BY <1>1 DEF Resume
<1>3. survivor.data.applied \subseteq stored.data.applied
      /\ durable'.data.applied \subseteq survivor.data.applied
  BY <1>1 DEF LedgerInv, ProcessRestarts, HostRestarts
<1> QED BY <1>2, <1>3 DEF LedgerInv

LEMMA LedgerStep ==
  ASSUME IInv, LedgerInv, [Next]_vars
  PROVE  LedgerInv'
<1>0. TypeOK /\ record.data \in Data
  BY DEF IInv, TypeOK, Records
<1>1. CASE UNCHANGED ledger
  BY <1>1 DEF ledger, LedgerInv
<1>2. CASE Forget
  BY <1>2 DEF Forget, NotCommitted, LedgerInv
<1>3. CASE \E outcome \in Outcomes : RewriteCandidate(outcome)
  BY <1>0, <1>3, RewriteKeepsLedger
<1>4. CASE Writes(record.data)
  BY <1>0, <1>4, WriteKeepsLedger
<1>5. ASSUME NEW u \in Updates, Writes(WithUpdate(u)) PROVE LedgerInv'
  <2>1. WithUpdate(u) \in Data /\ record.data.applied \subseteq WithUpdate(u).applied
    BY <1>0, UpdateWritten
  <2> QED BY <1>0, <1>5, <2>1, WriteKeepsLedger
<1>6. ASSUME NEW c \in Calls, NEW e \in Entries, Writes(WithEntry(c, e)) PROVE LedgerInv'
  <2>1. WithEntry(c, e) \in Data /\ record.data.applied \subseteq WithEntry(c, e).applied
    BY <1>0, EntryWritten
  <2> QED BY <1>0, <1>6, <2>1, WriteKeepsLedger
<1>7. CASE ProcessRestarts \/ HostRestarts
  BY <1>7, RestartKeepsLedger
<1> QED BY <1>1, <1>2, <1>3, <1>4, <1>5, <1>6, <1>7, LedgerSteps

LEMMA InitLedger == Init => LedgerInv /\ QueueInv
BY DEF Init, LedgerInv, QueueInv, Queued

\* What a reader sees after a write is what he saw or what was written.
LEMMA WrittenIsSeen ==
  ASSUME TypeOK, NEW data \in Data, Writes(data)
  PROVE  stored'.data \in {stored.data, data}
BY UpdateCopies DEF Writes

\* A failed update stays out of the record a reader sees.
LEMMA FailedStaysOut ==
  ASSUME IInv, LedgerInv, QueueInv, [Next]_vars,
         NEW u \in Updates, updates[u] = "failed", u \notin stored.data.applied
  PROVE  u \notin stored'.data.applied
<1>0. TypeOK /\ record.data \in Data
  BY DEF IInv, TypeOK, Records
<1>1. CASE UNCHANGED ledger
  BY <1>1 DEF ledger
<1>2. CASE Forget
  BY <1>2 DEF Forget
<1>3. CASE \E outcome \in Outcomes : RewriteCandidate(outcome)
  BY <1>0, <1>3, RewriteKeepsLedger
<1>4. CASE Writes(record.data)
  BY <1>0, <1>4, WrittenIsSeen DEF LedgerInv
<1>5. ASSUME NEW v \in Updates, Finished("update", v), Writes(WithUpdate(v))
      PROVE  u \notin stored'.data.applied
  <2>1. Waits(Operation("update", v))
    <3>1. IsNext("update", v)
      BY <1>5 DEF Finished
    <3> QED BY <1>0, <3>1, NextWaits, OperationTyped
  <2>2. updates[v] = "queued"
    BY <2>1, OperationParts DEF Waits
  <2>3. u # v
    BY <2>2
  <2>4. u \notin WithUpdate(v).applied /\ WithUpdate(v) \in Data
    BY <1>0, <2>3, UpdateWritten DEF LedgerInv
  <2> QED BY <1>0, <1>5, <2>4, WrittenIsSeen
<1>6. ASSUME NEW c \in Calls, NEW e \in Entries, Writes(WithEntry(c, e))
      PROVE  u \notin stored'.data.applied
  <2>1. WithEntry(c, e) \in Data /\ u \notin WithEntry(c, e).applied
    BY <1>0, EntryWritten DEF LedgerInv
  <2> QED BY <1>0, <1>6, <2>1, WrittenIsSeen
<1>7. CASE ProcessRestarts \/ HostRestarts
  BY <1>7, RestartKeepsLedger
<1> QED BY <1>1, <1>2, <1>3, <1>4, <1>5, <1>6, <1>7, LedgerSteps

(* The copies and the queue keep their shape.                                 *)
LEMMA LedgerAndQueue == Spec => [](IInv /\ LedgerInv /\ QueueInv)
<1>1. Init => IInv /\ LedgerInv /\ QueueInv
  BY InitIInv, InitLedger
<1>2. IInv /\ LedgerInv /\ QueueInv /\ [Next]_vars => (IInv /\ LedgerInv /\ QueueInv)'
  <2>1. IInv => TypeOK
    BY DEF IInv
  <2> QED BY <2>1, NextIInv, LedgerStep, QueueStep
<1> QED BY <1>1, <1>2, PTL DEF Spec

(* An update whose failure its caller was told, and that is in no record a    *)
(* reader sees, is never admitted afterwards: no reconciliation replays it.   *)
THEOREM FailedStaysFailed == Spec => NoRetroactiveAdmission
<1>1. IInv /\ LedgerInv /\ QueueInv /\ [Next]_vars
        => [\A u \in Updates :
              (updates[u] = "failed" /\ u \notin stored.data.applied)
                => u \notin stored'.data.applied]_vars
  BY FailedStaysOut
<1> QED BY <1>1, LedgerAndQueue, PTL DEF Spec, NoRetroactiveAdmission
-----------------------------------------------------------------------------
(* The entries a call has: one in each copy of the record.                    *)
Copies ==
  {stored.data, durable.data, record.data}
    \cup IF pendingWrite = None THEN {} ELSE {pendingWrite.before.data, pendingWrite.data}

EntriesOf(c) == {data.outbox[c] : data \in Copies}

\* A report is recorded, retained or on its way only after the action started.
ReportedAfterAction(c) ==
  performed[c] = 0 =>
    /\ retainedReports[c] = "none"
    /\ invocations[c] # "recording"
    /\ passes[c] # "adopting"
    /\ delivered[c] = "none"
    /\ EntriesOf(c) \cap Reports = {}

LEMMA CopiesAfterUpdate ==
  ASSUME TypeOK, NEW data \in Data, NEW outcome \in Outcomes, Update(data, outcome)
  PROVE  /\ Copies' \subseteq Copies \cup {data}
         /\ outcome = "acked" => Copies' = {data}
BY UpdateCopies DEF Copies

LEMMA CopiesElsewhere ==
  ASSUME IInv,
         \/ UNCHANGED ledger
         \/ Forget
         \/ \E outcome \in Outcomes : RewriteCandidate(outcome)
         \/ ProcessRestarts
         \/ HostRestarts
  PROVE  Copies' \subseteq Copies
<1>0. TypeOK
  BY DEF IInv
<1>1. CASE UNCHANGED ledger
  BY <1>1 DEF ledger, Copies
<1>2. CASE Forget
  BY <1>2 DEF Forget, Copies
<1>3. ASSUME NEW outcome \in Outcomes, RewriteCandidate(outcome) PROVE Copies' \subseteq Copies
  <2>1. pendingWrite # None
    BY <1>3 DEF RewriteCandidate
  <2> QED BY <1>0, <1>3, <2>1, RewriteCopies DEF Copies
<1>4. CASE ProcessRestarts \/ HostRestarts
  BY <1>4 DEF ProcessRestarts, HostRestarts, Resume, Copies
<1> QED BY <1>1, <1>2, <1>3, <1>4

\* An entry is written by the four operations that settle or admit its call.
LEMMA EntriesSame ==
  ASSUME NEW c \in Calls, Copies' \subseteq Copies
  PROVE  EntriesOf(c)' \subseteq EntriesOf(c)
BY DEF EntriesOf

LEMMA EntriesAfterUpdate ==
  ASSUME TypeOK, NEW data \in Data, NEW outcome \in Outcomes, Update(data, outcome), NEW c \in Calls
  PROVE  /\ EntriesOf(c)' \subseteq EntriesOf(c) \cup {data.outbox[c]}
         /\ outcome = "acked" => EntriesOf(c)' = {data.outbox[c]}
BY CopiesAfterUpdate DEF EntriesOf

LEMMA RecordedIsEntry ==
  ASSUME NEW c \in Calls
  PROVE  /\ Entry(c) \in EntriesOf(c)
         /\ stored.data.outbox[c] \in EntriesOf(c)
         /\ durable.data.outbox[c] \in EntriesOf(c)
BY DEF Entry, EntriesOf, Copies

\* What a step leaves alone or takes back, seen from one call.
CallRests(c) ==
  /\ performed'[c] = performed[c]
  /\ delivered'[c] = delivered[c]
  /\ invocations'[c] \in {invocations[c], "idle"}
  /\ passes'[c] \in {passes[c], "idle"}
  /\ retainedReports'[c] \in {retainedReports[c], "none"}
  /\ EntriesOf(c)' \subseteq EntriesOf(c)

CallMoves(c) ==
  \/ Invoke(c) \/ Redeliver(c) \/ RepairRetained(c) \/ AskReceipt(c)
  \/ RequestAdmission(c) \/ Recover(c) \/ Record(c)
  \/ Admit(c) \/ Perform(c) \/ ActionEnds(c) \/ Settle(c)
  \/ AskSource(c) \/ SourceAnswers(c) \/ Adopt(c)

LEMMA OthersRest ==
  ASSUME IInv, NEW c \in Calls, NEW d \in Calls, c # d, CallMoves(d)
  PROVE  CallRests(c)
<1>0. TypeOK
  BY DEF IInv
<1>1. CASE \/ Invoke(d) \/ Redeliver(d) \/ RepairRetained(d) \/ AskReceipt(d)
           \/ RequestAdmission(d) \/ Recover(d) \/ Perform(d) \/ ActionEnds(d)
           \/ AskSource(d) \/ SourceAnswers(d)
  <2>1. UNCHANGED ledger
    BY <1>1 DEF Invoke, Redeliver, RepairRetained, AskReceipt,
         RequestAdmission, Recover, Perform, ActionEnds, AskSource, SourceAnswers
  <2>2. EntriesOf(c)' \subseteq EntriesOf(c)
    BY <2>1, CopiesElsewhere, EntriesSame
  <2>3. /\ performed'[c] = performed[c] /\ delivered'[c] = delivered[c]
        /\ invocations'[c] = invocations[c] /\ passes'[c] = passes[c]
    BY <1>0, <1>1 DEF TypeOK, Invoke, Redeliver, RepairRetained, AskReceipt, ThenQueue,
         RequestAdmission, Recover, Perform, ActionEnds, AskSource, SourceAnswers
  <2>4. retainedReports'[c] = retainedReports[c]
    BY <1>0, <1>1 DEF TypeOK, Invoke, Redeliver, RepairRetained, AskReceipt,
         RequestAdmission, Recover, Perform, ActionEnds, AskSource, SourceAnswers
  <2> QED BY <2>2, <2>3, <2>4 DEF CallRests
<1>2. CASE Record(d) \/ Admit(d) \/ Settle(d) \/ Adopt(d)
  <2>1. EntriesOf(c)' \subseteq EntriesOf(c)
    <3>1. PICK e \in Entries, outcome \in Outcomes : Update(WithEntry(d, e), outcome)
      <4>1. CASE Record(d)
        BY <4>1 DEF Record, SettleWith, IInv, ReportsAtHand, Entries
      <4>2. CASE Settle(d)
        <5> DEFINE report == IF Entry(d) = "executing" THEN retainedReports[d] ELSE Entry(d)
        <5>1. report \in Entries
          BY <4>2 DEF Settle, IInv, ReportsAtHand, TypeOK, Records, Data, Entry, Entries
        <5>2. \E outcome \in Outcomes : Update(WithEntry(d, report), outcome)
          BY <4>2 DEF Settle, SettleWith
        <5> QED BY <5>1, <5>2
      <4>3. CASE Admit(d)
        BY <4>3 DEF Admit, Entries
      <4>4. CASE Adopt(d)
        BY <4>4 DEF Adopt, Entries, Reports, Known
      <4> QED BY <1>2, <4>1, <4>2, <4>3, <4>4
    <3>2. WithEntry(d, e) \in Data /\ WithEntry(d, e).outbox[c] = Entry(c)
      BY <1>0, EntryWritten DEF Entry
    <3> QED BY <1>0, <3>1, <3>2, EntriesAfterUpdate, RecordedIsEntry
  <2>2. /\ performed' = performed
        /\ invocations'[c] = invocations[c] /\ passes'[c] = passes[c]
    BY <1>0, <1>2 DEF TypeOK, Record, Settle, SettleWith, Admit, Adopt
  <2>3. delivered'[c] = delivered[c] /\ retainedReports'[c] = retainedReports[c]
    <3>1. CASE Admit(d) \/ Adopt(d)
      BY <3>1 DEF Admit, Adopt
    <3>2. CASE Record(d) \/ Settle(d)
      <4>1. PICK report : SettleWith(d, report)
        BY <3>2 DEF Record, Settle
      <4> QED BY <1>0, <4>1 DEF TypeOK, SettleWith
    <3> QED BY <1>2, <3>1, <3>2
  <2> QED BY <2>1, <2>2, <2>3 DEF CallRests
<1> QED BY <1>1, <1>2 DEF CallMoves

LEMMA CallStep ==
  ASSUME IInv, [Next]_vars, NEW c \in Calls
  PROVE  CallMoves(c) \/ CallRests(c)
<1>0. TypeOK /\ record.data \in Data
  BY DEF IInv, TypeOK, Records
<1>1. CASE UNCHANGED vars
  <2>1. EntriesOf(c)' \subseteq EntriesOf(c)
    BY <1>1, CopiesElsewhere, EntriesSame DEF vars
  <2> QED BY <1>1, <2>1 DEF vars, callers, CallRests
<1>2. CASE ForgetFailedWrite \/ ReconcileWrite
  <2>1. EntriesOf(c)' \subseteq EntriesOf(c)
    BY <1>2, CopiesElsewhere, EntriesSame DEF ForgetFailedWrite, ReconcileWrite, Outcomes
  <2> QED BY <1>2, <2>1 DEF ForgetFailedWrite, ReconcileWrite, callers, CallRests
<1>3. CASE ReconcileWriteFails
  <2>1. EntriesOf(c)' \subseteq EntriesOf(c)
    BY <1>3, CopiesElsewhere, EntriesSame DEF ReconcileWriteFails, Outcomes
  <2>2. /\ UNCHANGED <<found, retainedReports, performed, delivered>>
        /\ invocations'[c] \in {invocations[c], "idle"}
    BY <1>0, <1>3, FailedOperationKeeps DEF ReconcileWriteFails
  <2>3. passes'[c] \in {passes[c], "idle"}
    BY <1>0, <1>3 DEF ReconcileWriteFails, OperationFails, TypeOK
  <2> QED BY <2>1, <2>2, <2>3 DEF CallRests
<1>4. CASE RequestRun \/ \E u \in Updates : RequestUpdate(u)
  <2>1. UNCHANGED ledger
    BY <1>4 DEF RequestRun, RequestUpdate
  <2>2. EntriesOf(c)' \subseteq EntriesOf(c)
    BY <2>1, CopiesElsewhere, EntriesSame
  <2> QED BY <1>4, <2>2 DEF RequestRun, RequestUpdate, CallRests
<1>5. CASE AdmitRun
  <2>1. PICK outcome \in Outcomes : Update(record.data, outcome)
    BY <1>5 DEF AdmitRun
  <2>2. EntriesOf(c)' \subseteq EntriesOf(c)
    BY <1>0, <2>1, EntriesAfterUpdate, RecordedIsEntry DEF Entry
  <2> QED BY <1>5, <2>2 DEF AdmitRun, CallRests
<1>6. ASSUME NEW u \in Updates, RunUpdate(u) PROVE CallRests(c)
  <2>1. PICK outcome \in Outcomes : Update(WithUpdate(u), outcome)
    BY <1>6 DEF RunUpdate
  <2>2. WithUpdate(u) \in Data /\ WithUpdate(u).outbox[c] = Entry(c)
    BY <1>0, UpdateWritten DEF Entry
  <2>3. EntriesOf(c)' \subseteq EntriesOf(c)
    BY <1>0, <2>1, <2>2, EntriesAfterUpdate, RecordedIsEntry
  <2> QED BY <1>6, <2>3 DEF RunUpdate, CallRests
<1>7. CASE ProcessRestarts \/ HostRestarts
  <2>1. EntriesOf(c)' \subseteq EntriesOf(c)
    BY <1>7, CopiesElsewhere, EntriesSame
  <2>2. PICK from : Resume(from)
    BY <1>7 DEF ProcessRestarts, HostRestarts
  <2> QED BY <2>1, <2>2 DEF Resume, CallRests
<1>8. ASSUME NEW d \in Calls, CallMoves(d) PROVE CallMoves(c) \/ CallRests(c)
  BY <1>8, OthersRest
<1> QED BY <1>1, <1>2, <1>3, <1>4, <1>5, <1>6, <1>7, <1>8 DEF Next, CallMoves
-----------------------------------------------------------------------------
LEMMA PassWaits ==
  ASSUME TypeOK, QueueInv, NEW c \in Calls, Adopt(c)
  PROVE  passes[c] = "adopting"
<1>1. IsNext("pass", c)
  BY DEF Adopt, Finished
<1> QED BY <1>1, NextWaits, OperationTyped, OperationParts DEF Waits

LEMMA ReportedStep ==
  ASSUME IInv, QueueInv, [Next]_vars, NEW c \in Calls, ReportedAfterAction(c)
  PROVE  ReportedAfterAction(c)'
<1>0. TypeOK
  BY DEF IInv
<1>1. CASE CallRests(c)
  BY <1>1 DEF CallRests, ReportedAfterAction
<1>2. CASE performed[c] # 0
  <2>1. performed'[c] # 0
    BY <1>0, <1>2, CallStep DEF CallMoves, CallRests, TypeOK, Invoke, Redeliver, RepairRetained, AskReceipt,
       RequestAdmission, Recover, Record, Admit, Perform, ActionEnds, Settle, SettleWith, AskSource,
       SourceAnswers, Adopt
  <2> QED BY <2>1 DEF ReportedAfterAction
<1>3. CASE performed[c] = 0 /\ CallMoves(c)
  <2>0. /\ retainedReports[c] = "none" /\ invocations[c] # "recording" /\ passes[c] # "adopting"
        /\ delivered[c] = "none" /\ EntriesOf(c) \cap Reports = {} /\ Entry(c) \notin Reports
    BY <1>3, RecordedIsEntry DEF ReportedAfterAction
  <2>1. ~Redeliver(c) /\ ~RepairRetained(c)
    BY <2>0 DEF Redeliver, RepairRetained, Reports
  <2>2. ~Record(c) /\ ~Settle(c) /\ ~ActionEnds(c)
    BY <1>0, <1>3, <2>0 DEF Record, Settle, ActionEnds, IInv, IntentBeforeAction
  <2>3. ~Adopt(c)
    BY <1>0, <2>0, PassWaits
  <2>4. CASE Invoke(c) \/ AskReceipt(c) \/ RequestAdmission(c) \/ Recover(c) \/ AskSource(c) \/ SourceAnswers(c)
    <3>1. UNCHANGED ledger
      BY <2>4 DEF Invoke, AskReceipt, RequestAdmission, Recover, AskSource, SourceAnswers
    <3>2. EntriesOf(c)' \cap Reports = {}
      BY <2>0, <3>1, CopiesElsewhere, EntriesSame
    <3>3. /\ retainedReports'[c] = "none" /\ delivered'[c] = "none"
          /\ invocations'[c] # "recording" /\ passes'[c] # "adopting"
      BY <1>0, <1>3, <2>0, <2>4 DEF TypeOK, Invoke, AskReceipt, RequestAdmission, ThenQueue, Recover,
         AskSource, SourceAnswers
    <3> QED BY <3>2, <3>3 DEF ReportedAfterAction
  <2>5. CASE Perform(c)
    <3>1. performed'[c] = 1
      BY <1>0, <1>3, <2>5 DEF Perform, TypeOK
    <3> QED BY <3>1 DEF ReportedAfterAction
  <2>6. CASE Admit(c)
    <3>1. PICK outcome \in Outcomes : Update(WithEntry(c, "executing"), outcome)
      BY <2>6 DEF Admit
    <3>2. WithEntry(c, "executing") \in Data /\ WithEntry(c, "executing").outbox[c] = "executing"
      BY <1>0, EntryWritten DEF Entries
    <3>3. EntriesOf(c)' \subseteq EntriesOf(c) \cup {"executing"}
      BY <1>0, <3>1, <3>2, EntriesAfterUpdate
    <3>4. EntriesOf(c)' \cap Reports = {}
      BY <2>0, <3>3 DEF Reports, Known
    <3>5. /\ retainedReports'[c] = "none" /\ delivered'[c] = "none"
          /\ invocations'[c] # "recording" /\ passes'[c] # "adopting"
      BY <1>0, <2>0, <2>6 DEF TypeOK, Admit
    <3> QED BY <3>4, <3>5 DEF ReportedAfterAction
  <2> QED BY <1>3, <2>1, <2>2, <2>3, <2>4, <2>5, <2>6 DEF CallMoves
<1> QED BY <1>1, <1>2, <1>3, CallStep

-----------------------------------------------------------------------------
(* Only an admitted run has live invocations, and while it is admitted the    *)
(* record in memory is durable.                                               *)
Acknowledged ==
  (pendingWrite = None \/ ~pendingWrite.acknowledgementRequired) => durable.data = record.data

RunInv ==
  /\ \A c \in Calls : invocations[c] # "idle" => admission = "done"
  /\ admission = "done" => Acknowledged

LEMMA AdmissionSteps ==
  ASSUME IInv, QueueInv, [Next]_vars
  PROVE  \/ admission' = admission
         \/ RequestRun
         \/ AdmitRun /\ admission = "queued"
         \/ admission = "queued" /\ admission' = "none" /\ UNCHANGED <<invocations, passes>>
         \/ admission' = "none" /\ \A c \in Calls : passes'[c] = "idle" /\ invocations'[c] = "idle"
<1>0. TypeOK
  BY DEF IInv
<1>1. CASE UNCHANGED vars
  BY <1>1 DEF vars, callers
<1>2. CASE ForgetFailedWrite \/ ReconcileWrite
  BY <1>2 DEF ForgetFailedWrite, ReconcileWrite, callers
<1>3. CASE ReconcileWriteFails
  <2>1. OperationFails
    BY <1>3 DEF ReconcileWriteFails
  <2>2. CASE admission' # admission
    <3>1. /\ tail # <<>> /\ Head(tail).by = "run" /\ admission' = "none"
          /\ UNCHANGED <<invocations, passes>>
      BY <2>1, <2>2 DEF OperationFails
    <3>2. 1 \in DOMAIN tail /\ tail[1] = Head(tail) /\ Head(tail) \in Operations
      BY <1>0, <3>1 DEF TypeOK
    <3>3. Waits(Head(tail))
      BY <3>2 DEF QueueInv, Queued
    <3> QED BY <3>1, <3>3 DEF Waits
  <2> QED BY <2>2
<1>4. CASE AdmitRun
  <2>1. IsNext("run", None)
    BY <1>4 DEF AdmitRun, Finished
  <2>2. admission = "queued"
    BY <1>0, <2>1, NextWaits, OperationTyped, OperationParts DEF Waits
  <2> QED BY <1>4, <2>2
<1>5. ASSUME NEW u \in Updates, RequestUpdate(u) \/ RunUpdate(u) PROVE admission' = admission
  BY <1>5 DEF RequestUpdate, RunUpdate
<1>6. ASSUME NEW c \in Calls, CallMoves(c) PROVE admission' = admission
  BY <1>6 DEF CallMoves, Invoke, Redeliver, RepairRetained, AskReceipt, RequestAdmission, Recover, Record,
     Admit, Perform, ActionEnds, Settle, SettleWith, AskSource, SourceAnswers, Adopt
<1>7. CASE ProcessRestarts \/ HostRestarts
  BY <1>7 DEF ProcessRestarts, HostRestarts, Resume
<1> QED BY <1>1, <1>2, <1>3, <1>4, <1>5, <1>6, <1>7 DEF Next, CallMoves

LEMMA CallNeedsRun ==
  ASSUME IInv, RunInv, NEW c \in Calls, CallMoves(c)
  PROVE  invocations'[c] # "idle" => admission = "done"
<1>0. TypeOK
  BY DEF IInv
<1>1. CASE AskSource(c) \/ SourceAnswers(c) \/ Adopt(c)
  BY <1>1 DEF RunInv, AskSource, SourceAnswers, Adopt
<1>2. CASE Invoke(c)
  BY <1>2 DEF Invoke
<1>3. CASE ~(AskSource(c) \/ SourceAnswers(c) \/ Adopt(c) \/ Invoke(c))
  <2>1. invocations[c] # "idle" \/ invocations'[c] = "idle"
    BY <1>0, <1>3 DEF TypeOK, CallMoves, Redeliver, RepairRetained, AskReceipt, RequestAdmission, Recover,
       Record, Admit, Perform, ActionEnds, Settle, SettleWith, Inspected
  <2> QED BY <2>1 DEF RunInv
<1> QED BY <1>1, <1>2, <1>3

LEMMA WriteAcknowledged ==
  ASSUME TypeOK, NEW data \in Data, NEW outcome \in Outcomes, Update(data, outcome),
         Acknowledged \/ outcome = "acked"
  PROVE  Acknowledged'
<1>1. CASE outcome = "acked"
  BY <1>1, UpdateCopies DEF Acknowledged
<1>2. CASE outcome # "acked"
  <2>1. durable' = durable /\ record' = record /\ pendingWrite = None
    BY <1>2 DEF Update, LeaseWrite
  <2>2. durable.data = record.data
    BY <1>2, <2>1 DEF Acknowledged
  <2> QED BY <2>1, <2>2 DEF Acknowledged
<1> QED BY <1>1, <1>2

LEMMA AcknowledgedStep ==
  ASSUME IInv, Acknowledged, [Next]_vars
  PROVE  \/ Acknowledged'
         \/ ProcessRestarts \/ HostRestarts
<1>0. TypeOK /\ record.data \in Data
  BY DEF IInv, TypeOK, Records
<1>1. CASE UNCHANGED ledger
  BY <1>1 DEF ledger, Acknowledged
<1>2. CASE Forget
  BY <1>2 DEF Forget, Acknowledged
<1>3. ASSUME NEW outcome \in Outcomes, RewriteCandidate(outcome) PROVE Acknowledged'
  <2>1. CASE outcome = "acked"
    BY <1>3, <2>1 DEF RewriteCandidate, LeaseWrite, Acknowledged
  <2>2. CASE outcome # "acked"
    <3> DEFINE p == [before |-> stored, data |-> pendingWrite.data, acknowledgementRequired |-> TRUE]
    <3>1. pendingWrite' = p /\ p.acknowledgementRequired
      BY <1>3, <2>2 DEF RewriteCandidate
    <3>2. p \in PendingWrites
      <4>1. pendingWrite \in PendingWrites
        BY <1>0, <1>3 DEF TypeOK, RewriteCandidate
      <4> QED BY <1>0, <4>1 DEF PendingWrites, TypeOK
    <3> QED BY <3>1, <3>2, NoneAssumption DEF Acknowledged
  <2> QED BY <2>1, <2>2
<1>4. CASE Writes(record.data)
  BY <1>0, <1>4, WriteAcknowledged DEF Writes
<1>5. ASSUME NEW u \in Updates, Writes(WithUpdate(u)) PROVE Acknowledged'
  BY <1>0, <1>5, WriteAcknowledged, UpdateWritten DEF Writes
<1>6. ASSUME NEW c \in Calls, NEW e \in Entries, Writes(WithEntry(c, e)) PROVE Acknowledged'
  BY <1>0, <1>6, WriteAcknowledged, EntryWritten DEF Writes
<1> QED BY <1>1, <1>2, <1>3, <1>4, <1>5, <1>6, LedgerSteps

LEMMA RunStep ==
  ASSUME IInv, QueueInv, RunInv, [Next]_vars
  PROVE  RunInv'
<1>0. TypeOK /\ record.data \in Data
  BY DEF IInv, TypeOK, Records
<1>1. ASSUME NEW c \in Calls
      PROVE  invocations'[c] # "idle" => admission' = "done"
  <2>1. CASE CallMoves(c)
    <3>1. admission' = admission
      BY <2>1 DEF CallMoves, Invoke, Redeliver, RepairRetained, AskReceipt, RequestAdmission, Recover, Record,
         Admit, Perform, ActionEnds, Settle, SettleWith, AskSource, SourceAnswers, Adopt
    <3> QED BY <2>1, <3>1, CallNeedsRun
  <2>2. CASE CallRests(c)
    <3>1. CASE admission' = admission
      BY <2>2, <3>1 DEF CallRests, RunInv
    <3>2. CASE RequestRun
      BY <3>2 DEF RequestRun, RunInv
    <3>3. CASE AdmitRun /\ admission = "queued"
      BY <3>3 DEF AdmitRun, RunInv
    <3>4. CASE admission = "queued" /\ admission' = "none" /\ UNCHANGED <<invocations, passes>>
      BY <3>4 DEF RunInv
    <3> QED BY <3>1, <3>2, <3>3, <3>4, AdmissionSteps
  <2> QED BY <2>1, <2>2, CallStep
<1>2. ASSUME admission' = "done" PROVE Acknowledged'
  <2>1. CASE admission = "done"
    <3>1. ~(ProcessRestarts \/ HostRestarts)
      BY <1>2 DEF ProcessRestarts, HostRestarts, Resume
    <3> QED BY <2>1, <3>1, AcknowledgedStep DEF RunInv
  <2>2. CASE AdmitRun
    <3>1. PICK outcome \in Outcomes :
            Update(record.data, outcome) /\ admission' = IF outcome = "acked" THEN "done" ELSE "none"
      BY <2>2 DEF AdmitRun
    <3>2. outcome = "acked"
      BY <1>2, <3>1
    <3> QED BY <1>0, <3>1, <3>2, WriteAcknowledged
  <2>3. ~RequestRun
    BY <1>2 DEF RequestRun
  <2> QED BY <1>2, <2>1, <2>2, <2>3, AdmissionSteps
<1> QED BY <1>1, <1>2 DEF RunInv
-----------------------------------------------------------------------------
(* An entry stands for an answer when a caller that asks again is told the    *)
(* same, or what the source said of it: an unknown outcome may become known,  *)
(* a known one gives way to the receipt alone.                                *)
StandsFor(entry, answer) ==
  /\ answer # "none" => entry \in Reports
  /\ answer \in Known => entry \in {answer, "receipt"}

\* What a caller was told stands in every copy of the record, and no operation
\* that could take it back is under way.
AnswerRecorded(c) == \A e \in EntriesOf(c) : StandsFor(e, delivered[c])

AnswerOpen(c) ==
  /\ invocations[c] \in {"recovering", "recording"} => delivered[c] \notin Known
  /\ invocations[c] = "admitting" => delivered[c] = "none"

AnswerInv(c) == AnswerRecorded(c) /\ AnswerOpen(c)

\* A live caller that finds nothing pending reads what every copy holds.
LEMMA OneEntry ==
  ASSUME LedgerInv, RunInv, NEW c \in Calls, invocations[c] # "idle", pendingWrite = None
  PROVE  EntriesOf(c) = {Entry(c)}
BY DEF LedgerInv, RunInv, Acknowledged, EntriesOf, Copies, Entry

\* The entry of a call, once an operation of it wrote an entry.
LEMMA EntryOfCall ==
  ASSUME TypeOK, NEW c \in Calls, NEW e \in Entries, NEW outcome \in Outcomes,
         Update(WithEntry(c, e), outcome)
  PROVE  /\ EntriesOf(c)' \subseteq EntriesOf(c) \cup {e}
         /\ outcome = "acked" => EntriesOf(c)' = {e}
BY EntryWritten, EntriesAfterUpdate

\* What settle() records never differs from a known answer.
SettledReport(c) == IF Entry(c) = "executing" THEN retainedReports[c] ELSE Entry(c)

LEMMA SettledAgrees ==
  ASSUME IInv, NEW c \in Calls, AnswerInv(c), Settle(c)
  PROVE  /\ SettledReport(c) \in Reports
         /\ StandsFor(SettledReport(c), delivered[c])
<1>1. Entry(c) \in Entries /\ Entry(c) # "absent" /\ retainedReports[c] \in Reports
  BY DEF Settle, IInv, ReportsAtHand, TypeOK, Records, Data, Entry, IntentBeforeAction, IntentRecorded
<1>2. StandsFor(Entry(c), delivered[c])
  BY RecordedIsEntry DEF AnswerInv, AnswerRecorded
<1>3. "executing" \notin Reports
  BY DEF Reports, Known
<1> QED BY <1>1, <1>2, <1>3 DEF SettledReport, StandsFor, Entries, Known, Reports

LEMMA AnswerStep ==
  ASSUME IInv, QueueInv, LedgerInv, RunInv, RunInv', [Next]_vars, NEW c \in Calls, AnswerInv(c)
  PROVE  AnswerInv(c)'
<1>0. TypeOK
  BY DEF IInv
<1>1. CASE CallRests(c)
  BY <1>1 DEF CallRests, AnswerInv, AnswerRecorded, AnswerOpen
<1>2. CASE \/ Invoke(c) \/ RepairRetained(c) \/ AskReceipt(c) \/ RequestAdmission(c) \/ Recover(c)
           \/ Perform(c) \/ ActionEnds(c) \/ AskSource(c) \/ SourceAnswers(c)
  <2>1. UNCHANGED ledger /\ delivered' = delivered
    BY <1>2 DEF Invoke, RepairRetained, AskReceipt, RequestAdmission, Recover, Perform, ActionEnds,
       AskSource, SourceAnswers
  <2>2. AnswerRecorded(c)'
    BY <2>1, CopiesElsewhere, EntriesSame DEF AnswerInv, AnswerRecorded
  <2>3. CASE RepairRetained(c) \/ AskReceipt(c) \/ RequestAdmission(c)
    <3>0. StandsFor(Entry(c), delivered[c])
      BY RecordedIsEntry DEF AnswerInv, AnswerRecorded
    <3>1. /\ Unresolved(Entry(c)) => delivered[c] \notin Known
          /\ Entry(c) = "absent" => delivered[c] = "none" /\ delivered[c] \notin Known
      BY <3>0 DEF StandsFor, Unresolved, Known, Reports
    <3>2. ASSUME RepairRetained(c) \/ AskReceipt(c) PROVE AnswerOpen(c)'
      BY <1>0, <2>1, <3>1, <3>2 DEF RepairRetained, AskReceipt, ThenQueue, TypeOK, AnswerInv, AnswerOpen
    <3>3. ASSUME RequestAdmission(c) PROVE AnswerOpen(c)'
      BY <1>0, <2>1, <3>1, <3>3 DEF RequestAdmission, ThenQueue, TypeOK, AnswerInv, AnswerOpen
    <3>4. AnswerOpen(c)'
      BY <2>3, <3>2, <3>3
    <3> QED BY <2>2, <3>4 DEF AnswerInv
  <2>4. CASE \/ Invoke(c) \/ Recover(c) \/ Perform(c) \/ ActionEnds(c)
             \/ AskSource(c) \/ SourceAnswers(c)
    <3>1. AnswerOpen(c)'
      BY <1>0, <2>1, <2>4 DEF Invoke, Recover, Perform, ActionEnds, AskSource, SourceAnswers, TypeOK,
         AnswerInv, AnswerOpen
    <3> QED BY <2>2, <3>1 DEF AnswerInv
  <2> QED BY <1>2, <2>3, <2>4
<1>3. CASE Redeliver(c)
  <2>1. EntriesOf(c) = {Entry(c)} /\ Entry(c) \in Known
    BY <1>3, OneEntry DEF Redeliver, Inspected
  <2>2. EntriesOf(c)' \subseteq {Entry(c)}
    BY <1>3, <2>1, CopiesElsewhere, EntriesSame DEF Redeliver
  <2>3. delivered'[c] = Entry(c) /\ invocations'[c] = "idle"
    BY <1>0, <1>3 DEF Redeliver, TypeOK
  <2> QED BY <2>1, <2>2, <2>3 DEF AnswerInv, AnswerRecorded, AnswerOpen, StandsFor, Reports
<1>4. ASSUME NEW report \in Reports, SettleWith(c, report), StandsFor(report, delivered[c])
      PROVE  AnswerInv(c)'
  <2>1. PICK outcome \in Outcomes :
          /\ Update(WithEntry(c, report), outcome)
          /\ delivered' = IF outcome = "acked" THEN [delivered EXCEPT ![c] = report] ELSE delivered
    BY <1>4 DEF SettleWith
  <2>2. /\ EntriesOf(c)' \subseteq EntriesOf(c) \cup {report}
        /\ outcome = "acked" => EntriesOf(c)' = {report}
    BY <1>0, <2>1, EntryOfCall DEF Entries
  <2>3. invocations'[c] = "idle"
    BY <1>0, <1>4 DEF SettleWith, TypeOK
  <2>4. CASE outcome = "acked"
    <3>1. delivered'[c] = report
      BY <1>0, <2>1, <2>4 DEF TypeOK
    <3> QED BY <2>2, <2>3, <2>4, <3>1 DEF AnswerInv, AnswerRecorded, AnswerOpen, StandsFor
  <2>5. CASE outcome # "acked"
    <3>1. delivered' = delivered
      BY <2>1, <2>5
    <3> QED BY <1>4, <2>2, <2>3, <3>1 DEF AnswerInv, AnswerRecorded, AnswerOpen
  <2> QED BY <2>4, <2>5
<1>5. CASE Record(c)
  <2>1. found[c] \in Reports /\ SettleWith(c, found[c]) /\ invocations[c] = "recording"
    BY <1>5 DEF Record, IInv, ReportsAtHand
  <2>2. StandsFor(found[c], delivered[c])
    BY <2>1 DEF AnswerInv, AnswerOpen, StandsFor
  <2> QED BY <1>4, <2>1, <2>2
<1>6. CASE Settle(c)
  <2>1. SettleWith(c, SettledReport(c))
    BY <1>6 DEF Settle, SettledReport
  <2> QED BY <1>4, <1>6, <2>1, SettledAgrees
<1>7. ASSUME NEW e \in Entries, NEW outcome \in Outcomes, Update(WithEntry(c, e), outcome),
             delivered' = delivered, AnswerOpen(c)', StandsFor(e, delivered[c])
      PROVE  AnswerInv(c)'
  BY <1>0, <1>7, EntryOfCall DEF AnswerInv, AnswerRecorded
<1>8. CASE Admit(c)
  <2>1. PICK outcome \in Outcomes : Update(WithEntry(c, "executing"), outcome)
    BY <1>8 DEF Admit
  <2>2. delivered' = delivered /\ StandsFor("executing", delivered[c]) /\ "executing" \in Entries
    BY <1>8 DEF Admit, AnswerInv, AnswerOpen, StandsFor, Known, Entries
  <2>3. AnswerOpen(c)'
    BY <1>0, <1>8, <2>2 DEF Admit, TypeOK, AnswerInv, AnswerOpen
  <2> QED BY <1>7, <2>1, <2>2, <2>3
<1>9. CASE Adopt(c)
  <2>1. PICK outcome \in Outcomes : Update(WithEntry(c, "receipt"), outcome)
    BY <1>9 DEF Adopt
  <2>2. delivered' = delivered /\ StandsFor("receipt", delivered[c]) /\ "receipt" \in Entries
    BY <1>9 DEF Adopt, StandsFor, Known, Entries, Reports
  <2>3. AnswerOpen(c)'
    BY <1>0, <1>9, <2>2 DEF Adopt, TypeOK, AnswerInv, AnswerOpen
  <2> QED BY <1>7, <2>1, <2>2, <2>3
<1> QED BY <1>1, <1>2, <1>3, <1>5, <1>6, <1>8, <1>9, CallStep DEF CallMoves

(* A caller is answered only after the action of its call, by a report that   *)
(* stands for what callers were told before.                                  *)
AnsweredInTurn(c) ==
  delivered'[c] # delivered[c] => performed[c] = 1 /\ StandsFor(delivered'[c], delivered[c])

LEMMA AnsweredStep ==
  ASSUME IInv, QueueInv, LedgerInv, RunInv, [Next]_vars, NEW c \in Calls,
         ReportedAfterAction(c), AnswerInv(c)
  PROVE  AnsweredInTurn(c)
<1>0. TypeOK
  BY DEF IInv
<1>1. performed[c] <= 1 /\ performed[c] \in Nat
  BY <1>0 DEF TypeOK, IInv, IntentBeforeAction
<1>2. CASE CallRests(c)
  BY <1>2 DEF CallRests, AnsweredInTurn
<1>3. CASE Redeliver(c)
  <2>1. delivered'[c] = Entry(c) /\ Entry(c) \in Reports
    BY <1>0, <1>3 DEF Redeliver, TypeOK, Reports
  <2>2. performed[c] = 1
    BY <1>1, <2>1, RecordedIsEntry DEF ReportedAfterAction
  <2>3. StandsFor(Entry(c), delivered[c])
    BY RecordedIsEntry DEF AnswerInv, AnswerRecorded
  <2> QED BY <2>1, <2>2, <2>3 DEF AnsweredInTurn
<1>4. ASSUME NEW report \in Reports, SettleWith(c, report), performed[c] = 1,
             StandsFor(report, delivered[c])
      PROVE  AnsweredInTurn(c)
  <2>1. delivered'[c] \in {delivered[c], report}
    BY <1>0, <1>4 DEF SettleWith, TypeOK
  <2> QED BY <1>4, <2>1 DEF AnsweredInTurn
<1>5. CASE Record(c)
  <2>1. found[c] \in Reports /\ SettleWith(c, found[c]) /\ invocations[c] = "recording"
    BY <1>5 DEF Record, IInv, ReportsAtHand
  <2>2. performed[c] = 1
    BY <1>1, <2>1 DEF ReportedAfterAction
  <2>3. StandsFor(found[c], delivered[c])
    BY <2>1 DEF AnswerInv, AnswerOpen, StandsFor
  <2> QED BY <1>4, <2>1, <2>2, <2>3
<1>6. CASE Settle(c)
  <2>1. SettleWith(c, SettledReport(c)) /\ performed[c] = 1
    BY <1>6 DEF Settle, SettledReport, IInv, IntentBeforeAction
  <2> QED BY <1>4, <1>6, <2>1, SettledAgrees
<1>7. CASE /\ CallMoves(c)
           /\ ~(Redeliver(c) \/ Record(c) \/ Settle(c))
  <2>1. delivered' = delivered
    BY <1>7 DEF CallMoves, Invoke, RepairRetained, AskReceipt, RequestAdmission, Recover, Admit, Perform,
       ActionEnds, AskSource, SourceAnswers, Adopt
  <2> QED BY <2>1 DEF AnsweredInTurn
<1> QED BY <1>2, <1>3, <1>5, <1>6, <1>7, CallStep

-----------------------------------------------------------------------------
AnswersInv ==
  /\ IInv /\ QueueInv /\ LedgerInv /\ RunInv
  /\ \A c \in Calls : ReportedAfterAction(c) /\ AnswerInv(c)

LEMMA InitAnswers == Init => AnswersInv
<1> SUFFICES ASSUME Init PROVE AnswersInv
  OBVIOUS
<1>1. IInv /\ QueueInv /\ LedgerInv
  BY InitIInv, InitLedger
<1>2. RunInv
  BY DEF Init, RunInv, Acknowledged
<1>3. ASSUME NEW c \in Calls PROVE ReportedAfterAction(c) /\ AnswerInv(c)
  <2>1. EntriesOf(c) = {"absent"}
    BY DEF Init, Opened, EntriesOf, Copies
  <2> QED BY <2>1 DEF Init, ReportedAfterAction, AnswerInv, AnswerRecorded, AnswerOpen, StandsFor, Reports, Known
<1> QED BY <1>1, <1>2, <1>3 DEF AnswersInv

LEMMA NextAnswers ==
  ASSUME AnswersInv, [Next]_vars
  PROVE  AnswersInv'
<1>1. IInv /\ QueueInv /\ LedgerInv /\ RunInv /\ TypeOK
  BY DEF AnswersInv, IInv
<1>2. IInv' /\ QueueInv' /\ LedgerInv' /\ RunInv'
  BY <1>1, NextIInv, QueueStep, LedgerStep, RunStep
<1>3. ASSUME NEW c \in Calls PROVE ReportedAfterAction(c)' /\ AnswerInv(c)'
  <2>1. ReportedAfterAction(c) /\ AnswerInv(c)
    BY DEF AnswersInv
  <2> QED BY <1>1, <1>2, <2>1, ReportedStep, AnswerStep
<1> QED BY <1>2, <1>3 DEF AnswersInv

(* Before any caller of outbox() gets a report, the record that survives a     *)
(* host crash holds one that stands for it, and does so ever after, also when *)
(* resumeSession reconciles a session beside its live calls.                  *)
AnswersStand == \A c \in Calls : StandsFor(durable.data.outbox[c], delivered[c])

THEOREM AnswersAreDurable == Spec => []AnswersStand
<1>1. AnswersInv => AnswersStand
  BY RecordedIsEntry DEF AnswersInv, AnswerInv, AnswerRecorded, AnswersStand
<1> QED BY <1>1, InitAnswers, NextAnswers, PTL DEF Spec

(* Whatever a later call of outbox() is told of an id, the action of that id  *)
(* was started once, and the new answer stands for the earlier one: a known   *)
(* outcome is the answer for ever, or until the receipt of its source.        *)
AnswersAgree == [][\A c \in Calls : AnsweredInTurn(c)]_vars

THEOREM OutboxAnswersAgree == Spec => AnswersAgree
<1>1. AnswersInv /\ [Next]_vars => [\A c \in Calls : AnsweredInTurn(c)]_vars
  BY AnsweredStep DEF AnswersInv
<1> QED BY <1>1, InitAnswers, NextAnswers, PTL DEF Spec, AnswersAgree
=============================================================================
