---------------------------- MODULE SessionLedger -----------------------------
(***************************************************************************)
(* The request ledger of a durable session (DefinitionSession.ts): a run   *)
(* is admitted in the control record before its input goes to the native   *)
(* side, its terminal result is stored before it is reported, and a        *)
(* session resumed after a crash observes what was submitted instead of    *)
(* submitting it again.                                                    *)
(*                                                                         *)
(* A request id names its run: only an admission that never reached the    *)
(* storage can be repeated, and the run it named exists nowhere.           *)
(***************************************************************************)
EXTENDS ControlWriter, FiniteSets

CONSTANTS
  Requests      \* request ids, each with one input

ASSUME LedgerAssumption ==
  /\ None \notin Requests
  /\ MaxRevision \in Nat \ {0}

VARIABLES
  session,         \* the observer: closed, adopting, open, or failed
  admission,       \* where admit() is: the request and its step
  requests,        \* DefinitionSession.requests: the promise run() returned
  runs,            \* DefinitionSession.runs: the result promise of each wrapper
  pendingResults,  \* DefinitionSession.pendingResults
  native,          \* what became of each input on the native side
  submitted,       \* history: how often an input was submitted
  told             \* history: the requests whose terminal result a caller got

process == <<session, admission, requests, runs, pendingResults>>
world == <<native, submitted, told>>
vars == <<ledger, process, world>>

RunStates ==
  {"absent", "submitting", "observing", "unknown", "rejected", "terminal"}

Data == [activeRunId : Requests \cup {None}, runs : [Requests -> RunStates]]
Records == [revision : Nat, data : Data]
PendingWrites == [before : Records, data : Data, acknowledgementRequired : BOOLEAN]

ASSUME NoneAssumption == None \notin PendingWrites

Opened ==
  [revision |-> 1,
   data |-> [activeRunId |-> None, runs |-> [r \in Requests |-> "absent"]]]

NoAdmission == [request |-> None, step |-> "none"]

Init ==
  /\ stored = Opened /\ durable = Opened /\ record = Opened
  /\ pendingWrite = None
  /\ session = "open"
  /\ admission = NoAdmission
  /\ requests = [r \in Requests |-> "none"]
  /\ runs = [r \in Requests |-> "none"]
  /\ pendingResults = {}
  /\ native = [r \in Requests |-> "none"]
  /\ submitted = [r \in Requests |-> 0]
  /\ told = {}

-----------------------------------------------------------------------------
(* Control updates.                                                          *)

Saved(r) == record.data.runs[r]
Active == record.data.activeRunId

\* The record with run r in a state, and the active run.
With(r, state, active) ==
  [activeRunId |-> active, runs |-> [record.data.runs EXCEPT ![r] = state]]

\* update(): its own write once nothing is pending, or a reconcileWrite() that
\* throws.  A reconciliation that succeeds is a step of its own.
TryUpdate(data, acknowledged) ==
  \/ /\ \E outcome \in Outcomes :
          /\ Update(data, outcome)
          /\ acknowledged = (outcome = "acked")
  \/ /\ pendingWrite # None
     /\ ~acknowledged
     /\ \/ UNCHANGED ledger
        \/ \E outcome \in {"lost", "unacked"} : RewriteCandidate(outcome)

\* The update of persistResult().
Persists(r, acknowledged) ==
  /\ TryUpdate(With(r, "terminal", IF Active = r THEN None ELSE Active), acknowledged)
  /\ pendingResults' = IF acknowledged THEN pendingResults \ {r} ELSE pendingResults

\* The reconcileWrite() of an update or of a tool call.
Reconcile ==
  /\ session \in {"open", "failed"}
  /\ Forget \/ RewriteCandidate("acked")
  /\ UNCHANGED <<process, world>>

-----------------------------------------------------------------------------
(* run() and admit().                                                        *)

\* A request id that was used in this process returns its first promise.
Run(r) ==
  /\ session \in {"open", "failed"}
  /\ requests[r] = "none"
  /\ admission = NoAdmission
  /\ requests' = [requests EXCEPT ![r] = "pending"]
  /\ admission' = [request |-> r, step |-> "inspecting"]
  /\ UNCHANGED <<ledger, session, runs, pendingResults, world>>

\* The promise run() returned is settled.
Settles(r, outcome) ==
  /\ requests' = [requests EXCEPT ![r] = outcome]
  /\ admission' = NoAdmission

At(r, step) == admission = [request |-> r, step |-> step]
ThenStep(r, step) == admission' = [request |-> r, step |-> step] /\ UNCHANGED requests

\* A request the record knows leads to its run, through getRun(), or to its
\* rejection.
FindSaved(r) ==
  /\ At(r, "inspecting")
  /\ Saved(r) # "absent"
  /\ UNCHANGED <<session, runs, native, submitted>>
  /\ \/ /\ r \in pendingResults
        /\ \E acknowledged \in BOOLEAN :
             /\ Persists(r, acknowledged)
             /\ Settles(r, IF acknowledged THEN "run" ELSE "failed")
             /\ told' = IF acknowledged THEN told \cup {r} ELSE told
     \/ /\ r \notin pendingResults
        /\ Settles(r, IF runs[r] # "none" \/ Saved(r) = "terminal" THEN "run" ELSE "failed")
        /\ told' = IF runs[r] = "none" /\ Saved(r) = "terminal" THEN told \cup {r} ELSE told
        /\ UNCHANGED <<ledger, pendingResults>>

\* inspectState() finds unresolved effects, an active run stands in the way, or
\* the caller aborted.
RefuseNew(r) ==
  /\ At(r, "inspecting")
  /\ Saved(r) = "absent"
  /\ Settles(r, "failed")
  /\ UNCHANGED <<ledger, session, runs, pendingResults, world>>

\* Variant: the record is not asked whether it knows the request.
InspectNoRecord(r) ==
  /\ At(r, "inspecting")
  /\ session = "open"
  /\ Active = None
  /\ ThenStep(r, "admitting")
  /\ UNCHANGED <<ledger, session, runs, pendingResults, world>>

Inspect(r) ==
  /\ At(r, "inspecting")
  /\ Saved(r) = "absent"
  /\ session = "open"
  /\ Active = None
  /\ ThenStep(r, "admitting")
  /\ UNCHANGED <<ledger, session, runs, pendingResults, world>>

\* The admission update, which throws if a reconciled record has an active run.
Admit(r) ==
  /\ At(r, "admitting")
  /\ \/ /\ pendingWrite = None /\ Active # None
        /\ UNCHANGED ledger
        /\ Settles(r, "failed")
     \/ \E acknowledged \in BOOLEAN :
          /\ pendingWrite = None => Active = None
          /\ TryUpdate(With(r, "submitting", r), acknowledged)
          /\ IF acknowledged THEN ThenStep(r, "dispatching") ELSE Settles(r, "failed")
  /\ UNCHANGED <<session, runs, pendingResults, world>>

\* services.start() gives the input to the native side.
Dispatch(r) ==
  /\ At(r, "dispatching")
  /\ Settles(r, "run")
  /\ runs' = [runs EXCEPT ![r] = "running"]
  /\ native' = [native EXCEPT ![r] = "working"]
  /\ submitted' = [submitted EXCEPT ![r] = @ + 1]
  /\ UNCHANGED <<ledger, session, pendingResults, told>>

\* The session closed, the caller aborted, or the local session refused to start.
FailToStart(r) ==
  /\ At(r, "dispatching")
  /\ ThenStep(r, "rejecting")
  /\ UNCHANGED <<ledger, session, runs, pendingResults, world>>

Reject(r) ==
  /\ At(r, "rejecting")
  /\ \E acknowledged \in BOOLEAN : TryUpdate(With(r, "rejected", None), acknowledged)
  /\ Settles(r, "failed")
  /\ UNCHANGED <<session, runs, pendingResults, world>>

-----------------------------------------------------------------------------
(* trackRun(): what the native side does, and how its result is stored.      *)

\* onNativeAccepted(); its failure makes the run end unproven or be cancelled.
NativeAccepted(r) ==
  /\ runs[r] = "running"
  /\ Saved(r) # "observing"
  /\ \E acknowledged \in BOOLEAN : TryUpdate(With(r, "observing", Active), acknowledged)
  /\ UNCHANGED <<process, world>>

NativeEnds(r) ==
  /\ native[r] = "working"
  /\ native' = [native EXCEPT ![r] = "ended"]
  /\ UNCHANGED <<ledger, process, submitted, told>>

\* The observer has the terminal result.
ObserveEnd(r) ==
  /\ runs[r] = "running"
  /\ native[r] = "ended"
  /\ runs' = [runs EXCEPT ![r] = "persisting"]
  /\ pendingResults' = pendingResults \cup {r}
  /\ UNCHANGED <<ledger, session, admission, requests, world>>

\* Variant: a run that is not proven terminal no longer blocks the next one.
LoseNativeAndGoOn(r) ==
  /\ runs[r] = "running"
  /\ \E acknowledged \in BOOLEAN : TryUpdate(With(r, "unknown", None), acknowledged)
  /\ runs' = [runs EXCEPT ![r] = "failed"]
  /\ UNCHANGED <<session, admission, requests, pendingResults, world>>

\* Native termination is not proven: the session has failed.
LoseNative(r) ==
  /\ runs[r] = "running"
  /\ \E acknowledged \in BOOLEAN : TryUpdate(With(r, "unknown", Active), acknowledged)
  /\ runs' = [runs EXCEPT ![r] = "failed"]
  /\ session' = "failed"
  /\ UNCHANGED <<admission, requests, pendingResults, world>>

\* Variant: the result is reported even if it could not be stored.
ReportWithoutStoring(r) ==
  /\ runs[r] = "persisting"
  /\ \E acknowledged \in BOOLEAN : Persists(r, acknowledged)
  /\ runs' = [runs EXCEPT ![r] = "terminal"]
  /\ told' = told \cup {r}
  /\ UNCHANGED <<session, admission, requests, native, submitted>>

\* The wrapper's result resolves, or tells its caller to retry getRun().
Report(r) ==
  /\ runs[r] = "persisting"
  /\ \E acknowledged \in BOOLEAN :
       /\ Persists(r, acknowledged)
       /\ runs' = [runs EXCEPT ![r] = IF acknowledged THEN "terminal" ELSE "failed"]
       /\ told' = IF acknowledged THEN told \cup {r} ELSE told
  /\ UNCHANGED <<session, admission, requests, native, submitted>>

\* getRun() of a retained result stores it first.
Repair(r) ==
  /\ session # "closed"
  /\ r \in pendingResults
  /\ \E acknowledged \in BOOLEAN :
       /\ Persists(r, acknowledged)
       /\ told' = IF acknowledged THEN told \cup {r} ELSE told
  /\ UNCHANGED <<session, admission, requests, runs, native, submitted>>

\* getRun() of a run without a wrapper in this process serves the record.
Serve(r) ==
  /\ session \in {"open", "failed"}
  /\ r \notin pendingResults
  /\ runs[r] = "none"
  /\ Saved(r) = "terminal"
  /\ told' = told \cup {r}
  /\ UNCHANGED <<ledger, process, native, submitted>>

-----------------------------------------------------------------------------
(* Crash, detachment and resumeSession.                                      *)

\* Everything the process kept is gone, and the session is read back.
Forgets(survivor) ==
  /\ session' = "closed"
  /\ stored' = survivor
  /\ record' = survivor
  /\ pendingWrite' = None
  /\ admission' = NoAdmission
  /\ requests' = [r \in Requests |-> "none"]
  /\ runs' = [r \in Requests |-> "none"]
  /\ pendingResults' = {}
  /\ UNCHANGED world

\* The process ends, or detaches and releases its lease.
ProcessCrash ==
  /\ session # "closed"
  /\ Forgets(stored)
  /\ UNCHANGED durable

\* The host goes down: an unacknowledged write may be lost.
HostCrash ==
  \E survivor \in {stored, durable} : Forgets(survivor) /\ durable' = survivor

\* resumeSession(): with an active run, either the driver observes the existing
\* native run, or what became of its input stays unknown.
Resume ==
  /\ session = "closed"
  /\ session' \in IF Active = None THEN {"open"} ELSE {"adopting", "failed"}
  /\ UNCHANGED <<ledger, admission, requests, runs, pendingResults, world>>

\* Adoption reserves a new sequence range in the record before it observes; if
\* that fails the lease is released and the session can be resumed again.
Adopt ==
  /\ session = "adopting"
  /\ \/ /\ Update(record.data, "acked")
        /\ session' = "open"
        /\ runs' = [runs EXCEPT ![Active] = "running"]
     \/ /\ \E outcome \in {"lost", "unacked"} :
             LeaseWrite(record.data, record.revision, outcome)
        /\ record' = stored'
        /\ session' = "closed"
        /\ UNCHANGED <<pendingWrite, runs>>
  /\ UNCHANGED <<admission, requests, pendingResults, world>>

Next ==
  \/ Reconcile \/ ProcessCrash \/ HostCrash \/ Resume \/ Adopt
  \/ \E r \in Requests :
       \/ Run(r) \/ FindSaved(r) \/ RefuseNew(r) \/ Inspect(r) \/ Admit(r)
       \/ Dispatch(r) \/ FailToStart(r) \/ Reject(r)
       \/ NativeAccepted(r) \/ NativeEnds(r) \/ ObserveEnd(r) \/ LoseNative(r)
       \/ Report(r) \/ Repair(r) \/ Serve(r)

Spec == Init /\ [][Next]_vars

-----------------------------------------------------------------------------
(* Every variable has its type. *)
TypeOK ==
  /\ stored \in Records /\ durable \in Records /\ record \in Records
  /\ pendingWrite \in PendingWrites \cup {None}
  /\ session \in {"closed", "adopting", "open", "failed"}
  /\ admission \in [request : Requests \cup {None},
                    step : {"none", "inspecting", "admitting", "dispatching", "rejecting"}]
  /\ requests \in [Requests -> {"none", "pending", "run", "failed"}]
  /\ runs \in [Requests -> {"none", "running", "persisting", "terminal", "failed"}]
  /\ pendingResults \subseteq Requests
  /\ native \in [Requests -> {"none", "working", "ended"}]
  /\ submitted \in [Requests -> Nat]
  /\ told \subseteq Requests

(* The input of a request is submitted to the native side at most once, over *)
(* lost and ambiguous acknowledgements, crashes and resumptions              *)
(* (DefinitionSession.ts:84-99).                                             *)
SubmittedOnce == \A r \in Requests : submitted[r] <= 1

(* A session never has two native inputs in progress: one whose end is not   *)
(* proven blocks the next, also after a crash (DefinitionSession.ts:91-98).  *)
OneNativeInput == Cardinality({r \in Requests : native[r] = "working"}) <= 1

(* A terminal result some caller got is in the record that will be resumed   *)
(* from, whatever crashes ("Seeing the candidate is not a durability         *)
(* acknowledgement", RuntimeSessionStorage.ts:161).                          *)
ToldIsStored == \A r \in told : stored.data.runs[r] = "terminal"

(* A terminal result is stored before a caller gets it, and nothing but the  *)
(* loss of an unacknowledged write takes it back: no retry, reconciliation,  *)
(* process crash or resumption (DefinitionSession.ts:125-147).               *)
ToldStaysStored == [][ToldIsStored /\ ~HostCrash => ToldIsStored']_vars

(* Once the terminal result of a run is saved, getRun() does not answer with *)
(* a run whose result has failed ("reads a saved terminal result or its      *)
(* current observer", USER_GUIDE.md:14891).                                  *)
SavedIsServed ==
  \A r \in Requests :
    (session \in {"open", "failed"} /\ Saved(r) = "terminal" /\ r \notin pendingResults)
      => runs[r] # "failed"
=============================================================================
