------------------------- MODULE SessionLedgerProofs --------------------------
(***************************************************************************)
(* The request ledger of a session for any number of requests and any      *)
(* number of writes, crashes and resumptions.                              *)
(*                                                                         *)
(* The argument is about the copies of the record: the stored one, the     *)
(* durable one, the one in memory and both sides of a pending write.  An   *)
(* admission is acknowledged before its input is submitted, so from then   *)
(* on every copy knows the request, and names it as the active run until   *)
(* its input has ended: whichever copy survives a crash, the request is    *)
(* found in it and no other is admitted.  A write is computed from the     *)
(* record in memory, which knows of no terminal result that the stored     *)
(* record does not know of, and a rewrite changes no data at all.          *)
(***************************************************************************)
EXTENDS SessionLedger, FiniteSetTheorems, TLAPS

Copies ==
  {stored.data, durable.data, record.data} \cup
  (IF pendingWrite = None THEN {} ELSE {pendingWrite.before.data, pendingWrite.data})

KnownEverywhere(r) == \A d \in Copies : d.runs[r] # "absent"
ActiveEverywhere(r) == \A d \in Copies : d.activeRunId = r
TerminalNowhere(r) == \A d \in Copies : d.runs[r] # "terminal"

LedgerTypes ==
  /\ stored \in Records /\ durable \in Records /\ record \in Records
  /\ pendingWrite \in PendingWrites \cup {None}

\* The stored record is the one in memory or the candidate of a pending write,
\* and a candidate whose acknowledgement is mandatory has been seen stored.
LedgerInv ==
  /\ pendingWrite = None => stored.data = record.data
  /\ pendingWrite # None =>
       /\ stored.data \in {record.data, pendingWrite.data}
       /\ \A r \in Requests : Saved(r) = "terminal" => pendingWrite.data.runs[r] = "terminal"
       /\ IF pendingWrite.acknowledgementRequired
          THEN pendingWrite.before.data = pendingWrite.data
          ELSE pendingWrite.before.data = record.data

\* No copy has a terminal result of an input that has not ended, and none has
\* its run as the active one.
CopiesInv ==
  \A d \in Copies, r \in Requests :
    d.runs[r] = "terminal" => native[r] = "ended" /\ d.activeRunId # r

\* A session that is not observed has nothing in the process.
DetachedInv ==
  session \in {"closed", "adopting"} =>
    /\ pendingWrite = None
    /\ admission = NoAdmission
    /\ runs = [r \in Requests |-> "none"]
    /\ pendingResults = {}

\* An input was submitted once or never; every copy knows its request, and has
\* it as the active run until the input ends.
InputInv ==
  \A r \in Requests :
    /\ submitted[r] = IF native[r] = "none" THEN 0 ELSE 1
    /\ native[r] # "none" => KnownEverywhere(r)
    /\ native[r] = "working" => ActiveEverywhere(r)

\* A request under admission has not been submitted; once admitted it is known
\* and active everywhere.
AdmissionInv ==
  \A r \in Requests :
    /\ At(r, "admitting") \/ At(r, "dispatching") \/ At(r, "rejecting") => native[r] = "none"
    /\ At(r, "dispatching") \/ At(r, "rejecting") => KnownEverywhere(r) /\ ActiveEverywhere(r)

\* A run that is observed is terminal in no copy, and a result that waits to be
\* stored is of an input that has ended.
WrapperInv ==
  \A r \in Requests :
    /\ runs[r] = "running" => TerminalNowhere(r)
    /\ runs[r] = "persisting" => native[r] = "ended"
    /\ r \in pendingResults => native[r] = "ended" /\ runs[r] # "running"

IInv ==
  /\ TypeOK /\ LedgerInv /\ CopiesInv
  /\ DetachedInv /\ InputInv /\ AdmissionInv /\ WrapperInv

-----------------------------------------------------------------------------
(* The data of an update.                                                    *)
LEMMA Written ==
  ASSUME TypeOK, NEW r \in Requests, NEW state \in RunStates,
         NEW active \in Requests \cup {None}
  PROVE  /\ With(r, state, active) \in Data
         /\ With(r, state, active).activeRunId = active
         /\ With(r, state, active).runs[r] = state
         /\ \A q \in Requests \ {r} : With(r, state, active).runs[q] = Saved(q)
BY DEF TypeOK, With, Data, Records, Saved

LEMMA RecordTyped ==
  ASSUME TypeOK
  PROVE  /\ record.data \in Data /\ stored.data \in Data /\ durable.data \in Data
         /\ Active \in Requests \cup {None}
         /\ \A r \in Requests : Saved(r) \in RunStates
BY DEF TypeOK, Records, Data, Active, Saved

(* What a write makes of the copies: an update adds its data, and replaces   *)
(* them all when it is acknowledged.                                         *)
LEMMA UpdateWrites ==
  ASSUME TypeOK, LedgerInv, NEW data \in Data, NEW outcome \in Outcomes,
         Update(data, outcome),
         \A r \in Requests : Saved(r) = "terminal" => data.runs[r] = "terminal"
  PROVE  /\ LedgerTypes' /\ LedgerInv'
         /\ Copies' \subseteq Copies \cup {data}
         /\ outcome = "acked" => Copies' = {data} /\ pendingWrite' = None
         /\ stored'.data \in {record.data, data}
<1> DEFINE next == [revision |-> record.revision + 1, data |-> data]
           p == [before |-> record, data |-> data, acknowledgementRequired |-> FALSE]
<1>1. next \in Records /\ next.data = data
  BY DEF TypeOK, Records
<1>2. /\ p \in PendingWrites /\ p # None
      /\ p.before = record /\ p.data = data /\ ~p.acknowledgementRequired
  <2>1. p \in PendingWrites
    BY DEF TypeOK, PendingWrites
  <2>2. p # None
    BY <2>1, NoneAssumption
  <2> QED BY <2>1, <2>2
<1>3. /\ stored' = (IF outcome = "lost" THEN stored ELSE next)
      /\ durable' = (IF outcome = "acked" THEN next ELSE durable)
      /\ pendingWrite = None /\ stored.data = record.data
  BY DEF Update, LeaseWrite, LedgerInv
<1> HIDE DEF next
<1>4. CASE outcome = "acked"
  <2>1. stored' = next /\ durable' = next /\ record' = next /\ pendingWrite' = None
    BY <1>3, <1>4 DEF Update
  <2>2. Copies' = {data}
    BY <1>1, <2>1 DEF Copies
  <2> QED BY <1>1, <1>3, <1>4, <2>1, <2>2 DEF LedgerTypes, LedgerInv, TypeOK
<1>5. CASE outcome # "acked"
  <2>1. pendingWrite' = p /\ record' = record /\ durable' = durable
    BY <1>3, <1>5 DEF Update
  <2> HIDE DEF p
  <2>2. stored'.data \in {record.data, data} /\ stored' \in Records
    BY <1>1, <1>3 DEF TypeOK
  <2>3. Copies' \subseteq Copies \cup {data}
    BY <1>2, <2>1, <2>2 DEF Copies
  <2>4. LedgerInv'
    BY <1>2, <2>1, <2>2 DEF LedgerInv, Saved
  <2> QED BY <1>2, <1>5, <2>1, <2>2, <2>3, <2>4 DEF LedgerTypes, TypeOK
<1> QED BY <1>4, <1>5

(* A rewrite stores again what is stored: its candidate has been seen.       *)
LEMMA RewriteWrites ==
  ASSUME TypeOK, LedgerInv, NEW outcome \in Outcomes, RewriteCandidate(outcome)
  PROVE  /\ LedgerTypes' /\ LedgerInv'
         /\ Copies' \subseteq Copies
         /\ stored'.data = stored.data
<1> DEFINE next == [revision |-> stored.revision + 1, data |-> pendingWrite.data]
           p == [before |-> stored, data |-> pendingWrite.data, acknowledgementRequired |-> TRUE]
<1>0. pendingWrite \in PendingWrites /\ pendingWrite # None
  BY DEF TypeOK, RewriteCandidate
<1>1. next \in Records /\ next.data = pendingWrite.data
  BY <1>0 DEF TypeOK, Records, PendingWrites
<1>2. /\ p \in PendingWrites /\ p # None
      /\ p.before = stored /\ p.data = pendingWrite.data /\ p.acknowledgementRequired
  <2>1. p \in PendingWrites
    BY <1>0 DEF TypeOK, PendingWrites
  <2>2. p # None
    BY <2>1, NoneAssumption
  <2> QED BY <2>1, <2>2
<1>3. stored.data = pendingWrite.data
  BY <1>0 DEF RewriteCandidate, NotCommitted, SeenCandidate, LedgerInv
<1>4. /\ stored' \in {stored, next} /\ durable' \in {durable, next}
      /\ outcome = "acked" => stored' = next /\ durable' = next
  BY DEF RewriteCandidate, LeaseWrite, Outcomes
<1> HIDE DEF next
<1>5. CASE outcome = "acked"
  <2>1. stored' = next /\ durable' = next /\ record' = next /\ pendingWrite' = None
    BY <1>4, <1>5 DEF RewriteCandidate
  <2> QED BY <1>0, <1>1, <1>3, <2>1 DEF LedgerTypes, LedgerInv, Copies
<1>6. CASE outcome # "acked"
  <2>1. pendingWrite' = p /\ record' = record
    BY <1>6 DEF RewriteCandidate
  <2> HIDE DEF p
  <2>2. stored'.data = stored.data /\ durable'.data \in {durable.data, stored.data}
    BY <1>1, <1>3, <1>4
  <2>3. LedgerTypes'
    BY <1>1, <1>2, <1>4, <2>1 DEF LedgerTypes, TypeOK
  <2>4. LedgerInv'
    BY <1>0, <1>2, <1>3, <2>1, <2>2 DEF LedgerInv, Saved
  <2>5. Copies' \subseteq Copies
    BY <1>0, <1>2, <1>3, <2>1, <2>2 DEF Copies
  <2> QED BY <2>2, <2>3, <2>4, <2>5
<1> QED BY <1>5, <1>6

LEMMA ForgetWrites ==
  ASSUME TypeOK, LedgerInv, Forget
  PROVE  /\ LedgerTypes' /\ LedgerInv'
         /\ Copies' \subseteq Copies
         /\ stored'.data = stored.data
<1>1. stored.data = record.data
  BY DEF Forget, NotCommitted, LedgerInv
<1> QED BY <1>1 DEF Forget, LedgerTypes, LedgerInv, Copies, TypeOK

LEMMA TriedWrites ==
  ASSUME TypeOK, LedgerInv, NEW data \in Data, NEW acknowledged \in BOOLEAN,
         TryUpdate(data, acknowledged),
         \A r \in Requests : Saved(r) = "terminal" => data.runs[r] = "terminal"
  PROVE  /\ LedgerTypes' /\ LedgerInv'
         /\ Copies' \subseteq Copies \cup {data}
         /\ acknowledged => Copies' = {data} /\ pendingWrite = None
         /\ stored'.data = stored.data \/ (pendingWrite = None /\ stored'.data = data)
<1>1. ASSUME NEW outcome \in Outcomes, Update(data, outcome), acknowledged = (outcome = "acked")
      PROVE  /\ LedgerTypes' /\ LedgerInv'
             /\ Copies' \subseteq Copies \cup {data}
             /\ acknowledged => Copies' = {data} /\ pendingWrite = None
             /\ stored'.data = stored.data \/ (pendingWrite = None /\ stored'.data = data)
  <2>1. pendingWrite = None /\ stored.data = record.data
    BY <1>1 DEF Update, LedgerInv
  <2> QED BY <1>1, <2>1, UpdateWrites
<1>2. ASSUME ~acknowledged, UNCHANGED ledger
      PROVE  /\ LedgerTypes' /\ LedgerInv'
             /\ Copies' \subseteq Copies \cup {data}
             /\ stored'.data = stored.data
  BY <1>2 DEF ledger, LedgerTypes, LedgerInv, Copies, TypeOK, Saved
<1>3. ASSUME NEW outcome \in Outcomes, RewriteCandidate(outcome)
      PROVE  /\ LedgerTypes' /\ LedgerInv'
             /\ Copies' \subseteq Copies \cup {data}
             /\ stored'.data = stored.data
  BY <1>3, RewriteWrites
<1> QED BY <1>1, <1>2, <1>3 DEF TryUpdate, Outcomes

(* What every copy had, and the added one has, every copy has.               *)
LEMMA CopiesKeep ==
  ASSUME NEW data, Copies' \subseteq Copies \cup {data}, NEW r \in Requests
  PROVE  /\ KnownEverywhere(r) /\ data.runs[r] # "absent" => KnownEverywhere(r)'
         /\ ActiveEverywhere(r) /\ data.activeRunId = r => ActiveEverywhere(r)'
         /\ TerminalNowhere(r) /\ data.runs[r] # "terminal" => TerminalNowhere(r)'
BY DEF KnownEverywhere, ActiveEverywhere, TerminalNowhere

LEMMA RecordIsCopy ==
  ASSUME NEW r \in Requests
  PROVE  /\ record.data \in Copies /\ stored.data \in Copies /\ durable.data \in Copies
         /\ KnownEverywhere(r) => Saved(r) # "absent"
         /\ ActiveEverywhere(r) => Active = r
         /\ TerminalNowhere(r) => Saved(r) # "terminal"
BY DEF Copies, KnownEverywhere, ActiveEverywhere, TerminalNowhere, Saved, Active

(* A run does not leave its terminal state.                                  *)
Progress(r, state, active) ==
  /\ state \in RunStates \ {"absent"}
  /\ active \in {None, r, Active}
  /\ Saved(r) = "terminal" => state = "terminal"
  /\ state = "terminal" => native[r] = "ended" /\ active # r

(* The update of one run, whether or not it is acknowledged.                 *)
LEMMA RunWrites ==
  ASSUME IInv, NEW r \in Requests, NEW state, NEW active, NEW acknowledged \in BOOLEAN,
         Progress(r, state, active),
         TryUpdate(With(r, state, active), acknowledged), native' = native
  PROVE  /\ LedgerTypes' /\ LedgerInv' /\ CopiesInv'
         /\ \A q \in Requests :
              /\ KnownEverywhere(q) => KnownEverywhere(q)'
              /\ ActiveEverywhere(q) /\ active = q => ActiveEverywhere(q)'
              /\ TerminalNowhere(q) /\ (q = r => state # "terminal") => TerminalNowhere(q)'
              /\ stored.data.runs[q] = "terminal" => stored'.data.runs[q] = "terminal"
         /\ acknowledged =>
              /\ pendingWrite = None /\ KnownEverywhere(r)'
              /\ active = r => ActiveEverywhere(r)'
              /\ stored'.data.runs[r] = state
<1> DEFINE data == With(r, state, active)
<1>0. /\ TypeOK /\ LedgerInv /\ CopiesInv
      /\ state \in RunStates /\ state # "absent" /\ active \in Requests \cup {None}
  BY RecordTyped DEF IInv, Progress
<1>1. /\ data \in Data /\ data.activeRunId = active /\ data.runs[r] = state
      /\ \A q \in Requests \ {r} : data.runs[q] = Saved(q)
  BY <1>0, Written
<1>2. \A q \in Requests : Saved(q) = "terminal" => data.runs[q] = "terminal"
  BY <1>1 DEF Progress
<1>3. TryUpdate(data, acknowledged)
  OBVIOUS
<1> HIDE DEF data
<1>4. /\ LedgerTypes' /\ LedgerInv'
      /\ Copies' \subseteq Copies \cup {data}
      /\ acknowledged => Copies' = {data} /\ pendingWrite = None
      /\ stored'.data = stored.data \/ (pendingWrite = None /\ stored'.data = data)
  BY <1>0, <1>1, <1>2, <1>3, TriedWrites
<1>5. CopiesInv'
  <2>1. ASSUME NEW q \in Requests, data.runs[q] = "terminal"
        PROVE  native[q] = "ended" /\ data.activeRunId # q
    <3>1. CASE q = r
      BY <1>1, <2>1, <3>1 DEF Progress
    <3>2. CASE q # r
      <4>1. Saved(q) = "terminal" /\ record.data \in Copies
        BY <1>1, <2>1, <3>2, RecordIsCopy
      <4>2. native[q] = "ended" /\ Active # q
        BY <1>0, <4>1 DEF CopiesInv, Saved, Active
      <4>3. q # None
        BY LedgerAssumption
      <4> QED BY <1>1, <3>2, <4>2, <4>3 DEF Progress
    <3> QED BY <3>1, <3>2
  <2> QED BY <1>0, <1>4, <2>1 DEF CopiesInv
<1>6. ASSUME NEW q \in Requests
      PROVE  /\ KnownEverywhere(q) => KnownEverywhere(q)'
             /\ ActiveEverywhere(q) /\ active = q => ActiveEverywhere(q)'
             /\ TerminalNowhere(q) /\ (q = r => state # "terminal") => TerminalNowhere(q)'
  <2>1. KnownEverywhere(q) => data.runs[q] # "absent"
    BY <1>0, <1>1, RecordIsCopy
  <2>2. TerminalNowhere(q) /\ (q = r => state # "terminal") => data.runs[q] # "terminal"
    BY <1>1, RecordIsCopy
  <2> QED BY <1>1, <1>4, <2>1, <2>2, CopiesKeep
<1>7. ASSUME NEW q \in Requests, stored.data.runs[q] = "terminal"
      PROVE  stored'.data.runs[q] = "terminal"
  BY <1>0, <1>2, <1>4, <1>7 DEF LedgerInv, Saved
<1>8. ASSUME acknowledged
      PROVE  /\ pendingWrite = None /\ KnownEverywhere(r)'
             /\ active = r => ActiveEverywhere(r)'
             /\ stored'.data.runs[r] = state
  <2>1. Copies' = {data} /\ pendingWrite = None
    BY <1>4, <1>8
  <2>2. stored'.data \in Copies'
    BY DEF Copies
  <2> QED BY <1>0, <1>1, <2>1, <2>2 DEF KnownEverywhere, ActiveEverywhere
<1> QED BY <1>4, <1>5, <1>6, <1>7, <1>8

(* The update of persistResult().                                            *)
LEMMA PersistsProgress ==
  ASSUME IInv, NEW r \in Requests, native[r] = "ended"
  PROVE  Progress(r, "terminal", IF Active = r THEN None ELSE Active)
BY LedgerAssumption DEF Progress, RunStates

(* With fewer copies, or the same ones, everything said of them holds.       *)
LEMMA FewerCopies ==
  ASSUME Copies' \subseteq Copies, native' = native
  PROVE  /\ CopiesInv => CopiesInv'
         /\ \A q \in Requests :
              /\ KnownEverywhere(q) => KnownEverywhere(q)'
              /\ ActiveEverywhere(q) => ActiveEverywhere(q)'
              /\ TerminalNowhere(q) => TerminalNowhere(q)'
BY DEF CopiesInv, KnownEverywhere, ActiveEverywhere, TerminalNowhere

LEMMA SameCopies ==
  ASSUME UNCHANGED ledger
  PROVE  /\ Copies' = Copies
         /\ LedgerInv => LedgerInv'
         /\ \A q \in Requests :
              /\ KnownEverywhere(q)' <=> KnownEverywhere(q)
              /\ ActiveEverywhere(q)' <=> ActiveEverywhere(q)
              /\ TerminalNowhere(q)' <=> TerminalNowhere(q)
BY DEF ledger, Copies, LedgerInv, Saved, KnownEverywhere, ActiveEverywhere, TerminalNowhere

LEMMA TerminalIsStored ==
  ASSUME LedgerInv, NEW r \in Requests, Saved(r) = "terminal"
  PROVE  stored.data.runs[r] = "terminal"
BY DEF LedgerInv, Saved

-----------------------------------------------------------------------------
LEMMA InitIInv == Init => IInv
<1> SUFFICES ASSUME Init PROVE IInv
  OBVIOUS
<1>1. Opened \in Records /\ Opened.data.activeRunId = None
  BY DEF Opened, Records, Data, RunStates
<1>2. TypeOK
  BY <1>1 DEF Init, TypeOK, NoAdmission
<1>3. Copies = {Opened.data}
  BY DEF Init, Copies
<1>4. CopiesInv
  BY <1>3 DEF CopiesInv, Opened
<1>5. LedgerInv /\ DetachedInv /\ InputInv /\ AdmissionInv /\ WrapperInv
  BY DEF Init, LedgerInv, DetachedInv, InputInv, AdmissionInv, WrapperInv, At, NoAdmission
<1> QED BY <1>2, <1>4, <1>5 DEF IInv

(* The actions that write nothing.                                           *)
LEMMA QuietSteps ==
  ASSUME IInv,
         \/ Resume
         \/ \E r \in Requests :
              \/ Run(r) \/ RefuseNew(r) \/ Inspect(r) \/ Dispatch(r) \/ FailToStart(r)
              \/ NativeEnds(r) \/ ObserveEnd(r) \/ Serve(r)
  PROVE  IInv' /\ (ToldIsStored => ToldIsStored')
<1> USE DEF IInv
<1>0. UNCHANGED ledger
  BY DEF Resume, Run, RefuseNew, Inspect, Dispatch, FailToStart, NativeEnds, ObserveEnd, Serve
<1>a. /\ stored' = stored /\ record' = record /\ durable' = durable
      /\ pendingWrite' = pendingWrite /\ Copies' = Copies /\ LedgerInv'
  BY <1>0, SameCopies DEF ledger
<1>b. \A q \in Requests : q \in told' => q \in told \/ stored.data.runs[q] = "terminal"
  BY TerminalIsStored
  DEF Resume, Run, RefuseNew, Inspect, Dispatch, FailToStart, NativeEnds, ObserveEnd, Serve,
      process, world
<1>c. ToldIsStored => ToldIsStored'
  <2>1. told' \subseteq Requests
    BY DEF Resume, Run, RefuseNew, Inspect, Dispatch, FailToStart, NativeEnds, ObserveEnd, Serve,
           process, world, TypeOK
  <2> QED BY <1>a, <1>b, <2>1 DEF ToldIsStored
<1>1. CASE Resume
  <2>1. TypeOK'
    BY <1>1, <1>a DEF Resume, TypeOK, world
  <2>2. DetachedInv'
    BY <1>1, <1>a DEF Resume, DetachedInv
  <2> QED BY <1>0, <1>1, <1>a, <1>c, <2>1, <2>2, SameCopies
       DEF Resume, world, CopiesInv, InputInv, AdmissionInv, At, WrapperInv
<1>2. ASSUME NEW r \in Requests, Run(r) PROVE IInv'
  <2>1. TypeOK'
    BY <1>2, <1>a DEF Run, TypeOK, world
  <2>2. DetachedInv'
    BY <1>2, <1>a DEF Run, DetachedInv
  <2>3. AdmissionInv'
    BY <1>2 DEF Run, AdmissionInv, At
  <2> QED BY <1>0, <1>2, <1>a, <2>1, <2>2, <2>3, SameCopies
       DEF Run, world, CopiesInv, InputInv, WrapperInv
<1>3. ASSUME NEW r \in Requests, RefuseNew(r) PROVE IInv'
  <2>1. TypeOK'
    BY <1>3, <1>a DEF RefuseNew, Settles, NoAdmission, TypeOK, world
  <2>2. DetachedInv'
    BY <1>3, <1>a DEF RefuseNew, Settles, DetachedInv
  <2>3. AdmissionInv'
    BY <1>3, LedgerAssumption DEF RefuseNew, Settles, NoAdmission, AdmissionInv, At
  <2> QED BY <1>0, <1>3, <1>a, <2>1, <2>2, <2>3, SameCopies
       DEF RefuseNew, world, CopiesInv, InputInv, WrapperInv
<1>4. ASSUME NEW r \in Requests, Inspect(r) PROVE IInv'
  <2>1. TypeOK'
    BY <1>4, <1>a DEF Inspect, ThenStep, TypeOK, world
  <2>2. DetachedInv'
    BY <1>4, <1>a DEF Inspect, DetachedInv
  <2>3. native[r] = "none"
    BY <1>4, RecordIsCopy DEF Inspect, InputInv
  <2>4. AdmissionInv'
    BY <1>4, <2>3 DEF Inspect, ThenStep, AdmissionInv, At, world
  <2> QED BY <1>0, <1>4, <1>a, <2>1, <2>2, <2>4, SameCopies
       DEF Inspect, world, CopiesInv, InputInv, WrapperInv
<1>5. ASSUME NEW r \in Requests, FailToStart(r) PROVE IInv'
  <2>1. TypeOK'
    BY <1>5, <1>a DEF FailToStart, ThenStep, TypeOK, world
  <2>2. DetachedInv'
    BY <1>5, <1>a DEF FailToStart, DetachedInv, At, NoAdmission
  <2>4. AdmissionInv'
    BY <1>0, <1>5, SameCopies DEF FailToStart, ThenStep, AdmissionInv, At, world
  <2> QED BY <1>0, <1>5, <1>a, <2>1, <2>2, <2>4, SameCopies
       DEF FailToStart, world, CopiesInv, InputInv, WrapperInv
<1>6. ASSUME NEW r \in Requests, Serve(r) PROVE IInv'
  <2>1. TypeOK'
    BY <1>6, <1>a DEF Serve, TypeOK, process
  <2> QED BY <1>0, <1>6, <1>a, <2>1, SameCopies
       DEF Serve, process, CopiesInv, DetachedInv, InputInv, AdmissionInv, At, WrapperInv
<1>7. ASSUME NEW r \in Requests, Dispatch(r) PROVE IInv'
  <2>0. native[r] = "none" /\ KnownEverywhere(r) /\ ActiveEverywhere(r)
    BY <1>7 DEF Dispatch, AdmissionInv
  <2>1. submitted[r] = 0 /\ submitted'[r] = 1
    BY <1>7, <2>0 DEF Dispatch, InputInv, TypeOK
  <2>2. TypeOK'
    <3>1. submitted' \in [Requests -> Nat]
      BY <1>7, <2>1 DEF Dispatch, TypeOK
    <3> QED BY <1>7, <1>a, <3>1 DEF Dispatch, Settles, NoAdmission, TypeOK
  <2>3. DetachedInv'
    BY <1>7, <1>a DEF Dispatch, DetachedInv, At, NoAdmission
  <2>4. AdmissionInv'
    BY <1>7, LedgerAssumption DEF Dispatch, Settles, NoAdmission, AdmissionInv, At
  <2>5. CopiesInv'
    BY <1>7, <1>a, <2>0 DEF Dispatch, CopiesInv, TypeOK
  <2>6. InputInv'
    BY <1>0, <1>7, <2>0, <2>1, SameCopies DEF Dispatch, InputInv, TypeOK
  <2>7. WrapperInv'
    <3>1. TerminalNowhere(r)
      BY <2>0 DEF CopiesInv, TerminalNowhere
    <3> QED BY <1>0, <1>7, <2>0, <3>1, SameCopies DEF Dispatch, WrapperInv, TypeOK
  <2> QED BY <1>a, <2>2, <2>3, <2>4, <2>5, <2>6, <2>7
<1>8. ASSUME NEW r \in Requests, NativeEnds(r) PROVE IInv'
  <2>1. TypeOK'
    BY <1>8, <1>a DEF NativeEnds, TypeOK, process
  <2>2. InputInv'
    BY <1>0, <1>8, SameCopies DEF NativeEnds, InputInv, TypeOK
  <2>3. CopiesInv'
    BY <1>8, <1>a DEF NativeEnds, CopiesInv, TypeOK
  <2>4. AdmissionInv'
    BY <1>0, <1>8, SameCopies DEF NativeEnds, process, AdmissionInv, At, TypeOK
  <2>5. WrapperInv'
    BY <1>0, <1>8, SameCopies DEF NativeEnds, process, WrapperInv, TypeOK
  <2> QED BY <1>8, <1>a, <2>1, <2>2, <2>3, <2>4, <2>5 DEF NativeEnds, process, DetachedInv
<1>9. ASSUME NEW r \in Requests, ObserveEnd(r) PROVE IInv'
  <2>1. TypeOK'
    BY <1>9, <1>a DEF ObserveEnd, TypeOK, world
  <2>2. DetachedInv'
    BY <1>9, <1>a DEF ObserveEnd, DetachedInv
  <2>5. WrapperInv'
    BY <1>0, <1>9, SameCopies DEF ObserveEnd, world, WrapperInv, TypeOK
  <2> QED BY <1>0, <1>9, <1>a, <2>1, <2>2, <2>5, SameCopies
       DEF ObserveEnd, world, CopiesInv, InputInv, AdmissionInv, At
<1> QED BY <1>c, <1>1, <1>2, <1>3, <1>4, <1>5, <1>6, <1>7, <1>8, <1>9

(* The actions that update the entry of one run.                             *)
LEMMA RunSteps ==
  ASSUME IInv, NEW r \in Requests,
         \/ FindSaved(r) \/ Admit(r) \/ Reject(r) \/ NativeAccepted(r)
         \/ LoseNative(r) \/ Report(r) \/ Repair(r)
  PROVE  IInv' /\ (ToldIsStored => ToldIsStored')
<1> USE DEF IInv
<1>0. UNCHANGED <<native, submitted>>
  BY DEF FindSaved, Admit, Reject, NativeAccepted, LoseNative, Report, Repair, world
<1>n. r # None
  BY LedgerAssumption
<1>1. CASE Admit(r)
  <2>0. native[r] = "none" /\ At(r, "admitting")
    BY <1>1 DEF Admit, AdmissionInv
  <2>u. UNCHANGED <<session, runs, pendingResults, world>>
    BY <1>1 DEF Admit
  <2>1. CASE UNCHANGED ledger /\ Settles(r, "failed")
    <3>1. TypeOK'
      BY <2>1, <2>u DEF ledger, Settles, NoAdmission, TypeOK, world
    <3>2. DetachedInv'
      BY <2>1, <2>u DEF ledger, Settles, DetachedInv
    <3>3. AdmissionInv'
      BY <2>1, LedgerAssumption DEF Settles, NoAdmission, AdmissionInv, At
    <3>4. ToldIsStored => ToldIsStored'
      BY <2>1, <2>u DEF ledger, world, ToldIsStored
    <3> QED BY <1>0, <2>1, <2>u, <3>1, <3>2, <3>3, <3>4, SameCopies
         DEF CopiesInv, InputInv, WrapperInv
  <2>2. ASSUME NEW acknowledged \in BOOLEAN,
               pendingWrite = None => Active = None,
               TryUpdate(With(r, "submitting", r), acknowledged),
               IF acknowledged THEN ThenStep(r, "dispatching") ELSE Settles(r, "failed")
        PROVE  IInv' /\ (ToldIsStored => ToldIsStored')
    <3>1. Progress(r, "submitting", r)
      BY <2>0, RecordIsCopy DEF Progress, RunStates, CopiesInv, Saved
    <3>2. /\ LedgerTypes' /\ LedgerInv' /\ CopiesInv'
          /\ \A q \in Requests :
               /\ KnownEverywhere(q) => KnownEverywhere(q)'
               /\ ActiveEverywhere(q) /\ r = q => ActiveEverywhere(q)'
               /\ TerminalNowhere(q) => TerminalNowhere(q)'
               /\ stored.data.runs[q] = "terminal" => stored'.data.runs[q] = "terminal"
          /\ acknowledged =>
               pendingWrite = None /\ KnownEverywhere(r)' /\ ActiveEverywhere(r)'
      BY <1>0, <2>2, <3>1, RunWrites
    <3>3. TypeOK'
      BY <2>2, <2>u, <3>2 DEF LedgerTypes, ThenStep, Settles, NoAdmission, TypeOK, world
    <3>4. DetachedInv'
      BY <2>0, <2>u DEF DetachedInv, At, NoAdmission
    <3>5. ASSUME NEW q \in Requests, native[q] = "working" PROVE ActiveEverywhere(q)'
      <4>1. ActiveEverywhere(q) /\ Active = q /\ q # None
        BY <3>5, RecordIsCopy, LedgerAssumption DEF InputInv
      <4>2. pendingWrite # None
        BY <2>2, <4>1
      <4>3. Copies' \subseteq Copies
        <5>1. \/ UNCHANGED ledger
              \/ \E outcome \in Outcomes : RewriteCandidate(outcome)
          BY <2>2, <4>2 DEF TryUpdate, Update, Outcomes
        <5> QED BY <5>1, SameCopies, RewriteWrites
      <4> QED BY <1>0, <4>1, <4>3, FewerCopies
    <3>6. InputInv'
      BY <1>0, <3>2, <3>5 DEF InputInv
    <3>7. AdmissionInv'
      <4>1. CASE acknowledged
        BY <1>0, <2>0, <2>2, <3>2, <4>1 DEF ThenStep, AdmissionInv, At
      <4>2. CASE ~acknowledged
        BY <2>2, <4>2, LedgerAssumption DEF Settles, NoAdmission, AdmissionInv, At
      <4> QED BY <4>1, <4>2
    <3>8. WrapperInv'
      BY <1>0, <2>u, <3>2 DEF WrapperInv
    <3>9. ToldIsStored => ToldIsStored'
      BY <2>u, <3>2 DEF world, ToldIsStored, TypeOK
    <3> QED BY <3>2, <3>3, <3>4, <3>6, <3>7, <3>8, <3>9
  <2> QED BY <1>1, <2>1, <2>2 DEF Admit
<1>2. CASE Reject(r)
  <2>0. native[r] = "none" /\ At(r, "rejecting") /\ KnownEverywhere(r) /\ ActiveEverywhere(r)
    BY <1>2 DEF Reject, AdmissionInv
  <2>u. UNCHANGED <<session, runs, pendingResults, world>> /\ Settles(r, "failed")
    BY <1>2 DEF Reject
  <2>1. Active = r
    BY <2>0, RecordIsCopy
  <2>2. Progress(r, "rejected", None)
    BY <2>0, RecordIsCopy DEF Progress, RunStates, CopiesInv, Saved
  <2>3. /\ LedgerTypes' /\ LedgerInv' /\ CopiesInv'
        /\ \A q \in Requests :
             /\ KnownEverywhere(q) => KnownEverywhere(q)'
             /\ TerminalNowhere(q) => TerminalNowhere(q)'
             /\ stored.data.runs[q] = "terminal" => stored'.data.runs[q] = "terminal"
    BY <1>0, <1>2, <2>2, RunWrites DEF Reject
  <2>4. TypeOK'
    BY <2>u, <2>3 DEF LedgerTypes, Settles, NoAdmission, TypeOK, world
  <2>5. DetachedInv'
    BY <2>0, <2>u DEF DetachedInv, At, NoAdmission
  <2>6. InputInv'
    <3>1. ASSUME NEW q \in Requests, native[q] = "working" PROVE FALSE
      BY <2>0, <2>1, <3>1, RecordIsCopy DEF InputInv
    <3> QED BY <1>0, <2>3, <3>1 DEF InputInv
  <2>7. AdmissionInv'
    BY <2>u, LedgerAssumption DEF Settles, NoAdmission, AdmissionInv, At
  <2>8. WrapperInv'
    BY <1>0, <2>u, <2>3 DEF WrapperInv
  <2>9. ToldIsStored => ToldIsStored'
    BY <2>u, <2>3 DEF world, ToldIsStored, TypeOK
  <2> QED BY <2>3, <2>4, <2>5, <2>6, <2>7, <2>8, <2>9
<1>3. ASSUME NEW state \in {"observing", "unknown"}, NEW acknowledged \in BOOLEAN,
             runs[r] = "running", TryUpdate(With(r, state, Active), acknowledged),
             UNCHANGED <<admission, requests, pendingResults, world>>,
             UNCHANGED <<session, runs>>
               \/ (session' = "failed" /\ runs' = [runs EXCEPT ![r] = "failed"])
      PROVE  IInv' /\ (ToldIsStored => ToldIsStored')
  <2>0. TerminalNowhere(r) /\ session \notin {"closed", "adopting"}
    BY <1>3 DEF WrapperInv, DetachedInv
  <2>1. Progress(r, state, Active)
    BY <1>3, <2>0, RecordIsCopy DEF Progress, RunStates
  <2>2. /\ LedgerTypes' /\ LedgerInv' /\ CopiesInv'
        /\ \A q \in Requests :
             /\ KnownEverywhere(q) => KnownEverywhere(q)'
             /\ ActiveEverywhere(q) /\ Active = q => ActiveEverywhere(q)'
             /\ TerminalNowhere(q) => TerminalNowhere(q)'
             /\ stored.data.runs[q] = "terminal" => stored'.data.runs[q] = "terminal"
    BY <1>0, <1>3, <2>1, RunWrites
  <2>3. \A q \in Requests : ActiveEverywhere(q) => ActiveEverywhere(q)'
    BY <2>2, RecordIsCopy
  <2>4. TypeOK'
    BY <1>3, <2>2 DEF LedgerTypes, TypeOK, world
  <2>5. DetachedInv'
    BY <1>3, <2>0 DEF DetachedInv
  <2>6. InputInv' /\ AdmissionInv'
    BY <1>0, <1>3, <2>2, <2>3 DEF InputInv, AdmissionInv, At
  <2>7. WrapperInv'
    BY <1>0, <1>3, <2>2 DEF WrapperInv, TypeOK
  <2>8. ToldIsStored => ToldIsStored'
    BY <1>3, <2>2 DEF world, ToldIsStored, TypeOK
  <2> QED BY <2>2, <2>4, <2>5, <2>6, <2>7, <2>8
<1>4. ASSUME NEW acknowledged \in BOOLEAN, Persists(r, acknowledged),
             native[r] = "ended", runs[r] # "running",
             session \notin {"closed", "adopting"}, session' = session,
             \/ UNCHANGED <<admission, requests>>
             \/ \E outcome \in {"run", "failed"} : Settles(r, outcome),
             runs' = runs \/ (\E to \in {"terminal", "failed"} : runs' = [runs EXCEPT ![r] = to]),
             told' = (IF acknowledged THEN told \cup {r} ELSE told)
      PROVE  IInv' /\ (ToldIsStored => ToldIsStored')
  <2> DEFINE active == IF Active = r THEN None ELSE Active
  <2>1. Progress(r, "terminal", active) /\ TryUpdate(With(r, "terminal", active), acknowledged)
    BY <1>4, PersistsProgress DEF Persists
  <2>p. pendingResults' \subseteq pendingResults
    BY <1>4 DEF Persists
  <2>a. ASSUME NEW q \in Requests, ActiveEverywhere(q), native[q] # "ended" PROVE active = q
    BY <1>4, <2>a, RecordIsCopy
  <2> HIDE DEF active
  <2>2. /\ LedgerTypes' /\ LedgerInv' /\ CopiesInv'
        /\ \A q \in Requests :
             /\ KnownEverywhere(q) => KnownEverywhere(q)'
             /\ ActiveEverywhere(q) /\ native[q] # "ended" => ActiveEverywhere(q)'
             /\ TerminalNowhere(q) /\ q # r => TerminalNowhere(q)'
             /\ stored.data.runs[q] = "terminal" => stored'.data.runs[q] = "terminal"
        /\ acknowledged => stored'.data.runs[r] = "terminal"
    BY <1>0, <2>1, <2>a, RunWrites
  <2>4. TypeOK'
    BY <1>0, <1>4, <2>2, <2>p DEF LedgerTypes, TypeOK, Settles, NoAdmission
  <2>5. DetachedInv'
    BY <1>4 DEF DetachedInv
  <2>6. InputInv'
    BY <1>0, <2>2 DEF InputInv
  <2>7. AdmissionInv'
    <3>1. CASE UNCHANGED <<admission, requests>>
      BY <1>0, <2>2, <3>1 DEF AdmissionInv, At
    <3>2. CASE admission' = NoAdmission
      BY <3>2, LedgerAssumption DEF NoAdmission, AdmissionInv, At
    <3> QED BY <1>4, <3>1, <3>2 DEF Settles
  <2>8. WrapperInv'
    <3>1. ASSUME NEW q \in Requests, runs'[q] = "running" PROVE runs[q] = "running" /\ q # r
      BY <1>4, <3>1 DEF TypeOK
    <3>2. ASSUME NEW q \in Requests, runs'[q] = "persisting" PROVE runs[q] = "persisting"
      BY <1>4, <3>2 DEF TypeOK
    <3> QED BY <1>0, <2>2, <2>p, <3>1, <3>2 DEF WrapperInv
  <2>9. ToldIsStored => ToldIsStored'
    BY <1>4, <2>2 DEF ToldIsStored, TypeOK
  <2> QED BY <2>2, <2>4, <2>5, <2>6, <2>7, <2>8, <2>9
<1>5. CASE NativeAccepted(r)
  BY <1>3, <1>5 DEF NativeAccepted, process, world
<1>6. CASE LoseNative(r)
  BY <1>3, <1>6 DEF LoseNative
<1>7. CASE Report(r)
  BY <1>4, <1>7 DEF Report, WrapperInv, DetachedInv
<1>8. CASE Repair(r)
  BY <1>4, <1>8 DEF Repair, WrapperInv, DetachedInv
<1>9. CASE FindSaved(r)
  <2>0. session \notin {"closed", "adopting"} /\ UNCHANGED <<session, runs, native, submitted>>
    BY <1>9 DEF FindSaved, DetachedInv, At, NoAdmission
  <2>1. CASE r \in pendingResults
    BY <1>4, <1>9, <2>0, <2>1 DEF FindSaved, WrapperInv
  <2>2. CASE r \notin pendingResults
    <3>1. UNCHANGED ledger /\ UNCHANGED pendingResults
      BY <1>9, <2>2 DEF FindSaved
    <3>2. admission' = NoAdmission /\ requests' \in [Requests -> {"none", "pending", "run", "failed"}]
      BY <1>9, <2>2 DEF FindSaved, Settles, TypeOK
    <3>3. told' = told \/ (told' = told \cup {r} /\ Saved(r) = "terminal")
      BY <1>9, <2>2 DEF FindSaved
    <3>4. TypeOK'
      BY <2>0, <3>1, <3>2, <3>3 DEF ledger, NoAdmission, TypeOK
    <3>5. AdmissionInv'
      BY <3>2, LedgerAssumption DEF NoAdmission, AdmissionInv, At
    <3>6. ToldIsStored => ToldIsStored'
      BY <3>1, <3>3, TerminalIsStored DEF ledger, ToldIsStored
    <3> QED BY <2>0, <3>1, <3>4, <3>5, <3>6, SameCopies
         DEF CopiesInv, DetachedInv, InputInv, WrapperInv
  <2> QED BY <2>1, <2>2
<1> QED BY <1>1, <1>2, <1>5, <1>6, <1>7, <1>8, <1>9

(* A reconciliation of its own step: what is stored stays.                   *)
LEMMA ReconcileSteps ==
  ASSUME IInv, Reconcile
  PROVE  IInv' /\ (ToldIsStored => ToldIsStored')
<1> USE DEF IInv
<1>1. UNCHANGED <<process, world>> /\ session \notin {"closed", "adopting"}
  BY DEF Reconcile
<1>2. /\ LedgerTypes' /\ LedgerInv' /\ Copies' \subseteq Copies
      /\ stored'.data = stored.data
  <2>1. "acked" \in Outcomes
    BY DEF Outcomes
  <2> QED BY <2>1, RewriteWrites, ForgetWrites DEF Reconcile
<1>3. /\ session' = session /\ admission' = admission /\ requests' = requests /\ runs' = runs
      /\ pendingResults' = pendingResults /\ native' = native /\ submitted' = submitted
      /\ told' = told
  BY <1>1 DEF process, world
<1>4. TypeOK'
  BY <1>2, <1>3 DEF LedgerTypes, TypeOK
<1>5. DetachedInv' /\ (ToldIsStored => ToldIsStored')
  BY <1>1, <1>2, <1>3 DEF DetachedInv, ToldIsStored
<1>6. CopiesInv' /\ InputInv' /\ AdmissionInv' /\ WrapperInv'
  BY <1>2, <1>3, FewerCopies DEF InputInv, AdmissionInv, At, WrapperInv
<1> QED BY <1>2, <1>4, <1>5, <1>6

(* A crash leaves the stored or the durable record, and nothing else.        *)
LEMMA CrashSteps ==
  ASSUME IInv, NEW survivor \in {stored, durable}, Forgets(survivor),
         durable' \in {durable, survivor}
  PROVE  IInv'
<1> USE DEF IInv
<1>1. /\ session' = "closed" /\ stored' = survivor /\ record' = survivor /\ pendingWrite' = None
      /\ admission' = NoAdmission /\ requests' = [r \in Requests |-> "none"]
      /\ runs' = [r \in Requests |-> "none"] /\ pendingResults' = {}
      /\ native' = native /\ submitted' = submitted /\ told' = told
  BY DEF Forgets, world
<1>2. Copies' \subseteq Copies
  BY <1>1 DEF Copies
<1>3. TypeOK'
  BY <1>1 DEF TypeOK, NoAdmission
<1>4. LedgerInv' /\ DetachedInv'
  BY <1>1 DEF LedgerInv, DetachedInv
<1>5. CopiesInv' /\ InputInv'
  BY <1>1, <1>2, FewerCopies DEF InputInv
<1>6. AdmissionInv' /\ WrapperInv'
  BY <1>1, LedgerAssumption DEF AdmissionInv, At, NoAdmission, WrapperInv
<1> QED BY <1>3, <1>4, <1>5, <1>6

(* An adoption writes the record as it is, and then observes the active run. *)
LEMMA AdoptSteps ==
  ASSUME IInv, Adopt
  PROVE  IInv' /\ (ToldIsStored => ToldIsStored')
<1> USE DEF IInv
<1>0. /\ pendingWrite = None /\ stored.data = record.data
      /\ admission = NoAdmission /\ runs = [r \in Requests |-> "none"] /\ pendingResults = {}
      /\ record.data \in Data
  BY RecordTyped DEF Adopt, DetachedInv, LedgerInv
<1>1. /\ admission' = admission /\ requests' = requests /\ pendingResults' = pendingResults
      /\ native' = native /\ submitted' = submitted /\ told' = told
  BY DEF Adopt, world
<1>2. /\ session' \in {"open", "closed"}
      /\ session' = "closed" => runs' = runs /\ pendingWrite' = None
      /\ session' = "open" => runs' = [runs EXCEPT ![Active] = "running"] /\ Copies' = {record.data}
      /\ LedgerTypes' /\ LedgerInv' /\ Copies' \subseteq Copies
      /\ stored'.data = stored.data
  <2>1. CASE Update(record.data, "acked") /\ session' = "open"
                 /\ runs' = [runs EXCEPT ![Active] = "running"]
    <3>1. "acked" \in Outcomes
      BY DEF Outcomes
    <3>2. /\ LedgerTypes' /\ LedgerInv' /\ Copies' = {record.data}
          /\ stored'.data = record.data
      BY <1>0, <2>1, <3>1, UpdateWrites DEF Saved
    <3> QED BY <1>0, <2>1, <3>2 DEF Copies
  <2>2. ASSUME NEW outcome \in {"lost", "unacked"},
               LeaseWrite(record.data, record.revision, outcome),
               record' = stored', session' = "closed", UNCHANGED <<pendingWrite, runs>>
        PROVE  /\ LedgerTypes' /\ LedgerInv' /\ Copies' \subseteq Copies
               /\ stored'.data = stored.data
    <3> DEFINE next == [revision |-> record.revision + 1, data |-> record.data]
    <3>1. next \in Records /\ next.data = record.data
      BY DEF TypeOK, Records
    <3>2. stored' \in {stored, next} /\ durable' = durable
      BY <2>2 DEF LeaseWrite
    <3> HIDE DEF next
    <3>3. stored'.data = stored.data /\ record'.data = record.data
      BY <1>0, <2>2, <3>1, <3>2
    <3>4. LedgerTypes' /\ LedgerInv'
      BY <1>0, <2>2, <3>1, <3>2, <3>3 DEF LedgerTypes, LedgerInv, TypeOK
    <3> QED BY <1>0, <2>2, <3>2, <3>3, <3>4 DEF Copies
  <2> QED BY <1>0, <2>1, <2>2 DEF Adopt
<1>3. TypeOK'
  BY <1>0, <1>1, <1>2 DEF LedgerTypes, TypeOK
<1>4. DetachedInv'
  BY <1>0, <1>1, <1>2 DEF DetachedInv
<1>5. CopiesInv' /\ InputInv' /\ AdmissionInv'
  BY <1>1, <1>2, FewerCopies DEF InputInv, AdmissionInv, At
<1>6. WrapperInv'
  <2>1. ASSUME NEW r \in Requests, runs'[r] # "none"
        PROVE  runs'[r] = "running" /\ r = Active /\ Copies' = {record.data}
    BY <1>0, <1>2, <2>1
  <2>2. ASSUME NEW r \in Requests, r = Active, Copies' = {record.data} PROVE TerminalNowhere(r)'
    BY <2>2, RecordIsCopy DEF TerminalNowhere, CopiesInv, Active
  <2> QED BY <1>0, <1>1, <2>1, <2>2 DEF WrapperInv
<1>7. ToldIsStored => ToldIsStored'
  BY <1>1, <1>2 DEF ToldIsStored
<1> QED BY <1>2, <1>3, <1>4, <1>5, <1>6, <1>7

-----------------------------------------------------------------------------
LEMMA StepIInv ==
  ASSUME IInv, [Next]_vars
  PROVE  IInv' /\ (ToldIsStored /\ ~HostCrash => ToldIsStored')
<1>1. CASE UNCHANGED vars
  <2>1. /\ UNCHANGED ledger /\ session' = session /\ admission' = admission
        /\ requests' = requests /\ runs' = runs /\ pendingResults' = pendingResults
        /\ native' = native /\ submitted' = submitted /\ told' = told
    BY <1>1 DEF vars, process, world
  <2>2. TypeOK' /\ CopiesInv' /\ DetachedInv'
    BY <2>1, SameCopies DEF IInv, ledger, TypeOK, CopiesInv, DetachedInv
  <2>3. LedgerInv' /\ InputInv' /\ AdmissionInv' /\ WrapperInv'
    BY <2>1, SameCopies DEF IInv, InputInv, AdmissionInv, At, WrapperInv
  <2> QED BY <2>1, <2>2, <2>3 DEF IInv, ledger, ToldIsStored
<1>2. CASE Reconcile
  BY <1>2, ReconcileSteps
<1>3. CASE ProcessCrash
  <2>1. IInv'
    BY <1>3, CrashSteps DEF ProcessCrash
  <2>2. ToldIsStored => ToldIsStored'
    BY <1>3 DEF ProcessCrash, Forgets, world, ToldIsStored
  <2> QED BY <2>1, <2>2
<1>4. CASE HostCrash
  <2>1. IInv'
    BY <1>4, CrashSteps DEF HostCrash
  <2> QED BY <1>4, <2>1
<1>5. CASE Resume
  BY <1>5, QuietSteps
<1>6. CASE Adopt
  BY <1>6, AdoptSteps
<1>7. ASSUME NEW r \in Requests,
             \/ Run(r) \/ FindSaved(r) \/ RefuseNew(r) \/ Inspect(r) \/ Admit(r)
             \/ Dispatch(r) \/ FailToStart(r) \/ Reject(r)
             \/ NativeAccepted(r) \/ NativeEnds(r) \/ ObserveEnd(r) \/ LoseNative(r)
             \/ Report(r) \/ Repair(r) \/ Serve(r)
      PROVE  IInv' /\ (ToldIsStored => ToldIsStored')
  BY <1>7, QuietSteps, RunSteps
<1> QED BY <1>1, <1>2, <1>3, <1>4, <1>5, <1>6, <1>7 DEF Next

THEOREM LedgerInvariant == Spec => []IInv
BY InitIInv, StepIInv, PTL DEF Spec

(* Every variable has its type, for any requests and any bound on revisions. *)
THEOREM LedgerTyped == Spec => []TypeOK
BY LedgerInvariant, PTL DEF IInv

(* The input of a request is submitted to the native side at most once, over *)
(* lost and ambiguous acknowledgements, crashes and resumptions              *)
(* (DefinitionSession.ts:84-99): every copy of the record knows it before.   *)
THEOREM InputSubmittedOnce == Spec => []SubmittedOnce
<1>1. IInv => SubmittedOnce
  BY DEF IInv, InputInv, SubmittedOnce
<1> QED BY <1>1, LedgerInvariant, PTL

(* A session has at most one native input in progress, also after crashes    *)
(* and resumptions (DefinitionSession.ts:91-98): every copy of the record    *)
(* names it as the active run until it has ended.                            *)
THEOREM OneInputAtATime == Spec => []OneNativeInput
<1>1. ASSUME IInv PROVE OneNativeInput
  <2> DEFINE working == {r \in Requests : native[r] = "working"}
  <2>1. \A r \in working : r = Active
    BY <1>1, RecordIsCopy DEF IInv, InputInv
  <2>2. working = {} \/ working = {Active}
    BY <2>1
  <2>3. Cardinality(working) \in {0, 1}
    BY <2>2, FS_EmptySet, FS_Singleton
  <2> QED BY <2>3 DEF OneNativeInput
<1> QED BY <1>1, LedgerInvariant, PTL

(* A terminal result some caller got stays in the stored record: only a host *)
(* crash that loses an unacknowledged write takes it back, no retry,         *)
(* reconciliation, process crash or resumption (DefinitionSession.ts:125-147). *)
THEOREM ResultsStayStored == Spec => ToldStaysStored
<1>1. ASSUME IInv, [Next]_vars PROVE [ToldIsStored /\ ~HostCrash => ToldIsStored']_vars
  BY <1>1, StepIInv
<1> QED BY <1>1, LedgerInvariant, PTL DEF Spec, ToldStaysStored

=============================================================================
