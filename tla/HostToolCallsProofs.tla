-------------------------- MODULE HostToolCallsProofs --------------------------
(***************************************************************************)
(* The chain of host tool calls for any set of call ids, any number of     *)
(* runs and of requests: one call is at work at a time, and after a call   *)
(* that failed none of its run starts an action.                           *)
(*                                                                         *)
(* A call id is asked under one of two keys, and the later key only once   *)
(* the outbox knows the id from an earlier run.  Runs follow each other,   *)
(* so an id that acted in a run finds its own entry when the run repeats   *)
(* it, and no later request of another run shares the key.                 *)
(***************************************************************************)
EXTENDS HostToolCalls, TLAPS

\* Every request is chained on the one before it.
ChainIsLinear == \A n \in 1..Len(jobs) : jobs[n].after = n - 1

\* A request is of a run that was begun.
RunsAreBegun == \A n \in 1..Len(jobs) : jobs[n].run \in 1..begun

\* A call acts after its turn only, and a failed one has stopped its run.
PhasesKnow ==
  \A n \in 1..Len(jobs) :
    /\ jobs[n].phase \in {"waiting", "admitting"} => ~jobs[n].acted
    /\ jobs[n].phase = "failed" => jobs[n].run \in aborted

IInv == TypeOK /\ ChainIsLinear /\ RunsAreBegun /\ PhasesKnow /\ Serialized /\ FailureStopsRun

-----------------------------------------------------------------------------
LEMMA InitIInv == Init => IInv
<1> SUFFICES ASSUME Init PROVE IInv
  OBVIOUS
<1>1. jobs = <<>> /\ jobs \in Seq(Jobs) /\ Len(jobs) = 0
  BY DEF Init
<1>2. DOMAIN jobs = {} /\ 1..Len(jobs) = {}
  BY <1>1
<1>3. outbox \in [Keys -> [state : {"absent", "executing", "unknown", "settled"}, run : 0..LastRun]]
  BY HostToolAssumption DEF Init, NoEntry
<1>4. LastRun \in Nat /\ MaxJobs \in Nat
  BY HostToolAssumption DEF HostToolAssumption
<1>5. durable \in BOOLEAN /\ closed \in BOOLEAN
  BY Zenon DEF Init
<1>6. TypeOK
  BY <1>1, <1>3, <1>4, <1>5 DEF Init, TypeOK
<1> QED
  BY <1>1, <1>2, <1>6 DEF IInv, ChainIsLinear, RunsAreBegun, PhasesKnow, Serialized, FailureStopsRun

\* What leaves the requests alone and aborts no more than the current run.
LEMMA SessionSteps ==
  ASSUME IInv, beginRun \/ endRun \/ AbortRun \/ close
  PROVE  IInv'
<1>1. UNCHANGED jobs /\ aborted \subseteq aborted' /\ begun \in Nat /\ begun' \in {begun, begun + 1}
  BY DEF IInv, TypeOK, beginRun, endRun, AbortRun, close
<1>2. LastRun \in Nat /\ MaxJobs \in Nat
  BY HostToolAssumption DEF HostToolAssumption
<1>3. (durable \in BOOLEAN /\ closed \in BOOLEAN)'
  BY Zenon DEF IInv, TypeOK, beginRun, endRun, AbortRun, close
<1>4. /\ run' \in 0..LastRun /\ begun' \in 0..LastRun /\ run' \in {0, begun'}
      /\ aborted' \subseteq 1..begun' /\ UNCHANGED <<jobs, tail, outbox>>
  <2>0. run \in 0..LastRun /\ begun \in 0..LastRun /\ run \in {0, begun} /\ aborted \subseteq 1..begun
    BY DEF IInv, TypeOK
  <2>1. CASE beginRun
    BY <1>2, <2>0, <2>1 DEF beginRun
  <2>2. CASE endRun
    BY <1>2, <2>0, <2>2 DEF endRun
  <2>3. CASE AbortRun
    BY <1>2, <2>0, <2>3 DEF AbortRun
  <2>4. CASE close
    BY <2>0, <2>4 DEF close
  <2> QED BY <2>1, <2>2, <2>3, <2>4
<1>5. TypeOK'
  BY <1>3, <1>4 DEF IInv, TypeOK
<1> QED
  BY <1>1, <1>5 DEF IInv, ChainIsLinear, RunsAreBegun, PhasesKnow, Serialized, FailureStopsRun

LEMMA executeStep ==
  ASSUME IInv, NEW c \in Calls, execute(c)
  PROVE  IInv'
<1> DEFINE job == [run |-> run, call |-> c, key |-> ledgerKey(c), after |-> tail,
                   phase |-> "waiting", acted |-> FALSE, answer |-> 0]
<1>1. /\ jobs' = Append(jobs, job) /\ tail' = Len(jobs) + 1
      /\ UNCHANGED <<durable, run, begun, aborted, closed, outbox>>
      /\ Len(jobs) < MaxJobs /\ run # 0
  BY DEF execute
<1>2. jobs \in Seq(Jobs) /\ Len(jobs) \in Nat /\ tail = Len(jobs) /\ run \in 1..LastRun
  BY <1>1, HostToolAssumption DEF HostToolAssumption, IInv, TypeOK
<1>3. ledgerKey(c) \in Keys
  BY <1>2 DEF ledgerKey, Keys, Runs
<1>4. job \in Jobs
  BY <1>1, <1>2, <1>3, HostToolAssumption DEF Jobs, Runs
<1>5. /\ jobs' \in Seq(Jobs) /\ Len(jobs') = Len(jobs) + 1
      /\ \A n \in 1..Len(jobs) : jobs'[n] = jobs[n]
      /\ jobs'[Len(jobs) + 1] = job
  BY <1>1, <1>2, <1>4
<1>6. TypeOK'
  BY <1>1, <1>2, <1>5, HostToolAssumption DEF IInv, TypeOK
<1>7. \A n \in 1..Len(jobs') : n \in 1..Len(jobs) \/ n = Len(jobs) + 1
  BY <1>2, <1>5
<1>8. (ChainIsLinear /\ RunsAreBegun /\ PhasesKnow)'
  BY <1>1, <1>2, <1>5, <1>7 DEF TypeOK, IInv, ChainIsLinear, RunsAreBegun, PhasesKnow
<1>9. DOMAIN jobs = 1..Len(jobs) /\ DOMAIN jobs' = 1..Len(jobs')
  BY <1>2, <1>5
<1>10. Serialized'
  <2> SUFFICES ASSUME NEW m \in DOMAIN jobs', NEW n \in DOMAIN jobs',
                      m < n, jobs'[n].phase # "waiting"
               PROVE  jobs'[m].phase \in {"delivered", "failed"}
    BY DEF Serialized
  <2>1. n \in 1..Len(jobs) /\ m \in 1..Len(jobs)
    BY <1>2, <1>5, <1>7, <1>9
  <2> QED BY <2>1, <1>5, <1>9 DEF IInv, Serialized
<1>11. FailureStopsRun'
  <2> SUFFICES ASSUME NEW m \in DOMAIN jobs', NEW n \in DOMAIN jobs',
                      m < n, jobs'[m].run = jobs'[n].run, jobs'[m].phase = "failed"
               PROVE  ~jobs'[n].acted
    BY DEF FailureStopsRun
  <2>1. CASE n = Len(jobs) + 1
    BY <2>1, <1>5
  <2>2. CASE n \in 1..Len(jobs)
    <3>1. m \in 1..Len(jobs) BY <2>2, <1>2, <1>7, <1>9
    <3> QED BY <2>2, <3>1, <1>5, <1>9 DEF IInv, FailureStopsRun
  <2> QED BY <2>1, <2>2, <1>7, <1>9
<1> QED BY <1>6, <1>8, <1>10, <1>11 DEF IInv

-----------------------------------------------------------------------------
\* What a step of job n does to the requests: n alone changes, the same request
\* in another phase, and an action starts only for a run that still wants it.
OnlyJob(n) ==
  /\ n \in DOMAIN jobs /\ begun' = begun
  /\ jobs' \in Seq(Jobs) /\ Len(jobs') = Len(jobs)
  /\ \A m \in DOMAIN jobs : m # n => jobs'[m] = jobs[m]
  /\ jobs'[n].run = jobs[n].run /\ jobs'[n].after = jobs[n].after
  /\ jobs[n].phase \notin {"delivered", "failed"} /\ jobs'[n].phase # "waiting"
  /\ jobs[n].phase = "waiting" => Turn(n)
  /\ jobs'[n].phase \in {"waiting", "admitting"} => ~jobs'[n].acted
  /\ jobs'[n].phase = "failed" => jobs[n].run \in aborted'
  /\ jobs'[n].acted => jobs[n].acted \/ jobs[n].run \notin aborted
  /\ aborted \subseteq aborted'

\* The one argument for all of them: before its turn every request has settled, so
\* no other is at work, and a run that is not aborted has had no failure.
LEMMA OnlyJobKeeps ==
  ASSUME IInv, NEW n, OnlyJob(n), TypeOK'
  PROVE  IInv'
<1>1. /\ n \in 1..Len(jobs) /\ Len(jobs) \in Nat
      /\ DOMAIN jobs = 1..Len(jobs) /\ DOMAIN jobs' = 1..Len(jobs)
  BY DEF IInv, TypeOK, OnlyJob
<1>2. \A m \in 1..Len(jobs) : m < n => jobs[m].phase \in {"delivered", "failed"}
  <2> SUFFICES ASSUME NEW m \in 1..Len(jobs), m < n
               PROVE  jobs[m].phase \in {"delivered", "failed"}
    OBVIOUS
  <2>1. CASE jobs[n].phase # "waiting"
    BY <1>1, <2>1 DEF IInv, Serialized
  <2>2. CASE jobs[n].phase = "waiting"
    <3>1. n - 1 \in 1..Len(jobs) /\ jobs[n].after = n - 1 /\ n - 1 # 0
      BY <1>1 DEF IInv, ChainIsLinear
    <3>2. jobs[n - 1].phase \in {"delivered", "failed"}
      BY <3>1, <2>2 DEF OnlyJob, Turn
    <3>3. m = n - 1 \/ m < n - 1
      BY <1>1
    <3> QED BY <1>1, <3>1, <3>2, <3>3 DEF IInv, Serialized
  <2> QED BY <2>1, <2>2
<1>3. ChainIsLinear' /\ RunsAreBegun' /\ PhasesKnow'
  BY <1>1 DEF IInv, OnlyJob, ChainIsLinear, RunsAreBegun, PhasesKnow
<1>4. Serialized'
  <2> SUFFICES ASSUME NEW k \in 1..Len(jobs), NEW m \in 1..Len(jobs),
                      k < m, jobs'[m].phase # "waiting"
               PROVE  jobs'[k].phase \in {"delivered", "failed"}
    BY <1>1 DEF Serialized
  <2>1. CASE m = n
    BY <2>1, <1>1, <1>2 DEF OnlyJob
  <2>2. CASE m # n
    <3>1. jobs[k].phase \in {"delivered", "failed"}
      BY <2>2, <1>1 DEF IInv, Serialized, OnlyJob
    <3> QED BY <3>1, <1>1 DEF OnlyJob
  <2> QED BY <2>1, <2>2
<1>5. FailureStopsRun'
  <2> SUFFICES ASSUME NEW k \in 1..Len(jobs), NEW m \in 1..Len(jobs), k < m,
                      jobs'[k].run = jobs'[m].run, jobs'[k].phase = "failed", jobs'[m].acted
               PROVE  FALSE
    BY <1>1 DEF FailureStopsRun
  <2>1. CASE k = n
    <3>1. jobs[n].phase \notin {"delivered", "failed"} /\ jobs'[m] = jobs[m]
      BY <2>1, <1>1 DEF OnlyJob
    <3>2. jobs[m].phase = "waiting"
      BY <2>1, <3>1, <1>1 DEF IInv, Serialized
    <3> QED BY <3>1, <3>2, <1>1 DEF IInv, PhasesKnow
  <2>2. CASE m = n
    <3>1. jobs'[k] = jobs[k] /\ jobs'[n].run = jobs[n].run
      BY <2>2, <1>1 DEF OnlyJob
    <3>2. jobs[k].run \in aborted
      BY <3>1, <1>1 DEF IInv, PhasesKnow
    <3>3. jobs[n].acted
      BY <2>2, <3>1, <3>2 DEF OnlyJob
    <3> QED BY <2>2, <3>1, <3>3, <1>1 DEF IInv, FailureStopsRun
  <2>3. CASE k # n /\ m # n
    BY <2>3, <1>1 DEF IInv, FailureStopsRun, OnlyJob
  <2> QED BY <2>1, <2>2, <2>3
<1> QED BY <1>3, <1>4, <1>5 DEF IInv

-----------------------------------------------------------------------------
\* What is common to all steps of job n: it has its turn, or is at work.
AtWork(n) ==
  /\ n \in DOMAIN jobs /\ jobs[n].phase \in {"waiting"} \cup Active
  /\ jobs[n].phase = "waiting" => Turn(n)
  /\ UNCHANGED <<durable, run, begun, closed, tail>>

\* A step that replaces the record of n.
LEMMA ReplacedJob ==
  ASSUME TypeOK, NEW n \in DOMAIN jobs, NEW j \in Jobs, jobs' = [jobs EXCEPT ![n] = j]
  PROVE  /\ jobs' \in Seq(Jobs) /\ Len(jobs') = Len(jobs)
         /\ \A m \in DOMAIN jobs : m # n => jobs'[m] = jobs[m]
         /\ jobs'[n] = j
  BY DEF TypeOK

LEMMA JobFields ==
  ASSUME TypeOK, NEW n \in DOMAIN jobs
  PROVE  /\ jobs[n] \in Jobs
         /\ \A p \in {"waiting", "delivered", "failed"} \cup Active :
              [jobs[n] EXCEPT !.phase = p] \in Jobs
         /\ [jobs[n] EXCEPT !.phase = "acting", !.acted = TRUE] \in Jobs
         /\ \A r \in 0..LastRun : [jobs[n] EXCEPT !.phase = "delivered", !.answer = r] \in Jobs
<1>1. jobs[n] \in Jobs
  BY DEF TypeOK
<1>2. \A p \in {"waiting", "delivered", "failed"} \cup Active : [jobs[n] EXCEPT !.phase = p] \in Jobs
  BY <1>1 DEF Jobs
<1>3. [jobs[n] EXCEPT !.phase = "acting", !.acted = TRUE] \in Jobs
  BY <1>1 DEF Jobs, Active
<1>4. \A r \in 0..LastRun : [jobs[n] EXCEPT !.phase = "delivered", !.answer = r] \in Jobs
  BY <1>1 DEF Jobs
<1> QED BY <1>1, <1>2, <1>3, <1>4

\* The rest of the state keeps its type in every step of a job.
LEMMA JobTypes ==
  ASSUME TypeOK, jobs' \in Seq(Jobs), Len(jobs') = Len(jobs), aborted' \subseteq 1..begun,
         outbox' \in [Keys -> [state : {"absent", "executing", "unknown", "settled"}, run : 0..LastRun]],
         UNCHANGED <<durable, run, begun, closed, tail>>
  PROVE  TypeOK'
<1>1. (durable \in BOOLEAN /\ closed \in BOOLEAN)'
  BY Zenon DEF TypeOK
<1> QED BY <1>1 DEF TypeOK

Entries == [Keys -> [state : {"absent", "executing", "unknown", "settled"}, run : 0..LastRun]]

LEMMA GoStep ==
  ASSUME IInv, NEW n, AtWork(n), NEW p \in Active, p = "admitting" => jobs[n].phase = "waiting",
         Go(n, p), outbox' \in Entries
  PROVE  IInv'
<1>1. jobs' = [jobs EXCEPT ![n] = [jobs[n] EXCEPT !.phase = p]] /\ aborted' = aborted
  BY DEF Go
<1>2. TypeOK /\ n \in DOMAIN jobs /\ [jobs[n] EXCEPT !.phase = p] \in Jobs /\ jobs[n] \in Jobs
  BY JobFields DEF IInv, AtWork
<1>3. TypeOK'
  BY <1>1, <1>2, ReplacedJob, JobTypes DEF Entries, AtWork, TypeOK
<1>4. OnlyJob(n)
  <2>1. jobs'[n] = [jobs[n] EXCEPT !.phase = p]
    BY <1>1, <1>2, ReplacedJob
  <2>2. jobs'[n].phase = p /\ jobs'[n].acted = jobs[n].acted /\ jobs'[n].run = jobs[n].run
        /\ jobs'[n].after = jobs[n].after
    BY <2>1, <1>2 DEF Jobs
  <2>3. jobs[n].phase = "waiting" => ~jobs[n].acted
    BY <1>2 DEF IInv, TypeOK, PhasesKnow
  <2> QED BY <1>1, <1>2, <2>2, <2>3, ReplacedJob DEF OnlyJob, AtWork, Active
<1> QED BY <1>3, <1>4, OnlyJobKeeps

LEMMA DeliverStep ==
  ASSUME IInv, NEW n, AtWork(n), NEW from \in 0..LastRun, Deliver(n, from), outbox' \in Entries
  PROVE  IInv'
<1>1. jobs' = [jobs EXCEPT ![n] = [jobs[n] EXCEPT !.phase = "delivered", !.answer = from]]
      /\ aborted' = aborted
  BY DEF Deliver
<1>2. TypeOK /\ n \in DOMAIN jobs /\ jobs[n] \in Jobs
      /\ [jobs[n] EXCEPT !.phase = "delivered", !.answer = from] \in Jobs
  BY JobFields DEF IInv, AtWork
<1>3. TypeOK'
  BY <1>1, <1>2, ReplacedJob, JobTypes DEF Entries, AtWork, TypeOK
<1>4. OnlyJob(n)
  <2>1. jobs'[n] = [jobs[n] EXCEPT !.phase = "delivered", !.answer = from]
    BY <1>1, <1>2, ReplacedJob
  <2>2. jobs'[n].phase = "delivered" /\ jobs'[n].acted = jobs[n].acted
        /\ jobs'[n].run = jobs[n].run /\ jobs'[n].after = jobs[n].after
    BY <2>1, <1>2 DEF Jobs
  <2> QED BY <1>1, <1>2, <2>2, ReplacedJob DEF OnlyJob, AtWork, Active
<1> QED BY <1>3, <1>4, OnlyJobKeeps

LEMMA FailStep ==
  ASSUME IInv, NEW n, AtWork(n), Fail(n), outbox' \in Entries
  PROVE  IInv'
<1>1. jobs' = [jobs EXCEPT ![n] = [jobs[n] EXCEPT !.phase = "failed"]]
      /\ aborted' = aborted \cup {jobs[n].run}
  BY DEF Fail
<1>2. TypeOK /\ n \in DOMAIN jobs /\ jobs[n] \in Jobs /\ [jobs[n] EXCEPT !.phase = "failed"] \in Jobs
  BY JobFields DEF IInv, AtWork
<1>3. jobs[n].run \in 1..begun
  BY <1>2 DEF IInv, TypeOK, RunsAreBegun
<1>4. TypeOK'
  BY <1>1, <1>2, <1>3, ReplacedJob, JobTypes DEF Entries, AtWork, TypeOK
<1>5. OnlyJob(n)
  <2>1. jobs'[n] = [jobs[n] EXCEPT !.phase = "failed"]
    BY <1>1, <1>2, ReplacedJob
  <2>2. jobs'[n].phase = "failed" /\ jobs'[n].acted = jobs[n].acted
        /\ jobs'[n].run = jobs[n].run /\ jobs'[n].after = jobs[n].after
    BY <2>1, <1>2 DEF Jobs
  <2> QED BY <1>1, <1>2, <2>2, ReplacedJob DEF OnlyJob, AtWork, Active
<1> QED BY <1>4, <1>5, OnlyJobKeeps

LEMMA InvokeStep ==
  ASSUME IInv, NEW n, AtWork(n), Invoke(n), outbox' \in Entries
  PROVE  IInv'
<1>1. CASE StillWanted(jobs[n].run)
  <2>1. jobs' = [jobs EXCEPT ![n] = [jobs[n] EXCEPT !.phase = "acting", !.acted = TRUE]]
        /\ aborted' = aborted
    BY <1>1 DEF Invoke
  <2>2. TypeOK /\ n \in DOMAIN jobs /\ jobs[n] \in Jobs
        /\ [jobs[n] EXCEPT !.phase = "acting", !.acted = TRUE] \in Jobs
    BY JobFields DEF IInv, AtWork
  <2>3. TypeOK'
    BY <2>1, <2>2, ReplacedJob, JobTypes DEF Entries, AtWork, TypeOK
  <2>4. OnlyJob(n)
    <3>1. jobs'[n] = [jobs[n] EXCEPT !.phase = "acting", !.acted = TRUE]
      BY <2>1, <2>2, ReplacedJob
    <3>2. jobs'[n].phase = "acting" /\ jobs'[n].run = jobs[n].run /\ jobs'[n].after = jobs[n].after
      BY <3>1, <2>2 DEF Jobs
    <3>3. jobs[n].run \notin aborted
      BY <1>1 DEF StillWanted
    <3> QED BY <2>1, <2>2, <3>2, <3>3, ReplacedJob DEF OnlyJob, AtWork, Active
  <2> QED BY <2>3, <2>4, OnlyJobKeeps
<1>2. CASE ~StillWanted(jobs[n].run)
  BY <1>2, FailStep DEF Invoke
<1> QED BY <1>1, <1>2

-----------------------------------------------------------------------------
LEMMA JobStepKeeps ==
  ASSUME IInv, NEW n, JobStep(n)
  PROVE  IInv'
<1>1. n \in DOMAIN jobs /\ UNCHANGED <<durable, run, begun, closed, tail>>
  BY DEF JobStep, StartJob, Admitted, Recovered, ActionEnds, Saved
<1>2. outbox \in Entries /\ jobs[n] \in Jobs
  BY <1>1 DEF IInv, TypeOK, Entries
<1>3. jobs[n].key \in Keys /\ jobs[n].run \in 0..LastRun
  BY <1>2, HostToolAssumption DEF Jobs, Runs, HostToolAssumption
<1>4. outbox[jobs[n].key] \in [state : {"absent", "executing", "unknown", "settled"}, run : 0..LastRun]
      /\ outbox[jobs[n].key].run \in 0..LastRun
  BY <1>2, <1>3 DEF Entries
<1>5. \A e \in [state : {"absent", "executing", "unknown", "settled"}, run : 0..LastRun] :
        [outbox EXCEPT ![jobs[n].key] = e] \in Entries
  BY <1>2, <1>3 DEF Entries
<1>6. \A st \in {"settled", "unknown"} : [outbox EXCEPT ![jobs[n].key].state = st] \in Entries
  BY <1>2, <1>3 DEF Entries
<1>7. CASE StartJob(n)
  <2>1. AtWork(n) /\ outbox' \in Entries
    BY <1>1, <1>2, <1>7 DEF AtWork, StartJob
  <2>2. Invoke(n) \/ (\E from \in 0..LastRun : Deliver(n, from)) \/ Go(n, "admitting") \/ Go(n, "recovering")
    BY <1>4, <1>7 DEF StartJob
  <2>3. jobs[n].phase = "waiting"
    BY <1>7 DEF StartJob
  <2> QED BY <2>1, <2>2, <2>3, InvokeStep, DeliverStep, GoStep DEF Active
<1>8. CASE Admitted(n)
  <2>1. outbox' \in Entries
    BY <1>2, <1>3, <1>5, <1>8 DEF Admitted
  <2>2. AtWork(n)
    BY <1>1, <1>8 DEF AtWork, Admitted, Active
  <2> QED BY <1>8, <2>1, <2>2, InvokeStep, FailStep DEF Admitted
<1>9. CASE Recovered(n)
  <2>1. outbox' \in Entries
    BY <1>2, <1>6, <1>9 DEF Recovered
  <2>2. AtWork(n)
    BY <1>1, <1>9 DEF AtWork, Recovered, Active
  <2> QED BY <1>4, <1>9, <2>1, <2>2, DeliverStep, FailStep DEF Recovered
<1>10. CASE ActionEnds(n)
  <2>1. AtWork(n) /\ outbox' \in Entries
    BY <1>1, <1>2, <1>10 DEF AtWork, ActionEnds, Active
  <2>2. Go(n, "saving") \/ Fail(n) \/ Deliver(n, jobs[n].run)
    BY <1>10 DEF ActionEnds
  <2> QED BY <1>3, <2>1, <2>2, GoStep, FailStep, DeliverStep DEF Active
<1>11. CASE Saved(n)
  <2>1. outbox' \in Entries
    BY <1>2, <1>6, <1>11 DEF Saved
  <2>2. AtWork(n)
    BY <1>1, <1>11 DEF AtWork, Saved, Active
  <2> QED BY <1>3, <1>11, <2>1, <2>2, DeliverStep, FailStep DEF Saved
<1> QED BY <1>7, <1>8, <1>9, <1>10, <1>11 DEF JobStep

LEMMA NextIInv == IInv /\ [Next]_vars => IInv'
<1> SUFFICES ASSUME IInv, [Next]_vars PROVE IInv'
  OBVIOUS
<1>1. CASE beginRun \/ endRun \/ AbortRun \/ close
  BY <1>1, SessionSteps
<1>2. CASE \E c \in Calls : execute(c)
  BY <1>2, executeStep
<1>3. CASE \E n \in 1..MaxJobs : JobStep(n)
  BY <1>3, JobStepKeeps
<1>4. CASE UNCHANGED vars
  <2>1. TypeOK'
    BY <1>4, Zenon DEF IInv, TypeOK, vars
  <2> QED BY <1>4, <2>1
    DEF vars, IInv, ChainIsLinear, RunsAreBegun, PhasesKnow, Serialized, FailureStopsRun
<1> QED BY <1>1, <1>2, <1>3, <1>4 DEF Next

-----------------------------------------------------------------------------
(* The keys of the calls in the outbox, and what is known of an entry.       *)

\* A call is kept under its id or under its run and id, under the latter only when
\* the former belongs to another run.
KeyOfCall ==
  \A n \in DOMAIN jobs : jobs[n].key \in {<<0, jobs[n].call>>, <<jobs[n].run, jobs[n].call>>}

LaterKey ==
  durable => \A n \in DOMAIN jobs :
    jobs[n].key # <<0, jobs[n].call>> => outbox[<<0, jobs[n].call>>].run \notin {0, jobs[n].run}

RunsInOrder == \A m, n \in DOMAIN jobs : m < n => jobs[m].run <= jobs[n].run

\* Without storage a repeated request is not queued.
AskedOnce ==
  ~durable => \A m, n \in DOMAIN jobs :
    m # n => <<jobs[m].run, jobs[m].call>> # <<jobs[n].run, jobs[n].call>>

EntryKnowsRun == \A k \in Keys : outbox[k].state = "absent" <=> outbox[k].run = 0

PhaseOfEntry ==
  \A n \in DOMAIN jobs :
    /\ jobs[n].phase \in {"admitting", "recovering", "saving"} => durable
    /\ jobs[n].phase = "admitting" => outbox[jobs[n].key].run = 0
    /\ jobs[n].phase \in {"acting", "saving"} => jobs[n].acted

\* The entry of a call that acted carries its run, and a report is of such a call.
ActedHasEntry ==
  durable => \A n \in DOMAIN jobs : jobs[n].acted => outbox[jobs[n].key].run = jobs[n].run

SettledWasActed ==
  \A k \in Keys : outbox[k].state = "settled" => \E m \in DOMAIN jobs : jobs[m].acted /\ jobs[m].key = k

\* A later call that shares the key of one that acted is of the same run.
KeptByLater ==
  durable => \A m, n \in DOMAIN jobs :
    m < n /\ jobs[m].acted /\ jobs[m].key = jobs[n].key => jobs[m].run = jobs[n].run

KeysInv ==
  /\ KeyOfCall /\ LaterKey /\ RunsInOrder /\ AskedOnce /\ EntryKnowsRun /\ PhaseOfEntry
  /\ ActedHasEntry /\ SettledWasActed /\ KeptByLater /\ ActsOnce /\ AnswerOfItsRun

LEMMA InitKeys == Init => KeysInv
<1> SUFFICES ASSUME Init PROVE KeysInv
  OBVIOUS
<1>1. DOMAIN jobs = {}
  BY DEF Init
<1>2. \A k \in Keys : outbox[k].state = "absent" /\ outbox[k].run = 0
  BY DEF Init, NoEntry
<1> QED BY <1>1, <1>2 DEF KeysInv, KeyOfCall, LaterKey, RunsInOrder, AskedOnce, EntryKnowsRun, PhaseOfEntry,
           ActedHasEntry, SettledWasActed, KeptByLater, ActsOnce, AnswerOfItsRun

\* What both invariants say about one request.
LEMMA KnownJob ==
  ASSUME IInv, NEW n \in DOMAIN jobs
  PROVE  /\ jobs[n] \in Jobs /\ n \in Nat /\ jobs[n].run \in 1..begun /\ jobs[n].run \in Nat
         /\ jobs[n].key \in Keys /\ jobs[n].call \in Calls /\ <<0, jobs[n].call>> \in Keys
         /\ jobs[n].run # 0 /\ begun \in Nat /\ jobs[n].acted \in BOOLEAN
<1>1. jobs[n] \in Jobs /\ DOMAIN jobs = 1..Len(jobs) /\ Len(jobs) \in Nat /\ begun \in Nat
  BY HostToolAssumption DEF HostToolAssumption, IInv, TypeOK
<1>2. n \in Nat /\ jobs[n].run \in 1..begun
  BY <1>1 DEF IInv, RunsAreBegun
<1>3. jobs[n].key \in Keys /\ jobs[n].call \in Calls /\ <<0, jobs[n].call>> \in Keys
  BY <1>1 DEF Jobs, Keys, Runs
<1>4. jobs[n].acted \in BOOLEAN
  BY <1>1 DEF Jobs
<1> QED BY <1>1, <1>2, <1>3, <1>4

LEMMA SessionKeys ==
  ASSUME IInv, KeysInv, UNCHANGED <<durable, jobs, outbox>>
  PROVE  KeysInv'
BY DEF KeysInv, KeyOfCall, LaterKey, RunsInOrder, AskedOnce, EntryKnowsRun, PhaseOfEntry,
       ActedHasEntry, SettledWasActed, KeptByLater, ActsOnce, AnswerOfItsRun

LEMMA executeKeys ==
  ASSUME IInv, KeysInv, NEW c \in Calls, execute(c)
  PROVE  KeysInv'
<1> DEFINE job == [run |-> run, call |-> c, key |-> ledgerKey(c), after |-> tail,
                   phase |-> "waiting", acted |-> FALSE, answer |-> 0]
           new == Len(jobs) + 1
<1>1. /\ jobs' = Append(jobs, job) /\ UNCHANGED <<durable, outbox>>
      /\ ~Asked(c) /\ run # 0
  BY DEF execute
<1>2. jobs \in Seq(Jobs) /\ Len(jobs) \in Nat /\ run = begun /\ begun \in Nat
      /\ DOMAIN jobs = 1..Len(jobs)
  BY <1>1, HostToolAssumption DEF HostToolAssumption, IInv, TypeOK
<1>3. /\ DOMAIN jobs' = DOMAIN jobs \cup {new} /\ new \notin DOMAIN jobs
      /\ \A n \in DOMAIN jobs : jobs'[n] = jobs[n] /\ n < new /\ ~(new < n)
      /\ jobs'[new] = job
  BY <1>1, <1>2
<1>4. /\ job.run = begun /\ job.call = c /\ job.phase = "waiting" /\ ~job.acted
      /\ job.key \in {<<0, c>>, <<begun, c>>}
      /\ job.key = ledgerKey(c)
  BY <1>2 DEF ledgerKey
<1>5. \A n \in DOMAIN jobs : jobs[n].run \in 1..begun /\ jobs[n].key \in Keys /\ jobs[n].run \in Nat
  BY KnownJob
<1>6. KeyOfCall'
  BY <1>3, <1>4 DEF KeyOfCall, KeysInv
<1>7. LaterKey'
  <2>1. durable /\ job.key # <<0, c>> => outbox[<<0, c>>].run \notin {0, begun}
    BY <1>2, <1>4 DEF ledgerKey
  <2> QED BY <1>1, <1>3, <1>4, <2>1 DEF LaterKey, KeysInv
<1>8. RunsInOrder'
  <2> SUFFICES ASSUME NEW m \in DOMAIN jobs', NEW n \in DOMAIN jobs', m < n
               PROVE  jobs'[m].run <= jobs'[n].run
    BY DEF RunsInOrder
  <2>1. m \in DOMAIN jobs
    BY <1>2, <1>3
  <2>2. jobs'[m].run \in 1..begun
    BY <1>3, <1>5, <2>1
  <2>3. CASE n = new
    BY <1>2, <1>3, <1>4, <2>2, <2>3
  <2>4. CASE n \in DOMAIN jobs
    BY <1>3, <2>1, <2>4 DEF RunsInOrder, KeysInv
  <2> QED BY <1>3, <2>3, <2>4
<1>9. AskedOnce'
  <2> SUFFICES ASSUME ~durable, NEW m \in DOMAIN jobs', NEW n \in DOMAIN jobs', m # n
               PROVE  <<jobs'[m].run, jobs'[m].call>> # <<jobs'[n].run, jobs'[n].call>>
    BY <1>1 DEF AskedOnce
  <2>1. \A k \in DOMAIN jobs : jobs[k].run # begun \/ jobs[k].call # c
    BY <1>1, <1>2 DEF Asked
  <2> QED BY <1>3, <1>4, <2>1 DEF AskedOnce, KeysInv
<1>10. EntryKnowsRun'
  BY <1>1 DEF EntryKnowsRun, KeysInv
<1>11. PhaseOfEntry'
  BY <1>1, <1>3, <1>4 DEF PhaseOfEntry, KeysInv
<1>12. ActedHasEntry'
  BY <1>1, <1>3, <1>4 DEF ActedHasEntry, KeysInv
<1>13. SettledWasActed'
  BY <1>1, <1>3 DEF SettledWasActed, KeysInv
<1>14. KeptByLater'
  <2> SUFFICES ASSUME durable, NEW m \in DOMAIN jobs', NEW n \in DOMAIN jobs', m < n,
                      jobs'[m].acted, jobs'[m].key = jobs'[n].key
               PROVE  jobs'[m].run = jobs'[n].run
    BY <1>1 DEF KeptByLater
  <2>1. m \in DOMAIN jobs /\ jobs'[m] = jobs[m]
    BY <1>3, <1>4
  <2>2. CASE n \in DOMAIN jobs
    BY <1>3, <2>1, <2>2 DEF KeptByLater, KeysInv
  <2>3. CASE n = new
    <3>1. outbox[jobs[m].key].run = jobs[m].run /\ jobs[m].run # 0
      BY <2>1, KnownJob DEF ActedHasEntry, KeysInv
    <3>2. CASE job.key = <<0, c>>
      <4>1. outbox[<<0, c>>].run \in {0, run}
        BY <1>1, <1>2, <1>4, <3>2 DEF ledgerKey
      <4>2. jobs[m].key = <<0, c>> /\ jobs'[n].run = begun
        BY <1>3, <1>4, <2>1, <2>3, <3>2
      <4> HIDE DEF job
      <4> QED BY <1>2, <2>1, <3>1, <4>1, <4>2
    <3>3. CASE job.key = <<begun, c>>
      <4>1. jobs[m].key \in {<<0, jobs[m].call>>, <<jobs[m].run, jobs[m].call>>}
        BY <2>1 DEF KeyOfCall, KeysInv
      <4> QED BY <1>1, <1>2, <1>3, <1>4, <2>1, <2>3, <3>3, <4>1
    <3> QED BY <1>4, <3>2, <3>3
  <2> QED BY <1>3, <2>2, <2>3
<1>15. ActsOnce'
  BY <1>3, <1>4 DEF ActsOnce, KeysInv
<1>16. AnswerOfItsRun'
  BY <1>3, <1>4 DEF AnswerOfItsRun, KeysInv
<1> QED BY <1>6, <1>7, <1>8, <1>9, <1>10, <1>11, <1>12, <1>13, <1>14, <1>15, <1>16 DEF KeysInv

-----------------------------------------------------------------------------
\* What a step of job n does to the entries: only the entry of its key changes, it
\* gets the run that is admitted and keeps it, and it is settled by a report.
KeyStep(n) ==
  /\ n \in DOMAIN jobs /\ DOMAIN jobs' = DOMAIN jobs /\ UNCHANGED <<durable, run, begun>>
  /\ \A m \in DOMAIN jobs : m # n => jobs'[m] = jobs[m]
  /\ jobs'[n].run = jobs[n].run /\ jobs'[n].call = jobs[n].call /\ jobs'[n].key = jobs[n].key
  /\ jobs[n].phase \notin {"delivered", "failed"}
  /\ \A k \in Keys \ {jobs[n].key} : outbox'[k] = outbox[k]
  /\ \/ outbox'[jobs[n].key] = outbox[jobs[n].key]
     \/ /\ outbox'[jobs[n].key].state # "absent" /\ durable
        /\ outbox'[jobs[n].key].run = IF outbox[jobs[n].key].run = 0 THEN jobs[n].run ELSE outbox[jobs[n].key].run
        /\ outbox'[jobs[n].key].state = "settled" => \E m \in DOMAIN jobs : jobs[m].acted /\ jobs[m].key = jobs[n].key
  /\ jobs[n].acted => jobs'[n].acted
  /\ jobs'[n].acted => jobs[n].acted \/
       /\ run = jobs[n].run
       /\ durable => outbox[jobs[n].key].run = 0 /\ outbox'[jobs[n].key].run = jobs[n].run
  /\ jobs'[n].phase \in {"acting", "saving"} => jobs'[n].acted
  /\ jobs'[n].phase = "admitting" => outbox'[jobs[n].key].run = 0
  /\ jobs'[n].phase \in {"admitting", "recovering", "saving"} => durable
  /\ jobs'[n].phase = "delivered" => jobs'[n].answer = jobs[n].run
  /\ jobs'[n].phase # "waiting"

\* While a request is unsettled, the requests after it have not acted.
LEMMA LaterHaveNotActed ==
  ASSUME IInv, NEW n \in DOMAIN jobs, NEW m \in DOMAIN jobs,
         jobs[n].phase \notin {"delivered", "failed"}, n < m
  PROVE  jobs[m].phase = "waiting" /\ ~jobs[m].acted
<1>1. jobs[m].phase = "waiting"
  BY DEF IInv, Serialized
<1>2. m \in 1..Len(jobs)
  BY DEF IInv, TypeOK
<1> QED BY <1>1, <1>2 DEF IInv, PhasesKnow

\* The entry an unsettled request finds, if its call acted at all, is of its run.
LEMMA EntryOfItsRun ==
  ASSUME IInv, KeysInv, durable, NEW n \in DOMAIN jobs, jobs[n].phase \notin {"delivered", "failed"},
         NEW m \in DOMAIN jobs, jobs[m].acted, jobs[m].key = jobs[n].key
  PROVE  outbox[jobs[n].key].run = jobs[n].run
<1>1. outbox[jobs[n].key].run = jobs[m].run
  BY DEF KeysInv, ActedHasEntry
<1>2. m \in Nat /\ n \in Nat
  BY KnownJob
<1>3. CASE m = n
  BY <1>1, <1>3
<1>4. CASE n < m
  BY <1>4, LaterHaveNotActed
<1>5. CASE m < n
  BY <1>1, <1>5 DEF KeysInv, KeptByLater
<1> QED BY <1>2, <1>3, <1>4, <1>5

LEMMA KeyStepKeeps ==
  ASSUME IInv, IInv', KeysInv, NEW n, KeyStep(n)
  PROVE  KeysInv'
<1> DEFINE key == jobs[n].key
           r == jobs[n].run
<1>1. /\ n \in DOMAIN jobs /\ DOMAIN jobs' = DOMAIN jobs /\ UNCHANGED <<durable, run, begun>>
      /\ jobs[n].phase \notin {"delivered", "failed"}
  BY DEF KeyStep
<1>a. \A m \in DOMAIN jobs :
           jobs'[m].run = jobs[m].run /\ jobs'[m].call = jobs[m].call /\ jobs'[m].key = jobs[m].key
  BY DEF KeyStep
<1>b. \A m \in DOMAIN jobs : m # n => jobs'[m] = jobs[m]
  BY DEF KeyStep
<1>c. \A m \in DOMAIN jobs :
            /\ jobs[m].run \in 1..begun /\ jobs[m].run # 0 /\ m \in Nat /\ jobs[m].run \in Nat
            /\ jobs[m].key \in Keys /\ <<0, jobs[m].call>> \in Keys
  BY KnownJob
\* An entry that is known stays with its run.
<1>2. \A k \in Keys :
        /\ outbox'[k].run = outbox[k].run \/ (k = key /\ outbox[k].run = 0 /\ durable /\ outbox'[k].run = r)
        /\ outbox'[k].state = "absent" <=> outbox'[k].run = 0
        /\ outbox'[k].state = "settled" =>
             outbox[k].state = "settled" \/ \E m \in DOMAIN jobs : jobs[m].acted /\ jobs[m].key = k
  <2> SUFFICES ASSUME NEW k \in Keys
               PROVE  /\ outbox'[k].run = outbox[k].run
                         \/ (k = key /\ outbox[k].run = 0 /\ durable /\ outbox'[k].run = r)
                      /\ outbox'[k].state = "absent" <=> outbox'[k].run = 0
                      /\ outbox'[k].state = "settled" =>
                           outbox[k].state = "settled" \/ \E m \in DOMAIN jobs : jobs[m].acted /\ jobs[m].key = k
    OBVIOUS
  <2>1. CASE outbox'[k] = outbox[k]
    BY <2>1 DEF KeysInv, EntryKnowsRun
  <2>2. CASE outbox'[k] # outbox[k]
    <3>1. k = key /\ durable /\ outbox'[k].state # "absent"
          /\ outbox'[k].run = (IF outbox[k].run = 0 THEN r ELSE outbox[k].run)
          /\ (outbox'[k].state = "settled" => \E m \in DOMAIN jobs : jobs[m].acted /\ jobs[m].key = k)
      BY <2>2 DEF KeyStep
    <3> QED BY <1>1, <1>a, <1>b, <1>c, <3>1
  <2> QED BY <2>1, <2>2
\* The action of n starts for an entry that nobody had.
<1>3. jobs'[n].acted => jobs[n].acted \/
        /\ run = r
        /\ durable => outbox[key].run = 0 /\ outbox'[key].run = r
  BY DEF KeyStep
<1>4. KeyOfCall' /\ RunsInOrder' /\ AskedOnce' /\ EntryKnowsRun'
  <2>1. KeyOfCall'
    BY <1>1, <1>a, <1>b, <1>c DEF KeysInv, KeyOfCall
  <2>2. RunsInOrder'
    BY <1>1, <1>a, <1>b, <1>c DEF KeysInv, RunsInOrder
  <2>3. AskedOnce'
    BY <1>1, <1>a, <1>b, <1>c DEF KeysInv, AskedOnce
  <2>4. EntryKnowsRun'
    BY <1>2 DEF EntryKnowsRun
  <2> QED BY <2>1, <2>2, <2>3, <2>4
<1>5. LaterKey'
  <2> SUFFICES ASSUME durable, NEW m \in DOMAIN jobs, jobs[m].key # <<0, jobs[m].call>>
               PROVE  outbox'[<<0, jobs[m].call>>].run \notin {0, jobs[m].run}
    BY <1>1, <1>a, <1>b, <1>c DEF LaterKey
  <2>1. outbox[<<0, jobs[m].call>>].run \notin {0, jobs[m].run}
    BY DEF KeysInv, LaterKey
  <2> QED BY <1>1, <1>a, <1>b, <1>c, <1>2, <2>1
<1>6. PhaseOfEntry'
  <2> SUFFICES ASSUME NEW m \in DOMAIN jobs
               PROVE  /\ jobs'[m].phase \in {"admitting", "recovering", "saving"} => durable
                      /\ jobs'[m].phase = "admitting" => outbox'[jobs[m].key].run = 0
                      /\ jobs'[m].phase \in {"acting", "saving"} => jobs'[m].acted
    BY <1>1, <1>a, <1>b, <1>c DEF PhaseOfEntry
  <2>1. CASE m = n
    BY <2>1 DEF KeyStep
  <2>2. CASE m # n
    <3>1. jobs'[m] = jobs[m]
      BY <1>1, <1>a, <1>b, <1>c, <2>2
    <3>2. jobs[m].phase # "admitting"
      <4>1. CASE n < m
        BY <4>1, <1>1, <1>a, <1>b, <1>c, LaterHaveNotActed
      <4>2. CASE m < n
        <5>1. jobs'[n].phase # "waiting" => jobs'[m].phase \in {"delivered", "failed"}
          BY <4>2, <1>1, <1>a, <1>b, <1>c DEF IInv, Serialized
        <5>2. jobs'[n].phase # "waiting"
          BY DEF KeyStep
        <5> QED BY <3>1, <5>1, <5>2
      <4>3. m \in Nat /\ n \in Nat
        BY <1>1, <1>a, <1>b, <1>c
      <4> QED BY <2>2, <4>1, <4>2, <4>3
    <3> QED BY <3>1, <3>2 DEF KeysInv, PhaseOfEntry
  <2> QED BY <2>1, <2>2
<1>7. ActedHasEntry'
  <2> SUFFICES ASSUME durable, NEW m \in DOMAIN jobs, jobs'[m].acted
               PROVE  outbox'[jobs[m].key].run = jobs[m].run
    BY <1>1, <1>a, <1>b, <1>c DEF ActedHasEntry
  <2>1. CASE jobs[m].acted
    <3>1. outbox[jobs[m].key].run = jobs[m].run
      BY <2>1 DEF KeysInv, ActedHasEntry
    <3>2. jobs[m].run # 0 /\ jobs[m].key \in Keys
      BY <1>c
    <3> QED BY <1>2, <3>1, <3>2
  <2>2. CASE ~jobs[m].acted
    BY <1>1, <1>a, <1>b, <1>c, <1>3, <2>2
  <2> QED BY <2>1, <2>2
<1>8. SettledWasActed'
  <2> SUFFICES ASSUME NEW k \in Keys, outbox'[k].state = "settled"
               PROVE  \E m \in DOMAIN jobs : jobs'[m].acted /\ jobs[m].key = k
    BY <1>1, <1>a DEF SettledWasActed
  <2>1. PICK m \in DOMAIN jobs : jobs[m].acted /\ jobs[m].key = k
    BY <1>2 DEF KeysInv, SettledWasActed
  <2>2. jobs'[m].acted
    BY <1>b, <2>1 DEF KeyStep
  <2> QED BY <2>1, <2>2
<1>9. KeptByLater'
  <2> SUFFICES ASSUME durable, NEW m \in DOMAIN jobs, NEW k \in DOMAIN jobs, m < k,
                      jobs'[m].acted, jobs[m].key = jobs[k].key
               PROVE  jobs[m].run = jobs[k].run
    BY <1>1, <1>a, <1>b, <1>c DEF KeptByLater
  <2>1. CASE jobs[m].acted
    BY <2>1 DEF KeysInv, KeptByLater
  <2>2. CASE ~jobs[m].acted
    <3>1. m = n /\ run = r
      BY <1>1, <1>a, <1>b, <1>c, <1>3, <2>2
    <3>2. run = begun /\ begun \in Nat
      <4>1. run \in {0, begun} /\ r # 0
        BY <1>1, <1>c DEF IInv, TypeOK
      <4> QED BY <1>1, <3>1, <4>1, KnownJob
    <3>3. r <= jobs[k].run
      BY <3>1 DEF KeysInv, RunsInOrder
    <3>4. jobs[k].run \in 1..begun /\ jobs[k].run \in Nat /\ r = begun
      BY <1>c, <3>1, <3>2
    <3>5. jobs[m].run = r
      BY <3>1
    <3> HIDE DEF r
    <3> QED BY <3>2, <3>3, <3>4, <3>5
  <2> QED BY <2>1, <2>2
<1>10. ActsOnce'
  <2>1. \A m \in DOMAIN jobs : m # n /\ jobs[m].acted /\ jobs'[n].acted /\ ~jobs[n].acted
          => <<jobs[m].run, jobs[m].call>> # <<r, jobs[n].call>>
    <3> SUFFICES ASSUME NEW m \in DOMAIN jobs, m # n, jobs[m].acted, jobs'[n].acted, ~jobs[n].acted,
                        jobs[m].run = r, jobs[m].call = jobs[n].call
                 PROVE  FALSE
      OBVIOUS
    <3>1. CASE ~durable
      BY <1>1, <1>a, <1>b, <1>c, <3>1 DEF KeysInv, AskedOnce
    <3>2. CASE durable
      <4>1. outbox[key].run = 0 /\ outbox[jobs[m].key].run = r /\ r # 0
        BY <1>1, <1>a, <1>b, <1>c, <1>3, <3>2 DEF KeysInv, ActedHasEntry
      <4>2. /\ key \in {<<0, jobs[n].call>>, <<r, jobs[n].call>>}
            /\ jobs[m].key \in {<<0, jobs[n].call>>, <<r, jobs[n].call>>}
        BY <1>1, <1>a, <1>b, <1>c DEF KeysInv, KeyOfCall
      <4>3. /\ key # <<0, jobs[n].call>> => outbox[<<0, jobs[n].call>>].run \notin {0, r}
            /\ jobs[m].key # <<0, jobs[n].call>> => outbox[<<0, jobs[n].call>>].run \notin {0, r}
        BY <1>1, <1>a, <1>b, <1>c, <3>2 DEF KeysInv, LaterKey
      <4> HIDE DEF key, r
      <4> QED BY <4>1, <4>2, <4>3
    <3> QED BY <3>1, <3>2
  <2> SUFFICES ASSUME NEW m \in DOMAIN jobs, NEW k \in DOMAIN jobs, m # k, jobs'[m].acted, jobs'[k].acted
               PROVE  <<jobs[m].run, jobs[m].call>> # <<jobs[k].run, jobs[k].call>>
    BY <1>1, <1>a, <1>b, <1>c DEF ActsOnce
  <2>2. CASE jobs[m].acted /\ jobs[k].acted
    BY <2>2 DEF KeysInv, ActsOnce
  <2>3. CASE ~jobs[m].acted
    <3>1. m = n /\ jobs[k].acted
      BY <1>1, <1>a, <1>b, <1>c, <2>3
    <3> QED BY <2>1, <2>3, <3>1
  <2>4. CASE ~jobs[k].acted
    <3>1. k = n /\ jobs[m].acted
      BY <1>1, <1>a, <1>b, <1>c, <2>4
    <3> QED BY <2>1, <2>4, <3>1
  <2> QED BY <2>2, <2>3, <2>4
<1>11. AnswerOfItsRun'
  <2> SUFFICES ASSUME NEW m \in DOMAIN jobs, jobs'[m].phase = "delivered"
               PROVE  jobs'[m].answer = jobs[m].run
    BY <1>1, <1>a, <1>b, <1>c DEF AnswerOfItsRun
  <2>1. CASE m = n
    BY <2>1 DEF KeyStep
  <2>2. CASE m # n
    BY <1>1, <1>a, <1>b, <1>c, <2>2 DEF KeysInv, AnswerOfItsRun
  <2> QED BY <2>1, <2>2
<1> QED BY <1>4, <1>5, <1>6, <1>7, <1>8, <1>9, <1>10, <1>11 DEF KeysInv

-----------------------------------------------------------------------------
\* What is common to the steps of job n, as far as the entries are concerned.
LEMMA JobBefore ==
  ASSUME IInv, NEW n, JobStep(n)
  PROVE  /\ n \in DOMAIN jobs /\ jobs[n] \in Jobs /\ jobs[n].phase \notin {"delivered", "failed"}
         /\ UNCHANGED <<durable, run, begun>>
         /\ jobs[n].key \in Keys /\ outbox \in Entries
<1>1. n \in DOMAIN jobs /\ UNCHANGED <<durable, run, begun>> /\ jobs[n].phase \notin {"delivered", "failed"}
  BY DEF JobStep, StartJob, Admitted, Recovered, ActionEnds, Saved
<1>2. outbox \in Entries
  BY DEF IInv, TypeOK, Entries
<1> QED BY <1>1, <1>2, KnownJob

\* Only the record of n is written, and only its phase, its action and its answer.
Written(n, phase, acted, answer) ==
  /\ DOMAIN jobs' = DOMAIN jobs
  /\ \A m \in DOMAIN jobs : m # n => jobs'[m] = jobs[m]
  /\ jobs'[n].run = jobs[n].run /\ jobs'[n].call = jobs[n].call /\ jobs'[n].key = jobs[n].key
  /\ jobs'[n].phase = phase /\ jobs'[n].acted = acted /\ jobs'[n].answer = answer

LEMMA WhatIsWritten ==
  ASSUME IInv, NEW n \in DOMAIN jobs
  PROVE  /\ \A p : Go(n, p) => Written(n, p, jobs[n].acted, jobs[n].answer)
         /\ \A from : Deliver(n, from) => Written(n, "delivered", jobs[n].acted, from)
         /\ Fail(n) => Written(n, "failed", jobs[n].acted, jobs[n].answer)
         /\ Invoke(n) => \/ /\ run = jobs[n].run
                            /\ Written(n, "acting", TRUE, jobs[n].answer)
                         \/ Written(n, "failed", jobs[n].acted, jobs[n].answer)
<1>1. jobs[n] \in Jobs /\ jobs \in Seq(Jobs)
  BY DEF IInv, TypeOK
<1>2. ASSUME NEW p, Go(n, p) PROVE Written(n, p, jobs[n].acted, jobs[n].answer)
  BY <1>1, <1>2 DEF Go, Written, Jobs
<1>3. ASSUME NEW from, Deliver(n, from) PROVE Written(n, "delivered", jobs[n].acted, from)
  BY <1>1, <1>3 DEF Deliver, Written, Jobs
<1>4. ASSUME Fail(n) PROVE Written(n, "failed", jobs[n].acted, jobs[n].answer)
  BY <1>1, <1>4 DEF Fail, Written, Jobs
<1>5. ASSUME Invoke(n), StillWanted(jobs[n].run)
      PROVE  run = jobs[n].run /\ Written(n, "acting", TRUE, jobs[n].answer)
  <2>1. jobs' = [jobs EXCEPT ![n] = [jobs[n] EXCEPT !.phase = "acting", !.acted = TRUE]] /\ run = jobs[n].run
    BY <1>5 DEF Invoke, StillWanted
  <2> QED BY <1>1, <2>1 DEF Written, Jobs
<1>6. ASSUME Invoke(n), ~StillWanted(jobs[n].run)
      PROVE  Written(n, "failed", jobs[n].acted, jobs[n].answer)
  BY <1>4, <1>6 DEF Invoke
<1> QED BY <1>2, <1>3, <1>4, <1>5, <1>6

\* A step that writes the record of n and leaves the entries alone.
LEMMA RecordOnly ==
  ASSUME NEW n \in DOMAIN jobs, jobs[n].phase \notin {"delivered", "failed"},
         durable' = durable, run' = run, begun' = begun, outbox' = outbox,
         NEW p, NEW from, NEW a \in BOOLEAN, Written(n, p, a, from), p # "waiting",
         a = jobs[n].acted \/ (a = TRUE /\ run = jobs[n].run /\ ~durable),
         p \in {"acting", "saving"} => a,
         p = "admitting" => outbox[jobs[n].key].run = 0,
         p \in {"admitting", "recovering", "saving"} => durable,
         p = "delivered" => from = jobs[n].run
  PROVE  KeyStep(n)
BY DEF Written, KeyStep

\* A step that writes the record of n and its entry.
LEMMA RecordAndEntry ==
  ASSUME IInv, NEW n \in DOMAIN jobs, jobs[n].phase \notin {"delivered", "failed"}, durable,
         durable' = durable, run' = run, begun' = begun,
         NEW p \in {"acting", "delivered", "failed"}, NEW from, NEW a \in BOOLEAN, Written(n, p, a, from),
         NEW e, outbox' = [outbox EXCEPT ![jobs[n].key] = e], e.state # "absent",
         e.run = jobs[n].run, outbox[jobs[n].key].run \in {0, jobs[n].run},
         a = jobs[n].acted \/ (a = TRUE /\ run = jobs[n].run /\ outbox[jobs[n].key].run = 0),
         p = "acting" => a,
         p = "delivered" => from = jobs[n].run,
         e.state = "settled" => \E m \in DOMAIN jobs : jobs[m].acted /\ jobs[m].key = jobs[n].key
  PROVE  KeyStep(n)
<1>1. outbox \in Entries /\ jobs[n].key \in Keys
  BY KnownJob DEF IInv, TypeOK, Entries
<1>2. outbox'[jobs[n].key] = e /\ \A k \in Keys \ {jobs[n].key} : outbox'[k] = outbox[k]
  BY <1>1 DEF Entries
<1>3. /\ outbox'[jobs[n].key].state = e.state /\ outbox'[jobs[n].key].run = jobs[n].run
      /\ outbox'[jobs[n].key].run = IF outbox[jobs[n].key].run = 0 THEN jobs[n].run ELSE outbox[jobs[n].key].run
  BY <1>2
<1>4. /\ DOMAIN jobs' = DOMAIN jobs /\ \A m \in DOMAIN jobs : m # n => jobs'[m] = jobs[m]
      /\ jobs'[n].run = jobs[n].run /\ jobs'[n].call = jobs[n].call /\ jobs'[n].key = jobs[n].key
      /\ jobs'[n].phase = p /\ jobs'[n].acted = a /\ jobs'[n].answer = from
  BY DEF Written
<1> QED BY <1>2, <1>3, <1>4 DEF KeyStep

\* The state of an entry alone is replaced: its run stays.
LEMMA EntryState ==
  ASSUME IInv, NEW n \in DOMAIN jobs, NEW st, outbox' = [outbox EXCEPT ![jobs[n].key].state = st]
  PROVE  \E e : /\ outbox' = [outbox EXCEPT ![jobs[n].key] = e]
                /\ e.state = st /\ e.run = outbox[jobs[n].key].run
<1>1. outbox \in Entries /\ jobs[n].key \in Keys
  BY KnownJob DEF IInv, TypeOK, Entries
<1>2. outbox[jobs[n].key] \in [state : {"absent", "executing", "unknown", "settled"}, run : 0..LastRun]
  BY <1>1 DEF Entries
<1> WITNESS [outbox[jobs[n].key] EXCEPT !.state = st]
<1> QED BY <1>2

LEMMA JobKeyStep ==
  ASSUME IInv, KeysInv, NEW n, JobStep(n)
  PROVE  KeyStep(n)
<1> DEFINE key == jobs[n].key
           r == jobs[n].run
           same == jobs[n].answer
<1>1. /\ n \in DOMAIN jobs /\ jobs[n].phase \notin {"delivered", "failed"} /\ jobs[n].acted \in BOOLEAN
      /\ durable' = durable /\ run' = run /\ begun' = begun /\ key \in Keys
  BY JobBefore, KnownJob
<1>2. /\ outbox[key].state = "absent" <=> outbox[key].run = 0
      /\ jobs[n].phase \in {"admitting", "recovering", "saving"} => durable
      /\ jobs[n].phase = "admitting" => outbox[key].run = 0
      /\ jobs[n].phase \in {"acting", "saving"} => jobs[n].acted
      /\ durable /\ jobs[n].acted => outbox[key].run = r
      /\ r # 0
  BY <1>1, KnownJob DEF KeysInv, EntryKnowsRun, PhaseOfEntry, ActedHasEntry
<1>a. ASSUME Written(n, "failed", jobs[n].acted, same), outbox' = outbox PROVE KeyStep(n)
  <2>1. "failed" \notin {"waiting", "acting", "saving", "admitting", "recovering", "delivered"}
    OBVIOUS
  <2> QED BY <1>1, <1>a, <2>1, RecordOnly, Zenon
<1>b. ASSUME Written(n, "delivered", jobs[n].acted, r), outbox' = outbox PROVE KeyStep(n)
  <2>1. "delivered" \notin {"waiting", "acting", "saving", "admitting", "recovering"}
    OBVIOUS
  <2> QED BY <1>1, <1>b, <2>1, RecordOnly, Zenon
<1>3. ASSUME Fail(n), outbox' = outbox PROVE KeyStep(n)
  BY <1>1, <1>3, <1>a, WhatIsWritten
<1>4. CASE StartJob(n)
  <2>1. outbox' = outbox /\ jobs[n].phase = "waiting"
    BY <1>4 DEF StartJob
  <2>2. CASE ~durable /\ Invoke(n)
    <3>2. CASE Written(n, "failed", jobs[n].acted, same)
      BY <1>a, <2>1, <3>2
    <3>3. CASE run = r /\ Written(n, "acting", TRUE, same)
      <4>1. "acting" \notin {"waiting", "admitting", "recovering", "saving", "delivered"} /\ TRUE \in BOOLEAN
        OBVIOUS
      <4> QED BY <1>1, <2>1, <2>2, <3>3, <4>1, RecordOnly, Zenon
    <3> QED BY <1>1, <2>2, <3>2, <3>3, WhatIsWritten
  <2>3. CASE durable /\ outbox[key].state = "settled" /\ Deliver(n, outbox[key].run)
    <3>1. Deliver(n, outbox[key].run)
      BY <2>3
    <3>2. outbox[key].run = r
      BY <1>1, <2>3, EntryOfItsRun DEF KeysInv, SettledWasActed
    <3>3. Written(n, "delivered", jobs[n].acted, r)
      BY <1>1, <3>1, <3>2, WhatIsWritten
    <3> QED BY <1>b, <2>1, <3>3
  <2>4. CASE durable /\ outbox[key].state = "absent" /\ Go(n, "admitting")
    <3>1. Go(n, "admitting")
      BY <2>4
    <3>2. Written(n, "admitting", jobs[n].acted, same)
      BY <1>1, <3>1, WhatIsWritten
    <3> QED BY <1>1, <1>2, <2>1, <2>4, <3>2, RecordOnly
  <2>5. CASE durable /\ outbox[key].state \in {"executing", "unknown"} /\ Go(n, "recovering")
    <3>1. Written(n, "recovering", jobs[n].acted, same)
      BY <1>1, <2>5, WhatIsWritten
    <3> QED BY <1>1, <2>1, <2>5, <3>1, RecordOnly
  <2> QED BY <1>4, <2>2, <2>3, <2>4, <2>5 DEF StartJob
<1>5. CASE Admitted(n)
  <2> DEFINE e == [state |-> "executing", run |-> r]
  <2>1. durable /\ outbox[key].run = 0
    BY <1>2, <1>5 DEF Admitted
  <2>2. CASE outbox' = [outbox EXCEPT ![key] = e] /\ Invoke(n)
    <3>1. e.state = "executing" /\ e.run = r /\ outbox' = [outbox EXCEPT ![key] = e]
      BY <2>2
    <3> HIDE DEF e
    <3>2. CASE Written(n, "failed", jobs[n].acted, same)
      BY <1>1, <2>1, <3>1, <3>2, RecordAndEntry
    <3>3. CASE run = r /\ Written(n, "acting", TRUE, same)
      BY <1>1, <2>1, <3>1, <3>3, RecordAndEntry
    <3> QED BY <1>1, <2>2, <3>2, <3>3, WhatIsWritten
  <2>3. CASE Fail(n) /\ outbox' = outbox
    BY <1>3, <2>3
  <2> QED BY <1>5, <2>2, <2>3 DEF Admitted
<1>6. CASE Recovered(n)
  <2>1. durable
    BY <1>2, <1>6 DEF Recovered
  <2>2. CASE /\ \E m \in DOMAIN jobs : jobs[m].acted /\ jobs[m].key = key
             /\ outbox' = [outbox EXCEPT ![key].state = "settled"]
             /\ Deliver(n, outbox[key].run)
    <3>1. outbox[key].run = r
      BY <1>1, <2>1, <2>2, EntryOfItsRun
    <3>2. PICK e : /\ outbox' = [outbox EXCEPT ![key] = e]
                   /\ e.state = "settled" /\ e.run = outbox[key].run
      BY ONLY IInv, <1>1, <2>2, EntryState
    <3>3. Written(n, "delivered", jobs[n].acted, r)
      BY <1>1, <2>2, <3>1, WhatIsWritten
    <3> QED BY <1>1, <2>1, <2>2, <3>1, <3>2, <3>3, RecordAndEntry
  <2>3. CASE Fail(n) /\ outbox' = outbox
    BY <1>3, <2>3
  <2> QED BY <1>6, <2>2, <2>3 DEF Recovered
<1>7. CASE ActionEnds(n)
  <2>1. outbox' = outbox /\ jobs[n].acted
    BY <1>2, <1>7 DEF ActionEnds
  <2>2. CASE durable /\ Go(n, "saving")
    <3>1. Written(n, "saving", jobs[n].acted, same)
      BY <1>1, <2>2, WhatIsWritten
    <3> QED BY <1>1, <2>1, <2>2, <3>1, RecordOnly
  <2>3. CASE Deliver(n, r)
    <3>1. Written(n, "delivered", jobs[n].acted, r)
      BY <1>1, <2>3, WhatIsWritten
    <3> QED BY <1>b, <2>1, <3>1
  <2> QED BY <1>3, <1>7, <2>1, <2>2, <2>3 DEF ActionEnds
<1>8. CASE Saved(n)
  <2>1. durable /\ jobs[n].acted /\ outbox[key].run = r
    BY <1>2, <1>8 DEF Saved
  <2>2. ASSUME NEW st \in {"settled", "unknown"}, outbox' = [outbox EXCEPT ![key].state = st],
               Deliver(n, r) \/ Fail(n)
        PROVE  KeyStep(n)
    <3>1. PICK e : /\ outbox' = [outbox EXCEPT ![key] = e]
                   /\ e.state = st /\ e.run = outbox[key].run
      BY ONLY IInv, <1>1, <2>2, EntryState
    <3>2. CASE Written(n, "delivered", jobs[n].acted, r)
      BY <1>1, <2>1, <3>1, <3>2, RecordAndEntry
    <3>3. CASE Written(n, "failed", jobs[n].acted, same)
      BY <1>1, <2>1, <3>1, <3>3, RecordAndEntry
    <3> QED BY <1>1, <2>2, <3>2, <3>3, WhatIsWritten
  <2>3. CASE Fail(n) /\ outbox' = outbox
    BY <1>3, <2>3
  <2> QED BY <1>8, <2>2, <2>3 DEF Saved
<1> QED BY <1>4, <1>5, <1>6, <1>7, <1>8 DEF JobStep

LEMMA NextKeys == IInv /\ IInv' /\ KeysInv /\ [Next]_vars => KeysInv'
<1> SUFFICES ASSUME IInv, IInv', KeysInv, [Next]_vars PROVE KeysInv'
  OBVIOUS
<1>1. CASE beginRun \/ endRun \/ AbortRun \/ close \/ UNCHANGED vars
  BY <1>1, SessionKeys DEF beginRun, endRun, AbortRun, close, vars
<1>2. CASE \E c \in Calls : execute(c)
  BY <1>2, executeKeys
<1>3. CASE \E n \in 1..MaxJobs : JobStep(n)
  BY <1>3, JobKeyStep, KeyStepKeeps
<1> QED BY <1>1, <1>2, <1>3 DEF Next

-----------------------------------------------------------------------------
LEMMA Invariance == FairSpec => []IInv
  BY InitIInv, NextIInv, PTL DEF FairSpec

(* Type correctness of the session, its requests and its outbox.             *)
THEOREM TypeCorrect == FairSpec => []TypeOK
<1>1. IInv => TypeOK BY DEF IInv
<1> QED BY <1>1, Invariance, PTL

(* Host tool calls act one at a time, in the order they were requested, also *)
(* over runs that end or are followed by others meanwhile                    *)
(* (RuntimeHostTools.ts:170-205).                                            *)
THEOREM OneAtATime == FairSpec => []Serialized
<1>1. IInv => Serialized BY DEF IInv
<1> QED BY <1>1, Invariance, PTL

(* After a call that failed, no later call of its run starts an action       *)
(* (RuntimeHostTools.ts:192-204).                                    *)
THEOREM FailureIsFinal == FairSpec => []FailureStopsRun
<1>1. IInv => FailureStopsRun BY DEF IInv
<1> QED BY <1>1, Invariance, PTL

LEMMA KeysInvariance == FairSpec => []KeysInv
  BY InitKeys, NextKeys, Invariance, PTL DEF FairSpec

(* A call of a run acts once, however often it is requested and under        *)
(* whichever key it is kept (RuntimeHostTools.ts:147-169, ledgerKey).        *)
THEOREM ActionIsOnce == FairSpec => []ActsOnce
<1>1. KeysInv => ActsOnce BY DEF KeysInv
<1> QED BY <1>1, KeysInvariance, PTL

(* A delivered answer is the one of the run that asked, also when another    *)
(* run uses the same call id.                                                *)
THEOREM AnswerIsOfItsRun == FairSpec => []AnswerOfItsRun
<1>1. KeysInv => AnswerOfItsRun BY DEF KeysInv
<1> QED BY <1>1, KeysInvariance, PTL
=============================================================================
