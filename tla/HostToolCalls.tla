----------------------------- MODULE HostToolCalls -----------------------------
(***************************************************************************)
(* RuntimeHostTools (agent-runtime/RuntimeHostTools.ts): the host's tools  *)
(* as the native harness of a session calls them, run after run.  Every    *)
(* call is chained on the one before (`tail`), and what a request saw when *)
(* it was made (its run, its key in the outbox) is used when its turn      *)
(* comes: by then its run may have been aborted, have ended, or have been  *)
(* followed by another one that uses the same call ids.                    *)
(*                                                                         *)
(* A session with control storage goes through RuntimeControl.outbox(),    *)
(* which RuntimeControl models in full; one without remembers its promises *)
(* in processCalls.                                                        *)
(***************************************************************************)
EXTENDS Naturals, Sequences

CONSTANTS
  Calls,     \* tool call ids of the harness, the same in every run
  LastRun,   \* bound: runs are 1..LastRun
  MaxJobs    \* bound: requests of the harness, repeated ones included

ASSUME HostToolAssumption == {LastRun, MaxJobs} \subseteq Nat

VARIABLES
  durable,   \* whether the session has control storage
  run,       \* this.run, 0 if there is none
  begun,     \* the last run that was begun
  aborted,   \* runs whose signal is aborted
  closed,
  jobs,      \* the chained requests, in the order they were made
  tail,      \* the job the next one is chained on, 0 if there is none
  outbox     \* the acknowledged entries, by key

vars == <<durable, run, begun, aborted, closed, jobs, tail, outbox>>

Runs == 1..LastRun
Keys == {0} \X Calls \cup Runs \X Calls   \* a call id, or run and call id
NoEntry == [state |-> "absent", run |-> 0]
Active == {"admitting", "acting", "saving", "recovering"}

\* acted and answer are history: whether the job started the action of its call,
\* and the run whose action its answer is from (0: none yet).
Jobs == [run : Runs, call : Calls, key : Keys, after : 0..MaxJobs,
         phase : {"waiting", "delivered", "failed"} \cup Active, acted : BOOLEAN, answer : 0..LastRun]

TypeOK ==
  /\ durable \in BOOLEAN /\ closed \in BOOLEAN
  /\ run \in 0..LastRun /\ begun \in 0..LastRun /\ run \in {0, begun}
  /\ aborted \subseteq 1..begun
  /\ jobs \in Seq(Jobs) /\ Len(jobs) <= MaxJobs /\ tail = Len(jobs)
  /\ outbox \in [Keys -> [state : {"absent", "executing", "unknown", "settled"}, run : 0..LastRun]]

Init ==
  /\ durable \in BOOLEAN /\ closed = FALSE
  /\ run = 0 /\ begun = 0 /\ aborted = {}
  /\ jobs = <<>> /\ tail = 0
  /\ outbox = [k \in Keys |-> NoEntry]

-----------------------------------------------------------------------------
beginRun ==
  /\ run = 0 /\ begun < LastRun /\ ~closed
  /\ run' = begun + 1 /\ begun' = begun + 1
  /\ UNCHANGED <<durable, aborted, closed, jobs, tail, outbox>>

\* The run is over for the harness, also while calls of it are pending.
endRun ==
  /\ run # 0 /\ run' = 0
  /\ UNCHANGED <<durable, begun, aborted, closed, jobs, tail, outbox>>

AbortRun ==
  /\ run # 0 /\ run \notin aborted
  /\ aborted' = aborted \cup {run}
  /\ UNCHANGED <<durable, run, begun, closed, jobs, tail, outbox>>

\* close() lets the chain run out.
close ==
  /\ ~closed /\ closed' = TRUE
  /\ UNCHANGED <<durable, run, begun, aborted, jobs, tail, outbox>>

\* Variant: the call id alone is the key of a call.
CallIdOnly(c) == <<0, c>>

\* ledgerKey: the call id, unless the outbox knows it from another run by now.
ledgerKey(c) ==
  IF durable /\ outbox[<<0, c>>].run \in {0, run} THEN <<0, c>> ELSE <<run, c>>

\* Variant: a repeated request is a new one.
NeverAsked(c) == FALSE

\* processCalls: without control storage a repeated request gets the promise of the first.
Asked(c) == ~durable /\ \E n \in DOMAIN jobs : jobs[n].run = run /\ jobs[n].call = c

\* Variant: the tail does not move.
executeBeside(c) ==
  /\ run # 0 /\ ~closed /\ ~Asked(c) /\ Len(jobs) < MaxJobs
  /\ jobs' = Append(jobs, [run |-> run, call |-> c, key |-> ledgerKey(c), after |-> tail,
                           phase |-> "waiting", acted |-> FALSE, answer |-> 0])
  /\ UNCHANGED <<durable, run, begun, aborted, closed, tail, outbox>>

\* execute(): the request is chained on the one before it.
execute(c) ==
  /\ run # 0 /\ ~closed /\ ~Asked(c) /\ Len(jobs) < MaxJobs
  /\ jobs' = Append(jobs, [run |-> run, call |-> c, key |-> ledgerKey(c), after |-> tail,
                           phase |-> "waiting", acted |-> FALSE, answer |-> 0])
  /\ tail' = Len(jobs) + 1
  /\ UNCHANGED <<durable, run, begun, aborted, closed, outbox>>

-----------------------------------------------------------------------------
\* Variant: a closed session leaves the calls that wait where they are.
TurnWhileOpen(n) ==
  ~closed /\ (jobs[n].after # 0 => jobs[jobs[n].after].phase \in {"delivered", "failed"})

\* The job n is chained on has settled.
Turn(n) == jobs[n].after # 0 => jobs[jobs[n].after].phase \in {"delivered", "failed"}

Go(n, phase) == jobs' = [jobs EXCEPT ![n].phase = phase] /\ UNCHANGED aborted
Deliver(n, from) == jobs' = [jobs EXCEPT ![n] = [@ EXCEPT !.phase = "delivered", !.answer = from]] /\ UNCHANGED aborted

\* Variant: the harness is only told.
FailOnly(n) == jobs' = [jobs EXCEPT ![n].phase = "failed"] /\ UNCHANGED aborted

\* The call fails, and its run is stopped before the next call gets its turn.
Fail(n) ==
  /\ jobs' = [jobs EXCEPT ![n].phase = "failed"]
  /\ aborted' = aborted \cup {jobs[n].run}

StillWanted(r) == r \notin aborted /\ ~closed /\ run = r

\* invoke(): the action starts only for a run that still wants it.
Invoke(n) ==
  IF StillWanted(jobs[n].run)
  THEN jobs' = [jobs EXCEPT ![n] = [@ EXCEPT !.phase = "acting", !.acted = TRUE]] /\ UNCHANGED aborted
  ELSE Fail(n)

\* The job gets its turn: without storage it invokes the tool, with it the outbox
\* is looked at first.
StartJob(n) ==
  /\ jobs[n].phase = "waiting" /\ Turn(n)
  /\ LET entry == outbox[jobs[n].key]
     IN \/ ~durable /\ Invoke(n)
        \/ durable /\ entry.state = "settled" /\ Deliver(n, entry.run)
        \/ durable /\ entry.state = "absent" /\ Go(n, "admitting")
        \/ durable /\ entry.state \in {"executing", "unknown"} /\ Go(n, "recovering")
  /\ UNCHANGED <<durable, run, begun, closed, tail, outbox>>

\* The admission of the call is written, and then the tool invoked.
Admitted(n) ==
  /\ jobs[n].phase = "admitting"
  /\ \/ outbox' = [outbox EXCEPT ![jobs[n].key] = [state |-> "executing", run |-> jobs[n].run]] /\ Invoke(n)
     \/ Fail(n) /\ UNCHANGED outbox
  /\ UNCHANGED <<durable, run, begun, closed, tail>>

\* The source of an unresolved action may know its report, if it was ever started.
Recovered(n) ==
  LET from == outbox[jobs[n].key].run IN
  /\ jobs[n].phase = "recovering"
  /\ \/ /\ \E m \in DOMAIN jobs : jobs[m].acted /\ jobs[m].key = jobs[n].key
        /\ outbox' = [outbox EXCEPT ![jobs[n].key].state = "settled"]
        /\ Deliver(n, from)
     \/ Fail(n) /\ UNCHANGED outbox
  /\ UNCHANGED <<durable, run, begun, closed, tail>>

\* The tool returns, with an outcome that may be unknown, or its observation
\* cannot be kept.
ActionEnds(n) ==
  /\ jobs[n].phase = "acting"
  /\ IF durable THEN Go(n, "saving") \/ Fail(n)
     ELSE Deliver(n, jobs[n].run) \/ Fail(n)
  /\ UNCHANGED <<durable, run, begun, closed, tail, outbox>>

\* Its report is written; an unknown outcome is an error though it is saved.
Saved(n) ==
  /\ jobs[n].phase = "saving"
  /\ \/ outbox' = [outbox EXCEPT ![jobs[n].key].state = "settled"] /\ Deliver(n, jobs[n].run)
     \/ outbox' = [outbox EXCEPT ![jobs[n].key].state = "unknown"] /\ Fail(n)
     \/ Fail(n) /\ UNCHANGED outbox
  /\ UNCHANGED <<durable, run, begun, closed, tail>>

JobStep(n) ==
  n \in DOMAIN jobs /\ (StartJob(n) \/ Admitted(n) \/ Recovered(n) \/ ActionEnds(n) \/ Saved(n))

Next ==
  \/ beginRun \/ endRun \/ AbortRun \/ close
  \/ \E c \in Calls : execute(c)
  \/ \E n \in 1..MaxJobs : JobStep(n)

\* The storage answers, and a tool returns (executeWithOutcome() reports at the
\* latest when the call times out or its signal is aborted).
FairSpec == Init /\ [][Next]_vars /\ \A n \in 1..MaxJobs : WF_vars(JobStep(n))

-----------------------------------------------------------------------------
\* A call acts only when every request made before it has settled, requests of
\* earlier runs that are still going on included.
Serialized ==
  \A m, n \in DOMAIN jobs :
    m < n /\ jobs[n].phase # "waiting" => jobs[m].phase \in {"delivered", "failed"}

\* After a call that failed, its effect perhaps unknown, no later call of its run
\* acts: the harness cannot go on from an answer it did not get.
FailureStopsRun ==
  \A m, n \in DOMAIN jobs :
    m < n /\ jobs[m].run = jobs[n].run /\ jobs[m].phase = "failed" => ~jobs[n].acted

\* A call of a run acts once, however often the harness asks for it.
ActsOnce ==
  \A m, n \in DOMAIN jobs :
    m # n /\ jobs[m].acted /\ jobs[n].acted => <<jobs[m].run, jobs[m].call>> # <<jobs[n].run, jobs[n].call>>

\* The answer of a call comes from the action of its own run, although a later run
\* may use its id and the key was chosen before the entry of the earlier run was
\* acknowledged.
AnswerOfItsRun == \A n \in DOMAIN jobs : jobs[n].phase = "delivered" => jobs[n].answer = jobs[n].run

\* Closing drains the chain: every call settles.
CloseDrains == closed ~> \A n \in DOMAIN jobs : jobs[n].phase \in {"delivered", "failed"}
=============================================================================
