---------------------------- MODULE RunSupervision ----------------------------
(***************************************************************************)
(* How LocalExecutionBackend.ts supervises native runs: LocalAgentSession  *)
(* starts at most one run at a time, leases its workspace for it, and lets *)
(* the session and the workspace be used again only once the native run    *)
(* has provably ended, whatever aborts, time-outs, late startups and       *)
(* detached observers do meanwhile.                                        *)
(*                                                                         *)
(* The native side is a driver's run: it may start late, refuse to start,  *)
(* ignore its cancellation and end at any time.  Its result promise settles*)
(* only once it has ended (the contract of DriverRun).                     *)
(***************************************************************************)
EXTENDS Naturals

CONSTANTS
  Sessions,     \* local agent sessions
  Workspaces,   \* workspace identities
  None,         \* no workspace, no lease
  WorkspaceOf,  \* [Sessions -> Workspaces \cup {None}]
  Plain,        \* sessions that are not in definition mode
  Independent,  \* sessions whose native run outlives its observer
  MaxRuns       \* bound: runs started, in all sessions

ASSUME SupervisionAssumption ==
  /\ WorkspaceOf \in [Sessions -> Workspaces \cup {None}]
  /\ None \notin Workspaces /\ None \notin Sessions
  /\ Plain \subseteq Sessions
  /\ Independent \subseteq Sessions \ Plain
  /\ MaxRuns \in Nat

VARIABLES
  state,            \* LocalAgentSession._state
  workspaceLeases,  \* LocalExecutionBackend.workspaceLeases, by session
  phase,            \* where executeRun() of the active run is; "none" without one
  native,           \* what the native run is really doing
  attached,         \* does the run know its DriverRun?
  aborted,          \* is the run's controller aborted (cancel, time-out, signal)?
  detached,         \* is the observer aborted?
  confirmed,        \* LocalAgentRun._nativeTerminationConfirmed
  finished,         \* was run.finished published for the session's last run?
  runs              \* history: how many runs were started

host == <<state, workspaceLeases, phase, attached, aborted, detached, confirmed, finished, runs>>
vars == <<host, native>>

Phases ==
  {"none", "beginning", "starting", "accepting", "collecting", "cancelling",
   "confirming", "awaiting", "ending"}

\* A native run that may be changing its workspace.
Working(s) == native[s] \in {"starting", "running"}

Init ==
  /\ state = [s \in Sessions |-> "ready"]
  /\ workspaceLeases = [w \in Workspaces |-> None]
  /\ phase = [s \in Sessions |-> "none"]
  /\ native = [s \in Sessions |-> "none"]
  /\ attached = [s \in Sessions |-> FALSE]
  /\ aborted = [s \in Sessions |-> FALSE]
  /\ detached = [s \in Sessions |-> FALSE]
  /\ confirmed = [s \in Sessions |-> TRUE]
  /\ finished = [s \in Sessions |-> FALSE]
  /\ runs = 0

-----------------------------------------------------------------------------
(* The native side: nothing obliges it to do any of this.                    *)

NativeStarts(s) ==
  /\ native[s] = "starting"
  /\ native' = [native EXCEPT ![s] = "running"]
  /\ UNCHANGED host

NativeRefuses(s) ==
  /\ native[s] = "starting"
  /\ native' = [native EXCEPT ![s] = "refused"]
  /\ UNCHANGED host

NativeEnds(s) ==
  /\ native[s] = "running"
  /\ native' = [native EXCEPT ![s] = "ended"]
  /\ UNCHANGED host

-----------------------------------------------------------------------------
(* run(), and what may happen to its run from outside.                       *)

\* Variant: the lease is taken whoever holds it.
acquireAnyway(s) ==
  workspaceLeases' =
    [w \in Workspaces |-> IF w = WorkspaceOf[s] THEN s ELSE workspaceLeases[w]]

acquireWorkspace(s) ==
  IF WorkspaceOf[s] = None
  THEN UNCHANGED workspaceLeases
  ELSE /\ workspaceLeases[WorkspaceOf[s]] = None
       /\ workspaceLeases' = [workspaceLeases EXCEPT ![WorkspaceOf[s]] = s]

releaseWorkspace(s) ==
  workspaceLeases' =
    [w \in Workspaces |-> IF w = WorkspaceOf[s] /\ workspaceLeases[w] = s
                          THEN None ELSE workspaceLeases[w]]

Run(s) ==
  /\ state[s] = "ready"
  /\ phase[s] = "none"
  /\ runs < MaxRuns
  /\ acquireWorkspace(s)
  /\ state' = [state EXCEPT ![s] = "running"]
  /\ phase' = [phase EXCEPT ![s] = "beginning"]
  /\ native' = [native EXCEPT ![s] = "none"]
  /\ attached' = [attached EXCEPT ![s] = FALSE]
  /\ aborted' = [aborted EXCEPT ![s] = FALSE]
  /\ detached' = [detached EXCEPT ![s] = FALSE]
  /\ confirmed' = [confirmed EXCEPT ![s] = s \in Plain]
  /\ finished' = [finished EXCEPT ![s] = FALSE]
  /\ runs' = runs + 1

\* cancel(), the wall-time limit, the caller's signal, or a host tool's stop.
Abort(s) ==
  /\ phase[s] # "none"
  /\ ~aborted[s]
  /\ aborted' = [aborted EXCEPT ![s] = TRUE]
  /\ UNCHANGED <<state, workspaceLeases, phase, native, attached, detached, confirmed, finished, runs>>

\* detachObserver(): the native run goes on unobserved.
DetachObserver(s) ==
  /\ s \notin Plain
  /\ phase[s] # "none"
  /\ ~detached[s]
  /\ detached' = [detached EXCEPT ![s] = TRUE]
  /\ UNCHANGED <<state, workspaceLeases, phase, native, attached, aborted, confirmed, finished, runs>>

-----------------------------------------------------------------------------
(* executeRun(), from one await to the next.                                 *)

Goes(s, from, to) ==
  /\ phase[s] = from
  /\ phase' = [phase EXCEPT ![s] = to]

Confirm(s, value) == confirmed' = [confirmed EXCEPT ![s] = value]

\* The catch block, up to its first await.
Caught(s, from) ==
  \/ /\ detached[s]
     /\ Goes(s, from, "ending")
     /\ Confirm(s, FALSE)
  \/ /\ ~detached[s] /\ aborted[s]
     /\ Goes(s, from, "cancelling")
     /\ UNCHANGED confirmed
  \/ /\ ~detached[s] /\ ~aborted[s]
     /\ \/ s \in Independent /\ Goes(s, from, "ending") /\ Confirm(s, FALSE)
        \/ /\ s \notin Independent
           /\ Goes(s, from, IF attached[s] THEN "cancelling" ELSE "ending")
           /\ UNCHANGED confirmed

\* raceWithAbort rejects as soon as the run is aborted or its observer detached.
RaceLost(s) == aborted[s] \/ detached[s]

\* hostTools.beginRun() returns, and the driver is asked to run; or it throws.
Begin(s) ==
  \/ /\ Goes(s, "beginning", "starting")
     /\ native' = [native EXCEPT ![s] = "starting"]
     /\ UNCHANGED <<state, workspaceLeases, attached, aborted, detached, confirmed, finished, runs>>
  \/ /\ Caught(s, "beginning")
     /\ UNCHANGED <<state, workspaceLeases, native, attached, aborted, detached, finished, runs>>

\* The race between the native startup and an abort.
Start(s) ==
  /\ UNCHANGED <<state, workspaceLeases, native, aborted, detached, finished, runs>>
  /\ \/ /\ native[s] \in {"running", "ended"}
        /\ Goes(s, "starting", "accepting")
        /\ attached' = [attached EXCEPT ![s] = TRUE]
        /\ UNCHANGED confirmed
     \/ /\ RaceLost(s) \/ native[s] = "refused"
        /\ Caught(s, "starting")
        /\ UNCHANGED attached

\* onNativeAccepted(): a checkpoint and a control update, which may fail.
Accept(s) ==
  /\ UNCHANGED <<state, workspaceLeases, native, attached, aborted, detached, finished, runs>>
  /\ \/ Goes(s, "accepting", "collecting") /\ UNCHANGED confirmed
     \/ s \notin Plain /\ Caught(s, "accepting")

\* collectDriverRun(): the native run ended, its event stream broke, or an abort
\* won the race.
Collect(s) ==
  /\ UNCHANGED <<state, workspaceLeases, native, attached, aborted, detached, finished, runs>>
  /\ \/ /\ native[s] = "ended"
        /\ Goes(s, "collecting", "ending")
        /\ Confirm(s, TRUE)
     \/ Caught(s, "collecting")

\* cancelNative() returns: the native side answered, or its time is over.
CancelNative(s) ==
  /\ UNCHANGED <<state, workspaceLeases, native, attached, aborted, detached, finished, runs>>
  /\ IF ~attached[s] /\ native[s] = "none"
     THEN Goes(s, "cancelling", "ending") /\ Confirm(s, FALSE)
     ELSE /\ Goes(s, "cancelling", IF attached[s] THEN "confirming" ELSE "awaiting")
          /\ UNCHANGED confirmed

\* Variant: a startup that is late is taken for one that was cancelled.
AwaitStartupNoLonger(s) ==
  /\ UNCHANGED <<state, workspaceLeases, native, attached, aborted, detached, finished, runs>>
  /\ Goes(s, "awaiting", "ending")
  /\ Confirm(s, TRUE)

\* settleOutcomeWithin(nativeStartup): refused, started after all, or too late.
AwaitStartup(s) ==
  /\ UNCHANGED <<state, workspaceLeases, native, aborted, detached, finished, runs>>
  /\ \/ /\ native[s] = "refused"
        /\ Goes(s, "awaiting", "ending")
        /\ Confirm(s, TRUE)
        /\ UNCHANGED attached
     \/ /\ native[s] \in {"running", "ended"}
        /\ Goes(s, "awaiting", "cancelling")
        /\ attached' = [attached EXCEPT ![s] = TRUE]
        /\ UNCHANGED confirmed
     \/ /\ Goes(s, "awaiting", "ending")
        /\ Confirm(s, FALSE)
        /\ UNCHANGED attached

\* Variant: the bounded wait for the native end counts as its end.
ConfirmAnyway(s) ==
  /\ UNCHANGED <<state, workspaceLeases, native, attached, aborted, detached, finished, runs>>
  /\ Goes(s, "confirming", "ending")
  /\ Confirm(s, TRUE)

\* Variant: the wait for the native end is not bounded.
ConfirmUnbounded(s) ==
  /\ UNCHANGED <<state, workspaceLeases, native, attached, aborted, detached, finished, runs>>
  /\ native[s] = "ended"
  /\ Goes(s, "confirming", "ending")
  /\ Confirm(s, TRUE)

\* confirmDriverRunTermination(): the run's result settled, or its time is over.
ConfirmTermination(s) ==
  /\ UNCHANGED <<state, workspaceLeases, native, attached, aborted, detached, finished, runs>>
  /\ Goes(s, "confirming", "ending")
  /\ \/ native[s] = "ended" /\ Confirm(s, TRUE)
     \/ Confirm(s, FALSE)

\* Variant: a destroyed session keeps its lease.
FinishDestroyedFirst(s) ==
  /\ Goes(s, "ending", "none")
  /\ finished' = [finished EXCEPT ![s] = s \in Plain \/ confirmed[s]]
  /\ IF state[s] = "running" /\ confirmed[s]
     THEN /\ releaseWorkspace(s)
          /\ state' = [state EXCEPT ![s] = "ready"]
     ELSE /\ UNCHANGED workspaceLeases
          /\ state' = [state EXCEPT ![s] = IF @ = "destroying" THEN @ ELSE "failed"]
  /\ UNCHANGED <<native, attached, aborted, detached, confirmed, runs>>

\* hostTools.endRun(), then finish().
Finish(s) ==
  /\ Goes(s, "ending", "none")
  /\ finished' = [finished EXCEPT ![s] = s \in Plain \/ confirmed[s]]
  /\ IF confirmed[s] THEN releaseWorkspace(s) ELSE UNCHANGED workspaceLeases
  /\ state' = [state EXCEPT ![s] = IF @ = "destroying" THEN @
                                   ELSE IF confirmed[s] THEN "ready" ELSE "failed"]
  /\ UNCHANGED <<native, attached, aborted, detached, confirmed, runs>>

-----------------------------------------------------------------------------
(* destroy() of a session.                                                   *)

Destroy(s) ==
  /\ state[s] \notin {"destroying", "destroyed"}
  /\ state' = [state EXCEPT ![s] = "destroying"]
  /\ aborted' = [aborted EXCEPT ![s] = aborted[s] \/ phase[s] # "none"]
  /\ UNCHANGED <<workspaceLeases, phase, native, attached, detached, confirmed, finished, runs>>

\* The cancelled run has its result; nativeSession.destroy() is given its time.
Destroyed(s) ==
  /\ state[s] = "destroying"
  /\ phase[s] = "none"
  /\ state' = [state EXCEPT ![s] = "destroyed"]
  /\ UNCHANGED <<workspaceLeases, phase, native, attached, aborted, detached, confirmed, finished, runs>>

HostSteps(s) ==
  \/ Begin(s) \/ Start(s) \/ Accept(s) \/ Collect(s) \/ CancelNative(s)
  \/ AwaitStartup(s) \/ ConfirmTermination(s) \/ Finish(s) \/ Destroyed(s)

Next ==
  \E s \in Sessions :
    \/ NativeStarts(s) \/ NativeRefuses(s) \/ NativeEnds(s)
    \/ Run(s) \/ Abort(s) \/ DetachObserver(s) \/ Destroy(s)
    \/ HostSteps(s)

Spec == Init /\ [][Next]_vars

\* The event loop runs every continuation, timers fire, and the host's own hooks
\* and storage answer; the native side owes nothing.
FairSpec == Spec /\ \A s \in Sessions : WF_vars(HostSteps(s))

-----------------------------------------------------------------------------
(* Every variable has its type. *)
TypeOK ==
  /\ state \in [Sessions -> {"ready", "running", "failed", "destroying", "destroyed"}]
  /\ workspaceLeases \in [Workspaces -> Sessions \cup {None}]
  /\ phase \in [Sessions -> Phases]
  /\ native \in [Sessions -> {"none", "starting", "running", "refused", "ended"}]
  /\ attached \in [Sessions -> BOOLEAN]
  /\ aborted \in [Sessions -> BOOLEAN]
  /\ detached \in [Sessions -> BOOLEAN]
  /\ confirmed \in [Sessions -> BOOLEAN]
  /\ finished \in [Sessions -> BOOLEAN]
  /\ runs \in 0..MaxRuns

(* Two native runs never work in one workspace at once, not even one that    *)
(* outlived its cancellation or started after its session gave up on it      *)
(* (LocalExecutionBackend.ts:585-586).                                       *)
NoOverlap ==
  \A s, t \in Sessions :
    (s # t /\ WorkspaceOf[s] # None /\ WorkspaceOf[s] = WorkspaceOf[t])
      => ~(Working(s) /\ Working(t))

(* A session that accepts a new run has no native run of an earlier one      *)
(* behind it (LocalExecutionBackend.ts:495).                                 *)
ReadyIsQuiet == \A s \in Sessions : state[s] = "ready" => ~Working(s)

(* In definition mode run.finished asserts the native end: no event says so  *)
(* of a run that may still be working (LocalExecutionBackend.ts:601-602).    *)
FinishedIsProven == \A s \in Sessions \ Plain : finished[s] => ~Working(s)

(* A workspace is withheld only by a run that is active or unconfirmed: no   *)
(* order of finish, abort and destroy leaks a lease.                         *)
LeasesAreNotLeaked ==
  \A w \in Workspaces : LET s == workspaceLeases[w] IN
    s # None => (phase[s] # "none" \/ ~confirmed[s])

(* A cancelled or timed-out run delivers its result even if the native side  *)
(* never answers, and so a destroyed session gets destroyed.                 *)
AbortSettles ==
  \A s \in Sessions :
    /\ (phase[s] # "none" /\ aborted[s]) ~> phase[s] = "none"
    /\ state[s] = "destroying" ~> state[s] = "destroyed"
=============================================================================
