---------------------------- MODULE LocalRunProofs ----------------------------
(***************************************************************************)
(* The two parts of a local run that others rely on: its supervision and   *)
(* its event stream.                                                       *)
(*                                                                         *)
(* Supervision, for any sessions, workspaces and number of runs: a         *)
(* working native run always has its workspace's lease, and a session      *)
(* calls a run confirmed only when nothing works behind it.                *)
(*                                                                         *)
(* The event hub, for any budgets, subscribers and number of events: what  *)
(* the journal no longer has, the diagnostic in it announces, and a        *)
(* compaction keeps that, whatever it drops; so a subscriber is given      *)
(* every event it asked for or a later announcement, in order.             *)
(***************************************************************************)
EXTENDS RunSupervision, EventHub, FiniteSetTheorems, SequenceTheorems, TLAPS

-----------------------------------------------------------------------------
(* RunSupervision: the inductive invariant.                                  *)

\* The lease of a workspace is with the run that is active or working in it.
LeaseCovers ==
  \A s \in Sessions :
    (WorkspaceOf[s] # None /\ (phase[s] # "none" \/ Working(s)))
      => workspaceLeases[WorkspaceOf[s]] = s

LeasesAreOwn ==
  \A w \in Workspaces :
    workspaceLeases[w] # None => WorkspaceOf[workspaceLeases[w]] = w

\* What each phase of executeRun() knows of the native run.
PhaseKnows ==
  \A s \in Sessions :
    /\ phase[s] = "beginning" => native[s] = "none"
    /\ phase[s] \in {"beginning", "starting"} => ~attached[s]
    /\ phase[s] \in {"accepting", "collecting"} => attached[s]
    /\ (phase[s] \in {"ending", "none"} /\ confirmed[s]) => ~Working(s)

StateKnows ==
  \A s \in Sessions :
    /\ state[s] = "ready" => phase[s] = "none" /\ confirmed[s]
    /\ (finished[s] /\ s \notin Plain) => phase[s] = "none" /\ confirmed[s]

IInv == TypeOK /\ LeaseCovers /\ LeasesAreOwn /\ PhaseKnows /\ StateKnows /\ LeasesAreNotLeaked

-----------------------------------------------------------------------------
LEMMA InitIInv == Init => IInv
  BY SupervisionAssumption
  DEF Init, IInv, TypeOK, Phases, LeaseCovers, LeasesAreOwn, PhaseKnows, StateKnows,
      LeasesAreNotLeaked, Working

\* What the native side does leaves every conjunct but those on native alone.
LEMMA NativeSteps ==
  ASSUME IInv, NEW s \in Sessions, NativeStarts(s) \/ NativeRefuses(s) \/ NativeEnds(s)
  PROVE IInv'
  BY SupervisionAssumption
  DEF IInv, TypeOK, Phases, LeaseCovers, LeasesAreOwn, PhaseKnows, StateKnows,
      LeasesAreNotLeaked, Working, NativeStarts, NativeRefuses, NativeEnds, host

LEMMA RunStep ==
  ASSUME IInv, NEW s \in Sessions, Run(s)
  PROVE IInv'
<1>1. TypeOK'
  BY SupervisionAssumption DEF IInv, TypeOK, Phases, Run, acquireWorkspace
<1>2. LeaseCovers'
  <2> SUFFICES ASSUME NEW t \in Sessions, WorkspaceOf[t] # None, (phase[t] # "none" \/ Working(t))'
               PROVE  workspaceLeases'[WorkspaceOf[t]] = t
    BY DEF LeaseCovers
  <2>1. CASE t = s
    BY <2>1, SupervisionAssumption DEF IInv, TypeOK, Run, acquireWorkspace
  <2>2. CASE t # s
    <3>1. phase[t] # "none" \/ Working(t)
      BY <2>2 DEF IInv, TypeOK, Run, Working
    <3>2. workspaceLeases[WorkspaceOf[t]] = t
      BY <3>1 DEF IInv, LeaseCovers
    <3>3. WorkspaceOf[t] # WorkspaceOf[s]
      BY <3>2, SupervisionAssumption DEF Run, acquireWorkspace
    <3> QED BY <3>2, <3>3, SupervisionAssumption DEF IInv, TypeOK, Run, acquireWorkspace
  <2> QED BY <2>1, <2>2
<1>3. LeasesAreOwn'
  BY SupervisionAssumption DEF IInv, TypeOK, LeasesAreOwn, Run, acquireWorkspace
<1>4. PhaseKnows' /\ StateKnows'
  BY SupervisionAssumption
  DEF IInv, TypeOK, Phases, PhaseKnows, StateKnows, Working, Run
<1>5. LeasesAreNotLeaked'
  BY SupervisionAssumption
  DEF IInv, TypeOK, Phases, LeasesAreNotLeaked, StateKnows, Run, acquireWorkspace
<1> QED BY <1>1, <1>2, <1>3, <1>4, <1>5 DEF IInv

LEMMA OutsideSteps ==
  ASSUME IInv, NEW s \in Sessions,
         Abort(s) \/ DetachObserver(s) \/ Destroy(s) \/ Destroyed(s)
  PROVE IInv'
<1>1. TypeOK'
  <2>1. aborted' \in [Sessions -> BOOLEAN]
    BY DEF IInv, TypeOK, Abort, DetachObserver, Destroy, Destroyed
  <2> QED BY <2>1 DEF IInv, TypeOK, Phases, Abort, DetachObserver, Destroy, Destroyed
<1>2. StateKnows'
  BY DEF IInv, TypeOK, StateKnows, Abort, DetachObserver, Destroy, Destroyed
<1>3. UNCHANGED <<workspaceLeases, phase, native, attached, confirmed>>
  BY DEF Abort, DetachObserver, Destroy, Destroyed
<1>4. LeaseCovers' /\ LeasesAreOwn' /\ PhaseKnows' /\ LeasesAreNotLeaked'
  BY <1>3 DEF IInv, LeaseCovers, LeasesAreOwn, PhaseKnows, LeasesAreNotLeaked, Working
<1> QED BY <1>1, <1>2, <1>4 DEF IInv

\* A step of executeRun() changes nothing the leases depend on, as long as its
\* run stays active.
LEMMA ActiveKeepsLeases ==
  ASSUME IInv, NEW s \in Sessions, NEW to \in Phases \ {"none"},
         phase[s] # "none", phase' = [phase EXCEPT ![s] = to],
         \A t \in Sessions \ {s} : native'[t] = native[t] /\ confirmed'[t] = confirmed[t],
         UNCHANGED workspaceLeases
  PROVE LeaseCovers' /\ LeasesAreOwn' /\ LeasesAreNotLeaked'
  BY SupervisionAssumption
  DEF IInv, TypeOK, Phases, LeaseCovers, LeasesAreOwn, LeasesAreNotLeaked, Working

LEMMA BeginStep ==
  ASSUME IInv, NEW s \in Sessions, Begin(s)
  PROVE IInv'
<1>1. TypeOK'
  BY DEF IInv, TypeOK, Phases, Begin, Caught, Goes, Confirm
<1>2. PhaseKnows' /\ StateKnows'
  BY DEF IInv, TypeOK, Phases, PhaseKnows, StateKnows, Working, Begin, Caught, Goes, Confirm
<1>3. PICK to \in Phases \ {"none"} : phase' = [phase EXCEPT ![s] = to]
  BY DEF IInv, TypeOK, Phases, Begin, Caught, Goes
<1>4. LeaseCovers' /\ LeasesAreOwn' /\ LeasesAreNotLeaked'
  <2>1. phase[s] # "none" BY DEF Begin, Caught, Goes
  <2>2. \A t \in Sessions \ {s} : native'[t] = native[t] /\ confirmed'[t] = confirmed[t]
    BY DEF IInv, TypeOK, Begin, Caught, Goes, Confirm
  <2> QED BY <1>3, <2>1, <2>2, ActiveKeepsLeases DEF Begin
<1> QED BY <1>1, <1>2, <1>4 DEF IInv

\* The steps of executeRun() between its native startup and its end.
Middle(s) ==
  Start(s) \/ Accept(s) \/ Collect(s) \/ CancelNative(s) \/ AwaitStartup(s) \/ ConfirmTermination(s)

LEMMA MiddleSteps ==
  ASSUME IInv, NEW s \in Sessions, Middle(s)
  PROVE IInv'
<1>1. TypeOK'
  BY DEF IInv, TypeOK, Phases, Middle, Start, Accept, Collect, CancelNative, AwaitStartup,
         ConfirmTermination, Caught, Goes, Confirm
<1>2. StateKnows'
  BY DEF IInv, TypeOK, Phases, StateKnows, Middle, Start, Accept, Collect, CancelNative,
         AwaitStartup, ConfirmTermination, Caught, Goes, Confirm
<1>3. PhaseKnows'
  <2>1. CASE Start(s)
    <3>1. phase[s] = "starting" /\ ~attached[s]
      BY <2>1 DEF IInv, PhaseKnows, Start, Caught, Goes
    <3>2. CASE Goes(s, "starting", "accepting") /\ attached' = [attached EXCEPT ![s] = TRUE] /\ UNCHANGED confirmed
      BY <2>1, <3>2 DEF IInv, TypeOK, Phases, PhaseKnows, Working, Start, Goes
    <3>3. CASE (RaceLost(s) \/ native[s] = "refused") /\ Caught(s, "starting") /\ UNCHANGED attached
      <4>1. CASE phase' = [phase EXCEPT ![s] = "cancelling"] /\ UNCHANGED confirmed
        BY <2>1, <3>3, <4>1 DEF IInv, TypeOK, Phases, PhaseKnows, Working, Start
      <4>2. CASE phase' = [phase EXCEPT ![s] = "ending"] /\ Confirm(s, FALSE)
        BY <2>1, <3>3, <4>2 DEF IInv, TypeOK, Phases, PhaseKnows, Working, Start, Confirm
      <4>3. CASE phase' = [phase EXCEPT ![s] = "ending"] /\ UNCHANGED confirmed /\ native[s] = "refused"
        BY <2>1, <3>3, <4>3 DEF IInv, TypeOK, Phases, PhaseKnows, Working, Start
      <4> QED BY <3>1, <3>3, <4>1, <4>2, <4>3 DEF Caught, Goes, RaceLost
    <3> QED BY <2>1, <3>2, <3>3 DEF Start
  <2>2. CASE Accept(s)
    BY <2>2 DEF IInv, TypeOK, Phases, PhaseKnows, Working, Accept, Caught, Goes, Confirm
  <2>3. CASE Collect(s)
    BY <2>3 DEF IInv, TypeOK, Phases, PhaseKnows, Working, Collect, Caught, Goes, Confirm
  <2>4. CASE CancelNative(s) \/ AwaitStartup(s) \/ ConfirmTermination(s)
    BY <2>4 DEF IInv, TypeOK, Phases, PhaseKnows, Working, CancelNative, AwaitStartup,
                ConfirmTermination, Goes, Confirm
  <2> QED BY <2>1, <2>2, <2>3, <2>4 DEF Middle
<1>4. PICK to \in Phases \ {"none"} : phase' = [phase EXCEPT ![s] = to]
  BY DEF IInv, TypeOK, Phases, Middle, Start, Accept, Collect, CancelNative, AwaitStartup,
         ConfirmTermination, Caught, Goes
<1>5. LeaseCovers' /\ LeasesAreOwn' /\ LeasesAreNotLeaked'
  <2>1. phase[s] # "none"
    BY DEF Middle, Start, Accept, Collect, CancelNative, AwaitStartup, ConfirmTermination,
           Caught, Goes
  <2>2. \A t \in Sessions \ {s} : native'[t] = native[t] /\ confirmed'[t] = confirmed[t]
    BY DEF IInv, TypeOK, Middle, Start, Accept, Collect, CancelNative, AwaitStartup,
           ConfirmTermination, Caught, Goes, Confirm
  <2>3. UNCHANGED workspaceLeases
    BY DEF Middle, Start, Accept, Collect, CancelNative, AwaitStartup, ConfirmTermination
  <2> QED BY <1>4, <2>1, <2>2, <2>3, ActiveKeepsLeases
<1> QED BY <1>1, <1>2, <1>3, <1>5 DEF IInv

\* finish() gives up the lease only of a run with nothing working behind it.
LEMMA FinishStep ==
  ASSUME IInv, NEW s \in Sessions, Finish(s)
  PROVE IInv'
<1>1. TypeOK'
  BY DEF IInv, TypeOK, Phases, Finish, Goes, releaseWorkspace
<1>2. PhaseKnows' /\ StateKnows'
  BY DEF IInv, TypeOK, Phases, PhaseKnows, StateKnows, Working, Finish, Goes
<1>3. LeaseCovers'
  <2> SUFFICES ASSUME NEW t \in Sessions, WorkspaceOf[t] # None, (phase[t] # "none" \/ Working(t))'
               PROVE  workspaceLeases'[WorkspaceOf[t]] = t
    BY DEF LeaseCovers
  <2>1. phase[t] # "none" \/ Working(t)
    BY DEF IInv, TypeOK, Finish, Goes, Working
  <2>2. workspaceLeases[WorkspaceOf[t]] = t
    BY <2>1 DEF IInv, LeaseCovers
  <2>3. t = s => ~confirmed[s]
    BY <1>2 DEF IInv, TypeOK, PhaseKnows, Finish, Goes, Working
  <2> QED BY <2>2, <2>3, SupervisionAssumption DEF IInv, TypeOK, Finish, Goes, releaseWorkspace
<1>4. LeasesAreOwn' /\ LeasesAreNotLeaked'
  BY SupervisionAssumption
  DEF IInv, TypeOK, Phases, LeasesAreOwn, LeasesAreNotLeaked, Finish, Goes, releaseWorkspace
<1> QED BY <1>1, <1>2, <1>3, <1>4 DEF IInv

LEMMA NextIInv == IInv /\ [Next]_vars => IInv'
<1> SUFFICES ASSUME IInv, [Next]_vars PROVE IInv'
  OBVIOUS
<1>1. CASE UNCHANGED vars
  BY <1>1 DEF IInv, TypeOK, LeaseCovers, LeasesAreOwn, PhaseKnows, StateKnows,
              LeasesAreNotLeaked, Working, vars, host
<1>2. CASE Next
  <2>1. PICK s \in Sessions :
          \/ NativeStarts(s) \/ NativeRefuses(s) \/ NativeEnds(s)
          \/ Run(s) \/ Abort(s) \/ DetachObserver(s) \/ Destroy(s)
          \/ HostSteps(s)
    BY <1>2 DEF Next
  <2> QED BY <2>1, NativeSteps, RunStep, OutsideSteps, BeginStep, MiddleSteps, FinishStep
          DEF HostSteps, Middle
<1> QED BY <1>1, <1>2

-----------------------------------------------------------------------------
(* The inductive invariant holds in every reachable state. *)
THEOREM Invariance == Spec => []IInv
  BY InitIInv, NextIInv, PTL DEF Spec

(* Type correctness (the declared type of every field of the supervisor). *)
THEOREM TypeCorrect == Spec => []TypeOK
<1>1. IInv => TypeOK BY DEF IInv
<1> QED BY <1>1, Invariance, PTL

(* Two native runs never work in one workspace at once, for any sessions     *)
(* and workspaces (LocalExecutionBackend.ts:432-441, 585-589).               *)
THEOREM WorkspaceExclusion == Spec => []NoOverlap
<1>1. IInv => NoOverlap
  BY SupervisionAssumption DEF IInv, TypeOK, LeaseCovers, NoOverlap
<1> QED BY <1>1, Invariance, PTL

(* A ready session has no native run behind it, and in definition mode       *)
(* run.finished is published of none that may still work.                    *)
THEOREM TerminationProven == Spec => [](ReadyIsQuiet /\ FinishedIsProven)
<1>1. IInv => ReadyIsQuiet /\ FinishedIsProven
  BY DEF IInv, PhaseKnows, StateKnows, ReadyIsQuiet, FinishedIsProven
<1> QED BY <1>1, Invariance, PTL

(* No lease outlives a confirmed run, in whatever order it finishes, aborts  *)
(* and is destroyed.                                                         *)
THEOREM NoLeakedLease == Spec => []LeasesAreNotLeaked
<1>1. IInv => LeasesAreNotLeaked BY DEF IInv
<1> QED BY <1>1, Invariance, PTL

-----------------------------------------------------------------------------
(* EventHub: the invariant, part by part, of the value publish() works on.   *)

\* The events of a journal are in order and numbered up to the last number; its
\* diagnostics were made by the hub, and it has one at most.
JournalInv(j, last, made) ==
  /\ j \in Seq(Events)
  /\ \A i, k \in 1..Len(j) : i < k => j[i].sequence < j[k].sequence
  /\ \A i \in 1..Len(j) : j[i].sequence \in 1..last
  /\ \A i \in 1..Len(j) : j[i].kind = "diagnostic" => j[i].sequence \in made
  /\ \A i, k \in 1..Len(j) : j[i].kind = "diagnostic" /\ j[k].kind = "diagnostic" => i = k

NoDiagnostic(j) == \A i \in 1..Len(j) : j[i].kind # "diagnostic"

\* What the journal does not have a later diagnostic in it announces.
Covered(j, last) ==
  \A n \in 1..last :
    \/ \E i \in 1..Len(j) : j[i].sequence = n
    \/ \E i \in 1..Len(j) : j[i].kind = "diagnostic" /\ j[i].sequence > n

Ascending(numbers) == \A i, k \in DOMAIN numbers : i < k => numbers[i] < numbers[k]

\* An iterator got or will get every event it asked for, or an announcement.
Served(q, last, made) ==
  \A n \in (q.after + 1)..last :
    \/ n \in Range(Coming(q))
    \/ \E d \in made : d \in Range(Coming(q)) /\ d > n

\* Of one iterator: its order and what it is owed.  The replay is over before
\* the queue is read.
IteratorInv(q, last, made) ==
  /\ Len(q.queue) <= MaxQueue
  /\ Ascending(Coming(q))
  /\ \A i \in DOMAIN Coming(q) : Coming(q)[i] <= last
  /\ q.status \in {"reading", "waiting"} => q.snapshot = <<>>
  /\ (Listens(q) /\ ~q.overflow) => Served(q, last, made)

Values ==
  [last : Nat, journal : Seq(Events), diagnostics : SUBSET Nat,
   subscriber : [Subscribers -> Iterators]]

ValueInv(c) ==
  /\ c \in Values
  /\ c.diagnostics \subseteq 1..c.last
  /\ JournalInv(c.journal, c.last, c.diagnostics)
  /\ \A s \in Subscribers : IteratorInv(c.subscriber[s], c.last, c.diagnostics)

HubInv ==
  /\ HubTypeOK
  /\ Len(journal) <= MaxJournal
  /\ ValueInv(Current)
  /\ ~expired => Covered(journal, sequence)
  /\ expired => completed

-----------------------------------------------------------------------------
(* Positions.                                                                *)

\* The ranks of a set of positions number it from one on, in its order.
LEMMA Ranks ==
  ASSUME NEW n \in Nat, NEW P, P \subseteq 1..n
  PROVE  /\ IsFiniteSet(P) /\ Cardinality(P) \in Nat
         /\ \A i \in P : Rank(P, i) \in 1..Cardinality(P)
         /\ \A i, k \in P : i < k => Rank(P, i) < Rank(P, k)
         /\ \A k \in 1..Cardinality(P) : \E i \in P : Rank(P, i) = k
<1>0. \A i \in P : i \in Int
  OBVIOUS
<1>1. IsFiniteSet(P) /\ Cardinality(P) \in Nat
  <2>1. IsFiniteSet(1..n)
    BY FS_Interval
  <2>2. IsFiniteSet(P)
    BY <2>1, FS_Subset
  <2> QED BY <2>2, FS_CardinalityType
<1>2. ASSUME NEW i \in P
      PROVE  /\ IsFiniteSet({m \in P : m <= i})
             /\ Rank(P, i) \in 1..Cardinality(P)
  <2> DEFINE U == {m \in P : m <= i}
  <2>1. IsFiniteSet(U) /\ Cardinality(U) <= Cardinality(P)
    BY <1>1, FS_Subset
  <2>2. i \in U
    OBVIOUS
  <2>3. Cardinality(U) \in Nat /\ Cardinality(U) # 0
    BY <2>1, <2>2, FS_CardinalityType, FS_EmptySet
  <2> HIDE DEF U
  <2>4. Cardinality(U) \in 1..Cardinality(P)
    BY <2>1, <2>3, <1>1
  <2> QED BY <2>1, <2>4 DEF Rank, U
<1>3. ASSUME NEW i \in P, NEW k \in P, i < k
      PROVE  Rank(P, i) < Rank(P, k)
  <2> DEFINE U == {m \in P : m <= i}
             W == {m \in P : m <= k}
  <2>1. U \subseteq W /\ k \in W /\ k \notin U
    <3>1. \A m \in P : m <= i => m <= k
      BY <1>0, <1>3
    <3>2. k <= k /\ ~(k <= i)
      BY <1>0, <1>3
    <3> QED BY <3>1, <3>2
  <2>2. IsFiniteSet(U) /\ IsFiniteSet(W)
    BY <1>2
  <2> HIDE DEF U, W
  <2>3. Cardinality(U) <= Cardinality(W) /\ Cardinality(U) # Cardinality(W)
    BY <2>1, <2>2, FS_Subset
  <2>4. Cardinality(U) \in Nat /\ Cardinality(W) \in Nat
    BY <2>2, FS_CardinalityType
  <2>5. Cardinality(U) < Cardinality(W)
    BY <2>3, <2>4
  <2> QED BY <2>5 DEF U, W, Rank
<1>4. ASSUME NEW k \in 1..Cardinality(P)
      PROVE  \E i \in P : Rank(P, i) = k
  <2> DEFINE T == 1..Cardinality(P)
             f == [i \in P |-> Rank(P, i)]
  <2>1. f \in [P -> T]
    BY <1>2
  <2>2. \A i, m \in P : f[i] = f[m] => i = m
    <3> SUFFICES ASSUME NEW i \in P, NEW m \in P, i # m PROVE f[i] # f[m]
      OBVIOUS
    <3>1. Rank(P, i) \in Nat /\ Rank(P, m) \in Nat
      <4>1. Rank(P, i) \in 1..Cardinality(P) /\ Rank(P, m) \in 1..Cardinality(P)
        BY <1>2
      <4> QED BY <4>1, <1>1
    <3>2. i < m \/ m < i
      BY <1>0
    <3>3. Rank(P, i) < Rank(P, m) \/ Rank(P, m) < Rank(P, i)
      BY <1>3, <3>2
    <3>4. Rank(P, i) # Rank(P, m)
      BY <3>1, <3>3
    <3> QED BY <3>4
  <2>3. IsFiniteSet(T) /\ Cardinality(T) = Cardinality(P)
    <3>1. Cardinality(P) \in Int
      BY <1>1
    <3>2. IsFiniteSet(T) /\ Cardinality(T) = IF 1 > Cardinality(P) THEN 0 ELSE Cardinality(P) - 1 + 1
      BY <3>1, FS_Interval
    <3> QED BY <3>2, <1>1
  <2>4. f \in Injection(P, T)
    BY <2>1, <2>2 DEF Injection, IsInjective
  <2> HIDE DEF f, T
  <2>5. f \in Surjection(P, T)
    BY <2>3, <2>4, FS_Injection
  <2>6. \E i \in P : f[i] = k
    BY <2>5 DEF Surjection, T
  <2> QED BY <2>6 DEF f
<1> QED BY <1>1, <1>2, <1>3, <1>4

\* At() takes the elements at its positions, in their order.
LEMMA AtPositions ==
  ASSUME NEW S, NEW j \in Seq(S), NEW P, P \subseteq DOMAIN j
  PROVE  /\ At(j, P) \in Seq(S) /\ Len(At(j, P)) = Cardinality(P)
         /\ \A i \in P : \E k \in 1..Cardinality(P) : At(j, P)[k] = j[i]
         /\ \A k \in 1..Cardinality(P) : \E i \in P : At(j, P)[k] = j[i]
         /\ \A k, l \in 1..Cardinality(P) : k < l =>
              \E i, m \in P : i < m /\ At(j, P)[k] = j[i] /\ At(j, P)[l] = j[m]
<1> DEFINE n == Cardinality(P)
           pos(k) == CHOOSE i \in P : Rank(P, i) = k
<1>1. P \subseteq 1..Len(j) /\ Len(j) \in Nat
  OBVIOUS
<1>2. /\ n \in Nat
      /\ \A i \in P : Rank(P, i) \in 1..n
      /\ \A i, k \in P : i < k => Rank(P, i) < Rank(P, k)
      /\ \A k \in 1..n : \E i \in P : Rank(P, i) = k
  BY <1>1, Ranks
<1>3. At(j, P) = [k \in 1..n |-> j[pos(k)]]
  BY DEF At
<1>4. \A k \in 1..n : pos(k) \in P /\ Rank(P, pos(k)) = k
  BY <1>2
<1>5. \A i \in P : pos(Rank(P, i)) = i
  <2> SUFFICES ASSUME NEW i \in P, pos(Rank(P, i)) # i PROVE FALSE
    OBVIOUS
  <2>1. pos(Rank(P, i)) \in P /\ Rank(P, pos(Rank(P, i))) = Rank(P, i)
    BY <1>2, <1>4
  <2> HIDE DEF pos
  <2>2. pos(Rank(P, i)) < i \/ i < pos(Rank(P, i))
    BY <1>1, <2>1
  <2>3. Rank(P, i) < Rank(P, i)
    BY <1>2, <2>1, <2>2
  <2>4. Rank(P, i) \in Nat
    BY <1>2
  <2> QED BY <2>3, <2>4
<1>6. \A k, l \in 1..n : k < l => pos(k) < pos(l)
  <2> SUFFICES ASSUME NEW k \in 1..n, NEW l \in 1..n, k < l, ~(pos(k) < pos(l)) PROVE FALSE
    OBVIOUS
  <2>1. pos(k) \in P /\ pos(l) \in P /\ Rank(P, pos(k)) = k /\ Rank(P, pos(l)) = l
    BY <1>4
  <2> HIDE DEF pos
  <2>2. pos(k) = pos(l) \/ pos(l) < pos(k)
    BY <1>1, <2>1
  <2>3. k = l \/ l < k
    BY <1>2, <2>1, <2>2
  <2> QED BY <2>3
<1> HIDE DEF pos, n
<1>7. \A k \in 1..n : j[pos(k)] \in S
  BY <1>1, <1>4
<1>8. At(j, P) \in Seq(S) /\ Len(At(j, P)) = n
  BY <1>2, <1>3, <1>7
<1>9. \A i \in P : \E k \in 1..n : At(j, P)[k] = j[i]
  BY <1>2, <1>3, <1>5
<1>10. \A k \in 1..n : \E i \in P : At(j, P)[k] = j[i]
  BY <1>3, <1>4
<1>11. \A k, l \in 1..n : k < l =>
         \E i, m \in P : i < m /\ At(j, P)[k] = j[i] /\ At(j, P)[l] = j[m]
  BY <1>3, <1>4, <1>6
<1> QED BY <1>8, <1>9, <1>10, <1>11 DEF n

\* FirstOf() takes as many positions as it is asked for, or all of them.
LEMMA FirstPositions ==
  ASSUME NEW n \in Nat, NEW P, P \subseteq 1..n, NEW x \in Int
  PROVE  /\ FirstOf(P, x) \subseteq P
         /\ x <= 0 => FirstOf(P, x) = {}
         /\ x >= Cardinality(P) => FirstOf(P, x) = P
         /\ (0 <= x /\ x <= Cardinality(P)) => Cardinality(FirstOf(P, x)) = x
<1> DEFINE F == FirstOf(P, x)
<1>1. /\ IsFiniteSet(P) /\ Cardinality(P) \in Nat
      /\ \A i \in P : Rank(P, i) \in 1..Cardinality(P)
      /\ \A i, k \in P : i < k => Rank(P, i) < Rank(P, k)
      /\ \A k \in 1..Cardinality(P) : \E i \in P : Rank(P, i) = k
  BY Ranks
<1>0. \A i \in P : i \in Int /\ Rank(P, i) \in Int /\ 1 <= Rank(P, i) /\ Rank(P, i) <= Cardinality(P)
  BY <1>1
<1>2. F \subseteq P
  BY DEF FirstOf
<1>3. x <= 0 => F = {}
  <2>1. \A i \in P : x <= 0 => ~(Rank(P, i) <= x)
    BY <1>0
  <2> QED BY <2>1 DEF FirstOf
<1>4. x >= Cardinality(P) => F = P
  <2>1. \A i \in P : x >= Cardinality(P) => Rank(P, i) <= x
    BY <1>0, <1>1
  <2> QED BY <2>1 DEF FirstOf
<1>5. ASSUME 0 <= x, x <= Cardinality(P) PROVE Cardinality(F) = x
  <2> DEFINE f == [i \in F |-> Rank(P, i)]
  <2>1. \A i \in F : Rank(P, i) \in 1..x
    BY <1>1 DEF FirstOf
  <2>2. f \in [F -> 1..x]
    BY <2>1
  <2>3. \A i, m \in F : f[i] = f[m] => i = m
    <3> SUFFICES ASSUME NEW i \in F, NEW m \in F, i # m PROVE f[i] # f[m]
      OBVIOUS
    <3>0. i \in P /\ m \in P
      BY <1>2
    <3>1. Rank(P, i) \in Nat /\ Rank(P, m) \in Nat
      BY <1>0, <3>0
    <3>2. i < m \/ m < i
      BY <1>0, <3>0
    <3>3. Rank(P, i) < Rank(P, m) \/ Rank(P, m) < Rank(P, i)
      BY <1>1, <1>2, <3>2
    <3>4. Rank(P, i) # Rank(P, m)
      BY <3>1, <3>3
    <3> QED BY <3>4
  <2>4. \A k \in 1..x : \E i \in F : f[i] = k
    <3> SUFFICES ASSUME NEW k \in 1..x PROVE \E i \in F : f[i] = k
      OBVIOUS
    <3>1. k \in 1..Cardinality(P) /\ k <= x
      BY <1>1, <1>5
    <3>2. PICK i \in P : Rank(P, i) = k
      BY <1>1, <3>1
    <3>3. i \in F
      BY <3>1, <3>2 DEF FirstOf
    <3> QED BY <3>2, <3>3
  <2> HIDE DEF f
  <2>5. f \in Bijection(F, 1..x)
    BY <2>2, <2>3, <2>4 DEF Bijection, Injection, Surjection, IsInjective
  <2> HIDE DEF F
  <2>6. IsFiniteSet(F) /\ ExistsBijection(F, 1..x)
    BY <1>1, <1>2, <2>5, FS_Subset DEF ExistsBijection
  <2>7. Cardinality(1..x) = Cardinality(F)
    BY <2>6, FS_Bijection
  <2>8. Cardinality(1..x) = IF 1 > x THEN 0 ELSE x - 1 + 1
    BY FS_Interval
  <2>9. Cardinality(1..x) = x
    BY <2>8, <1>5
  <2> QED BY <2>7, <2>9
<1> QED BY <1>2, <1>3, <1>4, <1>5

LEMMA JournalThinned ==
  ASSUME NEW j, NEW last \in Nat, NEW made, JournalInv(j, last, made), NEW P, P \subseteq DOMAIN j
  PROVE  /\ JournalInv(At(j, P), last, made)
         /\ Len(At(j, P)) = Cardinality(P)
         /\ Cardinality(P) \in Nat /\ Cardinality(P) <= Len(j)
         /\ \A k \in 1..Len(At(j, P)) : \E i \in P : At(j, P)[k] = j[i]
         /\ \A i \in P : \E k \in 1..Len(At(j, P)) : At(j, P)[k] = j[i]
<1> DEFINE a == At(j, P)
           n == Cardinality(P)
<1>0. j \in Seq(Events) /\ DOMAIN j = 1..Len(j) /\ Len(j) \in Nat
  BY DEF JournalInv
<1>1. /\ a \in Seq(Events) /\ Len(a) = n
      /\ \A i \in P : \E k \in 1..n : a[k] = j[i]
      /\ \A k \in 1..n : \E i \in P : a[k] = j[i]
      /\ \A k, l \in 1..n : k < l => \E i, m \in P : i < m /\ a[k] = j[i] /\ a[l] = j[m]
  <2>1. j \in Seq(Events)
    BY <1>0
  <2> QED BY <2>1, AtPositions
<1>2. n \in Nat /\ n <= Len(j)
  <2>1. IsFiniteSet(1..Len(j)) /\ Cardinality(1..Len(j)) = IF 1 > Len(j) THEN 0 ELSE Len(j) - 1 + 1
    <3>1. 1 \in Int /\ Len(j) \in Int
      BY <1>0
    <3> QED BY <3>1, FS_Interval
  <2>2. Cardinality(1..Len(j)) = Len(j)
    BY <2>1, <1>0
  <2>3. n <= Cardinality(1..Len(j)) /\ IsFiniteSet(P)
    BY <2>1, <1>0, FS_Subset
  <2>4. n \in Nat
    BY <2>3, FS_CardinalityType
  <2> QED BY <2>2, <2>3, <2>4
<1>3. P \subseteq 1..Len(j)
  BY <1>0
<1> HIDE DEF a, n
<1>4. \A i, k \in 1..n : i < k => a[i].sequence < a[k].sequence
  <2> SUFFICES ASSUME NEW k \in 1..n, NEW l \in 1..n, k < l PROVE a[k].sequence < a[l].sequence
    OBVIOUS
  <2>1. PICK i, m \in P : i < m /\ a[k] = j[i] /\ a[l] = j[m]
    BY <1>1
  <2>2. j[i].sequence < j[m].sequence
    BY <2>1, <1>3 DEF JournalInv
  <2> QED BY <2>1, <2>2
<1>5. \A k \in 1..n : /\ a[k].sequence \in 1..last
                      /\ a[k].kind = "diagnostic" => a[k].sequence \in made
  <2> SUFFICES ASSUME NEW k \in 1..n
               PROVE  /\ a[k].sequence \in 1..last
                      /\ a[k].kind = "diagnostic" => a[k].sequence \in made
    OBVIOUS
  <2>1. PICK i \in P : a[k] = j[i]
    BY <1>1
  <2> QED BY <2>1, <1>3 DEF JournalInv
<1>6. \A k, l \in 1..n : a[k].kind = "diagnostic" /\ a[l].kind = "diagnostic" => k = l
  <2>1. ASSUME NEW k \in 1..n, NEW l \in 1..n, k < l
        PROVE  ~(a[k].kind = "diagnostic" /\ a[l].kind = "diagnostic")
    <3>1. PICK i, m \in P : i < m /\ a[k] = j[i] /\ a[l] = j[m]
      BY <2>1, <1>1
    <3>2. i # m
      BY <3>1, <1>3
    <3> QED BY <3>1, <3>2, <1>3 DEF JournalInv
  <2> SUFFICES ASSUME NEW k \in 1..n, NEW l \in 1..n, k # l
               PROVE  ~(a[k].kind = "diagnostic" /\ a[l].kind = "diagnostic")
    OBVIOUS
  <2>2. k < l \/ l < k
    OBVIOUS
  <2> QED BY <2>1, <2>2
<1>7. JournalInv(a, last, made)
  BY <1>1, <1>4, <1>5, <1>6 DEF JournalInv
<1> QED BY <1>1, <1>2, <1>7 DEF a, n

LEMMA JournalExtended ==
  ASSUME NEW j, NEW last \in Nat, NEW made, JournalInv(j, last, made),
         NEW kind \in Kinds, NEW more, made \subseteq more,
         kind = "diagnostic" => NoDiagnostic(j) /\ last + 1 \in more
  PROVE  /\ JournalInv(Append(j, Event(last + 1, kind)), last + 1, more)
         /\ Len(Append(j, Event(last + 1, kind))) = Len(j) + 1
<1> DEFINE e == Event(last + 1, kind)
           a == Append(j, e)
<1>0. j \in Seq(Events) /\ DOMAIN j = 1..Len(j) /\ Len(j) \in Nat
  BY DEF JournalInv
<1>1. e \in Events /\ e.sequence = last + 1 /\ e.kind = kind
  BY DEF Event, Events
<1> HIDE DEF e
<1>2. /\ a \in Seq(Events) /\ Len(a) = Len(j) + 1 /\ a[Len(j) + 1] = e
      /\ \A i \in 1..Len(j) : a[i] = j[i]
  BY <1>0, <1>1
<1> HIDE DEF a
<1>3. \A i \in 1..Len(a) : i \in 1..Len(j) \/ i = Len(j) + 1
  BY <1>0, <1>2
<1>4. \A i, k \in 1..Len(a) : i < k => a[i].sequence < a[k].sequence
  <2> SUFFICES ASSUME NEW i \in 1..Len(a), NEW k \in 1..Len(a), i < k
               PROVE  a[i].sequence < a[k].sequence
    OBVIOUS
  <2>1. i \in 1..Len(j)
    BY <1>0, <1>2
  <2>2. CASE k \in 1..Len(j)
    BY <1>2, <2>1, <2>2 DEF JournalInv
  <2>3. CASE k = Len(j) + 1
    <3>1. a[i].sequence \in 1..last
      BY <1>2, <2>1 DEF JournalInv
    <3> QED BY <1>1, <1>2, <2>3, <3>1
  <2> QED BY <1>3, <2>2, <2>3
<1>5. \A i \in 1..Len(a) : /\ a[i].sequence \in 1..(last + 1)
                           /\ a[i].kind = "diagnostic" => a[i].sequence \in more
  <2> SUFFICES ASSUME NEW i \in 1..Len(a)
               PROVE  /\ a[i].sequence \in 1..(last + 1)
                      /\ a[i].kind = "diagnostic" => a[i].sequence \in more
    OBVIOUS
  <2>1. CASE i \in 1..Len(j)
    <3>1. a[i].sequence \in 1..last
      BY <1>2, <2>1 DEF JournalInv
    <3>2. a[i].kind = "diagnostic" => a[i].sequence \in more
      BY <1>2, <2>1 DEF JournalInv
    <3> QED BY <3>1, <3>2
  <2>2. CASE i = Len(j) + 1
    <3>1. a[i].sequence \in 1..(last + 1)
      BY <1>1, <1>2, <2>2
    <3> QED BY <1>1, <1>2, <2>2, <3>1
  <2> QED BY <1>3, <2>1, <2>2
<1>6. \A i, k \in 1..Len(a) : a[i].kind = "diagnostic" /\ a[k].kind = "diagnostic" => i = k
  BY <1>1, <1>2, <1>3 DEF JournalInv, NoDiagnostic
<1>7. JournalInv(a, last + 1, more)
  BY <1>2, <1>4, <1>5, <1>6 DEF JournalInv
<1> QED BY <1>2, <1>7 DEF a, e

-----------------------------------------------------------------------------
(* Iterators.                                                                *)

LEMMA NumbersOf ==
  ASSUME NEW events \in Seq(Events)
  PROVE  /\ Numbers(events) \in Seq(Nat) /\ Len(Numbers(events)) = Len(events)
         /\ \A i \in 1..Len(events) : Numbers(events)[i] = events[i].sequence
<1>1. DOMAIN events = 1..Len(events) /\ Len(events) \in Nat
  OBVIOUS
<1>2. \A i \in 1..Len(events) : events[i].sequence \in Nat
  <2>1. \A i \in 1..Len(events) : events[i] \in Events
    OBVIOUS
  <2> QED BY <2>1 DEF Events
<1> QED BY <1>1, <1>2 DEF Numbers

LEMMA ComingIs ==
  ASSUME NEW q \in Iterators
  PROVE  Coming(q) \in Seq(Nat) /\ DOMAIN Coming(q) = 1..Len(Coming(q)) /\ Len(Coming(q)) \in Nat
<1>1. q.got \in Seq(Nat) /\ q.snapshot \in Seq(Events) /\ q.queue \in Seq(Events)
  BY DEF Iterators
<1>2. Numbers(q.snapshot) \in Seq(Nat) /\ Numbers(q.queue) \in Seq(Nat)
  BY <1>1, NumbersOf
<1>3. Coming(q) \in Seq(Nat)
  BY <1>1, <1>2 DEF Coming
<1> QED BY <1>3

\* The numbers of a longer queue.
LEMMA NumbersAppended ==
  ASSUME NEW a \in Seq(Nat), NEW events \in Seq(Events), NEW e \in Events
  PROVE  a \o Numbers(Append(events, e)) = Append(a \o Numbers(events), e.sequence)
<1> DEFINE b == Numbers(events)
           c == Numbers(Append(events, e))
<1>1. Append(events, e) \in Seq(Events) /\ Len(Append(events, e)) = Len(events) + 1
      /\ Len(events) \in Nat /\ e.sequence \in Nat
  BY DEF Events
<1>2. b \in Seq(Nat) /\ Len(b) = Len(events) /\ c \in Seq(Nat) /\ Len(c) = Len(events) + 1
  BY <1>1, NumbersOf
<1>3. \A i \in 1..(Len(events) + 1) : c[i] = Append(b, e.sequence)[i]
  <2> SUFFICES ASSUME NEW i \in 1..(Len(events) + 1) PROVE c[i] = Append(b, e.sequence)[i]
    OBVIOUS
  <2>1. c[i] = Append(events, e)[i].sequence
    BY <1>1, NumbersOf
  <2>2. CASE i \in 1..Len(events)
    <3>1. Append(events, e)[i] = events[i]
      BY <2>2
    <3>2. b[i] = events[i].sequence
      BY <2>2, NumbersOf
    <3>3. Append(b, e.sequence)[i] = b[i]
      BY <1>1, <1>2, <2>2
    <3> HIDE DEF b, c
    <3> QED BY <2>1, <3>1, <3>2, <3>3
  <2>3. CASE i = Len(events) + 1
    <3>1. Append(events, e)[i] = e
      BY <2>3
    <3>2. Append(b, e.sequence)[i] = e.sequence
      BY <1>1, <1>2, <2>3
    <3> QED BY <2>1, <3>1, <3>2
  <2>4. i \in 1..Len(events) \/ i = Len(events) + 1
    BY <1>1
  <2> QED BY <2>2, <2>3, <2>4
<1> HIDE DEF b, c
<1>4. c = Append(b, e.sequence)
  <2> DEFINE d == Append(b, e.sequence)
  <2>1. d \in Seq(Nat) /\ Len(d) = Len(events) + 1
    BY <1>1, <1>2
  <2>2. Len(c) = Len(d) /\ \A i \in 1..Len(c) : c[i] = d[i]
    BY <1>2, <1>3, <2>1
  <2> HIDE DEF d
  <2>3. c = d
    BY <1>2, <2>1, <2>2, SeqEqual
  <2> QED BY <2>3 DEF d
<1>5. a \o Append(b, e.sequence) = Append(a \o b, e.sequence)
  BY <1>1, <1>2
<1> QED BY <1>4, <1>5 DEF b, c

\* What is yielded was the first of what was coming.
LEMMA NumbersMoved ==
  ASSUME NEW a \in Seq(Nat), NEW events \in Seq(Events), events # <<>>
  PROVE  /\ Append(a, Head(events).sequence) \o Numbers(Tail(events)) = a \o Numbers(events)
         /\ Append(a, Head(events).sequence) \in Seq(Nat)
         /\ Tail(events) \in Seq(Events)
<1> DEFINE t == Numbers(Tail(events))
           b == Numbers(events)
           h == Head(events).sequence
<1>1. /\ Len(events) \in Nat /\ Len(events) > 0 /\ Len(a) \in Nat
      /\ Head(events) = events[1] /\ events[1] \in Events
      /\ Tail(events) \in Seq(Events) /\ Len(Tail(events)) = Len(events) - 1
      /\ \A i \in 1..(Len(events) - 1) : Tail(events)[i] = events[i + 1]
  OBVIOUS
<1>2. h \in Nat
  BY <1>1 DEF Events
<1>3. /\ b \in Seq(Nat) /\ Len(b) = Len(events) /\ t \in Seq(Nat) /\ Len(t) = Len(events) - 1
      /\ b[1] = h
      /\ \A i \in 1..(Len(events) - 1) : t[i] = b[i + 1]
  <2>1. /\ b \in Seq(Nat) /\ Len(b) = Len(events)
        /\ \A i \in 1..Len(events) : b[i] = events[i].sequence
    BY NumbersOf
  <2>2. /\ t \in Seq(Nat) /\ Len(t) = Len(events) - 1
        /\ \A i \in 1..(Len(events) - 1) : t[i] = Tail(events)[i].sequence
    BY <1>1, NumbersOf
  <2> HIDE DEF b, t
  <2>3. \A i \in 1..(Len(events) - 1) : i + 1 \in 1..Len(events)
    BY <1>1
  <2>4. b[1] = h
    <3>1. 1 \in 1..Len(events)
      BY <1>1
    <3>2. b[1] = events[1].sequence
      BY <2>1, <3>1
    <3> QED BY <1>1, <3>2
  <2>5. ASSUME NEW i \in 1..(Len(events) - 1) PROVE t[i] = b[i + 1]
    <3>1. t[i] = events[i + 1].sequence
      BY <1>1, <2>2
    <3>2. b[i + 1] = events[i + 1].sequence
      BY <2>1, <2>3
    <3> QED BY <3>1, <3>2
  <2> QED BY <2>1, <2>2, <2>4, <2>5
<1> HIDE DEF t, b, h
<1>4. /\ Append(a, h) \in Seq(Nat) /\ Len(Append(a, h)) = Len(a) + 1
      /\ Append(a, h) \o t \in Seq(Nat) /\ Len(Append(a, h) \o t) = Len(a) + Len(events)
      /\ a \o b \in Seq(Nat) /\ Len(a \o b) = Len(a) + Len(events)
  <2>1. Append(a, h) \in Seq(Nat) /\ Len(Append(a, h)) = Len(a) + 1
    BY <1>2
  <2> DEFINE ah == Append(a, h)
  <2> HIDE DEF ah
  <2>2. ah \o t \in Seq(Nat) /\ Len(ah \o t) = Len(ah) + Len(t)
    BY <1>3, <2>1, ConcatProperties DEF ah
  <2>3. a \o b \in Seq(Nat) /\ Len(a \o b) = Len(a) + Len(b)
    BY <1>3, ConcatProperties
  <2>4. Len(a) + 1 + (Len(events) - 1) = Len(a) + Len(events)
    BY <1>1
  <2> QED BY <1>3, <2>1, <2>2, <2>3, <2>4 DEF ah
<1>5. ASSUME NEW i \in 1..(Len(a) + Len(events))
      PROVE  (Append(a, h) \o t)[i] = (a \o b)[i]
  <2>1. CASE i <= Len(a)
    BY <1>1, <1>2, <1>3, <1>4, <2>1
  <2>2. CASE i = Len(a) + 1
    BY <1>1, <1>2, <1>3, <1>4, <2>2
  <2>3. CASE i > Len(a) + 1
    <3> DEFINE k == i - Len(a) - 1
    <3>1. k \in 1..(Len(events) - 1) /\ i - (Len(a) + 1) = k /\ i - Len(a) = k + 1
      BY <1>1, <2>3
    <3>2. (Append(a, h) \o t)[i] = t[k]
      BY <1>1, <1>3, <1>4, <2>3, <3>1
    <3>3. (a \o b)[i] = b[k + 1]
      BY <1>1, <1>3, <1>4, <2>3, <3>1
    <3> HIDE DEF k
    <3> QED BY <1>3, <3>1, <3>2, <3>3
  <2>4. i <= Len(a) \/ i = Len(a) + 1 \/ i > Len(a) + 1
    BY <1>1
  <2> QED BY <2>1, <2>2, <2>3, <2>4
<1>6. Append(a, h) \o t = a \o b
  <2> DEFINE x == Append(a, h) \o t
             y == a \o b
  <2>1. x \in Seq(Nat) /\ y \in Seq(Nat) /\ Len(x) = Len(y)
    BY <1>4
  <2>2. \A i \in 1..Len(x) : x[i] = y[i]
    BY <1>4, <1>5
  <2> HIDE DEF x, y
  <2>3. x = y
    BY <2>1, <2>2, SeqEqual
  <2> QED BY <2>3 DEF x, y
<1> QED BY <1>1, <1>4, <1>6 DEF t, b, h

\* An iterator that is not pushed to is owed nothing new.
LEMMA LaterNumbers ==
  ASSUME NEW q \in Iterators, NEW last \in Nat, NEW made, NEW more,
         IteratorInv(q, last, made), ~Listens(q) \/ q.overflow
  PROVE  IteratorInv(q, last + 1, more)
<1>1. \A i \in DOMAIN Coming(q) : Coming(q)[i] \in Nat
  BY ComingIs
<1>2. \A i \in DOMAIN Coming(q) : Coming(q)[i] <= last + 1
  BY <1>1 DEF IteratorInv
<1> QED BY <1>2 DEF IteratorInv

\* A number more at the end of what is coming.
LEMMA AscendingAppend ==
  ASSUME NEW x \in Seq(Nat), NEW last \in Nat, Ascending(x), \A i \in DOMAIN x : x[i] <= last
  PROVE  /\ Ascending(Append(x, last + 1))
         /\ \A i \in DOMAIN Append(x, last + 1) : Append(x, last + 1)[i] <= last + 1
         /\ \A n : n \in Range(x) => n \in Range(Append(x, last + 1))
         /\ last + 1 \in Range(Append(x, last + 1))
<1> DEFINE y == Append(x, last + 1)
<1>1. /\ DOMAIN x = 1..Len(x) /\ Len(x) \in Nat /\ DOMAIN y = 1..(Len(x) + 1)
      /\ \A i \in 1..Len(x) : y[i] = x[i] /\ x[i] \in Nat
      /\ y[Len(x) + 1] = last + 1
  OBVIOUS
<1> HIDE DEF y
<1>2. \A i \in DOMAIN y : i \in 1..Len(x) \/ i = Len(x) + 1
  BY <1>1
<1>3. Ascending(y)
  <2> SUFFICES ASSUME NEW i \in DOMAIN y, NEW k \in DOMAIN y, i < k PROVE y[i] < y[k]
    BY DEF Ascending
  <2>1. i \in 1..Len(x)
    BY <1>1
  <2>2. CASE k \in 1..Len(x)
    BY <1>1, <2>1, <2>2 DEF Ascending
  <2>3. CASE k = Len(x) + 1
    <3>1. y[i] <= last /\ y[i] \in Nat
      BY <1>1, <2>1
    <3> QED BY <1>1, <2>3, <3>1
  <2> QED BY <1>2, <2>2, <2>3
<1>4. \A i \in DOMAIN y : y[i] <= last + 1
  <2> SUFFICES ASSUME NEW i \in DOMAIN y PROVE y[i] <= last + 1
    OBVIOUS
  <2>1. CASE i \in 1..Len(x)
    <3>1. y[i] <= last /\ y[i] \in Nat
      BY <1>1, <2>1
    <3> QED BY <3>1
  <2>2. CASE i = Len(x) + 1
    BY <1>1, <2>2
  <2> QED BY <1>2, <2>1, <2>2
<1>5. \A n : n \in Range(x) => n \in Range(y)
  <2> SUFFICES ASSUME NEW n, n \in Range(x) PROVE n \in Range(y)
    OBVIOUS
  <2>1. PICK i \in 1..Len(x) : x[i] = n
    BY <1>1 DEF Range
  <2>2. i \in DOMAIN y /\ y[i] = n
    BY <1>1, <2>1
  <2> QED BY <2>2 DEF Range
<1>6. last + 1 \in Range(y)
  <2>1. Len(x) + 1 \in DOMAIN y
    BY <1>1
  <2> QED BY <1>1, <2>1 DEF Range
<1> QED BY <1>3, <1>4, <1>5, <1>6 DEF y

LEMMA PushKeeps ==
  ASSUME NEW q \in Iterators, NEW last \in Nat, NEW made, NEW more, made \subseteq more,
         IteratorInv(q, last, made), Listens(q), NEW e \in Events, e.sequence = last + 1,
         HubAssumption
  PROVE  Push(q, e) \in Iterators /\ IteratorInv(Push(q, e), last + 1, more)
<1>0. /\ q.status \in {"replaying", "reading", "waiting"} /\ q.after \in Nat
      /\ q.got \in Seq(Nat) /\ q.snapshot \in Seq(Events) /\ q.queue \in Seq(Events)
      /\ q.overflow \in BOOLEAN
  BY DEF Listens, Iterators
<1>1. CASE q.overflow
  BY <1>1, LaterNumbers DEF Push
<1>2. CASE ~q.overflow /\ Len(q.queue) + 1 > MaxQueue
  <2> DEFINE r == Push(q, e)
  <2>1. r = [q EXCEPT !.overflow = TRUE, !.status = IF @ = "waiting" THEN "reading" ELSE @]
    BY <1>2 DEF Push
  <2>2. r \in Iterators
    BY <1>0, <2>1 DEF Iterators
  <2>3. /\ r.got = q.got /\ r.snapshot = q.snapshot /\ r.queue = q.queue /\ r.overflow = TRUE
        /\ r.status = IF q.status = "waiting" THEN "reading" ELSE q.status
    BY <2>1 DEF Iterators
  <2> HIDE DEF r
  <2>4. Coming(r) = Coming(q)
    BY <2>3 DEF Coming
  <2>5. IteratorInv(r, last, more)
    BY <2>3, <2>4 DEF IteratorInv
  <2>6. IteratorInv(r, last + 1, more)
    BY <2>2, <2>3, <2>5, LaterNumbers
  <2> QED BY <2>2, <2>6 DEF r
<1>3. CASE ~q.overflow /\ ~(Len(q.queue) + 1 > MaxQueue)
  <2> DEFINE r == Push(q, e)
  <2>1. r = [q EXCEPT !.queue = Append(@, e), !.status = IF @ = "waiting" THEN "reading" ELSE @]
    BY <1>3 DEF Push
  <2>2. Append(q.queue, e) \in Seq(Events) /\ Len(Append(q.queue, e)) = Len(q.queue) + 1
    BY <1>0
  <2>3. r \in Iterators
    BY <1>0, <2>1, <2>2 DEF Iterators
  <2>4. /\ r.got = q.got /\ r.snapshot = q.snapshot /\ r.queue = Append(q.queue, e)
        /\ r.overflow = q.overflow /\ r.after = q.after
        /\ r.status = IF q.status = "waiting" THEN "reading" ELSE q.status
    BY <2>1 DEF Iterators
  <2> HIDE DEF r
  <2> DEFINE x == Coming(q)
  <2>5. x \in Seq(Nat)
    BY ComingIs
  <2>6. Coming(r) = Append(x, last + 1)
    <3>1. q.got \o Numbers(q.snapshot) \in Seq(Nat)
      <4>1. Numbers(q.snapshot) \in Seq(Nat)
        BY <1>0, NumbersOf
      <4> QED BY <1>0, <4>1
    <3>2. q.got \o Numbers(q.snapshot) \o Numbers(Append(q.queue, e))
            = Append(q.got \o Numbers(q.snapshot) \o Numbers(q.queue), e.sequence)
      BY <1>0, <3>1, NumbersAppended
    <3> QED BY <2>4, <3>2 DEF Coming
  <2>7. Ascending(x) /\ \A i \in DOMAIN x : x[i] <= last
    BY DEF IteratorInv
  <2> HIDE DEF x
  <2>8. /\ Ascending(Coming(r)) /\ \A i \in DOMAIN Coming(r) : Coming(r)[i] <= last + 1
        /\ \A n : n \in Range(x) => n \in Range(Coming(r))
        /\ last + 1 \in Range(Coming(r))
    BY <2>5, <2>6, <2>7, AscendingAppend
  <2>9. Served(r, last + 1, more)
    <3> SUFFICES ASSUME NEW n \in (q.after + 1)..(last + 1)
                 PROVE  \/ n \in Range(Coming(r))
                        \/ \E d \in more : d \in Range(Coming(r)) /\ d > n
      BY <2>4 DEF Served
    <3>1. Served(q, last, made)
      BY <1>3 DEF IteratorInv
    <3>2. CASE n = last + 1
      BY <2>8, <3>2
    <3>3. CASE n \in (q.after + 1)..last
      BY <2>8, <3>1, <3>3 DEF Served, x
    <3>4. n = last + 1 \/ n \in (q.after + 1)..last
      BY <1>0
    <3> QED BY <3>2, <3>3, <3>4
  <2>10. Len(r.queue) <= MaxQueue
    <3>1. Len(q.queue) \in Nat /\ MaxQueue \in Nat
      BY <1>0 DEF HubAssumption
    <3> QED BY <1>3, <2>2, <2>4, <3>1
  <2>11. r.status \in {"reading", "waiting"} => r.snapshot = <<>>
    BY <1>0, <2>4 DEF IteratorInv
  <2>12. IteratorInv(r, last + 1, more)
    BY <2>8, <2>9, <2>10, <2>11 DEF IteratorInv
  <2> QED BY <2>3, <2>12 DEF r
<1> QED BY <1>0, <1>1, <1>2, <1>3

-----------------------------------------------------------------------------
(* Emissions and compaction.                                                 *)

LEMMA EmitKeeps ==
  ASSUME NEW c, ValueInv(c), NEW kind \in Kinds,
         kind = "diagnostic" => NoDiagnostic(c.journal), HubAssumption
  PROVE  LET d == Emit(c, kind)
         IN /\ ValueInv(d)
            /\ d.last = c.last + 1
            /\ d.journal = Append(c.journal, Event(c.last + 1, kind))
            /\ Len(d.journal) = Len(c.journal) + 1
<1> DEFINE e == Event(c.last + 1, kind)
           more == c.diagnostics \cup IF kind = "diagnostic" THEN {c.last + 1} ELSE {}
           subs == [s \in Subscribers |->
                     IF Listens(c.subscriber[s]) THEN Push(c.subscriber[s], e) ELSE c.subscriber[s]]
           d == Emit(c, kind)
<1>0. /\ c.last \in Nat /\ c.subscriber \in [Subscribers -> Iterators]
      /\ c.diagnostics \subseteq 1..c.last
      /\ JournalInv(c.journal, c.last, c.diagnostics)
      /\ \A s \in Subscribers : IteratorInv(c.subscriber[s], c.last, c.diagnostics)
  BY DEF ValueInv, Values
<1>1. e \in Events /\ e.sequence = c.last + 1 /\ e.kind = kind
  BY <1>0 DEF Event, Events
<1>2. d = [last |-> c.last + 1, journal |-> Append(c.journal, e), diagnostics |-> more,
           subscriber |-> subs]
  BY <1>1 DEF Emit
<1>3. c.diagnostics \subseteq more /\ more \subseteq 1..(c.last + 1)
      /\ (kind = "diagnostic" => c.last + 1 \in more)
  BY <1>0
<1> HIDE DEF more
<1>4. JournalInv(Append(c.journal, e), c.last + 1, more)
      /\ Len(Append(c.journal, e)) = Len(c.journal) + 1
  BY <1>0, <1>3, JournalExtended
<1>5. \A s \in Subscribers : subs[s] \in Iterators /\ IteratorInv(subs[s], c.last + 1, more)
  <2> SUFFICES ASSUME NEW s \in Subscribers
               PROVE  subs[s] \in Iterators /\ IteratorInv(subs[s], c.last + 1, more)
    OBVIOUS
  <2>0. c.subscriber[s] \in Iterators /\ IteratorInv(c.subscriber[s], c.last, c.diagnostics)
    BY <1>0
  <2> HIDE DEF e
  <2>1. CASE Listens(c.subscriber[s])
    <3>1. subs[s] = Push(c.subscriber[s], e)
      BY <2>1
    <3> HIDE DEF subs
    <3> QED BY <1>0, <1>1, <1>3, <2>0, <2>1, <3>1, PushKeeps
  <2>2. CASE ~Listens(c.subscriber[s])
    <3>1. subs[s] = c.subscriber[s]
      BY <2>2
    <3> HIDE DEF subs
    <3> QED BY <1>0, <2>0, <2>2, <3>1, LaterNumbers
  <2> QED BY <2>1, <2>2
<1>6. subs \in [Subscribers -> Iterators]
  <2>1. subs = [s \in Subscribers |-> subs[s]]
    OBVIOUS
  <2> HIDE DEF subs
  <2> QED BY <1>5, <2>1
<1>7. d \in Values
  <2>1. Append(c.journal, e) \in Seq(Events) /\ more \in SUBSET Nat /\ c.last + 1 \in Nat
    BY <1>0, <1>3, <1>4 DEF JournalInv
  <2> HIDE DEF d, subs, e
  <2> QED BY <1>2, <1>6, <2>1 DEF Values
<1>8. d.last = c.last + 1 /\ d.journal = Append(c.journal, e) /\ d.diagnostics = more
      /\ d.subscriber = subs
  BY <1>2
<1> HIDE DEF d, subs
<1>9. ValueInv(d)
  BY <1>3, <1>4, <1>5, <1>7, <1>8 DEF ValueInv
<1> QED BY <1>4, <1>8, <1>9 DEF d

LEMMA OfKindIs ==
  ASSUME NEW j \in Seq(Events), NEW kinds
  PROVE  /\ OfKind(j, kinds) \subseteq 1..Len(j) /\ Len(j) \in Nat
         /\ \A i \in 1..Len(j) : i \in OfKind(j, kinds) <=> j[i].kind \in kinds
BY DEF OfKind

\* A value whose journal keeps some of its events.
LEMMA ThinnedValue ==
  ASSUME NEW c, ValueInv(c), NEW P, P \subseteq DOMAIN c.journal
  PROVE  LET d == [c EXCEPT !.journal = At(@, P)]
         IN ValueInv(d) /\ d.journal = At(c.journal, P) /\ d.last = c.last
<1> DEFINE d == [c EXCEPT !.journal = At(@, P)]
<1>0. c \in Values /\ c.last \in Nat /\ JournalInv(c.journal, c.last, c.diagnostics)
  BY DEF ValueInv, Values
<1>1. JournalInv(At(c.journal, P), c.last, c.diagnostics)
  BY <1>0, JournalThinned
<1>2. At(c.journal, P) \in Seq(Events)
  BY <1>1 DEF JournalInv
<1>3. /\ d.last = c.last /\ d.journal = At(c.journal, P) /\ d.diagnostics = c.diagnostics
      /\ d.subscriber = c.subscriber /\ d \in Values
  BY <1>0, <1>2 DEF Values
<1> HIDE DEF d
<1>4. ValueInv(d)
  BY <1>1, <1>3 DEF ValueInv
<1> QED BY <1>3, <1>4 DEF d

\* A new diagnostic: the only one, and the last event of the journal.
LEMMA DiagnosticReplaced ==
  ASSUME NEW c, ValueInv(c), HubAssumption
  PROVE  LET d == ReplaceDiagnostic(c)
         IN /\ ValueInv(d)
            /\ d.last = c.last + 1
            /\ Len(d.journal) = Cardinality(OfKind(c.journal, {"delta", "essential"})) + 1
            /\ d.journal[Len(d.journal)] = Event(c.last + 1, "diagnostic")
            /\ Len(d.journal) \in 1..(Len(c.journal) + 1)
<1> DEFINE P == OfKind(c.journal, {"delta", "essential"})
           b == [c EXCEPT !.journal = At(@, P)]
           d == ReplaceDiagnostic(c)
<1>0. c.journal \in Seq(Events) /\ JournalInv(c.journal, c.last, c.diagnostics) /\ c.last \in Nat
      /\ DOMAIN c.journal = 1..Len(c.journal) /\ Len(c.journal) \in Nat
  BY DEF ValueInv, JournalInv, Values
<1>1. P \subseteq DOMAIN c.journal
  BY DEF OfKind
<1>2. ValueInv(b) /\ b.journal = At(c.journal, P) /\ b.last = c.last
  BY <1>1, ThinnedValue
<1>3. /\ Len(b.journal) = Cardinality(P) /\ Cardinality(P) \in Nat
      /\ Cardinality(P) <= Len(c.journal)
      /\ \A k \in 1..Len(b.journal) : \E i \in P : b.journal[k] = c.journal[i]
  <2> HIDE DEF P, b, d
  <2>1. /\ Len(At(c.journal, P)) = Cardinality(P)
        /\ Cardinality(P) \in Nat /\ Cardinality(P) <= Len(c.journal)
        /\ \A k \in 1..Len(At(c.journal, P)) : \E i \in P : At(c.journal, P)[k] = c.journal[i]
    BY <1>0, <1>1, JournalThinned, Z3
  <2> QED BY <1>2, <2>1
<1>4. NoDiagnostic(b.journal)
  <2>1. \A i \in P : c.journal[i].kind # "diagnostic"
    BY DEF OfKind
  <2> HIDE DEF b, P
  <2> QED BY <1>3, <2>1 DEF NoDiagnostic
<1>5. d = Emit(b, "diagnostic")
  BY DEF ReplaceDiagnostic
<1> HIDE DEF P, b
<1>6. /\ ValueInv(d) /\ d.last = b.last + 1
      /\ d.journal = Append(b.journal, Event(b.last + 1, "diagnostic"))
      /\ Len(d.journal) = Len(b.journal) + 1
  <2>1. "diagnostic" \in Kinds
    BY DEF Kinds
  <2> QED BY <1>2, <1>4, <1>5, <2>1, EmitKeeps
<1>7. b.journal \in Seq(Events)
  BY <1>2 DEF ValueInv, JournalInv
<1>8. d.journal[Len(d.journal)] = Event(c.last + 1, "diagnostic")
  BY <1>2, <1>6, <1>7
<1>9. Len(d.journal) \in 1..(Len(c.journal) + 1)
  <2>1. Cardinality(P) + 1 \in 1..(Len(c.journal) + 1)
    BY <1>0, <1>3
  <2> QED BY <1>3, <1>6, <2>1
<1> QED BY <1>2, <1>3, <1>6, <1>8, <1>9 DEF P, d

\* What trimming leaves: a journal that is too long gets its budget, and the
\* diagnostic stays, when there is one at most.
LEMMA TrimCounts ==
  ASSUME NEW j, NEW last \in Nat, NEW made, JournalInv(j, last, made), HubAssumption
  PROVE  /\ Dropped(j) \subseteq OfKind(j, {"delta", "essential"})
         /\ Len(j) <= MaxJournal => Dropped(j) = {}
         /\ Len(j) > MaxJournal =>
              Cardinality(DOMAIN j \ Dropped(j)) = MaxJournal /\ Dropped(j) # {}
<1> DEFINE D == OfKind(j, {"delta"})
           O == OfKind(j, {"essential"})
           G == OfKind(j, {"diagnostic"})
           x == Len(j) - MaxJournal
           n == Cardinality(D)
           F == FirstOf(D, x)
           H == FirstOf(O, x - n)
<1>0. j \in Seq(Events) /\ DOMAIN j = 1..Len(j) /\ Len(j) \in Nat /\ MaxJournal \in Nat \ {0}
  BY DEF JournalInv, HubAssumption
<1>1. /\ D \subseteq 1..Len(j) /\ O \subseteq 1..Len(j) /\ G \subseteq 1..Len(j)
      /\ D \cap O = {} /\ (D \cup O) \cap G = {} /\ D \cup O \cup G = 1..Len(j)
      /\ OfKind(j, {"delta", "essential"}) = D \cup O
  <2>1. \A i \in 1..Len(j) : j[i].kind \in Kinds
    <3>1. \A i \in 1..Len(j) : j[i] \in Events
      BY <1>0
    <3> QED BY <3>1 DEF Events
  <2> QED BY <1>0, <2>1 DEF OfKind, Kinds
<1>2. /\ IsFiniteSet(D) /\ IsFiniteSet(O) /\ IsFiniteSet(G)
      /\ n \in Nat /\ Cardinality(O) \in Nat /\ Cardinality(G) \in Nat
  <2>1. \A P : P \subseteq 1..Len(j) => IsFiniteSet(P) /\ Cardinality(P) \in Nat
    BY <1>0, Ranks
  <2> QED BY <1>1, <2>1
<1>3. Cardinality(G) <= 1
  <2>1. CASE G = {}
    <3>1. Cardinality(G) = 0
      BY <2>1, FS_EmptySet
    <3> QED BY <3>1
  <2>2. ASSUME NEW g \in G PROVE Cardinality(G) = 1
    <3>1. G = {g}
      BY <1>0, <1>1, <2>2 DEF OfKind, JournalInv
    <3> QED BY <3>1, FS_Singleton
  <2> QED BY <2>1, <2>2
<1>4. n + Cardinality(O) + Cardinality(G) = Len(j)
  <2>1. Cardinality(D \cup O) = n + Cardinality(O) - Cardinality({}) /\ IsFiniteSet(D \cup O)
    BY <1>1, <1>2, FS_Union
  <2>2. Cardinality(D \cup O \cup G)
          = Cardinality(D \cup O) + Cardinality(G) - Cardinality({})
    BY <1>1, <1>2, <2>1, FS_Union
  <2>3. Cardinality({}) = 0
    BY FS_EmptySet
  <2>4. Cardinality(1..Len(j)) = Len(j)
    <3>1. Len(j) \in Int /\ 1 \in Int
      BY <1>0
    <3>2. Cardinality(1..Len(j)) = IF 1 > Len(j) THEN 0 ELSE Len(j) - 1 + 1
      BY <3>1, FS_Interval
    <3> QED BY <3>2, <1>0
  <2> HIDE DEF D, O, G, n
  <2>5. Cardinality(D \cup O) \in Nat
    BY <2>1, FS_CardinalityType
  <2>6. Cardinality(D \cup O \cup G) = Len(j)
    BY <1>1, <2>4
  <2> QED BY <1>2, <2>1, <2>2, <2>3, <2>5, <2>6
<1>5. Dropped(j) = F \cup H
  BY DEF Dropped
<1>6. x \in Int /\ x - n \in Int
  BY <1>0, <1>2
<1> HIDE DEF D, O, G
<1>7. /\ F \subseteq D /\ H \subseteq O
      /\ x <= 0 => F = {}
      /\ x >= n => F = D
      /\ (0 <= x /\ x <= n) => Cardinality(F) = x
  <2>1. D \subseteq 1..Len(j) /\ O \subseteq 1..Len(j) /\ Len(j) \in Nat
    BY <1>0, <1>1
  <2> HIDE DEF x
  <2>2. /\ F \subseteq D /\ (x <= 0 => F = {}) /\ (x >= n => F = D)
        /\ (0 <= x /\ x <= n) => Cardinality(F) = x
    BY <1>6, <2>1, FirstPositions
  <2>3. H \subseteq O
    BY <1>6, <2>1, FirstPositions
  <2> QED BY <2>2, <2>3
<1>8. /\ x - n <= 0 => H = {}
      /\ (0 <= x - n /\ x - n <= Cardinality(O)) => Cardinality(H) = x - n
  <2>1. O \subseteq 1..Len(j) /\ Len(j) \in Nat
    BY <1>0, <1>1
  <2> DEFINE y == x - n
  <2>2. y \in Int
    BY <1>6
  <2> HIDE DEF y
  <2>3. /\ y <= 0 => FirstOf(O, y) = {}
        /\ (0 <= y /\ y <= Cardinality(O)) => Cardinality(FirstOf(O, y)) = y
    BY <2>1, <2>2, FirstPositions
  <2> QED BY <2>3 DEF y
<1> HIDE DEF F, H
<1>9. Dropped(j) \subseteq OfKind(j, {"delta", "essential"})
  BY <1>1, <1>5, <1>7
<1>10. ASSUME Len(j) <= MaxJournal PROVE Dropped(j) = {}
  <2>1. x <= 0 /\ x - n <= 0
    BY <1>0, <1>2, <1>10
  <2> QED BY <2>1, <1>5, <1>7, <1>8
<1>11. ASSUME Len(j) > MaxJournal
       PROVE  Cardinality(DOMAIN j \ Dropped(j)) = MaxJournal /\ Dropped(j) # {}
  <2>0. x \in Nat /\ x > 0 /\ x - n <= Cardinality(O)
    BY <1>0, <1>2, <1>3, <1>4, <1>11
  <2>1. IsFiniteSet(F) /\ IsFiniteSet(H)
    BY <1>2, <1>7, FS_Subset
  <2>2. Cardinality(F) + Cardinality(H) = x
    <3>1. CASE x <= n
      <4>1. Cardinality(F) = x
        BY <1>7, <2>0, <3>1
      <4>2. H = {}
        <5>1. x - n <= 0
          BY <1>2, <2>0, <3>1
        <5> QED BY <1>8, <5>1
      <4>3. Cardinality(H) = 0
        BY <4>2, FS_EmptySet
      <4> HIDE DEF x
      <4> QED BY <2>0, <4>1, <4>3
    <3>2. CASE ~(x <= n)
      <4>1. Cardinality(F) = n
        <5>1. x >= n
          BY <1>2, <2>0, <3>2
        <5> QED BY <1>7, <5>1
      <4>2. Cardinality(H) = x - n
        <5>1. 0 <= x - n
          BY <1>2, <2>0, <3>2
        <5> QED BY <1>8, <2>0, <5>1
      <4> HIDE DEF x, n
      <4> QED BY <1>2, <2>0, <4>1, <4>2
    <3> QED BY <3>1, <3>2
  <2>3. F \cap H = {}
    BY <1>1, <1>7
  <2>4. Cardinality(F \cup H) = x /\ IsFiniteSet(F \cup H)
    <3>1. /\ Cardinality(F \cup H) = Cardinality(F) + Cardinality(H) - Cardinality({})
          /\ IsFiniteSet(F \cup H)
      BY <2>1, <2>3, FS_Union
    <3>2. Cardinality({}) = 0 /\ Cardinality(F) \in Nat /\ Cardinality(H) \in Nat
      BY <2>1, FS_EmptySet, FS_CardinalityType
    <3> HIDE DEF x
    <3> QED BY <2>2, <3>1, <3>2
  <2>5. Dropped(j) # {}
    <3>1. Cardinality({}) = 0
      BY FS_EmptySet
    <3>2. x # 0
      BY <2>0
    <3> HIDE DEF x
    <3> QED BY <1>5, <2>4, <3>1, <3>2
  <2>6. Cardinality(DOMAIN j \ Dropped(j)) = MaxJournal
    <3>1. IsFiniteSet(1..Len(j)) /\ Cardinality(1..Len(j)) = Len(j)
      <4>1. Len(j) \in Int /\ 1 \in Int
        BY <1>0
      <4>2. /\ IsFiniteSet(1..Len(j))
            /\ Cardinality(1..Len(j)) = IF 1 > Len(j) THEN 0 ELSE Len(j) - 1 + 1
        BY <4>1, FS_Interval
      <4> QED BY <4>2, <1>0
    <3>2. 1..Len(j) \cap (F \cup H) = F \cup H
      BY <1>1, <1>7
    <3>3. Cardinality(1..Len(j) \ (F \cup H)) = Len(j) - Cardinality((1..Len(j)) \cap (F \cup H))
      BY <3>1, FS_Difference
    <3>4. Len(j) - x = MaxJournal
      BY <1>0
    <3> HIDE DEF x
    <3> QED BY <1>0, <1>5, <2>4, <3>2, <3>3, <3>4
  <2> QED BY <2>5, <2>6
<1> QED BY <1>9, <1>10, <1>11

\* A round keeps the invariant.  It leaves the journal in its budget, but for the
\* diagnostic it may have added, and in its budget when there was one already.
LEMMA RoundKeeps ==
  ASSUME NEW c, ValueInv(c), HubAssumption
  PROVE  LET d == Round(c)
             j == d.journal
         IN /\ ValueInv(d)
            /\ \/ d = c /\ Len(j) <= MaxJournal
               \/ /\ j[Len(j)] = Event(d.last, "diagnostic") /\ Len(j) \in 1..(MaxJournal + 1)
                  /\ ~NoDiagnostic(c.journal) => Len(j) <= MaxJournal
<1> DEFINE d == Round(c)
           P == DOMAIN c.journal \ Dropped(c.journal)
           b == [c EXCEPT !.journal = At(@, P)]
<1>0. /\ JournalInv(c.journal, c.last, c.diagnostics) /\ c.last \in Nat
      /\ c.journal \in Seq(Events) /\ DOMAIN c.journal = 1..Len(c.journal)
      /\ Len(c.journal) \in Nat /\ MaxJournal \in Nat
  BY DEF ValueInv, JournalInv, Values, HubAssumption
<1>1. /\ Dropped(c.journal) \subseteq OfKind(c.journal, {"delta", "essential"})
      /\ Len(c.journal) > MaxJournal => Cardinality(P) = MaxJournal /\ Dropped(c.journal) # {}
      /\ Len(c.journal) <= MaxJournal => Dropped(c.journal) = {}
  BY <1>0, TrimCounts
<1>2. CASE Dropped(c.journal) = {}
  <2>1. d = c
    BY <1>2 DEF Round
  <2>2. Len(c.journal) <= MaxJournal
    BY <1>0, <1>1, <1>2
  <2> QED BY <2>1, <2>2
<1>3. CASE Dropped(c.journal) # {}
  <2>1. d = ReplaceDiagnostic(b)
    BY <1>3 DEF Round, Trim
  <2>2. Len(c.journal) > MaxJournal /\ Cardinality(P) = MaxJournal
    BY <1>0, <1>1, <1>3
  <2>3. ValueInv(b) /\ b.journal = At(c.journal, P) /\ b.last = c.last
    BY ThinnedValue
  <2>4. /\ Len(b.journal) = Cardinality(P)
        /\ \A k \in 1..Len(b.journal) : \E i \in P : b.journal[k] = c.journal[i]
        /\ \A i \in P : \E k \in 1..Len(b.journal) : b.journal[k] = c.journal[i]
    <3>1. P \subseteq DOMAIN c.journal
      OBVIOUS
    <3> HIDE DEF P, b, d
    <3>2. LET a == At(c.journal, P)
          IN /\ Len(a) = Cardinality(P)
             /\ \A k \in 1..Len(a) : \E i \in P : a[k] = c.journal[i]
             /\ \A i \in P : \E k \in 1..Len(a) : a[k] = c.journal[i]
      BY <1>0, <3>1, JournalThinned, Z3
    <3> QED BY <2>3, <3>2
  <2> HIDE DEF b
  <2>5. /\ ValueInv(d) /\ d.last = b.last + 1
        /\ Len(d.journal) = Cardinality(OfKind(b.journal, {"delta", "essential"})) + 1
        /\ d.journal[Len(d.journal)] = Event(b.last + 1, "diagnostic")
        /\ Len(d.journal) \in 1..(Len(b.journal) + 1)
    BY <2>1, <2>3, DiagnosticReplaced
  <2> HIDE DEF d
  <2>6. Len(d.journal) \in 1..(MaxJournal + 1)
    BY <2>2, <2>4, <2>5
  <2>7. ASSUME ~NoDiagnostic(c.journal) PROVE Len(d.journal) <= MaxJournal
    <3>1. PICK i \in 1..Len(c.journal) : c.journal[i].kind = "diagnostic"
      BY <2>7 DEF NoDiagnostic
    <3>2. i \in P
      BY <1>0, <1>1, <3>1 DEF OfKind
    <3>3. PICK k \in 1..Len(b.journal) : b.journal[k].kind = "diagnostic"
      BY <2>4, <3>1, <3>2
    <3> DEFINE Q == OfKind(b.journal, {"delta", "essential"})
    <3>4. b.journal \in Seq(Events) /\ Len(b.journal) = MaxJournal
      BY <2>2, <2>3, <2>4 DEF ValueInv, JournalInv
    <3>5. Q \subseteq 1..MaxJournal /\ Q # 1..MaxJournal
      BY <3>3, <3>4 DEF OfKind
    <3>6. IsFiniteSet(1..MaxJournal) /\ Cardinality(1..MaxJournal) = MaxJournal
      <4>1. MaxJournal \in Int /\ 1 \in Int
        BY <1>0
      <4>2. /\ IsFiniteSet(1..MaxJournal)
            /\ Cardinality(1..MaxJournal) = IF 1 > MaxJournal THEN 0 ELSE MaxJournal - 1 + 1
        BY <4>1, FS_Interval
      <4> QED BY <4>2, <1>0
    <3> HIDE DEF Q
    <3>7. IsFiniteSet(Q) /\ Cardinality(Q) <= MaxJournal /\ Cardinality(Q) # MaxJournal
      BY <3>5, <3>6, FS_Subset
    <3>8. Cardinality(Q) \in Nat
      BY <3>7, FS_CardinalityType
    <3>9. Cardinality(Q) + 1 <= MaxJournal
      BY <1>0, <3>7, <3>8
    <3> QED BY <2>5, <3>9 DEF Q
  <2> QED BY <2>5, <2>6, <2>7 DEF d
<1> QED BY <1>2, <1>3

LEMMA CompactKeeps ==
  ASSUME NEW c, ValueInv(c), HubAssumption, Covered(c.journal, c.last)
  PROVE  LET d == Compact(c)
         IN ValueInv(d) /\ Covered(d.journal, d.last) /\ Len(d.journal) <= MaxJournal
<1> DEFINE b == Round(c)
           d == Round(b)
<1>1. /\ ValueInv(b)
      /\ \/ b = c /\ Len(b.journal) <= MaxJournal
         \/ b.journal[Len(b.journal)] = Event(b.last, "diagnostic") /\ Len(b.journal) \in 1..(MaxJournal + 1)
  BY RoundKeeps
<1>2. /\ ValueInv(d)
      /\ \/ d = b /\ Len(d.journal) <= MaxJournal
         \/ /\ d.journal[Len(d.journal)] = Event(d.last, "diagnostic")
            /\ Len(d.journal) \in 1..(MaxJournal + 1)
            /\ ~NoDiagnostic(b.journal) => Len(d.journal) <= MaxJournal
  BY <1>1, RoundKeeps
<1>3. ASSUME NEW a, ValueInv(a), Len(a.journal) > 0,
             a.journal[Len(a.journal)] = Event(a.last, "diagnostic")
      PROVE  Covered(a.journal, a.last) /\ ~NoDiagnostic(a.journal)
  <2>1. a.last \in Nat /\ Len(a.journal) \in 1..Len(a.journal)
    BY <1>3 DEF ValueInv, JournalInv, Values
  <2>2. a.journal[Len(a.journal)].sequence = a.last /\ a.journal[Len(a.journal)].kind = "diagnostic"
    BY <1>3 DEF Event
  <2>3. \A n \in 1..a.last : a.last = n \/ a.last > n
    BY <2>1
  <2> QED BY <2>1, <2>2, <2>3 DEF Covered, NoDiagnostic
<1>4. d = Compact(c)
  BY DEF Compact
<1>5. MaxJournal \in Nat /\ \A a : ValueInv(a) => Len(a.journal) \in Nat
  BY DEF HubAssumption, ValueInv, JournalInv
<1> HIDE DEF b, d
<1>6. Covered(b.journal, b.last)
  BY <1>1, <1>3, <1>5
<1>7. Covered(d.journal, d.last)
  BY <1>2, <1>3, <1>5, <1>6
<1>8. Len(d.journal) <= MaxJournal
  <2>1. CASE Len(b.journal) <= MaxJournal /\ b = c
    <3>1. Dropped(b.journal) = {}
      BY <1>1, <2>1, TrimCounts DEF ValueInv, Values
    <3>2. d = b
      BY <3>1 DEF d, Round
    <3> QED BY <2>1, <3>2
  <2>2. CASE b.journal[Len(b.journal)] = Event(b.last, "diagnostic") /\ Len(b.journal) \in 1..(MaxJournal + 1)
    <3>1. ~NoDiagnostic(b.journal)
      BY <1>1, <1>3, <1>5, <2>2
    <3> QED BY <1>2, <3>1
  <2> QED BY <1>1, <2>1, <2>2
<1> QED BY <1>2, <1>4, <1>7, <1>8

-----------------------------------------------------------------------------
(* The steps.                                                                *)

\* The parts of the invariant from the variables, and back.
LEMMA ValueOfState ==
  ASSUME HubInv
  PROVE  /\ sequence \in Nat /\ journal \in Seq(Events) /\ diagnostics \subseteq 1..sequence
         /\ subscriber \in [Subscribers -> Iterators]
         /\ JournalInv(journal, sequence, diagnostics)
         /\ \A s \in Subscribers : IteratorInv(subscriber[s], sequence, diagnostics)
BY DEF HubInv, HubTypeOK, ValueInv, Current

LEMMA CoveredExtended ==
  ASSUME NEW j \in Seq(Events), NEW last \in Nat, Covered(j, last), NEW kind
  PROVE  Covered(Append(j, Event(last + 1, kind)), last + 1)
<1> DEFINE e == Event(last + 1, kind)
           b == Append(j, e)
<1>1. /\ Len(j) \in Nat /\ Len(b) = Len(j) + 1 /\ b[Len(j) + 1] = e
      /\ \A i \in 1..Len(j) : i \in 1..Len(b) /\ b[i] = j[i]
      /\ Len(j) + 1 \in 1..Len(b)
  OBVIOUS
<1>2. e.sequence = last + 1
  BY DEF Event
<1> HIDE DEF b, e
<1> SUFFICES ASSUME NEW n \in 1..(last + 1)
             PROVE  \/ \E i \in 1..Len(b) : b[i].sequence = n
                    \/ \E i \in 1..Len(b) : b[i].kind = "diagnostic" /\ b[i].sequence > n
  BY DEF Covered, b, e
<1>3. CASE n = last + 1
  BY <1>1, <1>2, <1>3
<1>4. CASE n \in 1..last
  <2>1. \/ \E i \in 1..Len(j) : j[i].sequence = n
        \/ \E i \in 1..Len(j) : j[i].kind = "diagnostic" /\ j[i].sequence > n
    BY <1>4 DEF Covered
  <2> QED BY <1>1, <2>1
<1>5. n = last + 1 \/ n \in 1..last
  OBVIOUS
<1> QED BY <1>3, <1>4, <1>5

LEMMA PublishKeeps ==
  ASSUME HubInv, HubAssumption, NEW kind \in {"delta", "essential"}, Publish(kind)
  PROVE  HubInv'
<1> DEFINE b == Emit(Current, kind)
           c == Compact(b)
<1>0. /\ ~expired /\ published + 1 \in 0..MaxPublished
      /\ ValueInv(Current) /\ Covered(journal, sequence)
  <2>1. published \in Nat /\ published < MaxPublished /\ MaxPublished \in Nat
    BY DEF HubInv, HubTypeOK, Publish, HubAssumption
  <2> QED BY <2>1 DEF HubInv, Publish
<1>1. Current.journal = journal /\ Current.last = sequence
  BY DEF Current
<1>2. /\ ValueInv(b) /\ b.last = sequence + 1
      /\ b.journal = Append(journal, Event(sequence + 1, kind))
  <2>1. kind \in Kinds /\ kind # "diagnostic"
    BY DEF Kinds
  <2> QED BY <1>0, <1>1, <2>1, EmitKeeps
<1>3. Covered(b.journal, b.last)
  BY <1>0, <1>2, ValueOfState, CoveredExtended
<1> HIDE DEF b
<1>4. ValueInv(c) /\ Covered(c.journal, c.last) /\ Len(c.journal) <= MaxJournal
  BY <1>2, <1>3, CompactKeeps
<1>5. /\ sequence' = c.last /\ journal' = c.journal /\ diagnostics' = c.diagnostics
      /\ subscriber' = c.subscriber /\ published' = published + 1
      /\ completed' = completed /\ expired' = expired
  BY DEF Publish, b
<1> HIDE DEF c
<1>6. c \in Values /\ c.diagnostics \subseteq 1..c.last
  BY <1>4 DEF ValueInv
<1>7. Current' = c
  BY <1>5, <1>6 DEF Current, Values
<1>8. HubTypeOK'
  <2>1. completed \in BOOLEAN /\ expired \in BOOLEAN
    BY DEF HubInv, HubTypeOK
  <2>2. c.last \in Nat /\ c.journal \in Seq(Events) /\ c.subscriber \in [Subscribers -> Iterators]
    BY <1>6 DEF Values
  <2> QED BY <1>0, <1>5, <1>6, <2>1, <2>2 DEF HubTypeOK
<1>9. ValueInv(Current)'
  <2>1. ValueInv(Current)' <=> ValueInv(Current')
    BY DEF ValueInv, Values, JournalInv, IteratorInv, Served, Ascending
  <2> QED BY <1>4, <1>7, <2>1
<1>10. Len(journal') <= MaxJournal /\ Covered(journal', sequence') /\ ~expired'
  BY <1>0, <1>4, <1>5
<1> QED BY <1>8, <1>9, <1>10 DEF HubInv, Covered

\* Steps that leave the journal and the numbers as they are.
LEMMA IteratorsKeep ==
  ASSUME HubInv, UNCHANGED <<sequence, diagnostics, published>>,
         completed' \in BOOLEAN, expired' \in BOOLEAN, expired' => completed',
         \/ journal' = journal /\ expired' = expired
         \/ journal' = <<>> /\ expired',
         subscriber' \in [Subscribers -> Iterators],
         \A s \in Subscribers : IteratorInv(subscriber'[s], sequence, diagnostics),
         HubAssumption
  PROVE  HubInv'
<1>0. /\ sequence \in Nat /\ journal \in Seq(Events) /\ diagnostics \subseteq 1..sequence
      /\ JournalInv(journal, sequence, diagnostics)
  BY ValueOfState
<1>1. <<>> \in Seq(Events) /\ Len(<<>>) = 0 /\ JournalInv(<<>>, sequence, diagnostics)
  BY DEF JournalInv
<1>2. /\ journal' \in Seq(Events) /\ JournalInv(journal', sequence, diagnostics)
      /\ Len(journal') <= MaxJournal
  <2>1. Len(journal) <= MaxJournal /\ 0 <= MaxJournal
    BY DEF HubInv, HubAssumption
  <2> QED BY <1>0, <1>1, <2>1
<1>3. HubTypeOK'
  BY <1>0, <1>2 DEF HubInv, HubTypeOK
<1>4. ValueInv(Current)'
  <2> DEFINE c == [last |-> sequence, journal |-> journal', diagnostics |-> diagnostics,
                   subscriber |-> subscriber']
  <2>1. c \in Values
    <3>1. diagnostics \in SUBSET Nat
      BY <1>0
    <3> QED BY <1>0, <1>2, <3>1 DEF Values
  <2>2. ValueInv(c)
    BY <1>0, <1>2, <2>1 DEF ValueInv
  <2>3. Current' = c
    BY DEF Current
  <2>4. ValueInv(Current)' <=> ValueInv(Current')
    BY DEF ValueInv, Values, JournalInv, IteratorInv, Served, Ascending
  <2> HIDE DEF c
  <2> QED BY <2>2, <2>3, <2>4
<1>5. ~expired' => Covered(journal, sequence)'
  BY DEF HubInv, Covered
<1> QED BY <1>2, <1>3, <1>4, <1>5 DEF HubInv

LEMMA OneIterator ==
  ASSUME HubInv, UNCHANGED hub, NEW s \in Subscribers, NEW r \in Iterators,
         IteratorInv(r, sequence, diagnostics), subscriber' = [subscriber EXCEPT ![s] = r],
         HubAssumption
  PROVE  HubInv'
<1>1. subscriber \in [Subscribers -> Iterators]
      /\ \A t \in Subscribers : IteratorInv(subscriber[t], sequence, diagnostics)
  BY ValueOfState
<1>2. subscriber' \in [Subscribers -> Iterators]
  BY <1>1
<1>3. \A t \in Subscribers : IteratorInv(subscriber'[t], sequence, diagnostics)
  <2> SUFFICES ASSUME NEW t \in Subscribers PROVE IteratorInv(subscriber'[t], sequence, diagnostics)
    OBVIOUS
  <2>1. subscriber'[t] = r \/ subscriber'[t] = subscriber[t]
    BY <1>1
  <2> QED BY <1>1, <2>1
<1>4. /\ UNCHANGED <<sequence, journal, diagnostics, published, completed, expired>>
      /\ completed \in BOOLEAN /\ expired \in BOOLEAN /\ (expired => completed)
  BY DEF hub, HubInv, HubTypeOK
<1> QED BY <1>2, <1>3, <1>4, IteratorsKeep

\* An iterator that only changes its status.
LEMMA StatusKeeps ==
  ASSUME NEW q \in Iterators, NEW last, NEW made, IteratorInv(q, last, made),
         NEW status \in {"new", "expired", "replaying", "reading", "waiting", "overflown",
                         "done", "left"},
         status \in {"reading", "waiting"} => q.snapshot = <<>>,
         status \in {"replaying", "reading", "waiting"} => Listens(q)
  PROVE  LET r == [q EXCEPT !.status = status]
         IN r \in Iterators /\ IteratorInv(r, last, made)
<1> DEFINE r == [q EXCEPT !.status = status]
<1>1. /\ r \in Iterators /\ r.status = status /\ r.got = q.got /\ r.snapshot = q.snapshot
      /\ r.queue = q.queue /\ r.overflow = q.overflow /\ r.after = q.after
  BY DEF Iterators
<1> HIDE DEF r
<1>2. Coming(r) = Coming(q)
  BY <1>1 DEF Coming
<1>3. Listens(r) => Listens(q)
  BY <1>1 DEF Listens
<1>4. Served(q, last, made) => Served(r, last, made)
  BY <1>1, <1>2 DEF Served
<1>5. IteratorInv(r, last, made)
  BY <1>1, <1>2, <1>3, <1>4 DEF IteratorInv
<1> QED BY <1>1, <1>5 DEF r

\* An iterator that yields what came next.
LEMMA YieldKeeps ==
  ASSUME NEW q \in Iterators, NEW r \in Iterators, NEW last, NEW made,
         IteratorInv(q, last, made), Coming(r) = Coming(q),
         r.status = q.status, r.overflow = q.overflow, r.after = q.after,
         Len(r.queue) <= Len(q.queue), q.snapshot = <<>> => r.snapshot = <<>>,
         HubAssumption
  PROVE  IteratorInv(r, last, made)
<1>1. Listens(r) <=> Listens(q)
  BY DEF Listens
<1>2. Served(q, last, made) => Served(r, last, made)
  BY DEF Served
<1>3. Len(r.queue) <= MaxQueue
  <2>1. r.queue \in Seq(Events) /\ q.queue \in Seq(Events)
    BY DEF Iterators
  <2>2. Len(r.queue) \in Nat /\ Len(q.queue) \in Nat /\ MaxQueue \in Nat
    BY <2>1 DEF HubAssumption
  <2> QED BY <2>2 DEF IteratorInv
<1> QED BY <1>1, <1>2, <1>3 DEF IteratorInv

LEMMA ReplayKeeps ==
  ASSUME HubInv, HubAssumption, NEW s \in Subscribers, Replay(s)
  PROVE  HubInv'
<1> DEFINE q == subscriber[s]
<1>0. /\ q \in Iterators /\ q.status = "replaying"
      /\ IteratorInv(q, sequence, diagnostics) /\ UNCHANGED hub
      /\ q.snapshot \in Seq(Events) /\ q.got \in Seq(Nat) /\ q.queue \in Seq(Events)
  <2>1. q \in Iterators /\ IteratorInv(q, sequence, diagnostics)
    BY ValueOfState
  <2> QED BY <2>1 DEF Replay, Iterators
<1>1. CASE q.snapshot = <<>>
  <2> DEFINE r == [q EXCEPT !.status = "reading"]
  <2>1. subscriber' = [subscriber EXCEPT ![s] = r]
    BY <1>1 DEF Replay
  <2>2. Listens(q)
    BY <1>0 DEF Listens
  <2> HIDE DEF q
  <2>3. r \in Iterators /\ IteratorInv(r, sequence, diagnostics)
    BY <1>0, <1>1, <2>2, StatusKeeps
  <2> HIDE DEF r
  <2> QED BY <1>0, <2>1, <2>3, OneIterator
<1>2. CASE q.snapshot # <<>>
  <2> DEFINE e == Head(q.snapshot)
             r == [[q EXCEPT !.snapshot = Tail(@)] EXCEPT !.got = Append(@, e.sequence)]
  <2>1. subscriber' = [subscriber EXCEPT ![s] = r]
    BY <1>2 DEF Replay, Yield
  <2> HIDE DEF q
  <2>2. /\ Append(q.got, e.sequence) \o Numbers(Tail(q.snapshot)) = q.got \o Numbers(q.snapshot)
        /\ Append(q.got, e.sequence) \in Seq(Nat) /\ Tail(q.snapshot) \in Seq(Events)
    BY <1>0, <1>2, NumbersMoved
  <2>3. /\ r \in Iterators /\ r.got = Append(q.got, e.sequence) /\ r.snapshot = Tail(q.snapshot)
        /\ r.queue = q.queue /\ r.status = q.status /\ r.overflow = q.overflow
        /\ r.after = q.after
    BY <1>0, <2>2 DEF Iterators
  <2> HIDE DEF e, r
  <2>4. Coming(r) = Coming(q)
    BY <2>2, <2>3 DEF Coming
  <2>5. Len(r.queue) <= Len(q.queue)
    BY <1>0, <2>3
  <2>6. IteratorInv(r, sequence, diagnostics)
    BY <1>0, <1>2, <2>3, <2>4, <2>5, YieldKeeps
  <2> QED BY <1>0, <2>1, <2>3, <2>6, OneIterator
<1> QED BY <1>1, <1>2

LEMMA ReadKeeps ==
  ASSUME HubInv, HubAssumption, NEW s \in Subscribers, Read(s)
  PROVE  HubInv'
<1> DEFINE q == subscriber[s]
<1>0. /\ q \in Iterators /\ q.status = "reading"
      /\ IteratorInv(q, sequence, diagnostics) /\ UNCHANGED hub
      /\ q.snapshot = <<>> /\ q.got \in Seq(Nat) /\ q.queue \in Seq(Events)
      /\ Listens(q)
  <2>1. q \in Iterators /\ IteratorInv(q, sequence, diagnostics) /\ q.status = "reading"
        /\ UNCHANGED hub
    BY ValueOfState DEF Read
  <2> QED BY <2>1 DEF Iterators, IteratorInv, Listens
<1>1. CASE q.queue = <<>>
  <2> DEFINE status == IF q.overflow THEN "overflown" ELSE IF completed THEN "done" ELSE "waiting"
             r == [q EXCEPT !.status = status]
  <2>1. subscriber' = [subscriber EXCEPT ![s] = r]
    BY <1>1 DEF Read
  <2>2. status \in {"overflown", "done", "waiting"}
    OBVIOUS
  <2> HIDE DEF q, status
  <2>3. r \in Iterators /\ IteratorInv(r, sequence, diagnostics)
    BY <1>0, <2>2, StatusKeeps
  <2> HIDE DEF r
  <2> QED BY <1>0, <2>1, <2>3, OneIterator
<1>2. CASE q.queue # <<>>
  <2> DEFINE e == Head(q.queue)
             r == [[q EXCEPT !.queue = Tail(@)] EXCEPT !.got = Append(@, e.sequence)]
  <2>1. subscriber' = [subscriber EXCEPT ![s] = r]
    BY <1>2 DEF Read, Yield
  <2> HIDE DEF q
  <2>2. /\ Append(q.got, e.sequence) \o Numbers(Tail(q.queue)) = q.got \o Numbers(q.queue)
        /\ Append(q.got, e.sequence) \in Seq(Nat) /\ Tail(q.queue) \in Seq(Events)
    BY <1>0, <1>2, NumbersMoved
  <2>3. /\ r \in Iterators /\ r.got = Append(q.got, e.sequence) /\ r.snapshot = q.snapshot
        /\ r.queue = Tail(q.queue) /\ r.status = q.status /\ r.overflow = q.overflow
        /\ r.after = q.after
    BY <1>0, <2>2 DEF Iterators
  <2>4. Len(Tail(q.queue)) <= Len(q.queue)
    BY <1>0, <1>2
  <2> HIDE DEF e, r
  <2>5. Numbers(q.snapshot) = <<>>
    BY <1>0 DEF Numbers
  <2>6. q.got \o <<>> = q.got /\ Append(q.got, e.sequence) \o <<>> = Append(q.got, e.sequence)
    <3>1. Append(q.got, e.sequence) \in Seq(Nat) /\ q.got \in Seq(Nat)
      BY <1>0, <2>2
    <3> QED BY <3>1, ConcatEmptySeq
  <2>7. Coming(r) = Coming(q)
    BY <2>2, <2>3, <2>5, <2>6 DEF Coming
  <2>8. IteratorInv(r, sequence, diagnostics)
    BY <1>0, <2>3, <2>4, <2>7, YieldKeeps
  <2> QED BY <1>0, <2>1, <2>3, <2>8, OneIterator
<1> QED BY <1>1, <1>2

LEMMA LeaveKeeps ==
  ASSUME HubInv, HubAssumption, NEW s \in Subscribers, Leave(s)
  PROVE  HubInv'
<1> DEFINE q == subscriber[s]
           r == [q EXCEPT !.status = "left"]
<1>1. q \in Iterators /\ IteratorInv(q, sequence, diagnostics) /\ UNCHANGED hub
      /\ subscriber' = [subscriber EXCEPT ![s] = r]
  BY ValueOfState DEF Leave
<1> HIDE DEF q
<1>2. r \in Iterators /\ IteratorInv(r, sequence, diagnostics)
  BY <1>1, StatusKeeps
<1> HIDE DEF r
<1> QED BY <1>1, <1>2, OneIterator

LEMMA CompleteKeeps ==
  ASSUME HubInv, HubAssumption, Complete
  PROVE  HubInv'
<1>1. subscriber \in [Subscribers -> Iterators]
      /\ \A s \in Subscribers : IteratorInv(subscriber[s], sequence, diagnostics)
  BY ValueOfState
<1>2. ASSUME NEW s \in Subscribers
      PROVE  /\ Woken(subscriber[s]) \in Iterators
             /\ IteratorInv(Woken(subscriber[s]), sequence, diagnostics)
  <2> DEFINE q == subscriber[s]
             status == IF q.status = "waiting" THEN "reading" ELSE q.status
  <2>1. q \in Iterators /\ IteratorInv(q, sequence, diagnostics)
    BY <1>1
  <2>2. Woken(q) = [q EXCEPT !.status = status]
    BY DEF Woken
  <2> HIDE DEF q
  <2>3. /\ status \in {"new", "expired", "replaying", "reading", "waiting", "overflown",
                       "done", "left"}
        /\ status \in {"reading", "waiting"} => q.snapshot = <<>>
        /\ status \in {"replaying", "reading", "waiting"} => Listens(q)
    BY <2>1 DEF Iterators, IteratorInv, Listens
  <2> HIDE DEF status
  <2>4. /\ [q EXCEPT !.status = status] \in Iterators
        /\ IteratorInv([q EXCEPT !.status = status], sequence, diagnostics)
    BY <2>1, <2>3, StatusKeeps
  <2>5. Woken(q) \in Iterators /\ IteratorInv(Woken(q), sequence, diagnostics)
    BY <2>2, <2>4
  <2> QED BY <2>5 DEF q
<1>3. subscriber' = [s \in Subscribers |-> Woken(subscriber[s])]
      /\ UNCHANGED <<sequence, journal, diagnostics, published, expired>> /\ completed'
      /\ completed' \in BOOLEAN /\ expired \in BOOLEAN
  BY DEF Complete, HubInv, HubTypeOK
<1>4. subscriber' \in [Subscribers -> Iterators]
      /\ \A s \in Subscribers : IteratorInv(subscriber'[s], sequence, diagnostics)
  BY <1>2, <1>3
<1> QED BY <1>3, <1>4, IteratorsKeep

LEMMA ExpireKeeps ==
  ASSUME HubInv, HubAssumption, Expire
  PROVE  HubInv'
<1>1. subscriber \in [Subscribers -> Iterators]
      /\ \A s \in Subscribers : IteratorInv(subscriber[s], sequence, diagnostics)
  BY ValueOfState
<1>2. /\ journal' = <<>> /\ expired' /\ expired' \in BOOLEAN /\ completed' /\ completed' \in BOOLEAN
      /\ UNCHANGED <<sequence, diagnostics, published, subscriber>>
  BY DEF Expire, HubInv, HubTypeOK
<1> QED BY <1>1, <1>2, IteratorsKeep

LEMMA SubscribeKeeps ==
  ASSUME HubInv, HubAssumption, NEW s \in Subscribers, NEW after \in 0..sequence,
         Subscribe(s, after)
  PROVE  HubInv'
<1> DEFINE P == {i \in DOMAIN journal : journal[i].sequence > after}
           snapshot == At(journal, P)
           refused == [Fresh EXCEPT !.status = "expired"]
           r == [Fresh EXCEPT !.status = "replaying", !.after = after, !.snapshot = snapshot]
<1>0. /\ sequence \in Nat /\ after \in Nat /\ journal \in Seq(Events)
      /\ DOMAIN journal = 1..Len(journal) /\ diagnostics \subseteq 1..sequence
      /\ JournalInv(journal, sequence, diagnostics)
      /\ MaxQueue \in Nat /\ UNCHANGED hub
  BY ValueOfState DEF HubAssumption, Subscribe
<1>1. subscriber' = [subscriber EXCEPT ![s] = refused]
      \/ (~expired /\ subscriber' = [subscriber EXCEPT ![s] = r])
  BY DEF Subscribe
<1>2. Numbers(<<>>) = <<>> /\ <<>> \in Seq(Nat) /\ <<>> \in Seq(Events) /\ Len(<<>>) = 0
  BY DEF Numbers
<1>3. /\ refused \in Iterators /\ refused.got = <<>> /\ refused.snapshot = <<>>
      /\ refused.queue = <<>> /\ refused.status = "expired"
  BY <1>2 DEF Fresh, Iterators
<1>4. IteratorInv(refused, sequence, diagnostics)
  <2> HIDE DEF refused
  <2>1. Coming(refused) = <<>>
    BY <1>2, <1>3 DEF Coming
  <2>2. Len(refused.queue) <= MaxQueue
    BY <1>0, <1>2, <1>3
  <2> QED BY <1>3, <2>1, <2>2 DEF IteratorInv, Ascending, Listens
<1>5. P \subseteq DOMAIN journal
  OBVIOUS
<1>6. /\ JournalInv(snapshot, sequence, diagnostics)
      /\ \A i \in P : \E k \in 1..Len(snapshot) : snapshot[k] = journal[i]
  <2> HIDE DEF P, snapshot, r, refused
  <2>1. /\ JournalInv(At(journal, P), sequence, diagnostics)
        /\ \A i \in P : \E k \in 1..Len(At(journal, P)) : At(journal, P)[k] = journal[i]
    BY <1>0, <1>5, JournalThinned
  <2> QED BY <2>1 DEF snapshot
<1>7. snapshot \in Seq(Events)
  BY <1>6 DEF JournalInv
<1> HIDE DEF snapshot
<1>8. /\ r \in Iterators /\ r.got = <<>> /\ r.snapshot = snapshot /\ r.queue = <<>>
      /\ r.status = "replaying" /\ r.after = after
  BY <1>0, <1>2, <1>7 DEF Fresh, Iterators
<1>9. ASSUME ~expired PROVE IteratorInv(r, sequence, diagnostics)
  <2> HIDE DEF r
  <2> DEFINE x == Numbers(snapshot)
  <2>1. /\ x \in Seq(Nat) /\ Len(x) = Len(snapshot) /\ DOMAIN x = 1..Len(snapshot)
        /\ \A i \in 1..Len(snapshot) : x[i] = snapshot[i].sequence
    BY <1>7, NumbersOf
  <2> HIDE DEF x
  <2>2. Coming(r) = x
    <3>1. (<<>> \o x) \o <<>> = x
      BY <2>1, ConcatEmptySeq
    <3> QED BY <1>2, <1>8, <3>1 DEF Coming, x
  <2>3. Ascending(x)
    <3>1. \A i, k \in 1..Len(snapshot) : i < k => snapshot[i].sequence < snapshot[k].sequence
      BY <1>6 DEF JournalInv
    <3>2. \A i, k \in DOMAIN x : i < k => x[i] < x[k]
      BY <2>1, <3>1
    <3> QED BY <3>2 DEF Ascending
  <2>4. \A i \in DOMAIN x : x[i] <= sequence
    <3>1. \A i \in 1..Len(snapshot) : snapshot[i].sequence \in 1..sequence
      BY <1>6 DEF JournalInv
    <3> QED BY <1>0, <2>1, <3>1
  <2>5. Served(r, sequence, diagnostics)
    <3> SUFFICES ASSUME NEW n \in (after + 1)..sequence
                 PROVE  \/ n \in Range(x)
                        \/ \E d \in diagnostics : d \in Range(x) /\ d > n
      BY <1>8, <2>2 DEF Served
    <3>1. n \in 1..sequence /\ n > after
      BY <1>0
    <3>2. ASSUME NEW i \in 1..Len(journal), journal[i].sequence >= n
          PROVE  journal[i].sequence \in Range(x)
      <4>1. journal[i].sequence \in 1..sequence
        BY <1>0 DEF JournalInv
      <4>2. i \in P
        BY <1>0, <3>1, <3>2, <4>1
      <4>3. PICK k \in 1..Len(snapshot) : snapshot[k] = journal[i]
        BY <1>6, <4>2
      <4>4. x[k] = journal[i].sequence /\ k \in DOMAIN x
        BY <2>1, <4>3
      <4> QED BY <4>4 DEF Range
    <3>3. \/ \E i \in 1..Len(journal) : journal[i].sequence = n
          \/ \E i \in 1..Len(journal) : journal[i].kind = "diagnostic" /\ journal[i].sequence > n
      BY <1>9, <3>1 DEF HubInv, Covered
    <3>4. CASE \E i \in 1..Len(journal) : journal[i].sequence = n
      <4>1. PICK i \in 1..Len(journal) : journal[i].sequence = n
        BY <3>4
      <4>2. journal[i].sequence >= n
        BY <3>1, <4>1
      <4> QED BY <3>2, <4>1, <4>2
    <3>5. CASE \E i \in 1..Len(journal) : journal[i].kind = "diagnostic" /\ journal[i].sequence > n
      <4>1. PICK i \in 1..Len(journal) : journal[i].kind = "diagnostic" /\ journal[i].sequence > n
        BY <3>5
      <4>2. journal[i].sequence \in diagnostics /\ journal[i].sequence \in 1..sequence
        BY <1>0, <4>1 DEF JournalInv
      <4>3. journal[i].sequence >= n
        BY <3>1, <4>1, <4>2
      <4>4. journal[i].sequence \in Range(x)
        BY <3>2, <4>3
      <4> QED BY <4>1, <4>2, <4>4
    <3> QED BY <3>3, <3>4, <3>5
  <2>6. Len(r.queue) <= MaxQueue
    BY <1>0, <1>2, <1>8
  <2> QED BY <1>8, <2>2, <2>3, <2>4, <2>5, <2>6 DEF IteratorInv
<1> HIDE DEF r, refused
<1> QED BY <1>0, <1>1, <1>3, <1>4, <1>8, <1>9, OneIterator

LEMMA HubStutters ==
  ASSUME HubInv, HubAssumption, UNCHANGED hubVars
  PROVE  HubInv'
<1>1. /\ UNCHANGED <<sequence, journal, diagnostics, published, completed, expired, subscriber>>
      /\ completed \in BOOLEAN /\ expired \in BOOLEAN /\ (expired => completed)
  BY DEF hubVars, hub, HubInv, HubTypeOK
<1> QED BY <1>1, ValueOfState, IteratorsKeep

LEMMA HubInitInv == HubInit /\ HubAssumption => HubInv
<1> SUFFICES ASSUME HubInit, HubAssumption PROVE HubInv
  OBVIOUS
<1>1. <<>> \in Seq(Events) /\ <<>> \in Seq(Nat) /\ Len(<<>>) = 0 /\ Numbers(<<>>) = <<>>
  BY DEF Numbers
<1>2. Fresh \in Iterators /\ Fresh.got = <<>> /\ Fresh.snapshot = <<>> /\ Fresh.queue = <<>>
      /\ Fresh.status = "new"
  BY <1>1 DEF Fresh, Iterators
<1>3. IteratorInv(Fresh, 0, {})
  <2>1. Coming(Fresh) = <<>>
    BY <1>1, <1>2 DEF Coming
  <2>2. Len(Fresh.queue) <= MaxQueue
    BY <1>1, <1>2 DEF HubAssumption
  <2> QED BY <1>2, <2>1, <2>2 DEF IteratorInv, Ascending, Listens
<1>4. JournalInv(<<>>, 0, {}) /\ Covered(<<>>, 0)
  BY <1>1 DEF JournalInv, Covered
<1>5. subscriber \in [Subscribers -> Iterators] /\ \A s \in Subscribers : subscriber[s] = Fresh
  BY <1>2 DEF HubInit
<1>6. HubTypeOK
  <2>1. 0 \in 0..MaxPublished
    BY DEF HubAssumption
  <2>2. journal = <<>> /\ sequence = 0 /\ published = 0 /\ diagnostics = {}
        /\ completed = FALSE /\ expired = FALSE
        /\ subscriber = [s \in Subscribers |-> Fresh]
    BY DEF HubInit
  <2>3. subscriber \in [Subscribers -> Iterators]
    BY <1>2, <2>2
  <2>4. journal \in Seq(Events)
    BY <1>1, <2>2
  <2> QED BY <2>1, <2>2, <2>3, <2>4 DEF HubTypeOK
<1>7. Current \in Values
  BY <1>1, <1>5 DEF HubInit, Current, Values
<1>8. ValueInv(Current)
  BY <1>3, <1>4, <1>5, <1>7 DEF ValueInv, Current, HubInit
<1>9. Len(journal) <= MaxJournal
  BY <1>1 DEF HubInit, HubAssumption
<1> QED BY <1>4, <1>6, <1>8, <1>9 DEF HubInv, HubInit

LEMMA HubInvariant == HubSpec => []HubInv
<1>1. HubInit => HubInv
  BY HubInitInv, HubAssumption
<1>2. HubInv /\ [HubNext]_hubVars => HubInv'
  <2> SUFFICES ASSUME HubInv, [HubNext]_hubVars PROVE HubInv'
    OBVIOUS
  <2> USE HubAssumption
  <2>1. CASE UNCHANGED hubVars
    BY <2>1, HubStutters
  <2>2. ASSUME NEW kind \in {"delta", "essential"}, Publish(kind) PROVE HubInv'
    BY <2>2, PublishKeeps
  <2>3. CASE Complete
    BY <2>3, CompleteKeeps
  <2>4. CASE Expire
    BY <2>4, ExpireKeeps
  <2>5. ASSUME NEW s \in Subscribers, NEW after \in 0..sequence, Subscribe(s, after) PROVE HubInv'
    BY <2>5, SubscribeKeeps
  <2>6. ASSUME NEW s \in Subscribers, Consume(s) PROVE HubInv'
    BY <2>6, ReplayKeeps, ReadKeeps DEF Consume
  <2>7. ASSUME NEW s \in Subscribers, Leave(s) PROVE HubInv'
    BY <2>7, LeaveKeeps
  <2> QED BY <2>1, <2>2, <2>3, <2>4, <2>5, <2>6, <2>7 DEF HubNext
<1> QED BY <1>1, <1>2, PTL DEF HubSpec

\* Every variable of the hub has its type.
THEOREM HubTyped == HubSpec => []HubTypeOK
<1>1. HubInv => HubTypeOK
  BY DEF HubInv
<1> QED BY <1>1, HubInvariant, PTL

\* An event a subscriber does not get is announced to it by a later diagnostic, or
\* by an error: none is lost in silence (AsyncEventHub.ts:84-93, 134-203).
THEOREM LossIsAnnounced == HubSpec => []NoSilentLoss
<1>1. HubInv => NoSilentLoss
  <2> SUFFICES ASSUME HubInv, NEW s \in Subscribers, Listening(s), ~subscriber[s].overflow,
                      NEW n \in (subscriber[s].after + 1)..sequence, n \notin InView(s)
               PROVE  \E d \in diagnostics \cap InView(s) : d > n
    BY DEF NoSilentLoss
  <2>1. Served(subscriber[s], sequence, diagnostics)
    BY ValueOfState DEF IteratorInv, Listening
  <2> QED BY <2>1 DEF Served, InView
<1> QED BY <1>1, HubInvariant, PTL

\* A subscriber gets events in the order of their numbers, none of them twice
\* (AsyncEventHub.ts:92-108).
THEOREM EventsInOrder == HubSpec => []InOrder
<1>1. HubInv => InOrder
  BY ValueOfState DEF IteratorInv, Ascending, InOrder
<1> QED BY <1>1, HubInvariant, PTL

\* After a compaction the journal is within its budget, and so is every queue
\* (AsyncEventHub.ts:134-178).
THEOREM BudgetsAreKept == HubSpec => []WithinBudgets
<1>1. HubInv => WithinBudgets
  BY ValueOfState DEF HubInv, IteratorInv, WithinBudgets
<1> QED BY <1>1, HubInvariant, PTL
===============================================================================
