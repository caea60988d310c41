-------------------------- MODULE RuntimeLeaseProofs --------------------------
(***************************************************************************)
(* The lock of FileRuntimeSessionStorage keeps out every second writer,    *)
(* for any number of claimants, processes, crashes and calls of release(), *)
(* until two calls of release() on one lease have each removed a lock      *)
(* file.  Nor does a write replace a record it did not compare with, until *)
(* such a release, or a write that began while its lease was being let go. *)
(***************************************************************************)
EXTENDS RuntimeLease, TLAPS

\* A call of release() removed a lock file; it removes the next holder's when an
\* overlapping call of the same lease has removed the lease's own.
RemovedLock(c, r) == releasing[c][r] \in {"removed", "done"}

ReleasedTwice ==
  \E c \in Claimants : \E r1, r2 \in Releasers :
    r1 # r2 /\ RemovedLock(c, r1) /\ RemovedLock(c, r2)

Creating(c) == step[c] \in {"created", "reclaimed"}
BehindGate(c) == step[c] \in {"gated", "removing", "claiming", "reclaimed"}

\* A lock file without content belongs to the one claimant that created it.
OneCreator ==
  /\ \A c \in Claimants : Creating(c) => lock = Unwritten
  /\ \A c, d \in Claimants : Creating(c) /\ Creating(d) => c = d

\* The tombstone lets one claimant at a time reclaim the lock.
GateIsExclusive ==
  /\ \A c \in Claimants : BehindGate(c) => tombstone
  /\ \A c, d \in Claimants : BehindGate(c) /\ BehindGate(d) => c = d

\* Only the lock of a dead owner is reclaimed, and it is still there when it is
\* removed.
OnlyTheDead ==
  /\ \A c \in Claimants : step[c] = "judging" => owner[c] \in Claimants
  /\ \A c \in Claimants : step[c] \in {"gating", "gated", "removing"}
       => owner[c] \in Claimants /\ ~Alive(owner[c])
  /\ \A c \in Claimants : step[c] = "removing" => lock = owner[c]

\* The first release that passed its check removes its own lock.
ReleasesOwnLock ==
  \A c \in Claimants : \A r \in Releasers :
    Alive(c) /\ releasing[c][r] = "checked" /\ (\A r2 \in Releasers : ~RemovedLock(c, r2))
      => lock = c

LockInv == OneCreator /\ GateIsExclusive /\ OnlyTheDead /\ ReleasesOwnLock /\ ExclusiveWriter

\* While no write began late, a write or deletion in progress is of a lease that
\* is not being released, and the record is the one it was compared with.
Covered(c) ==
  step[c] = "held" /\ c \notin released /\ (\A r \in Releasers : releasing[c][r] = "no")

WritesAreCovered ==
  \A c \in Claimants :
    /\ writing[c] = "deleting" => Covered(c)
    /\ late = {} /\ writing[c] # "no" => Covered(c)
    /\ late = {} /\ Alive(c) /\ writing[c] \in {"compared", "checked"} => revision = known[c]

-----------------------------------------------------------------------------
LEMMA InitLock == Init => TypeOK /\ LockInv
<1> SUFFICES ASSUME Init PROVE TypeOK /\ LockInv
  OBVIOUS
<1> USE LeaseAssumption DEF Init
<1>1. TypeOK
  BY DEF TypeOK, Steps
<1>2. OneCreator /\ GateIsExclusive /\ OnlyTheDead
  BY DEF OneCreator, Creating, GateIsExclusive, BehindGate, OnlyTheDead
<1>3. ReleasesOwnLock /\ ExclusiveWriter
  BY DEF ReleasesOwnLock, ExclusiveWriter, Held
<1> QED BY <1>1, <1>2, <1>3 DEF LockInv

\* Every step keeps the types, whatever releases overlap.
LEMMA NextTyped == ASSUME TypeOK, [Next]_vars PROVE TypeOK'
<1> USE LeaseAssumption DEF TypeOK
<1>1. CASE UNCHANGED vars
  BY <1>1 DEF vars, files
<1>2. ASSUME NEW p \in Processes, Crash(p) PROVE TypeOK'
  BY <1>2 DEF Crash, files, acquired
<1>3. ASSUME NEW c \in Claimants,
             \/ Claim(c) \/ WriteOwner(c) \/ ReadOwner(c) \/ JudgeOwner(c) \/ OpenGate(c)
             \/ CompareOwner(c) \/ RemoveStale(c) \/ Reclaim(c) \/ FinishReclaim(c) \/ Retry(c)
      PROVE  TypeOK'
  <2>1. UNCHANGED <<alive, acquired, revision>>
    BY <1>3 DEF Claim, WriteOwner, ReadOwner, JudgeOwner, OpenGate, CompareOwner, RemoveStale,
                Reclaim, FinishReclaim, Retry, files
  <2>2. \E to \in Steps : step' = [step EXCEPT ![c] = to]
    BY <1>3 DEF Claim, WriteOwner, ReadOwner, JudgeOwner, OpenGate, CompareOwner, RemoveStale,
                Reclaim, FinishReclaim, Retry, Moves, Steps
  <2>3. lock' \in {lock, c, Nobody, Unwritten} /\ tombstone' \in BOOLEAN
    BY <1>3 DEF Claim, WriteOwner, ReadOwner, JudgeOwner, OpenGate, CompareOwner, RemoveStale,
                Reclaim, FinishReclaim, Retry, files
  <2>4. owner' = owner \/ \E d \in Claimants \cup {Nobody} : owner' = [owner EXCEPT ![c] = d]
    BY <1>3 DEF Claim, WriteOwner, ReadOwner, JudgeOwner, OpenGate, CompareOwner, RemoveStale,
                Reclaim, FinishReclaim, Retry
  <2> QED BY <2>1, <2>2, <2>3, <2>4 DEF acquired
<1>4. ASSUME NEW c \in Claimants,
             Read(c) \/ CompareRevision(c) \/ CheckAgain(c) \/ Rename(c) \/ CheckDelete(c) \/ RemoveRecord(c)
      PROVE  TypeOK'
  <2>1. CASE Read(c) BY <2>1 DEF Read, files
  <2>2. CASE CompareRevision(c) BY <2>2 DEF CompareRevision, files
  <2>3. CASE CheckAgain(c) BY <2>3 DEF CheckAgain, files
  <2>4. CASE Rename(c) BY <2>4 DEF Rename
  <2>5. CASE CheckDelete(c) BY <2>5 DEF CheckDelete, files
  <2>6. CASE RemoveRecord(c) BY <2>6 DEF RemoveRecord
  <2> QED BY <1>4, <2>1, <2>2, <2>3, <2>4, <2>5, <2>6
<1>5. ASSUME NEW c \in Claimants, NEW r \in Releasers,
             CheckRelease(c, r) \/ RemoveLock(c, r) \/ SetReleased(c, r)
      PROVE  TypeOK'
  <2>1. CASE CheckRelease(c, r) BY <2>1 DEF CheckRelease, files
  <2>2. CASE RemoveLock(c, r) BY <2>2 DEF RemoveLock
  <2>3. CASE SetReleased(c, r) BY <2>3 DEF SetReleased, files
  <2> QED BY <1>5, <2>1, <2>2, <2>3
<1> QED BY <1>1, <1>2, <1>3, <1>4, <1>5 DEF Next

\* What a call of release() did stays done.
LEMMA ReleasesStay ==
  ASSUME TypeOK, [Next]_vars, NEW c \in Claimants, NEW r \in Releasers, RemovedLock(c, r)
  PROVE  RemovedLock(c, r)'
<1>1. CASE releasing' = releasing
  BY <1>1 DEF RemovedLock
<1>2. ASSUME NEW d \in Claimants, NEW q \in Releasers,
             CheckRelease(d, q) \/ RemoveLock(d, q) \/ SetReleased(d, q)
      PROVE  RemovedLock(c, r)'
  <2>1. releasing[c][r] \in {"removed", "done"}
    BY DEF RemovedLock
  <2>2. CASE CheckRelease(d, q)
    BY <2>1, <2>2 DEF CheckRelease, RemovedLock, TypeOK
  <2>3. CASE RemoveLock(d, q)
    BY <2>1, <2>3 DEF RemoveLock, RemovedLock, TypeOK
  <2>4. CASE SetReleased(d, q)
    BY <2>1, <2>4 DEF SetReleased, RemovedLock, TypeOK
  <2> QED BY <1>2, <2>2, <2>3, <2>4
<1>3. CASE Next /\ releasing' # releasing
  BY <1>2, <1>3 DEF Next, Claim, WriteOwner, ReadOwner, JudgeOwner, OpenGate, CompareOwner, RemoveStale,
     Reclaim, FinishReclaim, Retry, Read, CompareRevision, CheckAgain, Rename, CheckDelete, RemoveRecord,
     Crash, acquired
<1> QED BY <1>1, <1>3 DEF vars

LEMMA TwiceStays == ASSUME TypeOK, [Next]_vars, ReleasedTwice PROVE ReleasedTwice'
  BY ReleasesStay DEF ReleasedTwice

\* open() with O_EXCL succeeds only on a missing lock, so nobody is creating one.
LEMMA ClaimStep ==
  ASSUME TypeOK, LockInv, NEW c \in Claimants, Claim(c)
  PROVE  LockInv'
<1> USE LeaseAssumption DEF LockInv, TypeOK, Steps, Alive, Claim, Moves, acquired
<1>1. OneCreator'
  BY DEF OneCreator, Creating, OnlyTheDead, BehindGate, GateIsExclusive
<1>2. GateIsExclusive'
  BY DEF GateIsExclusive, BehindGate
<1>3. OnlyTheDead'
  BY DEF OnlyTheDead, GateIsExclusive, BehindGate, OneCreator, Creating
<1>4. ReleasesOwnLock'
  BY DEF ReleasesOwnLock, RemovedLock, OnlyTheDead, OneCreator, Creating
<1>5. ExclusiveWriter'
  BY DEF ExclusiveWriter, Held, OnlyTheDead, OneCreator, Creating
<1> QED BY <1>1, <1>2, <1>3, <1>4, <1>5

\* The creator of a lock file is alone with it until its nonce is in it.
LEMMA WriteOwnerStep ==
  ASSUME TypeOK, LockInv, NEW c \in Claimants, WriteOwner(c)
  PROVE  LockInv'
<1> USE LeaseAssumption DEF LockInv, TypeOK, Steps, Alive, WriteOwner, Moves, acquired
<1>1. OneCreator'
  BY DEF OneCreator, Creating, OnlyTheDead, BehindGate, GateIsExclusive
<1>2. GateIsExclusive'
  BY DEF GateIsExclusive, BehindGate
<1>3. OnlyTheDead'
  BY DEF OnlyTheDead, GateIsExclusive, BehindGate, OneCreator, Creating
<1>4. ReleasesOwnLock'
  BY DEF ReleasesOwnLock, RemovedLock, OnlyTheDead, OneCreator, Creating
<1>5. ExclusiveWriter'
  BY DEF ExclusiveWriter, Held, OnlyTheDead, OneCreator, Creating
<1> QED BY <1>1, <1>2, <1>3, <1>4, <1>5

\* An owner that is judged is a claimant.
LEMMA ReadOwnerStep ==
  ASSUME TypeOK, LockInv, NEW c \in Claimants, ReadOwner(c)
  PROVE  LockInv'
<1> DEFINE next == IF lock \in Claimants THEN "judging" ELSE "failed"
<1>0. /\ step[c] = "exists"
      /\ step' = [step EXCEPT ![c] = next]
      /\ owner' = IF lock \in Claimants THEN [owner EXCEPT ![c] = lock] ELSE owner
      /\ UNCHANGED <<lock, tombstone, revision, alive, known, writing, releasing, released>>
  BY DEF ReadOwner, Moves, files, acquired
<1> USE <1>0, LeaseAssumption DEF LockInv, Alive
<1>1. OneCreator'
  BY DEF TypeOK, Steps, OneCreator, Creating
<1>2. GateIsExclusive'
  BY DEF TypeOK, Steps, GateIsExclusive, BehindGate
<1>3. OnlyTheDead'
  BY DEF TypeOK, Steps, OnlyTheDead
<1>4. ReleasesOwnLock'
  BY DEF ReleasesOwnLock, RemovedLock
<1>5. ExclusiveWriter'
  BY DEF TypeOK, Steps, ExclusiveWriter, Held
<1> QED BY <1>1, <1>2, <1>3, <1>4, <1>5

\* A dead process stays dead.
LEMMA JudgeOwnerStep ==
  ASSUME TypeOK, LockInv, NEW c \in Claimants, JudgeOwner(c)
  PROVE  LockInv'
<1> USE LeaseAssumption DEF LockInv, TypeOK, Steps, Alive, JudgeOwner, Moves, files, acquired
<1>1. OneCreator'
  BY DEF OneCreator, Creating, OnlyTheDead, BehindGate, GateIsExclusive
<1>2. GateIsExclusive'
  BY DEF GateIsExclusive, BehindGate
<1>3. OnlyTheDead'
  BY DEF OnlyTheDead, GateIsExclusive, BehindGate, OneCreator, Creating
<1>4. ReleasesOwnLock'
  BY DEF ReleasesOwnLock, RemovedLock, OnlyTheDead, OneCreator, Creating
<1>5. ExclusiveWriter'
  BY DEF ExclusiveWriter, Held, OnlyTheDead, OneCreator, Creating
<1> QED BY <1>1, <1>2, <1>3, <1>4, <1>5

\* A failed claimant has left its gate.
LEMMA RetryStep ==
  ASSUME TypeOK, LockInv, NEW c \in Claimants, Retry(c)
  PROVE  LockInv'
<1> USE LeaseAssumption DEF LockInv, TypeOK, Steps, Alive, Retry, Moves, files, acquired
<1>1. OneCreator'
  BY DEF OneCreator, Creating, OnlyTheDead, BehindGate, GateIsExclusive
<1>2. GateIsExclusive'
  BY DEF GateIsExclusive, BehindGate
<1>3. OnlyTheDead'
  BY DEF OnlyTheDead, GateIsExclusive, BehindGate, OneCreator, Creating
<1>4. ReleasesOwnLock'
  BY DEF ReleasesOwnLock, RemovedLock, OnlyTheDead, OneCreator, Creating
<1>5. ExclusiveWriter'
  BY DEF ExclusiveWriter, Held, OnlyTheDead, OneCreator, Creating
<1> QED BY <1>1, <1>2, <1>3, <1>4, <1>5

\* The gate opens for one claimant.
LEMMA OpenGateStep ==
  ASSUME TypeOK, LockInv, NEW c \in Claimants, OpenGate(c)
  PROVE  LockInv'
<1> USE LeaseAssumption DEF LockInv, TypeOK, Steps, Alive, OpenGate, Moves, files, acquired
<1>1. OneCreator'
  BY DEF OneCreator, Creating, OnlyTheDead, BehindGate, GateIsExclusive
<1>2. GateIsExclusive'
  BY DEF GateIsExclusive, BehindGate
<1>3. OnlyTheDead'
  BY DEF OnlyTheDead, GateIsExclusive, BehindGate, OneCreator, Creating
<1>4. ReleasesOwnLock'
  BY DEF ReleasesOwnLock, RemovedLock, OnlyTheDead, OneCreator, Creating
<1>5. ExclusiveWriter'
  BY DEF ExclusiveWriter, Held, OnlyTheDead, OneCreator, Creating
<1> QED BY <1>1, <1>2, <1>3, <1>4, <1>5

\* Behind the gate the lock either names the dead owner still, or is let be.
LEMMA CompareOwnerStep ==
  ASSUME TypeOK, LockInv, NEW c \in Claimants, CompareOwner(c)
  PROVE  LockInv'
<1> USE LeaseAssumption DEF LockInv, TypeOK, Steps, Alive, CompareOwner, Moves, files, acquired
<1>1. OneCreator'
  BY DEF OneCreator, Creating, OnlyTheDead, BehindGate, GateIsExclusive
<1>2. GateIsExclusive'
  BY DEF GateIsExclusive, BehindGate
<1>3. OnlyTheDead'
  BY DEF OnlyTheDead, GateIsExclusive, BehindGate, OneCreator, Creating
<1>4. ReleasesOwnLock'
  BY DEF ReleasesOwnLock, RemovedLock, OnlyTheDead, OneCreator, Creating
<1>5. ExclusiveWriter'
  BY DEF ExclusiveWriter, Held, OnlyTheDead, OneCreator, Creating
<1> QED BY <1>1, <1>2, <1>3, <1>4, <1>5

\* The lock that is removed still names the dead owner, so no live lease loses it.
LEMMA RemoveStaleStep ==
  ASSUME TypeOK, LockInv, NEW c \in Claimants, RemoveStale(c)
  PROVE  LockInv'
<1> USE LeaseAssumption DEF LockInv, TypeOK, Steps, Alive, RemoveStale, Moves, acquired
<1>1. OneCreator'
  BY DEF OneCreator, Creating, OnlyTheDead, BehindGate, GateIsExclusive
<1>2. GateIsExclusive'
  BY DEF GateIsExclusive, BehindGate
<1>3. OnlyTheDead'
  BY DEF OnlyTheDead, GateIsExclusive, BehindGate, OneCreator, Creating
<1>4. ReleasesOwnLock'
  BY DEF ReleasesOwnLock, RemovedLock, OnlyTheDead, OneCreator, Creating
<1>5. ExclusiveWriter'
  BY DEF ExclusiveWriter, Held, OnlyTheDead, OneCreator, Creating
<1> QED BY <1>1, <1>2, <1>3, <1>4, <1>5

\* A reclaimer competes with newcomers for the lock, behind its gate.
LEMMA ReclaimStep ==
  ASSUME TypeOK, LockInv, NEW c \in Claimants, Reclaim(c)
  PROVE  LockInv'
<1> USE LeaseAssumption DEF LockInv, TypeOK, Steps, Alive, Reclaim, Moves, acquired
<1>1. OneCreator'
  BY DEF OneCreator, Creating, OnlyTheDead, BehindGate, GateIsExclusive
<1>2. GateIsExclusive'
  BY DEF GateIsExclusive, BehindGate
<1>3. OnlyTheDead'
  BY DEF OnlyTheDead, GateIsExclusive, BehindGate, OneCreator, Creating
<1>4. ReleasesOwnLock'
  BY DEF ReleasesOwnLock, RemovedLock, OnlyTheDead, OneCreator, Creating
<1>5. ExclusiveWriter'
  BY DEF ExclusiveWriter, Held, OnlyTheDead, OneCreator, Creating
<1> QED BY <1>1, <1>2, <1>3, <1>4, <1>5

\* It leaves the gate with a lock of its own, or without one.
LEMMA FinishReclaimStep ==
  ASSUME TypeOK, LockInv, NEW c \in Claimants, FinishReclaim(c)
  PROVE  LockInv'
<1> USE LeaseAssumption DEF LockInv, TypeOK, Steps, Alive, FinishReclaim, Moves, acquired
<1>1. OneCreator'
  BY DEF OneCreator, Creating, OnlyTheDead, BehindGate, GateIsExclusive
<1>2. GateIsExclusive'
  BY DEF GateIsExclusive, BehindGate
<1>3. OnlyTheDead'
  BY DEF OnlyTheDead, GateIsExclusive, BehindGate, OneCreator, Creating
<1>4. ReleasesOwnLock'
  BY DEF ReleasesOwnLock, RemovedLock, OnlyTheDead, OneCreator, Creating
<1>5. ExclusiveWriter'
  BY DEF ExclusiveWriter, Held, OnlyTheDead, OneCreator, Creating
<1> QED BY <1>1, <1>2, <1>3, <1>4, <1>5

\* Reads and writes of the record leave the lock and its claimants alone.
LEMMA RecordSteps ==
  ASSUME TypeOK, LockInv, NEW c \in Claimants,
         Read(c) \/ CompareRevision(c) \/ CheckAgain(c) \/ Rename(c) \/ CheckDelete(c) \/ RemoveRecord(c)
  PROVE  LockInv'
<1>1. UNCHANGED <<lock, tombstone, alive, step, owner, releasing, released>>
  BY DEF Read, CompareRevision, CheckAgain, Rename, CheckDelete, RemoveRecord, files
<1> QED BY <1>1
  DEF LockInv, OneCreator, Creating, GateIsExclusive, BehindGate, OnlyTheDead, Alive,
      ReleasesOwnLock, RemovedLock, ExclusiveWriter, Held

\* The first release of a lease removes the lease's own lock; one that finds no
\* lock file fails, and one that finds another's is the second to remove one.
LEMMA RemovalIsOwn ==
  ASSUME TypeOK, LockInv, ~ReleasedTwice', NEW c \in Claimants, NEW r \in Releasers, RemoveLock(c, r)
  PROVE  \/ /\ lock = c
            /\ releasing' = [releasing EXCEPT ![c][r] = "removed"]
         \/ /\ lock = Nobody
            /\ releasing' = [releasing EXCEPT ![c][r] = "failed"]
            /\ \E r2 \in Releasers : r2 # r /\ RemovedLock(c, r2)
<1>1. Alive(c) /\ releasing[c][r] = "checked"
  BY DEF RemoveLock
<1>2. ~RemovedLock(c, r)
  BY <1>1 DEF RemovedLock
<1>3. CASE \A r2 \in Releasers : ~RemovedLock(c, r2)
  <2>1. lock = c
    BY <1>1, <1>3 DEF LockInv, ReleasesOwnLock
  <2> QED BY <2>1, LeaseAssumption DEF RemoveLock
<1>4. ASSUME NEW r2 \in Releasers, RemovedLock(c, r2)
      PROVE  lock = Nobody /\ r2 # r
  <2>1. r2 # r
    BY <1>2, <1>4
  <2>2. CASE lock # Nobody
    <3>1. releasing' = [releasing EXCEPT ![c][r] = "removed"]
      BY <2>2 DEF RemoveLock
    <3>2. RemovedLock(c, r)' /\ RemovedLock(c, r2)'
      BY <1>4, <2>1, <3>1 DEF RemovedLock, TypeOK
    <3> QED BY <2>1, <3>2 DEF ReleasedTwice
  <2> QED BY <2>1, <2>2
<1> QED BY <1>3, <1>4 DEF RemoveLock

LEMMA ReleaseSteps ==
  ASSUME TypeOK, LockInv, ~ReleasedTwice', NEW c \in Claimants, NEW r \in Releasers,
         CheckRelease(c, r) \/ RemoveLock(c, r) \/ SetReleased(c, r)
  PROVE  LockInv'
<1>1. UNCHANGED <<tombstone, alive, step, owner>>
  BY DEF CheckRelease, RemoveLock, SetReleased, files
<1>2. GateIsExclusive'
  BY <1>1 DEF LockInv, GateIsExclusive, BehindGate
<1>3. CASE CheckRelease(c, r)
  <2>1. lock' = lock /\ released' = released /\ lock = c
    BY <1>3 DEF CheckRelease, Check, files
  <2>2. OneCreator' /\ OnlyTheDead'
    BY <1>1, <2>1 DEF LockInv, OneCreator, Creating, OnlyTheDead, Alive
  <2>3. ReleasesOwnLock' /\ ExclusiveWriter'
    BY <1>1, <1>3, <2>1 DEF LockInv, TypeOK, ReleasesOwnLock, RemovedLock, ExclusiveWriter, Held, Alive,
       CheckRelease
  <2> QED BY <1>2, <2>2, <2>3 DEF LockInv
<1>4. CASE RemoveLock(c, r)
  <2>1. lock' = Nobody /\ released' = released /\ Alive(c)
    BY <1>4 DEF RemoveLock
  <2>2. CASE lock = c /\ releasing' = [releasing EXCEPT ![c][r] = "removed"]
    <3>1. OneCreator' /\ OnlyTheDead'
      BY <1>1, <2>1, <2>2, LeaseAssumption DEF LockInv, OneCreator, Creating, OnlyTheDead, Alive
    <3>2. ReleasesOwnLock'
      BY <1>1, <2>1, <2>2, LeaseAssumption DEF LockInv, TypeOK, ReleasesOwnLock, RemovedLock, Alive
    <3>3. ExclusiveWriter'
      BY <1>1, <2>1, <2>2, LeaseAssumption DEF LockInv, TypeOK, ExclusiveWriter, Held, Alive
    <3> QED BY <1>2, <3>1, <3>2, <3>3 DEF LockInv
  <2>3. CASE /\ lock = Nobody
             /\ releasing' = [releasing EXCEPT ![c][r] = "failed"]
             /\ \E r2 \in Releasers : r2 # r /\ RemovedLock(c, r2)
    <3>1. OneCreator' /\ OnlyTheDead'
      BY <1>1, <2>1, <2>3 DEF LockInv, OneCreator, Creating, OnlyTheDead, Alive
    <3>2. ReleasesOwnLock'
      BY <1>1, <2>1, <2>3 DEF LockInv, TypeOK, ReleasesOwnLock, RemovedLock, Alive
    <3>3. ~RemovedLock(c, r)
      BY <1>4 DEF RemoveLock, RemovedLock
    <3>4. ExclusiveWriter'
      <4> SUFFICES ASSUME NEW d \in Claimants, Held(d)' PROVE Held(d)
        BY <2>1, <2>3 DEF LockInv, ExclusiveWriter
      <4>1. \A q \in Releasers : releasing[d][q] # "removed"
        BY <1>4, <2>3 DEF Held, TypeOK, RemoveLock
      <4> QED BY <1>1, <2>1, <4>1 DEF Held, Alive
    <3> QED BY <1>2, <3>1, <3>2, <3>4 DEF LockInv
  <2> QED BY <1>4, <2>2, <2>3, RemovalIsOwn
<1>5. CASE SetReleased(c, r)
  <2>1. lock' = lock
    BY <1>5 DEF SetReleased, files
  <2>2. OneCreator' /\ OnlyTheDead'
    BY <1>1, <2>1 DEF LockInv, OneCreator, Creating, OnlyTheDead, Alive
  <2>3. releasing' = [releasing EXCEPT ![c][r] = "done"] /\ releasing[c][r] = "removed"
    BY <1>5 DEF SetReleased
  <2>4. ReleasesOwnLock'
    <3>1. \A d \in Claimants : \A q \in Releasers :
            /\ RemovedLock(d, q)' <=> RemovedLock(d, q)
            /\ releasing'[d][q] = "checked" <=> releasing[d][q] = "checked"
      BY <2>3 DEF TypeOK, RemovedLock
    <3> QED BY <1>1, <2>1, <3>1 DEF LockInv, ReleasesOwnLock, Alive
  <2>5. ExclusiveWriter'
    BY <1>1, <1>5, <2>1 DEF LockInv, TypeOK, ExclusiveWriter, Held, Alive, SetReleased
  <2> QED BY <1>2, <2>2, <2>4, <2>5 DEF LockInv
<1> QED BY <1>3, <1>4, <1>5

\* A crash makes nobody a holder, and the dead stay dead.
LEMMA CrashStep ==
  ASSUME TypeOK, LockInv, NEW p \in Processes, Crash(p)
  PROVE  LockInv'
  BY LeaseAssumption
  DEF LockInv, TypeOK, OneCreator, Creating, GateIsExclusive, BehindGate, OnlyTheDead, Alive,
      ReleasesOwnLock, RemovedLock, ExclusiveWriter, Held, Crash, files, acquired

LEMMA StutteringStep == ASSUME LockInv, UNCHANGED vars PROVE LockInv'
  BY DEF LockInv, OneCreator, Creating, GateIsExclusive, BehindGate, OnlyTheDead, Alive,
         ReleasesOwnLock, RemovedLock, ExclusiveWriter, Held, vars, files

LEMMA NextLock == ASSUME TypeOK, LockInv, ~ReleasedTwice', [Next]_vars PROVE LockInv'
<1>1. CASE UNCHANGED vars BY <1>1, StutteringStep
<1>2. CASE Next
  BY <1>2, ClaimStep, WriteOwnerStep, ReadOwnerStep, JudgeOwnerStep, RetryStep, OpenGateStep,
     CompareOwnerStep, RemoveStaleStep, ReclaimStep, FinishReclaimStep, RecordSteps, ReleaseSteps, CrashStep
  DEF Next
<1> QED BY <1>1, <1>2

IInv == TypeOK /\ (ReleasedTwice \/ LockInv)

(* The inductive invariant holds in every reachable state: two calls of       *)
(* release() on one lease have each removed a lock file, or the lock, its     *)
(* tombstone and their claimants agree (RuntimeSessionStorage.ts:57-92, 120). *)
THEOREM Invariance == Spec => []IInv
<1>1. Init => IInv
  BY InitLock DEF IInv
<1>2. IInv /\ [Next]_vars => IInv'
  BY NextTyped, TwiceStays, NextLock DEF IInv
<1> QED BY <1>1, <1>2, PTL DEF Spec

(* No claimant, reclaimer or releaser takes the lock from a live holder, for *)
(* any number of them and any overlap of their calls, before two calls of    *)
(* release() on one lease have each removed a lock file: nothing else takes  *)
(* it (RuntimeSessionStorage.ts:57-92, 120).                                 *)
THEOREM SingleWriter == Spec => [](ExclusiveWriter \/ ReleasedTwice)
<1>1. IInv => ExclusiveWriter \/ ReleasedTwice
  BY DEF IInv, LockInv
<1> QED BY <1>1, Invariance, PTL

-----------------------------------------------------------------------------
\* While it writes, a live claimant holds the lock: there is one of them.
LEMMA WriterHoldsLock ==
  ASSUME LockInv, NEW c \in Claimants, Alive(c), Covered(c)
  PROVE  lock = c
  BY DEF LockInv, ExclusiveWriter, Held, Covered

\* Steps that leave the record, its readers and its writers alone.
LEMMA WritesUndisturbed ==
  ASSUME WritesAreCovered, UNCHANGED <<revision, known, writing, releasing, released, late>>,
         alive' \subseteq alive,
         \A c \in Claimants : step[c] = "held" => step'[c] = "held"
  PROVE  WritesAreCovered'
  BY DEF WritesAreCovered, Covered, Alive

LEMMA NextWrites ==
  ASSUME TypeOK, LockInv, WritesAreCovered, [Next]_vars
  PROVE  WritesAreCovered'
<1>1. CASE UNCHANGED vars
  BY <1>1, WritesUndisturbed DEF vars, files
<1>2. ASSUME NEW p \in Processes, Crash(p) PROVE WritesAreCovered'
  BY <1>2, WritesUndisturbed DEF Crash, files, acquired
<1>3. ASSUME NEW c \in Claimants,
             \/ Claim(c) \/ WriteOwner(c) \/ ReadOwner(c) \/ JudgeOwner(c) \/ OpenGate(c)
             \/ CompareOwner(c) \/ RemoveStale(c) \/ Reclaim(c) \/ FinishReclaim(c) \/ Retry(c)
      PROVE  WritesAreCovered'
  <2>1. UNCHANGED <<revision, known, writing, releasing, released, late, alive>>
    BY <1>3 DEF Claim, WriteOwner, ReadOwner, JudgeOwner, OpenGate, CompareOwner, RemoveStale,
                Reclaim, FinishReclaim, Retry, files, acquired
  <2>2. step[c] # "held" /\ \E to : step' = [step EXCEPT ![c] = to]
    BY <1>3 DEF Claim, WriteOwner, ReadOwner, JudgeOwner, OpenGate, CompareOwner, RemoveStale,
                Reclaim, FinishReclaim, Retry, Moves
  <2> QED BY <2>1, <2>2, WritesUndisturbed DEF TypeOK
<1>4. ASSUME NEW c \in Claimants, Read(c) \/ CompareRevision(c) \/ CheckAgain(c) \/ CheckDelete(c)
      PROVE  WritesAreCovered'
  <2> USE DEF TypeOK, WritesAreCovered, Covered, Alive, Ready, Check, Releasing, files
  <2>1. CASE Read(c) BY <2>1 DEF Read
  <2>2. CASE CompareRevision(c)
    <3>1. CASE Releasing(c)
      <4>1. late' # {} /\ UNCHANGED <<step, releasing, released>>
        BY <2>2, <3>1 DEF CompareRevision
      <4>2. \A d \in Claimants : writing'[d] = "deleting" => writing[d] = "deleting"
        BY <2>2 DEF CompareRevision
      <4> QED BY <4>1, <4>2
    <3>2. CASE ~Releasing(c)
      <4>1. UNCHANGED <<files, alive, step, known, releasing, released, late>>
        BY <2>2, <3>2 DEF CompareRevision
      <4> QED BY <2>2, <3>2, <4>1 DEF CompareRevision
    <3> QED BY <3>1, <3>2
  <2>3. CASE CheckAgain(c) BY <2>3 DEF CheckAgain
  <2>4. CASE CheckDelete(c) BY <2>4 DEF CheckDelete
  <2> QED BY <1>4, <2>1, <2>2, <2>3, <2>4
<1>5. ASSUME NEW c \in Claimants, Rename(c) \/ RemoveRecord(c)
      PROVE  WritesAreCovered'
  <2>1. /\ UNCHANGED <<alive, step, releasing, released, late>>
        /\ writing' = [writing EXCEPT ![c] = "no"]
        /\ Alive(c) /\ writing[c] # "no"
        /\ \A d \in Claimants : d # c => known'[d] = known[d]
    BY <1>5 DEF Rename, RemoveRecord, TypeOK
  <2>2. ASSUME late = {}, NEW d \in Claimants, d # c, Alive(d) PROVE writing[d] = "no"
    BY <2>1, <2>2, WriterHoldsLock DEF WritesAreCovered
  <2> QED BY <2>1, <2>2 DEF WritesAreCovered, Covered, Alive, TypeOK
<1>6. ASSUME NEW c \in Claimants, NEW r \in Releasers,
             CheckRelease(c, r) \/ RemoveLock(c, r) \/ SetReleased(c, r)
      PROVE  WritesAreCovered'
  <2> USE DEF TypeOK, WritesAreCovered, Covered, Alive, files
  <2>1. CASE CheckRelease(c, r) BY <2>1 DEF CheckRelease
  <2>2. CASE RemoveLock(c, r) BY <2>2 DEF RemoveLock
  <2>3. CASE SetReleased(c, r) BY <2>3 DEF SetReleased
  <2> QED BY <1>6, <2>1, <2>2, <2>3
<1> QED BY <1>1, <1>2, <1>3, <1>4, <1>5, <1>6 DEF Next

\* A deletion takes its holder's own record, a write the one it compared with.
OverwritesNothing(c) ==
  /\ RemoveRecord(c) => lock = c
  /\ Rename(c) => revision = known[c] \/ late # {}

(* Before two calls of release() on one lease have each removed a lock file, *)
(* a deletion takes its holder's own record, and a write replaces the record *)
(* whose revision it compared, unless some write began while its lease was   *)
(* being released (RuntimeSessionStorage.ts:106-120, 168).                   *)
THEOREM NoOverwrite == Spec => [][ReleasedTwice \/ \A c \in Claimants : OverwritesNothing(c)]_vars
<1> DEFINE WInv == ReleasedTwice \/ WritesAreCovered
<1>1. Init => WInv
  BY DEF Init, WritesAreCovered
<1>2. IInv /\ WInv /\ [Next]_vars => WInv'
  BY NextWrites, TwiceStays DEF IInv
<1>3. IInv /\ WInv => ReleasedTwice \/ \A c \in Claimants : OverwritesNothing(c)
  <2> SUFFICES ASSUME LockInv, WritesAreCovered, NEW c \in Claimants
               PROVE  OverwritesNothing(c)
    BY DEF IInv
  <2>1. Rename(c) => revision = known[c] \/ late # {}
    BY DEF Rename, WritesAreCovered
  <2>2. RemoveRecord(c) => lock = c
    BY WriterHoldsLock DEF RemoveRecord, WritesAreCovered
  <2> QED BY <2>1, <2>2 DEF OverwritesNothing
<1>4. IInv /\ WInv => [ReleasedTwice \/ \A c \in Claimants : OverwritesNothing(c)]_vars
  BY <1>3
<1> HIDE DEF WInv
<1> QED BY <1>1, <1>2, <1>4, Invariance, PTL DEF Spec
=============================================================================
