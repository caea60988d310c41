----------------------------- MODULE RuntimeLease -----------------------------
(***************************************************************************)
(* The exclusive writer of FileRuntimeSessionStorage: a lock file created  *)
(* with O_EXCL, reclaimed behind a tombstone file when its owner's process *)
(* is dead, and a revisioned record that a lease holder replaces by rename *)
(* after comparing the revision.                                           *)
(*                                                                         *)
(* Every await is a point where another process, or another call on the    *)
(* same lease, may run.  One claimant stands for one call of acquire() and *)
(* the lease it returns; its name is the nonce written in the lock.        *)
(***************************************************************************)
EXTENDS Naturals, FiniteSets

CONSTANTS
  Claimants,    \* calls of acquire(), each with a nonce of its own
  Processes,    \* the processes of one host
  ProcessOf,    \* [Claimants -> Processes]
  Releasers,    \* concurrent calls of release() on one lease
  Nobody,       \* no lock file
  Unwritten,    \* a lock file that exists but has no content yet
  Drained,      \* are the control's operations over before its lease is released?
  MaxRevision   \* bound: writes explored

ASSUME LeaseAssumption ==
  /\ ProcessOf \in [Claimants -> Processes]
  /\ Nobody \notin Claimants /\ Unwritten \notin Claimants /\ Nobody # Unwritten
  /\ Drained \in BOOLEAN
  /\ MaxRevision \in Nat

VARIABLES
  lock,       \* the nonce in the lock file, Unwritten, or Nobody
  tombstone,  \* does the tombstone file exist?
  alive,      \* the processes that have not crashed
  step,       \* where each acquire() is
  owner,      \* the nonce a claimant read before it judged the owner dead
  revision,   \* revision of the record file
  known,      \* the revision a holder expects, from its last read or write
  writing,    \* where a holder's write() or delete() is
  releasing,  \* where each release() of a lease is
  released,   \* leases whose released flag is set
  late        \* history: leases that began a write while they were being released

files == <<lock, tombstone, revision>>
vars == <<files, alive, step, owner, known, writing, releasing, released, late>>

Steps ==
  {"idle", "created", "exists", "judging", "gating", "gated", "removing", "claiming", "reclaimed",
   "held", "failed"}

Init ==
  /\ lock = Nobody
  /\ tombstone = FALSE
  /\ alive = Processes
  /\ step = [c \in Claimants |-> "idle"]
  /\ owner = [c \in Claimants |-> Nobody]
  /\ revision = 0
  /\ known = [c \in Claimants |-> 0]
  /\ writing = [c \in Claimants |-> "no"]
  /\ releasing = [c \in Claimants |-> [r \in Releasers |-> "no"]]
  /\ released = {}
  /\ late = {}

Alive(c) == ProcessOf[c] \in alive

\* c moves from one await of acquire() to the next.
Moves(c, from, to) ==
  /\ Alive(c)
  /\ step[c] = from
  /\ step' = [step EXCEPT ![c] = to]

acquired == <<known, writing, releasing, released, late>>

-----------------------------------------------------------------------------
(* acquire()                                                                *)

\* open(lock, O_CREAT | O_EXCL): the file is created, its content comes later.
Claim(c) ==
  /\ IF lock = Nobody
     THEN Moves(c, "idle", "created") /\ lock' = Unwritten
     ELSE Moves(c, "idle", "exists") /\ UNCHANGED lock
  /\ UNCHANGED <<tombstone, revision, alive, owner, acquired>>

WriteOwner(c) ==
  /\ Moves(c, "created", "held")
  /\ lock' = c
  /\ UNCHANGED <<tombstone, revision, alive, owner, acquired>>

\* readFile(lock): a lock file that is gone or not yet written makes it throw.
ReadOwner(c) ==
  /\ IF lock \in Claimants
     THEN Moves(c, "exists", "judging") /\ owner' = [owner EXCEPT ![c] = lock]
     ELSE Moves(c, "exists", "failed") /\ UNCHANGED owner
  /\ UNCHANGED <<files, alive, acquired>>

\* Variant: every lock that exists is taken for stale.
JudgeStale(c) ==
  /\ Moves(c, "judging", "gating")
  /\ UNCHANGED <<files, alive, owner, acquired>>

\* kill(pid, 0): only the lock of a dead process may be reclaimed.
JudgeOwner(c) ==
  /\ Moves(c, "judging", IF Alive(owner[c]) THEN "failed" ELSE "gating")
  /\ UNCHANGED <<files, alive, owner, acquired>>

\* Variant: the lock's nonce is not compared once the gate is open.
CompareNothing(c) ==
  /\ Moves(c, "gated", "removing")
  /\ UNCHANGED <<files, alive, owner, acquired>>

\* open(tombstone, 'wx'): one claimant reclaims, the others fail closed.
OpenGate(c) ==
  /\ IF tombstone
     THEN Moves(c, "gating", "failed") /\ UNCHANGED tombstone
     ELSE Moves(c, "gating", "gated") /\ tombstone' = TRUE
  /\ UNCHANGED <<lock, revision, alive, owner, acquired>>

\* The lock is read again under the gate: another nonce, or no lock, fails, and
\* the finally clause removes the tombstone.
CompareOwner(c) ==
  /\ IF lock = owner[c]
     THEN Moves(c, "gated", "removing") /\ UNCHANGED tombstone
     ELSE Moves(c, "gated", "failed") /\ tombstone' = FALSE
  /\ UNCHANGED <<lock, revision, alive, owner, acquired>>

RemoveStale(c) ==
  /\ Moves(c, "removing", "claiming")
  /\ lock' = Nobody
  /\ UNCHANGED <<tombstone, revision, alive, owner, acquired>>

\* claim() again, still under the gate: it may lose the lock to a newcomer.
Reclaim(c) ==
  /\ IF lock = Nobody
     THEN Moves(c, "claiming", "reclaimed") /\ lock' = Unwritten /\ UNCHANGED tombstone
     ELSE Moves(c, "claiming", "failed") /\ tombstone' = FALSE /\ UNCHANGED lock
  /\ UNCHANGED <<revision, alive, owner, acquired>>

FinishReclaim(c) ==
  /\ Moves(c, "reclaimed", "held")
  /\ lock' = c
  /\ tombstone' = FALSE
  /\ UNCHANGED <<revision, alive, owner, acquired>>

\* The caller of a failed acquire() tries again.
Retry(c) ==
  /\ Moves(c, "failed", "idle")
  /\ owner' = [owner EXCEPT ![c] = Nobody]
  /\ UNCHANGED <<files, alive, acquired>>

-----------------------------------------------------------------------------
(* The lease.  RuntimeControl serializes its reads and writes, and release() *)
(* waits for the operations queued before it.                               *)

Releasing(c) == \E r \in Releasers : releasing[c][r] # "no"

\* The lease c holds is not released, nor about to learn that it is.
Held(c) ==
  /\ Alive(c)
  /\ step[c] = "held"
  /\ c \notin released
  /\ \A r \in Releasers : releasing[c][r] # "removed"

\* check(): the lease is not released and its nonce is in the lock file.
Check(c) == Alive(c) /\ step[c] = "held" /\ c \notin released /\ lock = c

\* The next serialized operation of c may start.
Ready(c) == Check(c) /\ writing[c] = "no" /\ (Drained => ~Releasing(c))

Read(c) ==
  /\ Ready(c)
  /\ known' = [known EXCEPT ![c] = revision]
  /\ UNCHANGED <<files, alive, step, owner, writing, releasing, released, late>>

\* Variant: write() starts without comparing the revision.
CompareNoRevision(c) ==
  /\ Ready(c)
  /\ writing' = [writing EXCEPT ![c] = "compared"]
  /\ late' = IF Releasing(c) THEN late \cup {c} ELSE late
  /\ UNCHANGED <<files, alive, step, owner, known, releasing, released>>

\* write(), first half: check(), then read() finds the expected revision.
CompareRevision(c) ==
  /\ Ready(c)
  /\ revision = known[c]
  /\ writing' = [writing EXCEPT ![c] = "compared"]
  /\ late' = IF Releasing(c) THEN late \cup {c} ELSE late
  /\ UNCHANGED <<files, alive, step, owner, known, releasing, released>>

\* The second check(), after the temporary file was written and synced.
CheckAgain(c) ==
  /\ Alive(c)
  /\ writing[c] = "compared"
  /\ writing' = [writing EXCEPT ![c] = IF Check(c) THEN "checked" ELSE "no"]
  /\ UNCHANGED <<files, alive, step, owner, known, releasing, released, late>>

\* rename(temporary, record); a directory sync that fails afterwards leaves the
\* caller with the revision it had.
Rename(c) ==
  /\ Alive(c)
  /\ writing[c] = "checked"
  /\ known[c] < MaxRevision
  /\ revision' = known[c] + 1
  /\ \/ known' = [known EXCEPT ![c] = known[c] + 1]
     \/ UNCHANGED known
  /\ writing' = [writing EXCEPT ![c] = "no"]
  /\ UNCHANGED <<lock, tombstone, alive, step, owner, releasing, released, late>>

\* delete(): check(), then rm(record); its callers release only afterwards.
CheckDelete(c) ==
  /\ Ready(c)
  /\ ~Releasing(c)
  /\ writing' = [writing EXCEPT ![c] = "deleting"]
  /\ UNCHANGED <<files, alive, step, owner, known, releasing, released, late>>

RemoveRecord(c) ==
  /\ Alive(c)
  /\ writing[c] = "deleting"
  /\ writing' = [writing EXCEPT ![c] = "no"]
  /\ revision' = 0
  /\ UNCHANGED <<lock, tombstone, alive, step, owner, known, releasing, released, late>>

\* release(): check(), then rm(lock), then the released flag.
CheckRelease(c, r) ==
  /\ Check(c)
  /\ writing[c] = "no"
  /\ releasing[c][r] = "no"
  /\ releasing' = [releasing EXCEPT ![c][r] = "checked"]
  /\ UNCHANGED <<files, alive, step, owner, known, writing, released, late>>

\* rm(lock) throws when there is no lock file.
RemoveLock(c, r) ==
  /\ Alive(c)
  /\ releasing[c][r] = "checked"
  /\ releasing' = [releasing EXCEPT ![c][r] = IF lock = Nobody THEN "failed" ELSE "removed"]
  /\ lock' = Nobody
  /\ UNCHANGED <<tombstone, revision, alive, step, owner, known, writing, released, late>>

SetReleased(c, r) ==
  /\ Alive(c)
  /\ releasing[c][r] = "removed"
  /\ releasing' = [releasing EXCEPT ![c][r] = "done"]
  /\ released' = released \cup {c}
  /\ UNCHANGED <<files, alive, step, owner, known, writing, late>>

Crash(p) ==
  /\ p \in alive
  /\ alive' = alive \ {p}
  /\ UNCHANGED <<files, step, owner, acquired>>

Next ==
  \/ \E c \in Claimants :
       \/ Claim(c) \/ WriteOwner(c) \/ ReadOwner(c) \/ JudgeOwner(c) \/ OpenGate(c)
       \/ CompareOwner(c) \/ RemoveStale(c) \/ Reclaim(c) \/ FinishReclaim(c) \/ Retry(c)
       \/ Read(c) \/ CompareRevision(c) \/ CheckAgain(c) \/ Rename(c)
       \/ CheckDelete(c) \/ RemoveRecord(c)
       \/ \E r \in Releasers : CheckRelease(c, r) \/ RemoveLock(c, r) \/ SetReleased(c, r)
  \/ \E p \in Processes : Crash(p)

Spec == Init /\ [][Next]_vars

-----------------------------------------------------------------------------
(* Every variable has its type. *)
TypeOK ==
  /\ lock \in Claimants \cup {Nobody, Unwritten}
  /\ tombstone \in BOOLEAN
  /\ alive \subseteq Processes
  /\ step \in [Claimants -> Steps]
  /\ owner \in [Claimants -> Claimants \cup {Nobody}]
  /\ revision \in Nat
  /\ known \in [Claimants -> Nat]
  /\ writing \in [Claimants -> {"no", "compared", "checked", "deleting"}]
  /\ releasing \in [Claimants -> [Releasers -> {"no", "checked", "removed", "done", "failed"}]]
  /\ released \subseteq Claimants
  /\ late \subseteq Claimants

(* A lease that was acquired and not released is the one in the lock file:   *)
(* no claimant, reclaimer or releaser ever takes a lock from a live holder   *)
(* ("Single-host exclusive writer", RuntimeSessionStorage.ts:50).            *)
ExclusiveWriter == \A c \in Claimants : Held(c) => lock = c

(* A write replaces the very record whose revision was compared before, and  *)
(* a deletion takes its holder's own record: no write of another holder fits *)
(* in between ("Revision conflicts never overwrite another writer",          *)
(* RuntimeSessionStorage.ts:15).                                             *)
ConflictsNeverOverwrite ==
  [][\A c \in Claimants :
       /\ Rename(c) => revision = known[c]
       /\ RemoveRecord(c) => lock = c]_vars
=============================================================================
