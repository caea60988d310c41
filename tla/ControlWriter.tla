----------------------------- MODULE ControlWriter -----------------------------
(***************************************************************************)
(* The revisioned record of an agent session in its storage, and the way   *)
(* RuntimeControl (RuntimeSessionStorage.ts) writes it: compare-and-write  *)
(* of whole snapshots, a candidate kept until it is acknowledged, and the  *)
(* reconciliation of a write whose outcome is not known.                   *)
(*                                                                         *)
(* A storage write may be acknowledged, may fail before it commits, or may *)
(* commit and fail (a directory fsync that throws).  What a record's data  *)
(* is belongs to the modules that extend this one.                         *)
(***************************************************************************)
EXTENDS Naturals

CONSTANTS
  None,         \* no pending write
  MaxRevision   \* bound: the revisions a run explores

VARIABLES
  stored,       \* the record a reader of the storage sees
  durable,      \* the newest record whose write was acknowledged
  record,       \* RuntimeControl.record
  pendingWrite  \* RuntimeControl.pendingWrite

ledger == <<stored, durable, record, pendingWrite>>

\* What a storage write can do: commit and be acknowledged, fail before the
\* commit, or commit without its acknowledgement.
Outcomes == {"acked", "lost", "unacked"}

\* RuntimeSessionLease.write: compare-and-write of the next revision.
LeaseWrite(data, expected, outcome) ==
  LET next == [revision |-> expected + 1, data |-> data]
  IN /\ expected < MaxRevision
     /\ outcome # "lost" => stored.revision = expected
     /\ stored' = IF outcome = "lost" THEN stored ELSE next
     /\ durable' = IF outcome = "acked" THEN next ELSE durable

\* The write of update(), after its reconcileWrite() found nothing pending.
Update(data, outcome) ==
  /\ pendingWrite = None
  /\ LeaseWrite(data, record.revision, outcome)
  /\ IF outcome = "acked"
     THEN record' = stored' /\ UNCHANGED pendingWrite
     ELSE /\ pendingWrite' = [before |-> record, data |-> data,
                              acknowledgementRequired |-> FALSE]
          /\ UNCHANGED record

\* reconcileWrite sees that the pending write never committed.
NotCommitted == stored = pendingWrite.before

\* reconcileWrite sees exactly the candidate it had tried to write.
SeenCandidate ==
  /\ stored.revision = pendingWrite.before.revision + 1
  /\ stored.data = pendingWrite.data

\* reconcileWrite(), first return: a write that failed before it committed is
\* dropped, unless its acknowledgement has become mandatory.
Forget ==
  /\ pendingWrite # None
  /\ NotCommitted
  /\ ~pendingWrite.acknowledgementRequired
  /\ pendingWrite' = None
  /\ UNCHANGED <<stored, durable, record>>

\* Variant: a write whose caller was told that it failed is replayed.
RewriteFailedCandidate(outcome) ==
  /\ pendingWrite # None
  /\ NotCommitted \/ SeenCandidate
  /\ LeaseWrite(pendingWrite.data, stored.revision, outcome)
  /\ IF outcome = "acked"
     THEN record' = stored' /\ pendingWrite' = None
     ELSE UNCHANGED <<record, pendingWrite>>

\* The rewrite of reconcileWrite(), which insists on an acknowledgement.
RewriteCandidate(outcome) ==
  /\ pendingWrite # None
  /\ NotCommitted => pendingWrite.acknowledgementRequired
  /\ NotCommitted \/ SeenCandidate
  /\ LeaseWrite(pendingWrite.data, stored.revision, outcome)
  /\ IF outcome = "acked"
     THEN record' = stored' /\ pendingWrite' = None
     ELSE /\ pendingWrite' = [before |-> stored, data |-> pendingWrite.data,
                              acknowledgementRequired |-> TRUE]
          /\ UNCHANGED record

=============================================================================
