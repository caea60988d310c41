---------------------------- MODULE MCRuntimeLease ----------------------------
(* Instances of RuntimeLease for TLC: two claimants share a process. *)
EXTENDS RuntimeLease
CONSTANTS a, b, c, p, q
MCProcessOf == [x \in {a, b, c} |-> IF x = a THEN p ELSE q]
=============================================================================
