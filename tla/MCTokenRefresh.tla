---------------------------- MODULE MCTokenRefresh ----------------------------
(* TokenRefresh with interchangeable callers and flows.                      *)
EXTENDS TokenRefresh, TLC

Interchangeable == Permutations(Callers) \cup Permutations(Flows) \cup Permutations(Renamings)
=============================================================================
