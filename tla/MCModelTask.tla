----------------------------- MODULE MCModelTask ------------------------------
(* ModelTask with interchangeable invocations.                               *)
EXTENDS ModelTask, TLC

Interchangeable == Permutations(Invocations)
=============================================================================
