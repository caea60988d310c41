--------------------------- MODULE MCRunSupervision ---------------------------
(* Instances of RunSupervision for TLC: a plain session, one in definition    *)
(* mode and a managed one, whose runs outlive observers, share a workspace.   *)
EXTENDS RunSupervision
CONSTANTS plain, defined, managed, w
MCWorkspaceOf == [s \in Sessions |-> w]
=============================================================================
