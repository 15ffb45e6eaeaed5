---------------------------- MODULE MCSelfUpdate ----------------------------
(* The instance of SelfUpdate for TLC; its processes are interchangeable. *)
EXTENDS SelfUpdate, TLC

CONSTANTS p1, p2, p3

MCPid == {p1, p2, p3}
Symmetry == Permutations(MCPid)

\* v1.9.1 and v1.10
MCParts == <<<<1, 9, 1>>, <<1, 10>>>>
=============================================================================
