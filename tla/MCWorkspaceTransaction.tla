----------------------- MODULE MCWorkspaceTransaction -----------------------
(* Two files, two contents, and enough mutations for two to meet on a file. *)
EXTENDS WorkspaceTransaction, TLC

CONSTANTS p1, p2, c1, c2

MCPaths == {p1, p2}
MCContents == {c1, c2}

Symmetry == Permutations(MCPaths) \cup Permutations(MCContents)
=============================================================================
