------------------------ MODULE MCWorkspaceLifecycle ------------------------
(* WorkspaceLifecycle on small instances.  Matters, contents and callers   *)
(* are interchangeable, and every property checked here is symmetric.      *)
EXTENDS WorkspaceLifecycle, TLC

CONSTANTS m1, m2, h1, h2, o1, o2

Interchangeable ==
    Permutations(Matters) \cup Permutations(Hashes) \cup Permutations(Operations)

=============================================================================
