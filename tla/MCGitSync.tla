------------------------------- MODULE MCGitSync -------------------------------
(* Small instances of GitSync. *)
EXTENDS GitSync, TLC

CONSTANTS r1, r2, s1, s2, main, other, c0, c1, c2, mine

\* The remote grows from c0 to c1 to c2, a local commit leaves it at c0
MCAncestors == c0 :> {c0} @@ c1 :> {c0, c1} @@ c2 :> {c0, c1, c2} @@ mine :> {c0, mine}

=============================================================================
