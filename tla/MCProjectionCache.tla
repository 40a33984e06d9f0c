------------------------- MODULE MCProjectionCache -------------------------
(* Instances of ProjectionCache for TLC. *)
EXTENDS ProjectionCache, TLC

CONSTANTS p1, p2, t1, t2, s1, a, b

OneProc == {p1}
OneThread == {t1}
TwoThreads == {t1, t2}
SameProc == [t \in Threads |-> p1]
OneStore == {s1}
SharedStore == [p \in Procs |-> s1]
NoStore == {}
TwoFiles == {a, b}
OneFile == {a}

\* Files are interchangeable
FilesAlike == Permutations(Files)

=============================================================================
