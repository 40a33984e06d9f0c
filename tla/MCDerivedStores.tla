--------------------------- MODULE MCDerivedStores ---------------------------
(* Instances of DerivedStores for TLC. *)
EXTENDS DerivedStores, TLC

CONSTANTS p1, p2, r1, r2

\* Both policies
Raising == p1 :> FALSE @@ p2 :> TRUE

\* The contents differ in their nodes, and in one scope in their edges
MCNodes == <<[approved |-> 1, all |-> 2], [approved |-> 3, all |-> 4]>>
MCEdges == <<[approved |-> 1, all |-> 2], [approved |-> 1, all |-> 3]>>

\* The first thread is in the process that falls back, the second in either
MCInit == Init /\ procOf[r1] = p1

MCSpec == MCInit /\ [][Next]_vars /\ RequestsRunOn

=============================================================================
