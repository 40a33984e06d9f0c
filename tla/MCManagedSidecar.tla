--------------------------- MODULE MCManagedSidecar ---------------------------
(* Instances of ManagedSidecar for TLC. *)
EXTENDS ManagedSidecar

CONSTANTS p1, p2, t1, t2, a, b

\* Opaque digests: the keys of one salt come before those of the other, in another order
MCKeyOf == [s \in Salts |-> [p \in Pages |->
                IF s = 1 THEN IF p = a THEN 1 ELSE 2 ELSE IF p = a THEN 4 ELSE 3]]

\* A tick is a half-life
Halving == [c \in 0..MaxHitCounter |-> [e \in 0..MaxClock |-> c \div (2 ^ e)]]

\* Which process the first thread runs in makes no difference
MCInit == Init /\ procOf[t1] = p1

\* Bound: a file operation fails, or a read under a lock misses its file, not both
OneFault == faults' + blinds' <= 1
MCNext == Next /\ OneFault

MCSpec == MCInit /\ [][MCNext]_vars /\ ThreadsRunOn

=============================================================================
