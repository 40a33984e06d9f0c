------------------------------- MODULE HitLedger -------------------------------
(***************************************************************************)
(* What the managed-context state promises (REQ-MGMC-006, 008, 013, 014):  *)
(* one secret for all page keys, and a record that only ever changes by    *)
(* whole updates of itself, each of which decays every counter to a later  *)
(* time, counts the pages returned, and keeps the entries that rank first. *)
(***************************************************************************)
EXTENDS HitRecord

CONSTANTS
    Salts,         \* secrets page keys are derived with
    Pages,         \* pages of the projection
    KeyOf,         \* opaque_page_key
    NoSalt         \* Python's None

VARIABLES salt, record

\* The counter of a key at a time
Standing(k, now) == IF record = NoRecord THEN 0 ELSE Decayed(record.hits[k], now)

Init == salt = NoSalt /\ record = NoRecord

MakeSalt ==
    /\ salt = NoSalt
    /\ salt' \in Salts
    /\ UNCHANGED record

Count(pages) ==
    LET keys == {KeyOf[salt][p] : p \in pages}
        due(k) == Lesser(MaxHitCounter,
                         Standing(k, record'.updated) + IF k \in keys THEN HitIncrement ELSE 0)
        kept == Entries(record'.hits)
    IN  /\ salt # NoSalt
        /\ record' \in Record
        /\ IF record = NoRecord THEN record'.generation = 1
           ELSE /\ record'.generation = record.generation + 1
                /\ record'.updated >= record.updated
        /\ Cardinality(kept) <= MaxHitEntries
        /\ \A k \in kept : record'.hits[k] = [counter |-> due(k), at |-> record'.updated]
        /\ \A k \in Keys \ kept :
            \/ due(k) = 0
            \/ Cardinality(kept) = MaxHitEntries /\ \A l \in kept : due(l) >= due(k)
        /\ UNCHANGED salt

Next == MakeSalt \/ \E pages \in SUBSET Pages : Count(pages)

Spec == Init /\ [][Next]_<<salt, record>>

=============================================================================
