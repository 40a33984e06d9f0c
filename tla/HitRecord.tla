------------------------------- MODULE HitRecord -------------------------------
(***************************************************************************)
(* A managed-context record (managed_context.py): how often pages were     *)
(* returned, under opaque page keys, decaying and bounded.  Counters are   *)
(* integers, and 0 stands for those the code drops as too small.           *)
(***************************************************************************)
EXTENDS Integers, FiniteSets

CONSTANTS
    Keys,            \* page keys, in the order of the digests they are
    HitIncrement,    \* hit_increment
    MaxHitCounter,   \* max_hit_counter
    MaxHitEntries,   \* max_hit_entries
    MaxClock,        \* bound: the wall clock
    Remaining,       \* decayed_counter: what a time leaves of a counter
    NoRecord         \* Python's None

ASSUME RecordAssumption ==
    /\ Keys \subseteq Nat
    /\ {HitIncrement, MaxHitCounter, MaxHitEntries} \subseteq Nat \ {0}
    /\ MaxClock \in Nat
    /\ Remaining \in [0..MaxHitCounter -> [0..MaxClock -> 0..MaxHitCounter]]
    /\ \A c \in 0..MaxHitCounter :
        Remaining[c][0] = c /\ \A e \in 0..MaxClock : Remaining[c][e] <= c

\* A record counts under digests of 256 bits
ASSUME KeysAreFinite == IsFiniteSet(Keys)

Lesser(m, n) == IF m < n THEN m ELSE n
Greater(m, n) == IF m > n THEN m ELSE n

\* A counter of 0 stands for a key that has no entry
ManagedPageHit == [counter : 0..MaxHitCounter, at : 0..MaxClock]
NoHit == [counter |-> 0, at |-> 0]
Hits == [Keys -> ManagedPageHit]
Entries(hits) == {k \in Keys : hits[k].counter > 0}
Record == [generation : Nat \ {0}, updated : 0..MaxClock, hits : Hits]

ASSUME NoRecordAssumption == NoRecord \notin Record

\* A clock that went back counts as no time at all
Decayed(hit, now) == Remaining[hit.counter][Greater(0, now - hit.at)]

\* The order in which trim_hits keeps hits
Outranks(hits, k, l) ==
    \/ hits[k].counter > hits[l].counter
    \/ hits[k].counter = hits[l].counter /\ hits[k].at > hits[l].at
    \/ hits[k].counter = hits[l].counter /\ hits[k].at = hits[l].at /\ k < l

Trimmed[hits \in Hits] ==
    [k \in Keys |-> IF Cardinality({l \in Keys : Outranks(hits, l, k)}) < MaxHitEntries
                    THEN hits[k] ELSE NoHit]

\* Counters that decayed to nothing are dropped
DecayedHits(hits, now) ==
    Trimmed[[k \in Keys |-> IF Decayed(hits[k], now) > 0
                            THEN [counter |-> Decayed(hits[k], now), at |-> now] ELSE NoHit]]

\* The hits, read at their time, with those pages counted
Counted(hits, keys, now) ==
    [k \in Keys |-> IF k \in keys
                    THEN [counter |-> Lesser(MaxHitCounter, hits[k].counter + HitIncrement),
                          at |-> now]
                    ELSE hits[k]]

\* Trusting the clock of a search that waited while others counted
UpdatedAtNow(record, keys, now) ==
    IF record = NoRecord
    THEN [generation |-> 1, updated |-> now,
          hits |-> Trimmed[Counted([k \in Keys |-> NoHit], keys, now)]]
    ELSE [generation |-> record.generation + 1,
          updated |-> now,
          hits |-> Trimmed[Counted(DecayedHits(record.hits, now), keys, now)]]

\* What update_hits writes when it has read the record, or found none
Updated(record, keys, now) ==
    IF record = NoRecord
    THEN [generation |-> 1, updated |-> now,
          hits |-> Trimmed[Counted([k \in Keys |-> NoHit], keys, now)]]
    ELSE LET effectiveNow == Greater(now, record.updated)
         IN  [generation |-> record.generation + 1,
              updated |-> effectiveNow,
              hits |-> Trimmed[Counted(DecayedHits(record.hits, effectiveNow), keys,
                                       effectiveNow)]]

\* Reading a page that has no entry as one that has a counter
BoostsAnyEntry(record, key, now) == record # NoRecord

\* Whether a record raises a page in the ranking, decayed_boost
Boosts(record, key, now) ==
    record # NoRecord /\ Decayed(record.hits[key], now) > 0

=============================================================================
