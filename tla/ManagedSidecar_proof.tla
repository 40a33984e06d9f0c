------------------------- MODULE ManagedSidecar_proof -------------------------
(***************************************************************************)
(* Proofs about ManagedSidecar, for any number of processes, threads,      *)
(* pages and secrets, any decay, any number of crashes and failures.       *)
(***************************************************************************)
EXTENDS ManagedSidecar, FiniteSetTheorems, TLAPS

\* A search between a lock and its release has made the lock directory
DirHeld == \A t \in Threads : pc[t] \in Inside => lockDir[path[t]]

\* The steps under a lock are those of its file
PathOK ==
    \A t \in Threads :
        /\ pc[t] = "make" => path[t] = "salt"
        /\ pc[t] = "write" => path[t] = "record"

\* What a search read under the lock is what the file still holds
CurrentOK ==
    ~blind => \A t \in Threads :
        /\ pc[t] = "write" => current[t] = record
        /\ pc[t] = "make" => salt = NoSalt

SInv == TypeOK /\ OneHolder /\ DirHeld /\ PathOK /\ CurrentOK

\* The time since a hit, and the counter after one, stay within their bounds.
LEMMA Bounded ==
    ASSUME NEW m \in Nat, NEW i \in 0..m, NEW j \in 0..m, NEW n \in Nat
    PROVE Greater(0, i - j) \in 0..m /\ Lesser(m, i + n) \in 0..m
BY DEF Greater, Lesser

\* Trimming, decaying and counting keep hits within their bounds.
LEMMA HitTypes ==
    ASSUME NEW hits \in Hits, NEW keys, NEW time \in 0..MaxClock
    PROVE /\ Trimmed[hits] \in Hits
          /\ DecayedHits(hits, time) \in Hits
          /\ Counted(hits, keys, time) \in Hits
<1>0. /\ MaxClock \in Nat /\ MaxHitCounter \in Nat /\ HitIncrement \in Nat
      /\ Remaining \in [0..MaxHitCounter -> [0..MaxClock -> 0..MaxHitCounter]]
  BY RecordAssumption
<1> USE <1>0
<1>1. NoHit \in ManagedPageHit
  BY DEF NoHit, ManagedPageHit
<1>2. ASSUME NEW h \in Hits PROVE Trimmed[h] \in Hits
  <2>1. Trimmed[h] =
          [k \in Keys |-> IF Cardinality({l \in Keys : Outranks(h, l, k)}) < MaxHitEntries
                          THEN h[k] ELSE NoHit]
    BY DEF Trimmed
  <2>2. QED
    BY <1>1, <2>1 DEF Hits
<1>3. ASSUME NEW k \in Keys
      PROVE /\ hits[k] \in ManagedPageHit
            /\ Decayed(hits[k], time) \in 0..MaxHitCounter
  <2>1. hits[k].counter \in 0..MaxHitCounter /\ hits[k].at \in 0..MaxClock
    BY DEF Hits, ManagedPageHit
  <2>2. Greater(0, time - hits[k].at) \in 0..MaxClock
    BY <2>1, Bounded
  <2>3. QED
    BY <2>1, <2>2 DEF Decayed, Hits
<1>4. [k \in Keys |-> IF Decayed(hits[k], time) > 0
                      THEN [counter |-> Decayed(hits[k], time), at |-> time] ELSE NoHit] \in Hits
  BY <1>1, <1>3 DEF Hits, ManagedPageHit
<1>5. Counted(hits, keys, time) \in Hits
  <2>1. ASSUME NEW k \in Keys
        PROVE Lesser(MaxHitCounter, hits[k].counter + HitIncrement) \in 0..MaxHitCounter
    <3>1. hits[k].counter \in 0..MaxHitCounter
      BY <1>3 DEF ManagedPageHit
    <3>2. QED
      BY <3>1, Bounded
  <2>2. QED
    BY <1>3, <2>1 DEF Counted, Hits, ManagedPageHit
<1>6. QED
  BY <1>2, <1>4, <1>5 DEF DecayedHits

\* update_hits writes a record.
LEMMA UpdatedType ==
    ASSUME NEW r \in Record \cup {NoRecord}, NEW keys, NEW time \in 0..MaxClock
    PROVE Updated(r, keys, time) \in Record
<1> USE RecordAssumption
<1>1. CASE r = NoRecord
  <2>1. [k \in Keys |-> NoHit] \in Hits
    BY DEF Hits, NoHit, ManagedPageHit
  <2>2. Counted([k \in Keys |-> NoHit], keys, time) \in Hits
    BY <2>1, HitTypes
  <2>3. Trimmed[Counted([k \in Keys |-> NoHit], keys, time)] \in Hits
    BY <2>2, HitTypes
  <2>4. QED
    BY <1>1, <2>3 DEF Updated, Record
<1>2. CASE r \in Record /\ r # NoRecord
  <2> DEFINE then == Greater(time, r.updated)
  <2>1. then \in 0..MaxClock
    BY <1>2 DEF Record, Greater
  <2>2. r.hits \in Hits /\ r.generation + 1 \in Nat \ {0}
    BY <1>2 DEF Record
  <2>3. DecayedHits(r.hits, then) \in Hits
    BY <2>1, <2>2, HitTypes
  <2>4. Counted(DecayedHits(r.hits, then), keys, then) \in Hits
    BY <2>1, <2>3, HitTypes
  <2>5. Trimmed[Counted(DecayedHits(r.hits, then), keys, then)] \in Hits
    BY <2>1, <2>4, HitTypes
  <2>6. Updated(r, keys, time) =
          [generation |-> r.generation + 1, updated |-> then,
           hits |-> Trimmed[Counted(DecayedHits(r.hits, then), keys, then)]]
    BY <1>2 DEF Updated
  <2> HIDE DEF then
  <2>7. QED
    BY <2>1, <2>2, <2>5, <2>6 DEF Record
<1>3. QED
  BY <1>1, <1>2

-----------------------------------------------------------------------------

\* A state directory nobody used yet satisfies the invariant.
LEMMA SInvInit == Init => SInv
<1> SUFFICES ASSUME Init PROVE SInv
  OBVIOUS
<1>1. TypeOK
  <2>1. /\ now \in [Threads -> 0..MaxClock] /\ clock \in 0..MaxClock
        /\ {searches, faults, blinds, crashes} \subseteq Nat
    BY RecordAssumption DEF Init
  <2>2. mutex \in [Procs -> [Paths -> Threads \cup {Nothing}]]
    BY DEF Init
  <2>3. QED
    BY <2>1, <2>2 DEF Init, TypeOK, Phases, Paths
<1>2. OneHolder /\ DirHeld /\ PathOK /\ CurrentOK
  BY DEF Init, OneHolder, DirHeld, PathOK, CurrentOK, Inside
<1>3. QED
  BY <1>1, <1>2 DEF SInv

\* A search that ends, however it ends, leaves its fields as they were before it began.
LEMMA ForgetsTypes ==
    ASSUME TypeOK, NEW t \in Threads, Forgets(t)
    PROVE /\ pc' \in [Threads -> Phases]
          /\ path' \in [Threads -> Paths]
          /\ now' \in [Threads -> 0..MaxClock]
          /\ pages' \in [Threads -> SUBSET Pages]
          /\ secret' \in [Threads -> Salts \cup {NoSalt}]
          /\ current' \in [Threads -> Record \cup {NoRecord}]
          /\ boosted' \in [Threads -> SUBSET Pages]
  BY RecordAssumption DEF TypeOK, Forgets, Phases, Paths

\* Releasing a mutex keeps its type.
LEMMA UnlockType ==
    ASSUME TypeOK, NEW t \in Threads, Unlock(t)
    PROVE mutex' \in [Procs -> [Paths -> Threads \cup {Nothing}]]
  BY DEF TypeOK, Unlock

\* Every step keeps the types.
LEMMA STypeStep == TypeOK /\ [Next]_vars => TypeOK'
<1> SUFFICES ASSUME TypeOK, [Next]_vars PROVE TypeOK'
  OBVIOUS
<1> USE SidecarAssumption, RecordAssumption
    DEF TypeOK, files, locks, held, search, bounds, history, Phases, Inside, Paths, Reads,
        Missed
<1>1. ASSUME NEW t \in Threads, NEW found \in SUBSET Pages, StartSearch(t, found) PROVE TypeOK'
  BY <1>1 DEF StartSearch
<1>2. ASSUME NEW t \in Threads, Step(t) PROVE TypeOK'
  <2>1. CASE ReadSalt(t)
    BY <2>1 DEF ReadSalt
  <2>2. CASE ReadPrior(t)
    <3>1. /\ faults' \in Nat
          /\ pc' \in [Threads -> Phases]
          /\ boosted' \in [Threads -> SUBSET Pages]
          /\ returned' \subseteq Pages
      BY <2>2, SMTT(30) DEF ReadPrior
    <3>2. QED
      BY <2>2, <3>1, SMTT(30) DEF ReadPrior
  <2>3. CASE SkipHits(t)
    <3>1. Forgets(t)
      BY <2>3 DEF SkipHits
    <3>2. QED
      BY <2>3, <3>1, ForgetsTypes DEF SkipHits
  <2>4. CASE RecordHits(t)
    BY <2>4 DEF RecordHits
  <2>5. CASE FindSecret(t)
    BY <2>5 DEF FindSecret
  <2>6. CASE TakeMutex(t)
    BY <2>6 DEF TakeMutex
  <2>7. CASE MakeLockDir(t)
    BY <2>7 DEF MakeLockDir
  <2>8. CASE GiveUp(t)
    <3>1. Forgets(t) /\ Unlock(t) /\ faults' \in Nat
      BY <2>8 DEF GiveUp
    <3>2. /\ pc' \in [Threads -> Phases]
          /\ path' \in [Threads -> Paths]
          /\ now' \in [Threads -> 0..MaxClock]
          /\ pages' \in [Threads -> SUBSET Pages]
          /\ secret' \in [Threads -> Salts \cup {NoSalt}]
          /\ current' \in [Threads -> Record \cup {NoRecord}]
          /\ boosted' \in [Threads -> SUBSET Pages]
      BY <3>1, ForgetsTypes
    <3>3. mutex' \in [Procs -> [Paths -> Threads \cup {Nothing}]]
      BY <3>1, UnlockType
    <3>4. UNCHANGED <<files, lockDir, stale, clock, procOf, history, searches, blinds, crashes>>
      BY <2>8 DEF GiveUp
    <3>5. QED
      BY <3>1, <3>2, <3>3, <3>4
  <2>9. CASE Release(t)
    <3>1. mutex' \in [Procs -> [Paths -> Threads \cup {Nothing}]]
      BY <2>9, UnlockType DEF Release
    <3>2. CASE path[t] = "salt" /\ secret[t] # NoSalt
      <4>1. /\ pc' = [pc EXCEPT ![t] = "queue"]
            /\ path' = [path EXCEPT ![t] = "record"]
            /\ UNCHANGED <<now, pages, secret, current, boosted>>
        BY <2>9, <3>2 DEF Release, Proceeds
      <4>2. pc' \in [Threads -> Phases] /\ path' \in [Threads -> Paths]
        BY <4>1
      <4>3. QED
        BY <2>9, <3>1, <4>1, <4>2 DEF Release
    <3>3. CASE ~(path[t] = "salt" /\ secret[t] # NoSalt)
      <4>1. Forgets(t)
        BY <2>9, <3>3 DEF Release, Proceeds
      <4>2. QED
        BY <2>9, <3>1, <4>1, ForgetsTypes DEF Release
    <3>4. QED
      BY <3>2, <3>3
  <2>10. CASE ReleaseFails(t)
    <3>1. Forgets(t) /\ Unlock(t) /\ faults' \in Nat
      BY <2>10 DEF ReleaseFails
    <3>2. /\ pc' \in [Threads -> Phases]
          /\ path' \in [Threads -> Paths]
          /\ now' \in [Threads -> 0..MaxClock]
          /\ pages' \in [Threads -> SUBSET Pages]
          /\ secret' \in [Threads -> Salts \cup {NoSalt}]
          /\ current' \in [Threads -> Record \cup {NoRecord}]
          /\ boosted' \in [Threads -> SUBSET Pages]
      BY <3>1, ForgetsTypes
    <3>3. mutex' \in [Procs -> [Paths -> Threads \cup {Nothing}]]
      BY <3>1, UnlockType
    <3>4. UNCHANGED <<files, lockDir, stale, clock, procOf, history, searches, blinds, crashes>>
      BY <2>10 DEF ReleaseFails
    <3>5. QED
      BY <3>1, <3>2, <3>3, <3>4
  <2>11. CASE FindSecretAgain(t)
    <3>1. /\ blind' \in BOOLEAN
          /\ blinds' \in Nat
          /\ pc' \in [Threads -> Phases]
          /\ secret' \in [Threads -> Salts \cup {NoSalt}]
      BY <2>11, SMTT(30) DEF FindSecretAgain
    <3>2. QED
      BY <2>11, <3>1, SMTT(30) DEF FindSecretAgain
  <2>12. ASSUME NEW new \in Salts, MakeSalt(t, new) PROVE TypeOK'
    BY <2>12 DEF MakeSalt
  <2>13. CASE ReadRecord(t)
    BY <2>13, SMTT(30) DEF ReadRecord
  <2>14. CASE WriteRecord(t)
    <3>1. record' \in Record
      BY <2>14, UpdatedType DEF WriteRecord
    <3>2. QED
      BY <2>14, <3>1 DEF WriteRecord
  <2>15. CASE WriteFails(t)
    BY <2>15 DEF WriteFails
  <2>16. QED
    BY <1>2, <2>1, <2>2, <2>3, <2>4, <2>5, <2>6, <2>7, <2>8, <2>9, <2>10, <2>11, <2>12, <2>13,
       <2>14, <2>15 DEF Step
<1>3. ASSUME NEW f \in Paths, Age(f) PROVE TypeOK'
  BY <1>3 DEF Age
<1>4. CASE SetClock
  BY <1>4 DEF SetClock
<1>5. ASSUME NEW p \in Procs, Crash(p) PROVE TypeOK'
  BY <1>5 DEF Crash
<1>6. CASE UNCHANGED vars
  BY <1>6 DEF vars
<1>7. CASE Next
  BY <1>1, <1>2, <1>3, <1>4, <1>5, <1>7, Zenon DEF Next
<1>8. QED
  BY <1>6, <1>7, Zenon

\* Every step keeps the locks exclusive and what is read under them current: a lock directory is
\* only ever made when there is none, and only removed by the search that made it.
LEMMA SLockStep == SInv /\ [Next]_vars => (OneHolder /\ DirHeld /\ PathOK /\ CurrentOK)'
<1> SUFFICES ASSUME SInv, [Next]_vars PROVE (OneHolder /\ DirHeld /\ PathOK /\ CurrentOK)'
  OBVIOUS
<1> USE DEF SInv, TypeOK, OneHolder, DirHeld, PathOK, CurrentOK, files, locks, held, search, bounds,
            history, Phases, Inside, Paths, Forgets, Missed, Unlock, Proceeds
<1>1. ASSUME NEW t \in Threads, NEW found \in SUBSET Pages, StartSearch(t, found)
      PROVE (OneHolder /\ DirHeld /\ PathOK /\ CurrentOK)'
  BY <1>1 DEF StartSearch
<1>2. ASSUME NEW t \in Threads, Step(t) PROVE (OneHolder /\ DirHeld /\ PathOK /\ CurrentOK)'
  <2>1. CASE ReadSalt(t)
    BY <2>1 DEF ReadSalt
  <2>2. CASE ReadPrior(t)
    BY <2>2 DEF ReadPrior
  <2>3. CASE SkipHits(t)
    BY <2>3 DEF SkipHits
  <2>4. CASE RecordHits(t)
    BY <2>4 DEF RecordHits
  <2>5. CASE FindSecret(t)
    BY <2>5 DEF FindSecret
  <2>6. CASE TakeMutex(t)
    BY <2>6 DEF TakeMutex
  <2>7. CASE MakeLockDir(t)
    BY <2>7 DEF MakeLockDir
  <2>8. CASE GiveUp(t)
    BY <2>8 DEF GiveUp
  <2>9. CASE Release(t)
    <3>1. \A u \in Threads \ {t} : pc'[u] = pc[u] /\ path'[u] = path[u] /\ current'[u] = current[u]
      BY <2>9 DEF Release
    <3>2. pc'[t] \in {"queue", "idle"}
      BY <2>9 DEF Release
    <3>3. \A u \in Threads : pc'[u] \in Inside => u # t /\ path[u] # path[t]
      BY <2>9, <3>1, <3>2 DEF Release
    <3>4. (OneHolder /\ DirHeld)'
      BY <2>9, <3>1, <3>3 DEF Release
    <3>5. PathOK'
      BY <3>1, <3>2
    <3>6. CurrentOK'
      BY <2>9, <3>1, <3>2 DEF Release
    <3>7. QED
      BY <3>4, <3>5, <3>6
  <2>10. CASE ReleaseFails(t)
    BY <2>10 DEF ReleaseFails
  <2>11. CASE FindSecretAgain(t)
    BY <2>11 DEF FindSecretAgain
  <2>12. ASSUME NEW new \in Salts, MakeSalt(t, new)
         PROVE (OneHolder /\ DirHeld /\ PathOK /\ CurrentOK)'
    BY <2>12 DEF MakeSalt
  <2>13. CASE ReadRecord(t)
    BY <2>13 DEF ReadRecord
  <2>14. CASE WriteRecord(t)
    BY <2>14 DEF WriteRecord
  <2>15. CASE WriteFails(t)
    BY <2>15 DEF WriteFails
  <2>16. QED
    BY <1>2, <2>1, <2>2, <2>3, <2>4, <2>5, <2>6, <2>7, <2>8, <2>9, <2>10, <2>11, <2>12, <2>13,
       <2>14, <2>15 DEF Step
<1>3. ASSUME NEW f \in Paths, Age(f) PROVE (OneHolder /\ DirHeld /\ PathOK /\ CurrentOK)'
  BY <1>3 DEF Age
<1>4. CASE SetClock
  BY <1>4 DEF SetClock
<1>5. ASSUME NEW p \in Procs, Crash(p) PROVE (OneHolder /\ DirHeld /\ PathOK /\ CurrentOK)'
  BY <1>5 DEF Crash
<1>6. CASE UNCHANGED vars
  BY <1>6 DEF vars
<1>7. QED
  BY <1>1, <1>2, <1>3, <1>4, <1>5, <1>6 DEF Next

\* The invariant holds of every run.
LEMMA SidecarInvariance == Spec => []SInv
<1>1. SInv /\ [Next]_vars => SInv'
  BY STypeStep, SLockStep DEF SInv
<1>2. QED
  BY SInvInit, <1>1, PTL DEF Spec

-----------------------------------------------------------------------------

\* The files, locks and searches keep their types (managed_context.py); in particular no counter
\* ever exceeds max_hit_counter and every record written is one record_from_payload accepts.
THEOREM SidecarTypes == Spec => []TypeOK
<1>1. SInv => TypeOK
  BY DEF SInv
<1>2. QED
  BY SidecarInvariance, <1>1, PTL

\* Two searches are never between a lock and its release on the same file (sidecar_file_lock).
THEOREM OneSearchInside == Spec => []OneHolder
<1>1. SInv => OneHolder
  BY DEF SInv
<1>2. QED
  BY SidecarInvariance, <1>1, PTL

\* Only WriteRecord writes the record, and only MakeSalt the secret.
LEMMA Writers ==
    ASSUME Next
    PROVE /\ record' = record \/ \E t \in Threads : WriteRecord(t)
          /\ salt' = salt \/ \E t \in Threads, new \in Salts : MakeSalt(t, new)
<1> USE DEF files
<1>1. ASSUME NEW t \in Threads, NEW found \in SUBSET Pages, StartSearch(t, found)
      PROVE record' = record /\ salt' = salt
  BY <1>1 DEF StartSearch
<1>2. ASSUME NEW t \in Threads, Step(t)
      PROVE /\ record' = record \/ \E u \in Threads : WriteRecord(u)
            /\ salt' = salt \/ \E u \in Threads, new \in Salts : MakeSalt(u, new)
  <2>1. CASE \/ ReadSalt(t) \/ ReadPrior(t) \/ SkipHits(t) \/ RecordHits(t) \/ FindSecret(t)
             \/ TakeMutex(t) \/ MakeLockDir(t) \/ GiveUp(t) \/ Release(t) \/ ReleaseFails(t)
             \/ FindSecretAgain(t) \/ ReadRecord(t) \/ WriteFails(t)
    BY <2>1 DEF ReadSalt, ReadPrior, SkipHits, RecordHits, FindSecret, TakeMutex, MakeLockDir,
                GiveUp, Release, ReleaseFails, FindSecretAgain, ReadRecord, WriteFails
  <2>2. ASSUME NEW new \in Salts, MakeSalt(t, new)
        PROVE /\ record' = record
              /\ \E u \in Threads, other \in Salts : MakeSalt(u, other)
    BY <2>2 DEF MakeSalt
  <2>3. ASSUME WriteRecord(t)
        PROVE (\E u \in Threads : WriteRecord(u)) /\ salt' = salt
    BY <2>3 DEF WriteRecord
  <2>4. QED
    BY <1>2, <2>1, <2>2, <2>3 DEF Step
<1>3. ASSUME NEW f \in Paths, Age(f) PROVE record' = record /\ salt' = salt
  BY <1>3 DEF Age
<1>4. ASSUME SetClock PROVE record' = record /\ salt' = salt
  BY <1>4 DEF SetClock
<1>5. ASSUME NEW p \in Procs, Crash(p) PROVE record' = record /\ salt' = salt
  BY <1>5 DEF Crash
<1>6. QED
  BY <1>1, <1>2, <1>3, <1>4, <1>5 DEF Next

\* Unless a read under the lock failed, no search undoes the hits another one counted
\* (update_hits).
THEOREM HitsAreKept == Spec => NoLostUpdate
<1>1. ASSUME SInv, [Next]_vars
      PROVE [\/ blind'
             \/ \E t \in Threads :
                    pc[t] = "write" /\ record' = Updated(record, PageKeys(t), now[t])]_record
  <2>1. ASSUME NEW t \in Threads, WriteRecord(t)
        PROVE blind' \/ (pc[t] = "write" /\ record' = Updated(record, PageKeys(t), now[t]))
    BY <1>1, <2>1 DEF WriteRecord, SInv, CurrentOK, history
  <2>2. QED
    BY <1>1, <2>1, Writers DEF vars, files
<1>2. QED
  BY SidecarInvariance, <1>1, PTL DEF Spec, NoLostUpdate

\* Unless a read under the lock failed, the secret is made once (secret).
THEOREM SecretIsKept == Spec => OneSecret
<1>1. ASSUME SInv, [Next]_vars PROVE [blind' \/ salt = NoSalt]_salt
  <2>1. ASSUME NEW t \in Threads, NEW new \in Salts, MakeSalt(t, new)
        PROVE blind' \/ salt = NoSalt
    BY <1>1, <2>1 DEF MakeSalt, SInv, CurrentOK
  <2>2. QED
    BY <1>1, <2>1, Writers DEF vars, files
<1>2. QED
  BY SidecarInvariance, <1>1, PTL DEF Spec, OneSecret

-----------------------------------------------------------------------------
(* Trimming and updating a record *)

\* The keys that come before a key when hits are trimmed
Above(hits, k) == {l \in Keys : Outranks(hits, l, k)}

\* Counters and times are numbers.
LEMMA HitNumbers ==
    ASSUME NEW hits \in Hits, NEW k \in Keys
    PROVE /\ k \in Nat /\ hits[k] \in ManagedPageHit
          /\ hits[k].counter \in Nat /\ hits[k].at \in Nat
          /\ MaxHitEntries \in Nat \ {0}
<1>1. MaxHitCounter \in Nat /\ MaxClock \in Nat /\ MaxHitEntries \in Nat \ {0} /\ k \in Nat
  BY RecordAssumption
<1>2. hits[k] \in ManagedPageHit
  BY DEF Hits
<1>3. QED
  BY <1>1, <1>2 DEF ManagedPageHit

\* The order in which hits are kept is a strict total order.
LEMMA OrderIsTotal ==
    ASSUME NEW hits \in Hits, NEW k \in Keys, NEW l \in Keys
    PROVE /\ ~Outranks(hits, k, k)
          /\ k # l => Outranks(hits, k, l) \/ Outranks(hits, l, k)
          /\ \A m \in Keys : Outranks(hits, k, l) /\ Outranks(hits, l, m) => Outranks(hits, k, m)
<1>1. \A m \in Keys : m \in Nat /\ hits[m].counter \in Nat /\ hits[m].at \in Nat
  BY HitNumbers
<1>2. QED
  BY <1>1 DEF Outranks

\* There are m numbers below m.
LEMMA Below ==
    ASSUME NEW m \in Nat
    PROVE IsFiniteSet(0..(m - 1)) /\ Cardinality(0..(m - 1)) = m
<1>1. 0 \in Int /\ m - 1 \in Int
  OBVIOUS
<1>2. /\ IsFiniteSet(0..(m - 1))
      /\ Cardinality(0..(m - 1)) = IF 0 > m - 1 THEN 0 ELSE (m - 1) - 0 + 1
  BY <1>1, FS_Interval, Zenon
<1>3. QED
  BY <1>2

\* No two keys have the same number of keys before them, and none has all of them.
LEMMA RanksDiffer ==
    ASSUME NEW hits \in Hits, NEW k \in Keys
    PROVE /\ IsFiniteSet(Above(hits, k))
          /\ Cardinality(Above(hits, k)) \in 0..(Cardinality(Keys) - 1)
          /\ \A l \in Keys : Outranks(hits, l, k) =>
                Cardinality(Above(hits, l)) < Cardinality(Above(hits, k))
<1>1. ASSUME NEW S \in SUBSET Keys
      PROVE IsFiniteSet(S) /\ Cardinality(S) \in Nat /\ Cardinality(S) <= Cardinality(Keys)
  BY KeysAreFinite, FS_Subset, FS_CardinalityType
<1>2. \A l \in Keys : Above(hits, l) \in SUBSET Keys
  BY DEF Above
<1>3. Cardinality(Above(hits, k)) # Cardinality(Keys)
  <2>1. k \notin Above(hits, k)
    BY OrderIsTotal DEF Above
  <2>2. QED
    BY <1>2, <2>1, KeysAreFinite, FS_Subset
<1>4. Cardinality(Keys) \in Nat
  BY KeysAreFinite, FS_CardinalityType
<1>5. ASSUME NEW l \in Keys, Outranks(hits, l, k)
      PROVE Cardinality(Above(hits, l)) < Cardinality(Above(hits, k))
  <2>1. Above(hits, l) \subseteq Above(hits, k)
    BY <1>5, OrderIsTotal DEF Above
  <2>2. l \in Above(hits, k) \ Above(hits, l)
    BY <1>5, OrderIsTotal DEF Above
  <2>3. /\ Cardinality(Above(hits, l)) <= Cardinality(Above(hits, k))
        /\ Cardinality(Above(hits, l)) # Cardinality(Above(hits, k))
    BY <1>1, <1>2, <2>1, <2>2, FS_Subset
  <2>4. QED
    BY <1>1, <1>2, <2>3
<1>6. QED
  BY <1>1, <1>2, <1>3, <1>4, <1>5

\* What trimming keeps and drops.
LEMMA TrimmedIs ==
    ASSUME NEW hits \in Hits, NEW k \in Keys
    PROVE /\ Cardinality(Above(hits, k)) < MaxHitEntries => Trimmed[hits][k] = hits[k]
          /\ ~(Cardinality(Above(hits, k)) < MaxHitEntries) => Trimmed[hits][k] = NoHit
          /\ k \in Entries(Trimmed[hits]) <=>
                Cardinality(Above(hits, k)) < MaxHitEntries /\ hits[k].counter > 0
  BY DEF Trimmed, Above, Entries, NoHit

\* A key that outranks another has a counter at least as high.
LEMMA HigherRankCountsMore ==
    ASSUME NEW hits \in Hits, NEW k \in Keys, NEW l \in Keys,
           Cardinality(Above(hits, l)) < Cardinality(Above(hits, k))
    PROVE hits[l].counter >= hits[k].counter
<1>1. hits[k].counter \in Nat /\ hits[l].counter \in Nat
  BY HitNumbers
<1>2. Cardinality(Above(hits, k)) \in Nat /\ Cardinality(Above(hits, l)) \in Nat
  BY RanksDiffer, KeysAreFinite, FS_CardinalityType
<1>3. ~Outranks(hits, k, l)
  BY <1>2, RanksDiffer
<1>4. QED
  BY <1>1, <1>3 DEF Outranks

\* Trimming keeps at most max_hit_entries entries; when it drops one, exactly that many, and
\* none that counts less than one it drops (trim_hits).
THEOREM TrimmingKeepsTheBest ==
    ASSUME NEW hits \in Hits
    PROVE /\ Cardinality(Entries(Trimmed[hits])) <= MaxHitEntries
          /\ \A k \in Keys \ Entries(Trimmed[hits]) : hits[k].counter > 0 =>
                /\ Cardinality(Entries(Trimmed[hits])) = MaxHitEntries
                /\ \A l \in Entries(Trimmed[hits]) : hits[l].counter >= hits[k].counter
<1> DEFINE rank == [k \in Keys |-> Cardinality(Above(hits, k))]
           kept == Entries(Trimmed[hits])
           n == Cardinality(Keys)
<1>0. /\ MaxHitEntries \in Nat \ {0}
      /\ n \in Nat
      /\ \A k \in Keys : hits[k].counter \in Nat
  BY RecordAssumption, KeysAreFinite, FS_CardinalityType, HitNumbers
<1>1. rank \in [Keys -> 0..(n - 1)]
  BY RanksDiffer
<1>2. \A k, l \in Keys : rank[k] = rank[l] => k = l
  <2>1. SUFFICES ASSUME NEW k \in Keys, NEW l \in Keys, k # l PROVE rank[k] # rank[l]
    OBVIOUS
  <2>2. Outranks(hits, k, l) \/ Outranks(hits, l, k)
    BY <2>1, OrderIsTotal
  <2>3. rank[k] \in Nat /\ rank[l] \in Nat
    BY <1>0, <1>1
  <2>4. rank[k] < rank[l] \/ rank[l] < rank[k]
    BY <2>2, RanksDiffer
  <2>5. QED
    BY <2>3, <2>4
<1>3. \A k \in Keys : k \in kept <=> rank[k] < MaxHitEntries /\ hits[k].counter > 0
  BY TrimmedIs
<1>4. kept \subseteq Keys
  BY DEF Entries
<1>5. /\ IsFiniteSet(0..(MaxHitEntries - 1))
      /\ Cardinality(0..(MaxHitEntries - 1)) = MaxHitEntries
  BY <1>0, Below
<1> DEFINE place == [k \in kept |-> rank[k]]
<1>6. place \in Injection(kept, 0..(MaxHitEntries - 1))
  <2>1. \A k \in kept : place[k] = rank[k] /\ rank[k] \in 0..(MaxHitEntries - 1)
    BY <1>0, <1>1, <1>3, <1>4
  <2>2. place \in [kept -> 0..(MaxHitEntries - 1)]
    BY <2>1
  <2>3. \A k, l \in kept : place[k] = place[l] => k = l
    BY <1>2, <1>4, <2>1
  <2>4. QED
    BY <2>2, <2>3, Zenon DEF Injection, IsInjective
<1>7. Cardinality(kept) <= MaxHitEntries
  BY <1>5, <1>6, FS_Injection
<1>8. ASSUME NEW k \in Keys \ kept, hits[k].counter > 0
      PROVE /\ Cardinality(kept) = MaxHitEntries
            /\ \A l \in kept : hits[l].counter >= hits[k].counter
  <2>1. rank[k] >= MaxHitEntries
    BY <1>0, <1>1, <1>3, <1>8
  <2>2. \A l \in Keys : rank[l] < MaxHitEntries => hits[l].counter >= hits[k].counter
    <3>1. ASSUME NEW l \in Keys, rank[l] < MaxHitEntries
          PROVE hits[l].counter >= hits[k].counter
      <4>1. rank[l] < rank[k]
        BY <1>0, <1>1, <2>1, <3>1
      <4>2. QED
        BY <4>1, HigherRankCountsMore
    <3>2. QED
      BY <3>1
  <2>3. rank \in Surjection(Keys, 0..(n - 1))
    <3>1. rank \in Injection(Keys, 0..(n - 1))
      BY <1>1, <1>2 DEF Injection, IsInjective
    <3>2. IsFiniteSet(0..(n - 1)) /\ Cardinality(0..(n - 1)) = n
      BY <1>0, Below
    <3>3. QED
      BY <3>1, <3>2, FS_Injection
  <2>4. place \in Surjection(kept, 0..(MaxHitEntries - 1))
    <3>1. ASSUME NEW i \in 0..(MaxHitEntries - 1) PROVE \E l \in kept : place[l] = i
      <4>1. i \in 0..(n - 1)
        BY <1>0, <1>1, <2>1
      <4>2. PICK l \in Keys : rank[l] = i
        BY <2>3, <4>1 DEF Surjection
      <4>3. l \in kept
        BY <1>0, <1>3, <2>2, <1>8, <4>2
      <4>4. QED
        BY <4>2, <4>3
    <3>2. QED
      BY <1>6, <3>1 DEF Injection, Surjection
  <2>5. QED
    BY <1>3, <1>4, <1>5, <1>6, <2>2, <2>4, FS_Injection
<1>9. QED
  BY <1>7, <1>8

\* Trimming leaves hits alone that have no more than max_hit_entries entries.
LEMMA TrimmingDropsNothing ==
    ASSUME NEW hits \in Hits, Cardinality(Entries(hits)) <= MaxHitEntries,
           \A k \in Keys \ Entries(hits) : hits[k] = NoHit
    PROVE Trimmed[hits] = hits
<1>1. ASSUME NEW k \in Entries(hits) PROVE Cardinality(Above(hits, k)) < MaxHitEntries
  <2>1. k \in Keys /\ Entries(hits) \subseteq Keys
    BY DEF Entries
  <2>2. Above(hits, k) \in SUBSET Entries(hits)
    <3>1. \A l \in Keys : hits[l].counter \in Nat
      BY HitNumbers
    <3>2. QED
      BY <1>1, <3>1 DEF Above, Entries, Outranks
  <2>3. k \notin Above(hits, k)
    BY <2>1, OrderIsTotal DEF Above
  <2>4. IsFiniteSet(Entries(hits))
    BY <2>1, KeysAreFinite, FS_Subset
  <2>5. /\ Cardinality(Above(hits, k)) \in Nat
        /\ Cardinality(Entries(hits)) \in Nat
        /\ Cardinality(Above(hits, k)) <= Cardinality(Entries(hits))
        /\ Cardinality(Above(hits, k)) # Cardinality(Entries(hits))
    BY <1>1, <2>2, <2>3, <2>4, FS_Subset, FS_CardinalityType
  <2>6. QED
    BY <2>5, RecordAssumption
<1>2. \A k \in Keys : Trimmed[hits][k] = hits[k]
  <2>1. ASSUME NEW k \in Keys PROVE Trimmed[hits][k] = hits[k]
    BY <1>1, TrimmedIs
  <2>2. QED
    BY <2>1
<1>3. /\ DOMAIN hits = Keys
      /\ Trimmed[hits] = [k \in Keys |-> Trimmed[hits][k]]
  BY DEF Hits, Trimmed
<1>4. QED
  BY <1>2, <1>3 DEF Hits

\* What time leaves of the counters, before trimming
Faded(hits, time) ==
    [k \in Keys |-> IF Decayed(hits[k], time) > 0
                    THEN [counter |-> Decayed(hits[k], time), at |-> time] ELSE NoHit]

\* Time never raises a counter, and leaves no entry behind when it has left nothing of it.
LEMMA FadedIs ==
    ASSUME NEW hits \in Hits, NEW time \in 0..MaxClock
    PROVE /\ Faded(hits, time) \in Hits
          /\ DecayedHits(hits, time) = Trimmed[Faded(hits, time)]
          /\ Entries(Faded(hits, time)) \subseteq Entries(hits)
          /\ \A k \in Keys \ Entries(Faded(hits, time)) : Faded(hits, time)[k] = NoHit
          /\ \A k \in Keys : Decayed(hits[k], time) \in 0..MaxHitCounter
<1>0. /\ MaxClock \in Nat /\ MaxHitCounter \in Nat
      /\ Remaining \in [0..MaxHitCounter -> [0..MaxClock -> 0..MaxHitCounter]]
      /\ \A c \in 0..MaxHitCounter, e \in 0..MaxClock : Remaining[c][e] <= c
  BY RecordAssumption
<1>1. ASSUME NEW k \in Keys
      PROVE /\ Decayed(hits[k], time) \in 0..MaxHitCounter
            /\ hits[k].counter \in 0..MaxHitCounter
            /\ hits[k].counter = 0 => Decayed(hits[k], time) = 0
  <2>1. hits[k].counter \in 0..MaxHitCounter /\ hits[k].at \in 0..MaxClock
    BY <1>0 DEF Hits, ManagedPageHit
  <2>2. Greater(0, time - hits[k].at) \in 0..MaxClock
    BY <1>0, <2>1, Bounded
  <2> DEFINE e == Greater(0, time - hits[k].at)
             c == hits[k].counter
  <2>3. Decayed(hits[k], time) = Remaining[c][e]
    BY DEF Decayed
  <2> HIDE DEF e, c
  <2>4. Remaining[c][e] \in 0..MaxHitCounter /\ Remaining[c][e] <= c
    BY <1>0, <2>1, <2>2 DEF e, c
  <2>5. c = 0 => Remaining[c][e] = 0
    BY <1>0, <2>4
  <2>6. QED
    BY <2>1, <2>3, <2>4, <2>5 DEF c
<1>2. Faded(hits, time) \in Hits
  BY <1>0, <1>1 DEF Faded, Hits, ManagedPageHit, NoHit
<1>3. \A k \in Keys : /\ Faded(hits, time)[k].counter > 0 => Decayed(hits[k], time) > 0
                      /\ ~(Faded(hits, time)[k].counter > 0) => Faded(hits, time)[k] = NoHit
  BY <1>0, <1>1 DEF Faded, NoHit
<1>4. Entries(Faded(hits, time)) \subseteq Entries(hits)
  <2>1. SUFFICES ASSUME NEW k \in Keys, Faded(hits, time)[k].counter > 0
                 PROVE hits[k].counter > 0
    BY DEF Entries
  <2>2. Decayed(hits[k], time) > 0
    BY <1>3, <2>1
  <2>3. QED
    <3>1. hits[k].counter # 0
      BY <1>1, <2>2
    <3>2. hits[k].counter \in 0..MaxHitCounter
      BY <1>1
    <3>3. QED
      BY <3>1, <3>2
<1>5. QED
  BY <1>1, <1>2, <1>3, <1>4 DEF DecayedHits, Faded, Entries

\* Trimming adds no entry.
LEMMA TrimmedEntries ==
    ASSUME NEW hits \in Hits
    PROVE Entries(Trimmed[hits]) \subseteq Entries(hits)
  BY TrimmedIs DEF Entries

\* An update counts only what the record counted and the pages it is given, and leaves no more
\* than max_hit_entries.
LEMMA UpdatedEntries ==
    ASSUME NEW r \in Record \cup {NoRecord}, NEW keys \in SUBSET Keys, NEW time \in 0..MaxClock
    PROVE /\ Entries(Updated(r, keys, time).hits) \subseteq
                keys \cup (IF r = NoRecord THEN {} ELSE Entries(r.hits))
          /\ Cardinality(Entries(Updated(r, keys, time).hits)) <= MaxHitEntries
          /\ Updated(r, keys, time) # NoRecord
<1>1. \A hits \in Hits, now0 \in 0..MaxClock :
        /\ Counted(hits, keys, now0) \in Hits
        /\ Entries(Counted(hits, keys, now0)) \subseteq keys \cup Entries(hits)
  <2>1. ASSUME NEW hits \in Hits, NEW now0 \in 0..MaxClock
        PROVE /\ Counted(hits, keys, now0) \in Hits
              /\ Entries(Counted(hits, keys, now0)) \subseteq keys \cup Entries(hits)
    <3>1. Counted(hits, keys, now0) \in Hits
      BY HitTypes
    <3>2. \A k \in Keys : k \notin keys => Counted(hits, keys, now0)[k] = hits[k]
      BY DEF Counted
    <3>3. QED
      BY <3>1, <3>2 DEF Entries
  <2>2. QED
    BY <2>1
<1>2. CASE r = NoRecord
  <2> DEFINE none == [k \in Keys |-> NoHit]
             new == Counted(none, keys, time)
  <2>1. none \in Hits /\ Entries(none) = {}
    <3>1. MaxClock \in Nat /\ MaxHitCounter \in Nat
      BY RecordAssumption
    <3>2. QED
      BY <3>1 DEF Hits, NoHit, ManagedPageHit, Entries
  <2>2. Updated(r, keys, time).hits = Trimmed[new]
    BY <1>2 DEF Updated
  <2> HIDE DEF none
  <2>3. new \in Hits /\ Entries(new) \subseteq keys
    BY <1>1, <2>1
  <2> HIDE DEF new
  <2>4. QED
    BY <2>2, <2>3, <1>2, TrimmedEntries, TrimmingKeepsTheBest, UpdatedType, NoRecordAssumption
<1>3. CASE r \in Record /\ r # NoRecord
  <2> DEFINE then == Greater(time, r.updated)
             old == DecayedHits(r.hits, then)
             new == Counted(old, keys, then)
  <2>1. then \in 0..MaxClock /\ r.hits \in Hits
    BY <1>3 DEF Record, Greater
  <2>2. Updated(r, keys, time).hits = Trimmed[new]
    BY <1>3 DEF Updated
  <2> HIDE DEF then
  <2>3. old \in Hits /\ Entries(old) \subseteq Entries(r.hits)
    <3>1. Faded(r.hits, then) \in Hits /\ Entries(Faded(r.hits, then)) \subseteq Entries(r.hits)
      BY <2>1, FadedIs
    <3>2. old = Trimmed[Faded(r.hits, then)]
      BY <2>1, FadedIs
    <3>3. QED
      BY <2>1, <3>1, <3>2, TrimmedEntries, HitTypes
  <2> HIDE DEF old
  <2>4. new \in Hits /\ Entries(new) \subseteq keys \cup Entries(r.hits)
    BY <1>1, <2>1, <2>3
  <2> HIDE DEF new
  <2>5. QED
    BY <2>2, <2>4, <1>3, TrimmedEntries, TrimmingKeepsTheBest, UpdatedType, NoRecordAssumption
<1>4. QED
  BY <1>2, <1>3

-----------------------------------------------------------------------------
(* What is boosted was returned *)

\* The keys some pages have under any secret
KeysOf(found) == {KeyOf[s][p] : s \in Salts, p \in found}

\* A record counts only those pages
CountsOnly(r, found) == r = NoRecord \/ Entries(r.hits) \subseteq KeysOf(found)

\* A search counts pages after it has returned them, under a secret it has
ReturnedOK ==
    /\ CountsOnly(record, returned)
    /\ \A t \in Threads :
        /\ CountsOnly(current[t], returned)
        /\ boosted[t] \subseteq returned
        /\ pc[t] \in {"hits", "secret", "queue", "mkdir"} \cup Inside => pages[t] \subseteq returned
        /\ pc[t] = "prior" => secret[t] \in Salts
        /\ pc[t] \in {"queue", "mkdir"} \cup Inside /\ path[t] = "record" => secret[t] \in Salts

RInv == SInv /\ ReturnedOK

\* More pages may be returned.
LEMMA CountsMore ==
    ASSUME NEW r, NEW S, NEW T, S \subseteq T, CountsOnly(r, S)
    PROVE CountsOnly(r, T)
  BY DEF CountsOnly, KeysOf

\* Before any search nothing is counted or boosted.
LEMMA RInvInit == Init => RInv
<1> SUFFICES ASSUME Init PROVE RInv
  OBVIOUS
<1>1. ReturnedOK
  BY DEF Init, ReturnedOK, CountsOnly, Inside
<1>2. QED
  BY <1>1, SInvInit DEF RInv

\* What a record boosts is what it counts: page keys are injective.
LEMMA BoostsCounted ==
    ASSUME NEW r \in Record \cup {NoRecord}, NEW S \in SUBSET Pages, CountsOnly(r, S),
           NEW s \in Salts, NEW p \in Pages, NEW time \in 0..MaxClock,
           Boosts(r, KeyOf[s][p], time)
    PROVE p \in S
<1>1. r # NoRecord /\ r \in Record
  BY DEF Boosts
<1>2. KeyOf[s][p] \in Keys
  BY SidecarAssumption
<1>3. r.hits \in Hits
  BY <1>1 DEF Record
<1>4. KeyOf[s][p] \in Entries(r.hits)
  <2>1. Decayed(r.hits[KeyOf[s][p]], time) > 0
    BY DEF Boosts
  <2>2. KeyOf[s][p] \in Entries(Faded(r.hits, time))
    BY <1>2, <2>1 DEF Faded, Entries
  <2>3. QED
    BY <1>3, <2>2, FadedIs
<1>5. PICK s2 \in Salts, q \in S : KeyOf[s][p] = KeyOf[s2][q]
  BY <1>1, <1>4 DEF CountsOnly, KeysOf
<1>6. QED
  BY <1>5, SidecarAssumption

\* Every step keeps counted and boosted pages among the returned ones.
LEMMA ReturnedStep == RInv /\ [Next]_vars => ReturnedOK'
<1> SUFFICES ASSUME RInv, [Next]_vars PROVE ReturnedOK'
  OBVIOUS
<1>0. CountsOnly(NoRecord, returned) /\ CountsOnly(NoRecord, returned')
  BY DEF CountsOnly
<1> USE <1>0 DEF RInv, SInv, TypeOK, ReturnedOK, files, locks, held, search, bounds, history,
                 Phases, Inside, Paths, Forgets, Missed, Unlock, Proceeds
<1>1. ASSUME NEW t \in Threads, NEW found \in SUBSET Pages, StartSearch(t, found)
      PROVE ReturnedOK'
  BY <1>1 DEF StartSearch
<1>2. ASSUME NEW t \in Threads, Step(t) PROVE ReturnedOK'
  <2>1. CASE ReadSalt(t)
    <3>1. returned \subseteq returned' /\ returned' \subseteq Pages
      BY <2>1 DEF ReadSalt
    <3>2. CountsOnly(record, returned') /\ \A u \in Threads : CountsOnly(current[u], returned')
      BY <3>1, CountsMore
    <3>3. /\ pc[t] = "ranking" /\ pc'[t] \in {"prior", "hits"} /\ \A u \in Threads \ {t} : pc'[u] = pc[u]
          /\ pc'[t] = "hits" => pages[t] \subseteq returned'
          /\ pc'[t] = "prior" => secret'[t] \in Salts
          /\ \A u \in Threads \ {t} : secret'[u] = secret[u]
          /\ UNCHANGED <<record, current, boosted, pages, path>>
      BY <2>1 DEF ReadSalt
    <3>4. QED
      BY <3>1, <3>2, <3>3
  <2>2. CASE ReadPrior(t)
    <3>1. returned' = returned \cup pages[t]
      BY <2>2 DEF ReadPrior
    <3>2. CountsOnly(record, returned') /\ \A u \in Threads : CountsOnly(current[u], returned')
      BY <3>1, CountsMore
    <3>3. boosted'[t] \subseteq returned
      <4>1. PICK found \in {record, NoRecord} :
                boosted' = [boosted EXCEPT ![t] =
                              {p \in Pages : Boosts(found, KeyOf[secret[t]][p], now[t])}]
        BY <2>2 DEF ReadPrior
      <4>2. found \in Record \cup {NoRecord} /\ CountsOnly(found, returned)
        BY <4>1
      <4>3. secret[t] \in Salts /\ now[t] \in 0..MaxClock
        BY <2>2 DEF ReadPrior
      <4>4. boosted'[t] = {p \in Pages : Boosts(found, KeyOf[secret[t]][p], now[t])}
        BY <4>1
      <4>5. QED
        BY <4>2, <4>3, <4>4, BoostsCounted
    <3>4. \A u \in Threads \ {t} : boosted'[u] = boosted[u] /\ pc'[u] = pc[u]
      BY <2>2 DEF ReadPrior
    <3>5. pc'[t] = "hits" /\ UNCHANGED <<record, current, pages, secret, path>>
      BY <2>2 DEF ReadPrior
    <3>6. QED
      BY <3>1, <3>2, <3>3, <3>4, <3>5
  <2>3. CASE SkipHits(t)
    BY <2>3 DEF SkipHits
  <2>4. CASE RecordHits(t)
    BY <2>4 DEF RecordHits
  <2>5. CASE FindSecret(t)
    BY <2>5 DEF FindSecret, Reads
  <2>6. CASE TakeMutex(t)
    BY <2>6 DEF TakeMutex
  <2>7. CASE MakeLockDir(t)
    BY <2>7 DEF MakeLockDir
  <2>8. CASE GiveUp(t)
    BY <2>8 DEF GiveUp
  <2>9. CASE Release(t)
    <3>1. CASE path[t] = "salt" /\ secret[t] # NoSalt
      BY <2>9, <3>1 DEF Release
    <3>2. CASE ~(path[t] = "salt" /\ secret[t] # NoSalt)
      <4>1. UNCHANGED <<record, returned>> /\ Forgets(t)
        BY <2>9, <3>2 DEF Release
      <4>2. QED
        BY <4>1
    <3>3. QED
      BY <3>1, <3>2
  <2>10. CASE ReleaseFails(t)
    BY <2>10 DEF ReleaseFails
  <2>11. CASE FindSecretAgain(t)
    BY <2>11 DEF FindSecretAgain
  <2>12. ASSUME NEW new \in Salts, MakeSalt(t, new) PROVE ReturnedOK'
    BY <2>12 DEF MakeSalt, PathOK
  <2>13. CASE ReadRecord(t)
    BY <2>13 DEF ReadRecord
  <2>14. CASE WriteRecord(t)
    <3>1. secret[t] \in Salts /\ pages[t] \subseteq returned /\ pages[t] \subseteq Pages
      BY <2>14 DEF WriteRecord, PathOK
    <3>2. PageKeys(t) \in SUBSET Keys /\ PageKeys(t) \subseteq KeysOf(returned)
      BY <3>1, SidecarAssumption DEF PageKeys, KeysOf
    <3>3. CountsOnly(record', returned)
      <4>1. /\ current[t] \in Record \cup {NoRecord}
            /\ now[t] \in 0..MaxClock
            /\ CountsOnly(current[t], returned)
            /\ record' = Updated(current[t], PageKeys(t), now[t])
        BY <2>14 DEF WriteRecord
      <4>2. Entries(record'.hits) \subseteq
                PageKeys(t) \cup (IF current[t] = NoRecord THEN {} ELSE Entries(current[t].hits))
        BY <3>2, <4>1, UpdatedEntries
      <4>3. QED
        BY <3>2, <4>1, <4>2 DEF CountsOnly
    <3>4. QED
      BY <2>14, <3>3 DEF WriteRecord
  <2>15. CASE WriteFails(t)
    BY <2>15 DEF WriteFails, PathOK
  <2>16. QED
    BY <1>2, <2>1, <2>2, <2>3, <2>4, <2>5, <2>6, <2>7, <2>8, <2>9, <2>10, <2>11, <2>12, <2>13,
       <2>14, <2>15 DEF Step
<1>3. ASSUME NEW f \in Paths, Age(f) PROVE ReturnedOK'
  BY <1>3 DEF Age
<1>4. CASE SetClock
  BY <1>4 DEF SetClock
<1>5. ASSUME NEW p \in Procs, Crash(p) PROVE ReturnedOK'
  BY <1>5 DEF Crash
<1>6. CASE UNCHANGED vars
  BY <1>6 DEF vars
<1>7. QED
  BY <1>1, <1>2, <1>3, <1>4, <1>5, <1>6 DEF Next

\* It holds of every run.
LEMMA ReturnedInvariance == Spec => []RInv
<1>1. RInv /\ [Next]_vars => RInv'
  BY ReturnedStep, STypeStep, SLockStep DEF RInv, SInv
<1>2. QED
  BY RInvInit, <1>1, PTL DEF Spec

\* Managed context only ever raises pages that some search returned before (prior).
THEOREM OnlyReturnedAreBoosted == Spec => []BoostsWereReturned
<1>1. RInv => BoostsWereReturned
  BY DEF RInv, ReturnedOK, BoostsWereReturned
<1>2. QED
  BY ReturnedInvariance, <1>1, PTL

-----------------------------------------------------------------------------
(* The sidecar implements the ledger *)

\* The secret a search has is the one in the file
SecretOK == ~blind => \A t \in Threads : secret[t] \in {NoSalt, salt}

\* The record never holds more than max_hit_entries
BoundOK == record = NoRecord \/ Cardinality(Entries(record.hits)) <= MaxHitEntries

LInv == RInv /\ SecretOK /\ BoundOK

\* Every step keeps the secret the searches have the one in the file, and the record bounded.
LEMMA LedgerStep == LInv /\ [Next]_vars => SecretOK' /\ BoundOK'
<1> SUFFICES ASSUME LInv, [Next]_vars PROVE SecretOK' /\ BoundOK'
  OBVIOUS
<1> USE DEF LInv, RInv, SInv, TypeOK, SecretOK, files, locks, held, search, bounds, history,
            Phases, Inside, Paths, Forgets, Missed, Unlock, Proceeds
<1>1. BoundOK'
  <2>1. ASSUME NEW t \in Threads, WriteRecord(t) PROVE BoundOK'
    <3>1. secret[t] \in Salts /\ pages[t] \subseteq Pages
      BY <2>1 DEF WriteRecord, PathOK, ReturnedOK
    <3>2. PageKeys(t) \in SUBSET Keys
      BY <3>1, SidecarAssumption DEF PageKeys
    <3>3. /\ current[t] \in Record \cup {NoRecord}
          /\ now[t] \in 0..MaxClock
          /\ record' = Updated(current[t], PageKeys(t), now[t])
      BY <2>1 DEF WriteRecord
    <3>4. QED
      BY <3>2, <3>3, UpdatedEntries DEF BoundOK
  <2>2. CASE record' = record
    BY <2>2 DEF BoundOK
  <2>3. QED
    BY <2>1, <2>2, Writers DEF vars
<1>2. ASSUME NEW t \in Threads, NEW found \in SUBSET Pages, StartSearch(t, found)
      PROVE SecretOK'
  BY <1>2 DEF StartSearch
<1>3. ASSUME NEW t \in Threads, Step(t) PROVE SecretOK'
  <2>1. CASE ReadSalt(t)
    BY <2>1 DEF ReadSalt, Reads
  <2>2. CASE ReadPrior(t)
    BY <2>2 DEF ReadPrior
  <2>3. CASE SkipHits(t)
    BY <2>3 DEF SkipHits
  <2>4. CASE RecordHits(t)
    BY <2>4 DEF RecordHits
  <2>5. CASE FindSecret(t)
    BY <2>5 DEF FindSecret, Reads
  <2>6. CASE TakeMutex(t)
    BY <2>6 DEF TakeMutex
  <2>7. CASE MakeLockDir(t)
    BY <2>7 DEF MakeLockDir
  <2>8. CASE GiveUp(t)
    BY <2>8 DEF GiveUp
  <2>9. CASE Release(t)
    BY <2>9 DEF Release
  <2>10. CASE ReleaseFails(t)
    BY <2>10 DEF ReleaseFails
  <2>11. CASE FindSecretAgain(t)
    BY <2>11 DEF FindSecretAgain
  <2>12. ASSUME NEW new \in Salts, MakeSalt(t, new) PROVE SecretOK'
    BY <2>12 DEF MakeSalt, CurrentOK
  <2>13. CASE ReadRecord(t)
    BY <2>13 DEF ReadRecord
  <2>14. CASE WriteRecord(t)
    BY <2>14 DEF WriteRecord
  <2>15. CASE WriteFails(t)
    BY <2>15 DEF WriteFails
  <2>16. QED
    BY <1>3, <2>1, <2>2, <2>3, <2>4, <2>5, <2>6, <2>7, <2>8, <2>9, <2>10, <2>11, <2>12, <2>13,
       <2>14, <2>15 DEF Step
<1>4. ASSUME NEW f \in Paths, Age(f) PROVE SecretOK'
  BY <1>4 DEF Age
<1>5. CASE SetClock
  BY <1>1, <1>5 DEF SetClock
<1>6. ASSUME NEW p \in Procs, Crash(p) PROVE SecretOK'
  BY <1>6 DEF Crash
<1>7. CASE UNCHANGED vars
  BY <1>1, <1>7 DEF vars
<1>8. QED
  BY <1>1, <1>2, <1>3, <1>4, <1>5, <1>6, <1>7 DEF Next

\* It holds of every run.
LEMMA LedgerInvariance == Spec => []LInv
<1>1. Init => LInv
  <2>1. Init => SecretOK /\ BoundOK
    BY DEF Init, SecretOK, BoundOK
  <2>2. QED
    BY <2>1, RInvInit DEF LInv
<1>2. LInv /\ [Next]_vars => LInv'
  BY LedgerStep, ReturnedStep, STypeStep, SLockStep DEF LInv, RInv, SInv
<1>3. QED
  BY <1>1, <1>2, PTL DEF Spec

\* What a key counts after an update at a time, before trimming
Due(r, keys, time, k) ==
    Lesser(MaxHitCounter,
           (IF r = NoRecord THEN 0 ELSE Decayed(r.hits[k], time))
               + IF k \in keys THEN HitIncrement ELSE 0)

\* A bounded record is updated by trimming what every key is due: decaying it drops no entry that
\* time has left anything of.
LEMMA UpdatedIs ==
    ASSUME NEW r \in Record \cup {NoRecord}, NEW keys \in SUBSET Keys, NEW time \in 0..MaxClock,
           r = NoRecord \/ Cardinality(Entries(r.hits)) <= MaxHitEntries
    PROVE \E hits \in Hits :
            /\ Updated(r, keys, time) =
                 [generation |-> IF r = NoRecord THEN 1 ELSE r.generation + 1,
                  updated |-> IF r = NoRecord THEN time ELSE Greater(time, r.updated),
                  hits |-> Trimmed[hits]]
            /\ \A k \in Keys :
                 /\ hits[k].counter = Due(r, keys, Updated(r, keys, time).updated, k)
                 /\ hits[k].counter > 0 =>
                        hits[k] = [counter |-> hits[k].counter,
                                   at |-> Updated(r, keys, time).updated]
<1>0. /\ MaxHitCounter \in Nat \ {0} /\ HitIncrement \in Nat \ {0} /\ MaxClock \in Nat
  BY RecordAssumption
<1>1. CASE r = NoRecord
  <2> DEFINE none == [k \in Keys |-> NoHit]
             new == Counted(none, keys, time)
  <2>1. none \in Hits
    BY <1>0 DEF Hits, NoHit, ManagedPageHit
  <2>2. new \in Hits
    BY <2>1, HitTypes
  <2>3. Updated(r, keys, time) = [generation |-> 1, updated |-> time, hits |-> Trimmed[new]]
    BY <1>1 DEF Updated
  <2>4. ASSUME NEW k \in Keys
        PROVE /\ new[k].counter = Due(r, keys, time, k)
              /\ new[k].counter > 0 => new[k] = [counter |-> new[k].counter, at |-> time]
    <3>1. CASE k \in keys
      BY <1>0, <1>1, <3>1 DEF Counted, NoHit, Due, Lesser
    <3>2. CASE k \notin keys
      BY <1>0, <1>1, <3>2 DEF Counted, NoHit, Due, Lesser
    <3>3. QED
      BY <3>1, <3>2
  <2> HIDE DEF new
  <2>5. QED
    BY <1>1, <2>2, <2>3, <2>4
<1>2. CASE r \in Record /\ r # NoRecord
  <2> DEFINE then == Greater(time, r.updated)
             faded == Faded(r.hits, then)
             new == Counted(faded, keys, then)
  <2>1. then \in 0..MaxClock /\ r.hits \in Hits
    BY <1>2 DEF Record, Greater
  <2> HIDE DEF then
  <2>2. /\ faded \in Hits
        /\ Entries(faded) \subseteq Entries(r.hits)
        /\ \A k \in Keys \ Entries(faded) : faded[k] = NoHit
        /\ DecayedHits(r.hits, then) = Trimmed[faded]
        /\ \A k \in Keys : Decayed(r.hits[k], then) \in 0..MaxHitCounter
    BY <2>1, FadedIs
  <2>3. \A k \in Keys : faded[k] = IF Decayed(r.hits[k], then) > 0
                                   THEN [counter |-> Decayed(r.hits[k], then), at |-> then]
                                   ELSE NoHit
    BY DEF Faded
  <2> HIDE DEF faded
  <2>4. Cardinality(Entries(faded)) <= MaxHitEntries
    <3>1. Entries(r.hits) \subseteq Keys
      BY DEF Entries
    <3>2. IsFiniteSet(Entries(r.hits)) /\ IsFiniteSet(Entries(faded))
      BY <2>2, <3>1, KeysAreFinite, FS_Subset
    <3>3. /\ Cardinality(Entries(faded)) \in Nat /\ Cardinality(Entries(r.hits)) \in Nat
          /\ Cardinality(Entries(faded)) <= Cardinality(Entries(r.hits))
      BY <2>2, <3>2, FS_Subset, FS_CardinalityType
    <3>4. Cardinality(Entries(r.hits)) <= MaxHitEntries /\ MaxHitEntries \in Nat
      BY <1>2, RecordAssumption
    <3>5. QED
      BY <3>3, <3>4
  <2>5. DecayedHits(r.hits, then) = faded
    BY <2>2, <2>4, TrimmingDropsNothing
  <2>6. Updated(r, keys, time) =
          [generation |-> r.generation + 1, updated |-> then, hits |-> Trimmed[new]]
    BY <1>2, <2>5 DEF Updated, then
  <2>7. new \in Hits
    BY <2>1, <2>2, HitTypes
  <2>8. ASSUME NEW k \in Keys
        PROVE /\ new[k].counter = Due(r, keys, then, k)
              /\ new[k].counter > 0 => new[k] = [counter |-> new[k].counter, at |-> then]
    <3> DEFINE d == Decayed(r.hits[k], then)
    <3>1. d \in 0..MaxHitCounter
      BY <2>2
    <3>2. faded[k] = IF d > 0 THEN [counter |-> d, at |-> then] ELSE NoHit
      BY <2>3
    <3>3. Due(r, keys, then, k) =
            Lesser(MaxHitCounter, d + IF k \in keys THEN HitIncrement ELSE 0)
      BY <1>2 DEF Due
    <3> HIDE DEF d
    <3>4. faded[k].counter = d
      BY <1>0, <3>1, <3>2 DEF NoHit
    <3>5. CASE k \in keys
      <4>1. new[k] = [counter |-> Lesser(MaxHitCounter, d + HitIncrement), at |-> then]
        BY <3>4, <3>5 DEF Counted
      <4>2. QED
        BY <3>3, <3>5, <4>1
    <3>6. CASE k \notin keys
      <4>1. new[k] = faded[k]
        BY <3>6 DEF Counted
      <4>2. Lesser(MaxHitCounter, d + 0) = d
        BY <1>0, <3>1 DEF Lesser
      <4>3. QED
        BY <1>0, <3>1, <3>2, <3>3, <3>4, <3>6, <4>1, <4>2 DEF NoHit
    <3>7. QED
      BY <3>5, <3>6
  <2> HIDE DEF new
  <2>9. QED
    BY <1>2, <2>6, <2>7, <2>8 DEF then
<1>3. QED
  BY <1>1, <1>2

\* The ledger counts sets as the sidecar does.
LEMMA SameCardinality == \A S : Ledger!Cardinality(S) = Cardinality(S)
  BY Zenon DEF Ledger!Cardinality, Cardinality

\* The update of a bounded record is a step of the ledger.
LEMMA UpdateCounts ==
    ASSUME LInv, LInv', NEW t \in Threads, WriteRecord(t), ~blind'
    PROVE Ledger!Count(pages[t])
<1> DEFINE keys == PageKeys(t)
           kept == Entries(record'.hits)
<1>0. /\ secret[t] \in Salts /\ secret[t] = salt /\ salt # NoSalt /\ salt' = salt
      /\ current[t] = record /\ record \in Record \cup {NoRecord}
      /\ pages[t] \subseteq Pages
      /\ now[t] \in 0..MaxClock
      /\ record' = Updated(record, keys, now[t])
      /\ record = NoRecord \/ Cardinality(Entries(record.hits)) <= MaxHitEntries
  BY SidecarAssumption DEF WriteRecord, LInv, RInv, SInv, TypeOK, ReturnedOK, SecretOK, BoundOK,
                           CurrentOK, PathOK, Inside, history
<1>1. keys = {KeyOf[salt][p] : p \in pages[t]}
  BY <1>0 DEF PageKeys
<1>2. keys \in SUBSET Keys
  BY <1>0, <1>1, SidecarAssumption
<1>3. record' \in Record /\ record' # NoRecord
  BY <1>0, <1>2, UpdatedType, UpdatedEntries
<1> HIDE DEF keys
<1>4. PICK hits \in Hits :
        /\ record' = [generation |-> IF record = NoRecord THEN 1 ELSE record.generation + 1,
                      updated |-> IF record = NoRecord THEN now[t]
                                  ELSE Greater(now[t], record.updated),
                      hits |-> Trimmed[hits]]
        /\ \A k \in Keys :
             /\ hits[k].counter = Due(record, keys, record'.updated, k)
             /\ hits[k].counter > 0 =>
                    hits[k] = [counter |-> hits[k].counter, at |-> record'.updated]
  <2>1. record' = Updated(record, keys, now[t])
    BY <1>0
  <2> DEFINE new == Updated(record, keys, now[t])
  <2>2. PICK hits \in Hits :
          /\ new = [generation |-> IF record = NoRecord THEN 1 ELSE record.generation + 1,
                    updated |-> IF record = NoRecord THEN now[t]
                                ELSE Greater(now[t], record.updated),
                    hits |-> Trimmed[hits]]
          /\ \A k \in Keys :
               /\ hits[k].counter = Due(record, keys, new.updated, k)
               /\ hits[k].counter > 0 =>
                      hits[k] = [counter |-> hits[k].counter, at |-> new.updated]
    BY <1>0, <1>2, UpdatedIs
  <2> HIDE DEF new
  <2>3. record' = new
    BY <2>1 DEF new
  <2>4. QED
    BY <2>2, <2>3
<1>5. record'.hits = Trimmed[hits]
  BY <1>4
<1>6. IF record = NoRecord THEN record'.generation = 1
      ELSE record'.generation = record.generation + 1 /\ record'.updated >= record.updated
  <2>1. CASE record = NoRecord
    BY <1>4, <2>1
  <2>2. CASE record # NoRecord
    <3>1. record.updated \in Nat /\ now[t] \in Nat
      BY <1>0, <2>2, RecordAssumption DEF Record
    <3>2. record'.generation = record.generation + 1
          /\ record'.updated = Greater(now[t], record.updated)
      BY <1>4, <2>2
    <3>3. QED
      BY <2>2, <3>1, <3>2 DEF Greater
  <2>3. QED
    BY <2>1, <2>2
<1>7. Cardinality(kept) <= MaxHitEntries
  BY <1>5, TrimmingKeepsTheBest
<1>8. ASSUME NEW k \in kept
      PROVE record'.hits[k] = [counter |-> Due(record, keys, record'.updated, k),
                               at |-> record'.updated]
  <2>1. k \in Keys
    BY DEF Entries
  <2>2. hits[k].counter > 0 /\ Trimmed[hits][k] = hits[k]
    BY <1>5, <2>1, TrimmedIs
  <2>3. QED
    BY <1>4, <1>5, <2>1, <2>2
<1>9. ASSUME NEW k \in Keys \ kept
      PROVE \/ Due(record, keys, record'.updated, k) = 0
            \/ /\ Cardinality(kept) = MaxHitEntries
               /\ \A l \in kept : Due(record, keys, record'.updated, l) >=
                                    Due(record, keys, record'.updated, k)
  <2>1. hits[k].counter \in Nat
    BY HitNumbers
  <2>2. CASE hits[k].counter = 0
    BY <1>4, <2>2
  <2>3. CASE hits[k].counter > 0
    <3>1. /\ Cardinality(kept) = MaxHitEntries
          /\ \A l \in kept : hits[l].counter >= hits[k].counter
      BY <1>5, <2>3, TrimmingKeepsTheBest
    <3>2. \A l \in kept : l \in Keys
      BY DEF Entries
    <3>3. QED
      BY <1>4, <3>1, <3>2
  <2>4. QED
    BY <2>1, <2>2, <2>3
<1> HIDE DEF kept
<1> DEFINE counted == {KeyOf[salt][p] : p \in pages[t]}
           due(k) == Ledger!Lesser(MaxHitCounter, Ledger!Standing(k, record'.updated)
                                                    + IF k \in counted THEN HitIncrement ELSE 0)
           entries == Ledger!Entries(record'.hits)
<1>10. entries = kept
  BY DEF Ledger!Entries, Entries, kept
<1>11. \A k : due(k) = Due(record, keys, record'.updated, k)
  BY <1>1 DEF Ledger!Lesser, Lesser, Ledger!Standing, Ledger!Decayed, Decayed, Ledger!Greater,
              Greater, Due
<1>12. record' \in Ledger!Record
  BY <1>3 DEF Record, Hits, ManagedPageHit, Ledger!Record, Ledger!Hits, Ledger!ManagedPageHit
<1> HIDE DEF entries, due
<1>13. /\ Ledger!Cardinality(entries) <= MaxHitEntries
       /\ \A k \in entries : record'.hits[k] = [counter |-> due(k), at |-> record'.updated]
       /\ \A k \in Keys \ entries :
            \/ due(k) = 0
            \/ /\ Ledger!Cardinality(entries) = MaxHitEntries
               /\ \A l \in entries : due(l) >= due(k)
  BY <1>7, <1>8, <1>9, <1>10, <1>11, SameCardinality
<1> USE DEF entries, due
<1>14. QED
  <2>1. salt # NoSalt /\ UNCHANGED salt
    BY <1>0
  <2>2. QED
    BY <2>1, <1>6, <1>12, <1>13, Zenon DEF Ledger!Count

\* Unless a read under the lock failed, the sidecar implements the ledger (update_hits, secret).
THEOREM LedgerIsKept == Spec => KeepsLedger
<1>1. Init => Ledger!Init
  BY DEF Init, Ledger!Init
<1>2. ASSUME LInv, LInv', [Next]_vars PROVE [blind' \/ Ledger!Next]_files
  <2>1. CASE UNCHANGED files
    BY <2>1
  <2>2. ASSUME NEW t \in Threads, WriteRecord(t) PROVE blind' \/ Ledger!Next
    <3>1. pages[t] \in SUBSET Pages
      BY <1>2 DEF LInv, RInv, SInv, TypeOK
    <3>2. ~blind' => Ledger!Count(pages[t])
      BY <1>2, <2>2, UpdateCounts
    <3>3. QED
      BY <3>1, <3>2, Zenon DEF Ledger!Next
  <2>3. ASSUME NEW t \in Threads, NEW new \in Salts, MakeSalt(t, new)
        PROVE blind' \/ Ledger!Next
    <3>1. ~blind' => salt = NoSalt /\ salt' \in Salts /\ record' = record
      BY <1>2, <2>3 DEF MakeSalt, LInv, RInv, SInv, CurrentOK
    <3>2. ~blind' => Ledger!MakeSalt
      BY <3>1 DEF Ledger!MakeSalt
    <3>3. QED
      BY <3>2, Zenon DEF Ledger!Next
  <2>4. QED
    BY <1>2, <2>1, <2>2, <2>3, Writers DEF vars, files
<1>3. QED
  BY LedgerInvariance, <1>1, <1>2, PTL DEF Spec, KeepsLedger

=============================================================================
