-------------------------- MODULE VectorCache_proof --------------------------
(* A search gets the vectors of its own snapshot, and until a stale lock is removed late every   *)
(* lock of the cache directory has one holder, for any number of processes, requests and faults. *)
EXTENDS VectorCache, VectorChunks, FiniteSetTheorems, WellFoundedInduction, TLAPS

Locking == {"try", "clear"} \cup Inside

\* What a request knows in each phase
ShapeOf(r) ==
    /\ Running(r) => index[r] \in IndexObject
    /\ at[r] = "idle" => got[r] = None
    /\ at[r] = "lookup" => mine[r] \in Salts
    /\ at[r] \in {"store", "served"} => got[r] \in Contents
    /\ at[r] \in Locking =>
          /\ file[r] \in LockFiles
          /\ file[r] # SaltLock => mine[r] \in Salts /\ file[r] = RecordOf(r)
    /\ at[r] = "mint" => file[r] = SaltLock
    /\ at[r] \in Building => file[r] # SaltLock
Shape == \A r \in Requests : ShapeOf(r)

\* Two objects of a process that may still be referred to are never at one address, and an
\* entry found by the address of one is of its pages
OneObjectPerAddress == \A p \in Procs : \A o, i \in Live(p) : o.addr = i.addr => o = i
IncomingIsNew ==
    \A p \in Procs : incoming[p] # None =>
        \A o \in Live(p) : o.addr = incoming[p].addr => o = incoming[p]
EntriesOfLive ==
    \A p \in Procs : \A e \in loaded[p], o \in Live(p) : e.addr = o.addr => e.pages = o.pages
GotOfIndex == \A r \in Requests : got[r] # None => index[r] # None /\ got[r] = index[r].pages
ObjectInv == OneObjectPerAddress /\ IncomingIsNew /\ EntriesOfLive /\ GotOfIndex

\* A lock file names the request inside it
Holding ==
    \A r \in Requests : at[r] \in Inside =>
        robbed \/ (lock[file[r]] # None /\ lock[file[r]].owner = r)

\* A new salt is only made when there is none
MintFirst == \A r \in Requests : at[r] = "mint" => robbed \/ blind \/ salt = None

\* The sidecars are there by the time the manifest is published
SidecarsFirst ==
    \A r \in Requests :
        /\ at[r] \in {"metadata", "manifest"} => <<RecordOf(r), "vectors">> \in written
        /\ at[r] = "manifest" => <<RecordOf(r), "metadata">> \in written

TypeInv == TypeOK /\ Shape
VInv ==
    TypeInv /\ ObjectInv /\ Holding /\ NoRebuild /\ MintFirst /\ SidecarsFirst /\ PublishedIsWhole

-----------------------------------------------------------------------------

\* A service that has not served a request yet satisfies the invariant.
LEMMA VInitInv == Init => VInv
<1> SUFFICES ASSUME Init PROVE VInv
  OBVIOUS
<1> USE VectorAssumption
<1>1. TypeInv
  BY DEF Init, TypeInv, TypeOK, Shape, ShapeOf, Running, Locking, Inside, Building, Ended, Phases
<1>2. \A p \in Procs : Live(p) = {FirstIndex}
  BY DEF Init, Live, Running
<1>3. ObjectInv
  BY <1>2 DEF Init, ObjectInv, OneObjectPerAddress, IncomingIsNew, EntriesOfLive, GotOfIndex
<1>4. Holding /\ NoRebuild /\ MintFirst /\ SidecarsFirst /\ PublishedIsWhole
  BY DEF Init, Holding, NoRebuild, MintFirst, SidecarsFirst, PublishedIsWhole, Published,
         Inside, Building
<1>5. QED
  BY <1>1, <1>3, <1>4 DEF VInv

\* A record is named by the salt and the index of the request.
LEMMA RecordTypes ==
    ASSUME TypeInv, NEW r \in Requests, Running(r), mine[r] \in Salts
    PROVE RecordOf(r) \in Identity
  BY DEF TypeInv, Shape, ShapeOf, RecordOf, Identity, IndexObject

\* Moving on keeps the types.
LEMMA GoesTypes ==
    ASSUME TypeOK, NEW r \in Requests, NEW phase \in Phases
    PROVE /\ Goes(r, phase) => at' \in [Requests -> Phases]
          /\ Leaves(r, phase) => /\ at' \in [Requests -> Phases]
                                 /\ holder' \in [Procs -> Requests \cup {None}]
  BY VectorAssumption DEF TypeOK, Goes, Leaves

\* Removing a lock file, or failing to, keeps the types.
LEMMA UnlinkTypes ==
    ASSUME TypeOK, NEW r \in Requests, NEW f, Unlink(f, r) \/ UnlinkFails(f)
    PROVE lock' \in [LockFiles -> LockFile \cup {None}] /\ robbed' \in BOOLEAN
<1>1. lock' \in [LockFiles -> LockFile \cup {None}]
  BY DEF TypeOK, Unlink, UnlinkFails
<1>2. robbed' \in BOOLEAN
  BY DEF TypeOK, Unlink, UnlinkFails
<1>3. QED
  BY <1>1, <1>2

\* However a read ends, the faults and the history are typed.
LEMMA ReadTypes ==
    ASSUME TypeOK, NEW there, Found(there) \/ Missed(there)
    PROVE faults' \in Nat /\ blind' \in BOOLEAN
<1>1. faults' \in Nat
  BY DEF TypeOK, Found, Missed, NoFault, Fault
<1>2. blind' \in BOOLEAN
  BY DEF TypeOK, Found, Missed
<1>3. QED
  BY <1>1, <1>2

\* Every step keeps the types and the shape of the requests.
LEMMA TypeStep ==
    ASSUME TypeInv, [Next]_vars
    PROVE TypeInv'
<1> USE VectorAssumption
<1>0. ASSUME UNCHANGED vars PROVE TypeInv'
  BY <1>0
  DEF vars, service, disk, request, bounds, TypeInv, TypeOK, Shape, ShapeOf, Running, RecordOf
<1>1. ASSUME NEW r \in Requests, Search(r) PROVE TypeInv'
  <2>0. /\ {"asked", "served", "salt", "lookup", "try", "clear",
            "store", "busy", "failed"} \subseteq Phases
        /\ Inside \subseteq Phases
        /\ {"reread", "mint", "release", "embed",
            "vectors", "metadata", "manifest"} \subseteq Inside
    BY DEF Phases, Inside, Building, Ended
  <2> USE DEF Goes, Leaves, service, disk, request, bounds, NoFault, Fault, Found, Missed
  <2>1. CASE Ask(r)
    BY <2>1
    DEF Ask, TypeInv, TypeOK, Shape, ShapeOf, Running, RecordOf, Locking, Inside, Building, Ended,
        Phases
  <2>2. CASE TakeLoaded(r)
    BY <2>2
    DEF TakeLoaded, Hits, Entry, TypeInv, TypeOK, Shape, ShapeOf, Running, RecordOf, Locking,
        Inside, Building, Ended, Phases
  <2>3. CASE MissLoaded(r)
    BY <2>3
    DEF MissLoaded, TypeInv, TypeOK, Shape, ShapeOf, Running, RecordOf, Locking, Inside, Building,
        Ended, Phases
  <2>4. CASE Store(r)
    <3>1. TypeOK'
      <4>1. [addr |-> index[r].addr, digest |-> index[r].digest, pages |-> got[r]] \in Entry
        BY <2>4 DEF Store, TypeInv, Shape, ShapeOf, Running, Ended, Entry, IndexObject
      <4>2. loaded' \in [Procs -> SUBSET Entry]
        BY <2>4, <4>1 DEF Store, TypeInv, TypeOK
      <4>3. at' \in [Requests -> Phases] /\ holder' \in [Procs -> Requests \cup {None}]
        BY <2>4, <2>0, GoesTypes DEF Store, TypeInv
      <4>4. QED
        BY <2>4, <4>2, <4>3 DEF Store, TypeInv, TypeOK
    <3>2. \A q \in Requests : q # r => ShapeOf(q)'
      BY <2>4 DEF Store, TypeInv, TypeOK, Shape, ShapeOf, Running, RecordOf
    <3>3. ShapeOf(r)'
      BY <2>4
      DEF Store, TypeInv, TypeOK, Shape, ShapeOf, Running, RecordOf, Locking, Inside, Building,
          Ended, Phases
    <3>4. QED
      BY <3>1, <3>2, <3>3 DEF TypeInv, Shape
  <2>5. CASE Again(r)
    BY <2>5
    DEF Again, TypeInv, TypeOK, Shape, ShapeOf, Running, RecordOf, Locking, Inside, Building,
        Ended, Phases
  <2>6. CASE ReadSalt(r)
    <3>1. TypeOK'
      <4>1. at' \in [Requests -> Phases] /\ holder' \in [Procs -> Requests \cup {None}]
        BY <2>6, <2>0, GoesTypes DEF ReadSalt, TypeInv, TypeOK
      <4>2. mine' \in [Requests -> Salts \cup {None}]
        BY <2>6
        DEF ReadSalt, TypeInv, TypeOK, Shape, ShapeOf, Running, Ended, Locking, Inside, Building,
            LockFiles
      <4>3. file' \in [Requests -> LockFiles \cup {None}]
        BY <2>6
        DEF ReadSalt, TypeInv, TypeOK, Shape, ShapeOf, Running, Ended, Locking, Inside, Building,
            LockFiles
      <4>4. faults' \in Nat /\ blind' \in BOOLEAN
        BY <2>6, ReadTypes DEF ReadSalt, TypeInv
      <4>5. QED
        BY <2>6, <4>1, <4>2, <4>3, <4>4 DEF ReadSalt, TypeInv, TypeOK
    <3>2. \A q \in Requests : q # r => ShapeOf(q)'
      BY <2>6 DEF ReadSalt, TypeInv, TypeOK, Shape, ShapeOf, Running, RecordOf
    <3>3. ShapeOf(r)'
      BY <2>6
      DEF ReadSalt, TypeInv, TypeOK, Shape, ShapeOf, Running, RecordOf, Locking, Inside, Building,
          Ended, Phases, LockFiles
    <3>4. QED
      BY <3>1, <3>2, <3>3 DEF TypeInv, Shape
  <2>7. CASE Lookup(r)
    <3>1. TypeOK'
      <4>1. at' \in [Requests -> Phases] /\ holder' \in [Procs -> Requests \cup {None}]
        BY <2>7, <2>0, GoesTypes DEF Lookup, TypeInv, TypeOK
      <4>2. file' \in [Requests -> LockFiles \cup {None}]
        <5>1. Running(r) /\ mine[r] \in Salts
          BY <2>7 DEF Lookup, TypeInv, Shape, ShapeOf, Running, Ended
        <5>2. RecordOf(r) \in LockFiles
          BY <5>1, RecordTypes DEF LockFiles
        <5>3. QED
          BY <2>7, <5>2 DEF Lookup, TypeInv, TypeOK
      <4>3. got' \in [Requests -> Contents \cup {None}]
        BY <2>7, RecordTypes
        DEF Lookup, TypeInv, TypeOK, Shape, ShapeOf, Running, Ended, Locking, Inside, Building,
            LockFiles, IndexObject
      <4>4. faults' \in Nat /\ blind' \in BOOLEAN
        BY <2>7, ReadTypes DEF Lookup, TypeInv
      <4>5. QED
        BY <2>7, <4>1, <4>2, <4>3, <4>4 DEF Lookup, TypeInv, TypeOK
    <3>2. \A q \in Requests : q # r => ShapeOf(q)'
      BY <2>7 DEF Lookup, TypeInv, TypeOK, Shape, ShapeOf, Running, RecordOf
    <3>3. ShapeOf(r)'
      <4>1. /\ Running(r) /\ index[r] \in IndexObject /\ mine[r] \in Salts
            /\ index' = index /\ mine' = mine
        BY <2>7 DEF Lookup, TypeInv, Shape, ShapeOf, Running, Ended
      <4>2. RecordOf(r) \in LockFiles /\ RecordOf(r)' = RecordOf(r)
        BY <4>1, RecordTypes DEF LockFiles, RecordOf
      <4>3. CASE at'[r] = "store"
        <5>1. got'[r] \in Contents
          BY <2>7, <4>1, <4>3 DEF Lookup, IndexObject, TypeInv, TypeOK
        <5>2. QED
          BY <4>1, <4>3, <5>1 DEF ShapeOf, Locking, Inside, Building
      <4>4. CASE at'[r] = "try"
        <5>1. file'[r] = RecordOf(r)
          BY <2>7, <4>4 DEF Lookup, TypeInv, TypeOK
        <5>2. QED
          BY <4>1, <4>2, <4>4, <5>1 DEF ShapeOf, Locking, Inside, Building
      <4>5. at'[r] \in {"store", "try"}
        BY <2>7 DEF Lookup, TypeInv, TypeOK
      <4>6. QED
        BY <4>3, <4>4, <4>5
    <3>4. QED
      BY <3>1, <3>2, <3>3 DEF TypeInv, Shape
  <2>8. CASE Create(r)
    <3>1. TypeOK'
      <4>1. at' \in [Requests -> Phases] /\ holder' \in [Procs -> Requests \cup {None}]
        BY <2>8, <2>0, GoesTypes DEF Create, TypeInv, TypeOK
      <4>2. lock' \in [LockFiles -> LockFile \cup {None}]
        <5>1. /\ [owner |-> r, aged |-> FALSE] \in LockFile
              /\ [owner |-> Gone, aged |-> FALSE] \in LockFile
          BY DEF LockFile
        <5>2. PICK made_file \in LockFile : lock' = [lock EXCEPT ![file[r]] = made_file]
          BY <2>8, <5>1, Zenon DEF Create
        <5>3. lock \in [LockFiles -> LockFile \cup {None}]
          BY DEF TypeInv, TypeOK
        <5>4. QED
          BY <5>2, <5>3, Zenon
      <4>3. faults' \in Nat /\ blind' \in BOOLEAN
        BY <2>8 DEF Create, TypeInv, TypeOK
      <4>4. QED
        BY <2>8, <4>1, <4>2, <4>3 DEF Create, TypeInv, TypeOK
    <3>2. \A q \in Requests : q # r => ShapeOf(q)'
      BY <2>8 DEF Create, TypeInv, TypeOK, Shape, ShapeOf, Running, RecordOf
    <3>3. ShapeOf(r)'
      BY <2>8, SMTT(30)
      DEF Create, TypeInv, TypeOK, Shape, ShapeOf, Running, RecordOf, Locking, Inside, Building,
          Ended, Phases
    <3>4. QED
      BY <3>1, <3>2, <3>3 DEF TypeInv, Shape
  <2>9. CASE JudgeStale(r)
    BY <2>9
    DEF JudgeStale, TypeInv, TypeOK, Shape, ShapeOf, Running, RecordOf, Locking, Inside, Building,
        Ended, Phases
  <2>10. CASE JudgeLive(r)
    BY <2>10
    DEF JudgeLive, Waits, TypeInv, TypeOK, Shape, ShapeOf, Running, RecordOf, Locking, Inside,
        Building, Ended, Phases
  <2>11. CASE ClearStale(r)
    <3>1. lock' \in [LockFiles -> LockFile \cup {None}] /\ robbed' \in BOOLEAN
      BY <2>11, UnlinkTypes DEF ClearStale, TypeInv
    <3>2. QED
      BY <2>11, <3>1
      DEF ClearStale, Waits, UnlinkFails, TypeInv, TypeOK, Shape, ShapeOf, Running, RecordOf,
          Locking, Inside, Building, Ended, Phases
  <2>12. CASE Release(r)
    <3>1. TypeOK'
      <4>1. at' \in [Requests -> Phases] /\ holder' \in [Procs -> Requests \cup {None}]
        BY <2>12, <2>0, GoesTypes DEF Release, GoesOn, TypeInv, TypeOK
      <4>2. lock' \in [LockFiles -> LockFile \cup {None}] /\ robbed' \in BOOLEAN
        BY <2>12, UnlinkTypes DEF Release, TypeInv
      <4>3. file' \in [Requests -> LockFiles \cup {None}]
        BY <2>12 DEF Release, TypeInv, TypeOK
      <4>4. QED
        BY <2>12, <4>1, <4>2, <4>3 DEF Release, UnlinkFails, TypeInv, TypeOK
    <3>2. \A q \in Requests : q # r => ShapeOf(q)'
      BY <2>12 DEF Release, GoesOn, TypeInv, TypeOK, Shape, ShapeOf, Running, RecordOf
    <3>3. ShapeOf(r)'
      <4>1. /\ Running(r) /\ index[r] \in IndexObject
            /\ got[r] \in Contents \cup {None} /\ mine[r] \in Salts \cup {None}
        BY <2>12 DEF Release, TypeInv, TypeOK, Shape, ShapeOf, Running, Ended
      <4>2. /\ at'[r] \in {"store", "lookup", "failed"}
            /\ at'[r] = "store" => got[r] # None
            /\ at'[r] = "lookup" => mine[r] # None
        BY <2>12 DEF Release, GoesOn, TypeInv, TypeOK
      <4>3. UNCHANGED <<index, mine, got>>
        BY <2>12 DEF Release
      <4>4. QED
        BY <4>1, <4>2, <4>3 DEF ShapeOf, Running, Locking, Inside, Building, Ended
    <3>4. QED
      BY <3>1, <3>2, <3>3 DEF TypeInv, Shape
  <2>13. CASE RereadSalt(r)
    <3>1. TypeOK'
      <4>1. at' \in [Requests -> Phases] /\ holder' \in [Procs -> Requests \cup {None}]
        BY <2>13, <2>0, GoesTypes DEF RereadSalt, TypeInv, TypeOK
      <4>2. mine' \in [Requests -> Salts \cup {None}]
        BY <2>13
        DEF RereadSalt, TypeInv, TypeOK, Shape, ShapeOf, Running, Ended, Locking, Inside, Building
      <4>3. faults' \in Nat /\ blind' \in BOOLEAN
        BY <2>13, ReadTypes DEF RereadSalt, TypeInv
      <4>4. QED
        BY <2>13, <4>1, <4>2, <4>3 DEF RereadSalt, TypeInv, TypeOK
    <3>2. \A q \in Requests : q # r => ShapeOf(q)'
      BY <2>13 DEF RereadSalt, TypeInv, TypeOK, Shape, ShapeOf, Running, RecordOf
    <3>3. ShapeOf(r)'
      BY <2>13
      DEF RereadSalt, TypeInv, TypeOK, Shape, ShapeOf, Running, RecordOf, Locking, Inside,
          Building, Ended, Phases
    <3>4. QED
      BY <3>1, <3>2, <3>3 DEF TypeInv, Shape
  <2>14. CASE Mint(r)
    BY <2>14
    DEF Mint, Salts, TypeInv, TypeOK, Shape, ShapeOf, Running, RecordOf, Locking, Inside,
        Building, Ended, Phases
  <2>15. CASE RereadRecord(r)
    <3>1. TypeOK'
      <4>1. at' \in [Requests -> Phases] /\ holder' \in [Procs -> Requests \cup {None}]
        BY <2>15, <2>0, GoesTypes DEF RereadRecord, TypeInv, TypeOK
      <4>2. got' \in [Requests -> Contents \cup {None}]
        BY <2>15
        DEF RereadRecord, TypeInv, TypeOK, Shape, ShapeOf, Running, Ended, Locking, Inside,
            Building, IndexObject
      <4>3. faults' \in Nat /\ blind' \in BOOLEAN
        BY <2>15, ReadTypes DEF RereadRecord, TypeInv
      <4>4. QED
        BY <2>15, <4>1, <4>2, <4>3 DEF RereadRecord, TypeInv, TypeOK
    <3>2. \A q \in Requests : q # r => ShapeOf(q)'
      BY <2>15 DEF RereadRecord, TypeInv, TypeOK, Shape, ShapeOf, Running, RecordOf
    <3>3. ShapeOf(r)'
      <4>1. /\ Running(r) /\ index[r] \in IndexObject /\ file[r] # SaltLock
            /\ file[r] \in LockFiles /\ mine[r] \in Salts /\ file[r] = RecordOf(r)
        BY <2>15
        DEF RereadRecord, TypeInv, Shape, ShapeOf, Running, Ended, Locking, Inside
      <4>2. at'[r] \in {"release", "embed"} /\ UNCHANGED <<index, mine, file>>
        BY <2>15 DEF RereadRecord, TypeInv, TypeOK
      <4>3. QED
        BY <4>1, <4>2
        DEF ShapeOf, Running, RecordOf, Locking, Inside, Building, Ended
    <3>4. QED
      BY <3>1, <3>2, <3>3 DEF TypeInv, Shape
  <2>16. CASE Embed(r)
    BY <2>16
    DEF Embed, TypeInv, TypeOK, Shape, ShapeOf, Running, RecordOf, Locking, Inside, Building,
        Ended, Phases
  <2>17. CASE Publish(r)
    <3>1. /\ Running(r) /\ file[r] # SaltLock /\ at[r] \in Building
          /\ index[r] \in IndexObject /\ mine[r] \in Salts /\ file[r] = RecordOf(r)
      BY <2>17
      DEF Publish, Parts, TypeInv, Shape, ShapeOf, Running, Ended, Locking, Inside, Building
    <3>2. /\ After[at[r]] \in {"metadata", "manifest", "release"}
          /\ Goes(r, After[at[r]]) \/ Goes(r, "release")
      BY <2>17 DEF Publish, After, Parts
    <3>3. at' \in [Requests -> Phases]
      BY <3>2, <2>0, GoesTypes DEF TypeInv
    <3>4. got' \in [Requests -> Contents \cup {None}]
      BY <2>17, <3>1 DEF Publish, IndexObject, TypeInv, TypeOK
    <3>5. written' \subseteq Identity \X Parts
      <4>1. RecordOf(r) \in Identity
        BY <3>1, RecordTypes
      <4>2. QED
        BY <2>17, <4>1 DEF Publish, TypeInv, TypeOK
    <3>6. TypeOK'
      BY <2>17, <3>3, <3>4, <3>5 DEF Publish, TypeInv, TypeOK
    <3>7. \A q \in Requests : q # r => ShapeOf(q)'
      BY <2>17 DEF Publish, TypeInv, TypeOK, Shape, ShapeOf, Running, RecordOf
    <3>8. ShapeOf(r)'
      <4>1. at'[r] \in {"metadata", "manifest", "release"}
        BY <3>2 DEF TypeInv, TypeOK
      <4>2. UNCHANGED <<index, mine, file>>
        BY <2>17 DEF Publish
      <4>3. QED
        BY <3>1, <4>1, <4>2
        DEF TypeInv, Shape, ShapeOf, Running, RecordOf, Locking, Inside, Building, Ended
    <3>9. QED
      BY <3>6, <3>7, <3>8 DEF TypeInv, Shape
  <2>18. QED
    BY <1>1, <2>1, <2>2, <2>3, <2>4, <2>5, <2>6, <2>7, <2>8, <2>9, <2>10, <2>11, <2>12, <2>13,
       <2>14, <2>15, <2>16, <2>17 DEF Search
<1>2. ASSUME NEW p \in Procs, Build(p) \/ PublishIndex(p) PROVE TypeInv'
  BY <1>2
  DEF Build, PublishIndex, service, disk, request, bounds, TypeInv, TypeOK, Shape, ShapeOf,
      Running, RecordOf
<1>3. ASSUME NEW p \in Procs, Crash(p) PROVE TypeInv'
  BY <1>3
  DEF Crash, Fault, Orphan, LockFile, service, disk, request, bounds, TypeInv, TypeOK, Shape,
      ShapeOf, Running, RecordOf, Locking, Inside, Building, Ended, Phases
<1>4. ASSUME NEW f \in LockFiles, Age(f) PROVE TypeInv'
  <2>1. UNCHANGED <<service, salt, written, request, bounds, robbed, blind>>
    BY <1>4 DEF Age
  <2>2. lock' \in [LockFiles -> LockFile \cup {None}]
    <3>1. lock \in [LockFiles -> LockFile \cup {None}] /\ lock[f] \in LockFile
      BY <1>4 DEF Age, TypeInv, TypeOK
    <3>2. [lock[f] EXCEPT !.aged = TRUE] \in LockFile
      BY <3>1 DEF LockFile
    <3>3. lock' = [lock EXCEPT ![f] = [lock[f] EXCEPT !.aged = TRUE]]
      BY <1>4 DEF Age
    <3>4. QED
      BY <3>1, <3>2, <3>3, Zenon
  <2>3. QED
    BY <2>1, <2>2
    DEF service, request, bounds, TypeInv, TypeOK, Shape, ShapeOf, Running, RecordOf
<1>5. QED
  BY <1>0, <1>1, <1>2, <1>3, <1>4 DEF Next

-----------------------------------------------------------------------------

\* A search never brings an object to life that was not, and leaves the index of the service
\* and what a refresh is publishing alone.
LEMMA SearchKeepsObjects ==
    ASSUME TypeInv, NEW r \in Requests, Search(r)
    PROVE /\ current' = current /\ incoming' = incoming
          /\ \A p \in Procs : Live(p)' \subseteq Live(p)
<1> USE DEF Goes, Leaves, service
<1>1. current' = current /\ incoming' = incoming
  BY DEF Search, Ask, TakeLoaded, MissLoaded, Store, Again, ReadSalt, Lookup, Create, JudgeStale,
         JudgeLive, ClearStale, Release, RereadSalt, Mint, RereadRecord, Embed, Publish
<1>2. CASE Ask(r)
  BY <1>1, <1>2, VectorAssumption DEF Ask, Live, Running, TypeInv, TypeOK
<1>3. CASE ~Ask(r)
  <2>1. \A q \in Requests : Running(q)' => Running(q) /\ index'[q] = index[q]
    <3> USE DEF TypeInv, TypeOK, Running, Ended, request
    <3>1. CASE TakeLoaded(r) \/ MissLoaded(r) \/ Store(r) \/ Again(r)
      BY <3>1 DEF TakeLoaded, MissLoaded, Store, Again
    <3>2. CASE ReadSalt(r) \/ Lookup(r) \/ Create(r)
      BY <3>2 DEF ReadSalt, Lookup, Create
    <3>3. CASE JudgeStale(r) \/ JudgeLive(r) \/ ClearStale(r) \/ Release(r)
      BY <3>3 DEF JudgeStale, JudgeLive, ClearStale, Release, GoesOn, Waits
    <3>4. CASE RereadSalt(r) \/ Mint(r) \/ RereadRecord(r) \/ Embed(r)
      BY <3>4 DEF RereadSalt, Mint, RereadRecord, Embed
    <3>5. CASE Publish(r)
      BY <3>5 DEF Publish, Parts
    <3>6. QED
      BY <1>3, <3>1, <3>2, <3>3, <3>4, <3>5 DEF Search
  <2>2. QED
    BY <1>1, <2>1 DEF Live
<1>4. QED
  BY <1>1, <1>2, <1>3

\* The index of a running search is alive.
LEMMA RunningIsLive ==
    ASSUME TypeInv, NEW r \in Requests, Running(r)
    PROVE ProcOf[r] \in Procs /\ index[r] \in Live(ProcOf[r])
  BY VectorAssumption DEF Live

\* Every step keeps addresses apart, and what is found by them right.
LEMMA ObjectStep ==
    ASSUME TypeInv, TypeInv', ObjectInv, [Next]_vars
    PROVE ObjectInv'
<1>0. ASSUME UNCHANGED vars PROVE ObjectInv'
  BY <1>0 DEF vars, service, request, ObjectInv, OneObjectPerAddress, IncomingIsNew,
              EntriesOfLive, GotOfIndex, Live, Running
<1>1. ASSUME NEW r \in Requests, Search(r) PROVE ObjectInv'
  <2>1. /\ current' = current /\ incoming' = incoming
        /\ \A p \in Procs : Live(p)' \subseteq Live(p)
    BY <1>1, SearchKeepsObjects
  <2>2. OneObjectPerAddress' /\ IncomingIsNew'
    BY <2>1 DEF ObjectInv, OneObjectPerAddress, IncomingIsNew
  <2>3. EntriesOfLive'
    <3>1. CASE Store(r)
      <4>1. Running(r) /\ got[r] # None
        BY <3>1, VectorAssumption DEF Store, Running, Ended, TypeInv, Shape, ShapeOf
      <4>2. got[r] = index[r].pages /\ index[r] \in Live(ProcOf[r])
        BY <4>1, RunningIsLive DEF ObjectInv, GotOfIndex
      <4>3. SUFFICES ASSUME NEW p \in Procs, NEW e \in loaded'[p], NEW o \in Live(p)',
                            e.addr = o.addr
                     PROVE e.pages = o.pages
        BY DEF EntriesOfLive
      <4>4. o \in Live(p)
        BY <2>1
      <4>5. CASE e \in loaded[p]
        BY <4>3, <4>4, <4>5 DEF ObjectInv, EntriesOfLive
      <4>6. CASE e \notin loaded[p]
        <5>1. p = ProcOf[r] /\ e.addr = index[r].addr /\ e.pages = got[r]
          BY <3>1, <4>6, <4>3 DEF Store, TypeInv, TypeOK
        <5>2. index[r] = o
          BY <5>1, <4>2, <4>3, <4>4 DEF ObjectInv, OneObjectPerAddress
        <5>3. QED
          BY <5>1, <5>2, <4>2
      <4>7. QED
        BY <4>5, <4>6
    <3>2. CASE ~Store(r)
      <4>1. loaded' = loaded
        BY <1>1, <3>2 DEF service, Search, Ask, TakeLoaded, MissLoaded, Again, ReadSalt, Lookup,
               Create, JudgeStale, JudgeLive, ClearStale, Release, RereadSalt, Mint, RereadRecord,
               Embed, Publish
      <4>2. QED
        BY <2>1, <4>1 DEF ObjectInv, EntriesOfLive
    <3>3. QED
      BY <3>1, <3>2
  <2>4. GotOfIndex'
    <3> USE DEF ObjectInv, GotOfIndex
    <3>1. CASE Ask(r)
      BY <3>1, VectorAssumption DEF Ask, TypeInv, TypeOK, Shape, ShapeOf
    <3>2. CASE TakeLoaded(r)
      <4>1. Running(r)
        BY <3>2 DEF TakeLoaded, Running, Ended
      <4>2. PICK e \in loaded[ProcOf[r]] :
                e.addr = index[r].addr /\ got' = [got EXCEPT ![r] = e.pages]
        BY <3>2 DEF TakeLoaded, Hits
      <4>3. e.pages = index[r].pages
        BY <4>1, <4>2, RunningIsLive DEF EntriesOfLive
      <4>4. index[r] \in IndexObject
        BY <4>1 DEF TypeInv, Shape, ShapeOf
      <4>5. QED
        BY <3>2, <4>2, <4>3, <4>4, VectorAssumption DEF TakeLoaded, TypeInv, TypeOK
    <3>3. CASE Again(r)
      BY <3>3 DEF Again, TypeInv, TypeOK
    <3>4. CASE Lookup(r) \/ RereadRecord(r) \/ Publish(r)
      <4>1. index[r] \in IndexObject
        BY <3>4 DEF Lookup, RereadRecord, Publish, Parts, Running, Ended, TypeInv, Shape, ShapeOf
      <4>2. index' = index /\ (got' = got \/ got' = [got EXCEPT ![r] = index[r].pages])
        BY <3>4 DEF Lookup, RereadRecord, Publish
      <4>3. QED
        BY <4>1, <4>2, VectorAssumption DEF TypeInv, TypeOK
    <3>5. CASE ~(Ask(r) \/ TakeLoaded(r) \/ Again(r) \/ Lookup(r) \/ RereadRecord(r) \/ Publish(r))
      <4>1. index' = index /\ got' = got
        BY <1>1, <3>5 DEF Search, MissLoaded, Store, ReadSalt, Create, JudgeStale, JudgeLive,
               ClearStale, Release, GoesOn, RereadSalt, Mint, Embed
      <4>2. QED
        BY <4>1
    <3>6. QED
      BY <3>1, <3>2, <3>3, <3>4, <3>5
  <2>5. QED
    BY <2>2, <2>3, <2>4 DEF ObjectInv
<1>2. ASSUME NEW p \in Procs, Build(p) PROVE ObjectInv'
  <2>1. /\ current' = current /\ loaded' = loaded /\ at' = at /\ index' = index /\ got' = got
        /\ \A q \in Procs : q # p => incoming'[q] = incoming[q]
        /\ \A o \in Live(p) : o.addr = incoming'[p].addr => o = incoming'[p]
    BY <1>2 DEF Build, request, TypeInv, TypeOK
  <2>2. \A q \in Procs : Live(q)' = Live(q)
    BY <2>1 DEF Live, Running
  <2>3. QED
    BY <2>1, <2>2 DEF ObjectInv, OneObjectPerAddress, IncomingIsNew, EntriesOfLive, GotOfIndex
<1>3. ASSUME NEW p \in Procs, PublishIndex(p) PROVE ObjectInv'
  <2>1. /\ at' = at /\ index' = index /\ got' = got
        /\ incoming[p] # None /\ incoming'[p] = None /\ current'[p] = incoming[p]
        /\ loaded'[p] = {}
        /\ \A q \in Procs : q # p => /\ incoming'[q] = incoming[q] /\ current'[q] = current[q]
                                     /\ loaded'[q] = loaded[q]
    BY <1>3 DEF PublishIndex, request, TypeInv, TypeOK
  <2>2. /\ Live(p)' \subseteq Live(p) \cup {incoming[p]}
        /\ \A q \in Procs : q # p => Live(q)' = Live(q)
    BY <2>1 DEF Live, Running
  <2>3. OneObjectPerAddress'
    BY <2>1, <2>2 DEF ObjectInv, OneObjectPerAddress, IncomingIsNew
  <2>4. IncomingIsNew' /\ EntriesOfLive' /\ GotOfIndex'
    BY <2>1, <2>2 DEF ObjectInv, IncomingIsNew, EntriesOfLive, GotOfIndex
  <2>5. QED
    BY <2>3, <2>4 DEF ObjectInv
<1>4. ASSUME NEW p \in Procs, Crash(p) PROVE ObjectInv'
  <2>1. /\ current' = current /\ index' = index /\ got' = got
        /\ \A q \in Procs : incoming'[q] = None \/ incoming'[q] = incoming[q]
        /\ \A q \in Procs : loaded'[q] \subseteq loaded[q]
    BY <1>4 DEF Crash, TypeInv, TypeOK
  <2>2. \A r \in Requests : Running(r)' => Running(r)
    BY <1>4 DEF Crash, Running, Ended
  <2>3. \A q \in Procs : Live(q)' \subseteq Live(q)
    BY <2>1, <2>2 DEF Live
  <2>4. QED
    BY <2>1, <2>3 DEF ObjectInv, OneObjectPerAddress, IncomingIsNew, EntriesOfLive, GotOfIndex
<1>5. ASSUME NEW f \in LockFiles, Age(f) PROVE ObjectInv'
  BY <1>5 DEF Age, service, request, ObjectInv, OneObjectPerAddress, IncomingIsNew,
              EntriesOfLive, GotOfIndex, Live, Running
<1>6. QED
  BY <1>0, <1>1, <1>2, <1>3, <1>4, <1>5 DEF Next

-----------------------------------------------------------------------------

LockInv == Holding /\ NoRebuild /\ MintFirst /\ SidecarsFirst /\ PublishedIsWhole

\* Two requests are not inside one lock.
LEMMA HoldingIsExclusive == ASSUME Holding PROVE OneBuilderUnlessRobbed
  BY DEF Holding, OneBuilderUnlessRobbed, OneBuilder

\* The actions of a search other than those on lock files leave the lock files alone, and
\* enter no lock.
LEMMA LocksUntouched ==
    ASSUME TypeInv, NEW r \in Requests,
           Search(r), ~Create(r), ~ClearStale(r), ~Release(r)
    PROVE /\ lock' = lock /\ robbed' = robbed
          /\ \A q \in Requests :
                at'[q] \in Inside => at[q] \in Inside /\ file'[q] = file[q]
<1> USE DEF Goes, Leaves, disk, TypeInv, TypeOK, Inside, Building, Ended
<1>1. CASE Ask(r) \/ TakeLoaded(r) \/ MissLoaded(r) \/ Store(r) \/ Again(r)
  BY <1>1 DEF Ask, TakeLoaded, MissLoaded, Store, Again
<1>2. CASE ReadSalt(r) \/ Lookup(r) \/ JudgeStale(r) \/ JudgeLive(r)
  BY <1>2 DEF ReadSalt, Lookup, JudgeStale, JudgeLive, Waits
<1>3. CASE RereadSalt(r) \/ Mint(r) \/ RereadRecord(r) \/ Embed(r)
  BY <1>3 DEF RereadSalt, Mint, RereadRecord, Embed
<1>4. CASE Publish(r)
  BY <1>4 DEF Publish, Parts
<1>5. QED
  BY <1>1, <1>2, <1>3, <1>4 DEF Search

\* Every step of a search keeps the locks held, and what is done under them.
LEMMA HoldingStep ==
    ASSUME TypeInv, Holding, NEW r \in Requests, Search(r)
    PROVE Holding'
<1>1. SUFFICES ASSUME NEW q \in Requests, at'[q] \in Inside, ~robbed'
               PROVE lock'[file'[q]] # None /\ lock'[file'[q]].owner = q
  BY DEF Holding
<1>2. CASE Create(r)
  <2>1. robbed' = robbed /\ file' = file
    BY <1>2 DEF Create
  <2>2. CASE q = r
    <3>1. at'[r] = "reread"
      BY <1>1, <1>2, <2>2 DEF Create, Goes, Leaves, TypeInv, TypeOK, Inside, Building
    <3>2. file[r] \in LockFiles
      BY <1>2 DEF Create, TypeInv, Shape, ShapeOf, Locking
    <3>3. lock' = [lock EXCEPT ![file[r]] = [owner |-> r, aged |-> FALSE]]
      BY <1>2, <3>1 DEF Create, Goes, Leaves, TypeInv, TypeOK
    <3>4. [owner |-> r, aged |-> FALSE] # None
      <4>1. [owner |-> r, aged |-> FALSE] \in LockFile
        BY DEF LockFile
      <4>2. QED
        BY <4>1, VectorAssumption
    <3>5. QED
      BY <2>1, <2>2, <3>2, <3>3, <3>4 DEF TypeInv, TypeOK
  <2>3. CASE q # r
    <3>1. at[q] \in Inside
      BY <1>1, <1>2, <2>3 DEF Create, Goes, Leaves, TypeInv, TypeOK
    <3>2. lock[file[q]] # None /\ lock[file[q]].owner = q
      BY <1>1, <2>1, <3>1 DEF Holding
    <3>3. file[q] # file[r]
      BY <1>2, <3>2 DEF Create
    <3>4. lock'[file[q]] = lock[file[q]]
      BY <1>2, <3>1, <3>3 DEF Create, TypeInv, TypeOK, Shape, ShapeOf, Locking
    <3>5. QED
      BY <2>1, <3>2, <3>4
  <2>4. QED
    BY <2>2, <2>3
<1>3. CASE ClearStale(r) \/ Release(r)
  <2>1. q # r /\ at[q] \in Inside /\ file'[q] = file[q]
    BY <1>1, <1>3 DEF ClearStale, Release, GoesOn, Waits, Goes, Leaves, TypeInv, TypeOK, Inside, Building
  <2>2. CASE Unlink(file[r], r)
    <3>1. ~robbed
      BY <1>1, <2>2, VectorAssumption DEF Unlink, TypeInv, TypeOK
    <3>2. lock[file[q]] # None /\ lock[file[q]].owner = q
      BY <2>1, <3>1 DEF Holding
    <3>3. file[q] # file[r]
      BY <1>1, <2>1, <2>2, <3>2, VectorAssumption DEF Unlink
    <3>4. file[q] \in LockFiles
      BY <2>1 DEF TypeInv, Shape, ShapeOf, Locking
    <3>5. lock'[file[q]] = lock[file[q]]
      BY <2>2, <3>3, <3>4 DEF Unlink, TypeInv, TypeOK
    <3>6. QED
      BY <2>1, <3>2, <3>5
  <2>3. CASE UnlinkFails(file[r])
    BY <1>1, <2>1, <2>3 DEF UnlinkFails, Holding
  <2>4. QED
    BY <1>3, <2>2, <2>3 DEF ClearStale, Release
<1>4. CASE ~Create(r) /\ ~ClearStale(r) /\ ~Release(r)
  BY <1>1, <1>4, LocksUntouched DEF Holding
<1>5. QED
  BY <1>2, <1>3, <1>4

\* A search keeps the records whole and builds none that is published.
LEMMA BuildStep ==
    ASSUME TypeInv, TypeInv', LockInv, NEW r \in Requests, Search(r)
    PROVE NoRebuild' /\ SidecarsFirst' /\ PublishedIsWhole'
<1> USE DEF Goes, Leaves, disk, bounds
<1>1. OneBuilderUnlessRobbed
  BY HoldingIsExclusive DEF LockInv
<1>2. CASE Publish(r)
  <2>1. /\ Running(r) /\ at[r] \in {"vectors", "metadata", "manifest"}
        /\ file[r] # SaltLock /\ file[r] = RecordOf(r)
    BY <1>2 DEF Publish, Parts, TypeInv, Shape, ShapeOf, Running, Ended, Locking, Inside, Building
  <2>2. /\ index' = index /\ mine' = mine /\ robbed' = robbed /\ blind' = blind
        /\ \A q \in Requests : RecordOf(q)' = RecordOf(q)
        /\ \A q \in Requests : q # r => at'[q] = at[q]
    BY <1>2 DEF Publish, RecordOf, TypeInv, TypeOK
  <2>3. \/ written' = written \cup {<<RecordOf(r), at[r]>>} /\ at'[r] = After[at[r]]
        \/ written' = written /\ at'[r] = "release"
    BY <1>2 DEF Publish, TypeInv, TypeOK
  <2>4. NoRebuild'
    <3>1. SUFFICES ASSUME ~robbed, ~blind, NEW q \in Requests, at'[q] \in Building
                   PROVE <<RecordOf(q), "manifest">> \notin written'
      BY <2>2 DEF NoRebuild, Published
    <3>2. CASE q = r
      <4>1. at[r] # "manifest"
        BY <2>1, <2>3, <3>1, <3>2 DEF After, Building
      <4>2. <<RecordOf(r), "manifest">> \notin written
        BY <2>1, <3>1 DEF LockInv, NoRebuild, Published, Building
      <4>3. QED
        BY <2>1, <2>3, <3>2, <4>1, <4>2
    <3>3. CASE q # r
      <4>1. at[q] \in Building
        BY <2>2, <3>1, <3>3
      <4>2. file[q] # file[r] /\ file[q] = RecordOf(q)
        <5>1. at[q] \in Inside /\ at[r] \in Inside
          BY <2>1, <4>1 DEF Inside, Building
        <5>2. QED
          BY <1>1, <3>1, <3>3, <4>1, <5>1
          DEF OneBuilderUnlessRobbed, OneBuilder, TypeInv, Shape, ShapeOf, Locking
      <4>3. <<RecordOf(q), "manifest">> \notin written
        BY <3>1, <4>1 DEF LockInv, NoRebuild, Published
      <4>4. QED
        BY <2>1, <2>3, <4>2, <4>3
    <3>4. QED
      BY <3>2, <3>3
  <2>5. SidecarsFirst'
    <3>1. written \subseteq written'
      BY <2>3
    <3>2. at'[r] \in {"metadata", "manifest"} => <<RecordOf(r), "vectors">> \in written'
      BY <2>1, <2>3, <3>1 DEF LockInv, SidecarsFirst, After
    <3>3. at'[r] = "manifest" => <<RecordOf(r), "metadata">> \in written'
      BY <2>1, <2>3, <3>1 DEF LockInv, SidecarsFirst, After
    <3>4. QED
      BY <2>2, <3>1, <3>2, <3>3 DEF LockInv, SidecarsFirst
  <2>6. PublishedIsWhole'
    <3>1. SUFFICES ASSUME NEW id \in Identity, <<id, "manifest">> \in written', NEW part \in Parts
                   PROVE <<id, part>> \in written'
      BY DEF PublishedIsWhole, Published
    <3>2. CASE <<id, "manifest">> \in written
      BY <2>3, <3>1, <3>2 DEF LockInv, PublishedIsWhole, Published
    <3>3. CASE <<id, "manifest">> \notin written
      <4>1. id = RecordOf(r) /\ at[r] = "manifest"
        BY <2>3, <3>1, <3>3
      <4>2. QED
        BY <2>3, <3>1, <3>3, <4>1 DEF LockInv, SidecarsFirst, Parts
    <3>4. QED
      BY <3>2, <3>3
  <2>7. QED
    BY <2>4, <2>5, <2>6
<1>3. CASE ~Publish(r)
  <2>1. written' = written /\ (robbed => robbed') /\ (blind => blind')
    <3>1. written' = written
      BY <1>3 DEF Search, Ask, TakeLoaded, MissLoaded, Store, Again, ReadSalt, Lookup, Create,
             JudgeStale, JudgeLive, ClearStale, Release, RereadSalt, Mint, RereadRecord, Embed
    <3>2. robbed => robbed'
      BY DEF Search, Ask, TakeLoaded, MissLoaded, Store, Again, ReadSalt, Lookup, Create,
             JudgeStale, JudgeLive, ClearStale, Release, RereadSalt, Mint, RereadRecord, Embed,
             Publish, Unlink, UnlinkFails
    <3>3. blind => blind'
      BY DEF Search, Ask, TakeLoaded, MissLoaded, Store, Again, ReadSalt, Lookup, Create,
             JudgeStale, JudgeLive, ClearStale, Release, RereadSalt, Mint, RereadRecord, Embed,
             Publish, Found, Missed
    <3>4. QED
      BY <3>1, <3>2, <3>3
  <2>2. \A q \in Requests : at'[q] \in Building =>
            /\ RecordOf(q)' = RecordOf(q)
            /\ \/ at[q] \in Building /\ (at'[q] = at[q] \/ at'[q] = "vectors")
               \/ at'[q] = "embed" /\ (~Published(RecordOf(q)) \/ blind')
    <3> USE DEF TypeInv, TypeOK, RecordOf, Building, Ended
    <3>1. CASE Ask(r) \/ TakeLoaded(r) \/ MissLoaded(r) \/ Store(r) \/ Again(r)
      BY <3>1 DEF Ask, TakeLoaded, MissLoaded, Store, Again
    <3>2. CASE ReadSalt(r) \/ Lookup(r) \/ Create(r)
      BY <3>2 DEF ReadSalt, Lookup, Create
    <3>3. CASE JudgeStale(r) \/ JudgeLive(r) \/ ClearStale(r) \/ Release(r)
      BY <3>3 DEF JudgeStale, JudgeLive, ClearStale, Release, GoesOn, Waits
    <3>4. CASE RereadSalt(r) \/ Mint(r) \/ Embed(r)
      BY <3>4 DEF RereadSalt, Mint, Embed
    <3>5. CASE RereadRecord(r)
      BY <3>5 DEF RereadRecord, Missed
    <3>6. QED
      BY <1>3, <3>1, <3>2, <3>3, <3>4, <3>5 DEF Search
  <2>3. NoRebuild'
    <3>1. SUFFICES ASSUME ~robbed', ~blind', NEW q \in Requests, at'[q] \in Building
                   PROVE <<RecordOf(q)', "manifest">> \notin written
      BY <2>1 DEF NoRebuild, Published
    <3>2. QED
      BY <2>1, <2>2, <3>1 DEF LockInv, NoRebuild, Published
  <2>4. SidecarsFirst'
    BY <2>1, <2>2 DEF LockInv, SidecarsFirst, Building
  <2>5. PublishedIsWhole'
    BY <2>1 DEF LockInv, PublishedIsWhole, Published
  <2>6. QED
    BY <2>3, <2>4, <2>5
<1>4. QED
  BY <1>2, <1>3

\* Nobody makes a salt while another does.
LEMMA MintStep ==
    ASSUME TypeInv, LockInv, NEW r \in Requests, Search(r)
    PROVE MintFirst'
<1> USE DEF Goes, Leaves, disk, bounds, TypeInv, TypeOK
<1>1. SUFFICES ASSUME NEW q \in Requests, at'[q] = "mint", ~robbed', ~blind'
               PROVE salt' = None
  BY DEF MintFirst
<1>2. ~robbed
  BY <1>1 DEF Search, Ask, TakeLoaded, MissLoaded, Store, Again, ReadSalt, Lookup, Create,
         JudgeStale, JudgeLive, ClearStale, Release, RereadSalt, Mint, RereadRecord, Embed,
         Publish, Unlink, UnlinkFails
<1>3. CASE Mint(r)
  <2>1. q # r /\ at[q] = "mint" /\ at[r] = "mint"
    BY <1>1, <1>3 DEF Mint
  <2>2. at[q] \in Inside /\ at[r] \in Inside
    BY <2>1 DEF Inside
  <2>3. file[q] = SaltLock /\ file[r] = SaltLock
    BY <2>1 DEF Shape, ShapeOf
  <2>4. QED
    BY <1>2, <2>1, <2>2, <2>3, HoldingIsExclusive DEF LockInv, OneBuilderUnlessRobbed, OneBuilder
<1>4. CASE RereadSalt(r)
  <2>1. CASE q = r
    BY <1>1, <1>4, <2>1 DEF RereadSalt, Missed
  <2>2. CASE q # r
    BY <1>1, <1>2, <1>4, <2>2 DEF RereadSalt, Found, Missed, LockInv, MintFirst
  <2>3. QED
    BY <2>1, <2>2
<1>5. CASE ~Mint(r) /\ ~RereadSalt(r)
  <2>1. salt' = salt
    BY <1>5 DEF Search, Ask, TakeLoaded, MissLoaded, Store, Again, ReadSalt, Lookup, Create,
           JudgeStale, JudgeLive, ClearStale, Release, RereadRecord, Embed, Publish
  <2>2. at[q] = "mint"
    <3>1. CASE Ask(r) \/ TakeLoaded(r) \/ MissLoaded(r) \/ Store(r) \/ Again(r)
      BY <1>1, <3>1 DEF Ask, TakeLoaded, MissLoaded, Store, Again
    <3>2. CASE ReadSalt(r) \/ Lookup(r) \/ Create(r)
      BY <1>1, <3>2 DEF ReadSalt, Lookup, Create
    <3>3. CASE JudgeStale(r) \/ JudgeLive(r) \/ ClearStale(r) \/ Release(r)
      BY <1>1, <3>3 DEF JudgeStale, JudgeLive, ClearStale, Release, GoesOn, Waits
    <3>4. CASE RereadRecord(r) \/ Embed(r)
      BY <1>1, <3>4 DEF RereadRecord, Embed
    <3>5. CASE Publish(r)
      BY <1>1, <3>5 DEF Publish, Parts, After
    <3>6. QED
      BY <1>5, <3>1, <3>2, <3>3, <3>4, <3>5 DEF Search
  <2>3. ~blind
    BY <1>1, <1>5 DEF Search, Ask, TakeLoaded, MissLoaded, Store, Again, ReadSalt, Lookup, Create,
           JudgeStale, JudgeLive, ClearStale, Release, RereadRecord, Embed, Publish, Found, Missed
  <2>4. QED
    BY <1>2, <2>1, <2>2, <2>3 DEF LockInv, MintFirst
<1>6. QED
  BY <1>3, <1>4, <1>5

\* Every step keeps what the locks protect.
LEMMA LockStep ==
    ASSUME TypeInv, TypeInv', LockInv, [Next]_vars
    PROVE LockInv'
<1>0. ASSUME UNCHANGED vars PROVE LockInv'
  BY <1>0 DEF vars, disk, request, LockInv, Holding, NoRebuild, MintFirst, SidecarsFirst,
              PublishedIsWhole, Published, RecordOf
<1>1. ASSUME NEW r \in Requests, Search(r) PROVE LockInv'
  BY <1>1, HoldingStep, BuildStep, MintStep DEF LockInv
<1>2. ASSUME NEW p \in Procs, Build(p) \/ PublishIndex(p) PROVE LockInv'
  BY <1>2 DEF Build, PublishIndex, disk, request, LockInv, Holding, NoRebuild, MintFirst,
              SidecarsFirst, PublishedIsWhole, Published, RecordOf
<1>3. ASSUME NEW p \in Procs, Crash(p) PROVE LockInv'
  <2>1. /\ UNCHANGED <<salt, written, index, mine, file, robbed, blind>>
        /\ \A r \in Requests : RecordOf(r)' = RecordOf(r)
        /\ \A r \in Requests : at'[r] = "dead" \/ at'[r] = at[r]
        /\ \A r \in Requests : ProcOf[r] = p /\ Running(r) => at'[r] = "dead"
    BY <1>3 DEF Crash, RecordOf
  <2>2. NoRebuild' /\ MintFirst' /\ SidecarsFirst' /\ PublishedIsWhole'
    BY <2>1
    DEF LockInv, NoRebuild, MintFirst, SidecarsFirst, PublishedIsWhole, Published, Building
  <2>3. Holding'
    <3>1. SUFFICES ASSUME NEW q \in Requests, at'[q] \in Inside, ~robbed
                   PROVE lock'[file[q]] # None /\ lock'[file[q]].owner = q
      BY <2>1 DEF Holding
    <3>2. at[q] \in Inside /\ Running(q) /\ ProcOf[q] # p
      BY <2>1, <3>1 DEF Inside, Building, Running, Ended
    <3>3. lock[file[q]] # None /\ lock[file[q]].owner = q /\ file[q] \in LockFiles
      BY <3>1, <3>2 DEF LockInv, Holding, TypeInv, Shape, ShapeOf, Locking
    <3>4. ~Orphan(lock[file[q]], p)
      BY <3>2, <3>3 DEF Orphan
    <3>5. lock'[file[q]] = lock[file[q]]
      BY <1>3, <3>3, <3>4 DEF Crash
    <3>6. QED
      BY <3>3, <3>5
  <2>4. QED
    BY <2>2, <2>3 DEF LockInv
<1>4. ASSUME NEW f \in LockFiles, Age(f) PROVE LockInv'
  <2>1. UNCHANGED <<salt, written, at, index, mine, file, robbed, blind>>
    BY <1>4 DEF Age, request
  <2>2. \A g \in LockFiles : lock[g] # None =>
            lock'[g] # None /\ lock'[g].owner = lock[g].owner
    <3>1. [lock[f] EXCEPT !.aged = TRUE] \in LockFile
      BY <1>4 DEF Age, LockFile, TypeInv, TypeOK
    <3>2. [lock[f] EXCEPT !.aged = TRUE].owner = lock[f].owner
      BY <1>4 DEF Age, LockFile, TypeInv, TypeOK
    <3>3. lock' = [lock EXCEPT ![f] = [lock[f] EXCEPT !.aged = TRUE]]
      BY <1>4 DEF Age
    <3>4. QED
      BY <3>1, <3>2, <3>3, VectorAssumption DEF TypeInv, TypeOK
  <2>3. Holding'
    BY <2>1, <2>2 DEF LockInv, Holding, TypeInv, Shape, ShapeOf, Locking
  <2>4. NoRebuild' /\ MintFirst' /\ SidecarsFirst' /\ PublishedIsWhole'
    BY <2>1
    DEF LockInv, NoRebuild, MintFirst, SidecarsFirst, PublishedIsWhole, Published, RecordOf
  <2>5. QED
    BY <2>3, <2>4 DEF LockInv
<1>5. QED
  BY <1>0, <1>1, <1>2, <1>3, <1>4 DEF Next

-----------------------------------------------------------------------------

\* The invariant holds in every state a cache can be in.
LEMMA VInvariant == Spec => []VInv
<1>1. VInv /\ [Next]_vars => VInv'
  BY TypeStep, ObjectStep, LockStep DEF VInv, LockInv
<1>2. QED
  BY VInitInv, <1>1, PTL DEF Spec

\* The services, the cache directory and the requests keep their types.
THEOREM VectorTypes == Spec => []TypeOK
<1>1. VInv => TypeOK
  BY DEF VInv, TypeInv
<1>2. QED
  BY VInvariant, <1>1, PTL

\* A search answers with the vectors of the pages of its own snapshot, whatever addresses the
\* indexes of its process are given and whatever digests they share (service.py:800-840).
THEOREM VectorsAreOfSnapshot == Spec => []VectorsOfSnapshot
<1>1. VInv => VectorsOfSnapshot
  BY VectorAssumption
  DEF VInv, TypeInv, Shape, ShapeOf, ObjectInv, GotOfIndex, VectorsOfSnapshot
<1>2. QED
  BY VInvariant, <1>1, PTL

\* Until a lock file is removed from under a running search, a lock of the cache directory has
\* one holder (vector.py:2528-2561).
THEOREM LocksHaveOneHolder == Spec => []OneBuilderUnlessRobbed
<1>1. VInv => OneBuilderUnlessRobbed
  BY HoldingIsExclusive DEF VInv
<1>2. QED
  BY VInvariant, <1>1, PTL

\* Unless a read failed or a lock was robbed, no record is built while it is published
\* (vector.py:321-330).
THEOREM RecordsAreBuiltOnce == Spec => []NoRebuild
<1>1. VInv => NoRebuild
  BY DEF VInv
<1>2. QED
  BY VInvariant, <1>1, PTL

\* A published record is whole, whatever ended in the middle of publishing it
\* (vector.py:481-526).
THEOREM RecordsAreWhole == Spec => []PublishedIsWhole
<1>1. VInv => PublishedIsWhole
  BY DEF VInv
<1>2. QED
  BY VInvariant, <1>1, PTL

\* Unless a read failed or a lock was robbed, the salt stays once it is made
\* (vector.py:367-382).
THEOREM SaltIsKept == Spec => SaltKept
<1>1. VInv /\ [Next]_vars => [SaltStays]_vars
  <2>1. SUFFICES ASSUME VInv, Next PROVE SaltStays
    OBVIOUS
  <2>2. ASSUME NEW r \in Requests, Search(r) PROVE SaltStays
    <3>1. CASE Mint(r)
      <4>1. robbed \/ blind \/ salt = None
        BY <2>1, <3>1 DEF Mint, VInv, MintFirst
      <4>2. QED
        BY <4>1 DEF SaltStays
    <3>2. CASE ~Mint(r)
      <4>1. salt' = salt
        BY <2>2, <3>2 DEF disk, Search, Ask, TakeLoaded, MissLoaded, Store, Again, ReadSalt,
               Lookup, Create, JudgeStale, JudgeLive, ClearStale, Release, RereadSalt,
               RereadRecord, Embed, Publish
      <4>2. QED
        BY <4>1 DEF SaltStays
    <3>3. QED
      BY <3>1, <3>2
  <2>3. QED
    BY <2>1, <2>2 DEF Next, Build, PublishIndex, Crash, Age, disk, SaltStays
<1>2. QED
  BY VInvariant, <1>1, PTL DEF Spec, SaltKept

-----------------------------------------------------------------------------
(* Sequences *)

\* A set of numbers has a least one.
LEMMA MinIsLeast ==
    ASSUME NEW S \in SUBSET Nat, S # {}
    PROVE  Min(S) \in S /\ \A m \in S : Min(S) <= m
<1> DEFINE R == {ss \in Nat \X Nat : ss[1] < ss[2]}
<1>1. IsWellFoundedOn(R, Nat)
  BY NatLessThanWellFounded DEF OpToRel
<1>2. PICK n \in S : \A m \in S : <<m, n>> \notin R
  BY <1>1, WFMin
<1>3. ASSUME NEW m \in S PROVE n <= m
  <2>1. ~(m < n)
    <3>1. <<m, n>> \notin R /\ m \in Nat /\ n \in Nat
      BY <1>2
    <3> QED BY <3>1
  <2> QED BY <2>1
<1> QED BY <1>2, <1>3 DEF Min

\* A bounded set of numbers has a greatest one.
LEMMA MaxIsGreatest ==
    ASSUME NEW S \in SUBSET Nat, S # {}, NEW b \in Nat, \A m \in S : m <= b
    PROVE  Max(S) \in S /\ \A m \in S : Max(S) >= m
<1> DEFINE T == {b - m : m \in S}
<1>1. T \in SUBSET Nat /\ T # {}
  <2>1. \A m \in S : b - m \in Nat
    OBVIOUS
  <2> QED BY <2>1
<1>2. Min(T) \in T /\ \A m \in T : Min(T) <= m
  BY <1>1, MinIsLeast
<1>3. PICK x \in S : Min(T) = b - x
  BY <1>2
<1>4. ASSUME NEW m \in S PROVE x >= m
  <2>1. b - x <= b - m
    BY <1>2, <1>3
  <2> QED BY <2>1
<1> QED BY <1>3, <1>4 DEF Max

\* The least and the greatest of two
LEMMA OfTwo ==
    ASSUME NEW a \in Int, NEW b \in Int
    PROVE  /\ Min({a, b}) = IF a <= b THEN a ELSE b
           /\ Max({a, b}) = IF a <= b THEN b ELSE a
<1>1. Min({a, b}) \in {a, b} /\ \A y \in {a, b} : Min({a, b}) <= y
  <2>1. \E x \in {a, b} : \A y \in {a, b} : x <= y
    OBVIOUS
  <2> QED BY <2>1 DEF Min
<1>2. Max({a, b}) \in {a, b} /\ \A y \in {a, b} : Max({a, b}) >= y
  <2>1. \E x \in {a, b} : \A y \in {a, b} : x >= y
    OBVIOUS
  <2> QED BY <2>1 DEF Max
<1> QED BY <1>1, <1>2

\* A set of the numbers up to L that has 0, and with each number the next, has them all.
LEMMA Upto ==
    ASSUME NEW L \in Nat, NEW N, 0 \in N, \A n \in 0..L : n \in N /\ n < L => n + 1 \in N
    PROVE  0..L \subseteq N
<1> SUFFICES ASSUME (0..L) \ N # {} PROVE FALSE
  OBVIOUS
<1> DEFINE m == Min((0..L) \ N)
<1>1. m \in (0..L) \ N /\ \A k \in (0..L) \ N : m <= k
  BY MinIsLeast
<1>2. m # 0 /\ m - 1 \in 0..L /\ ~(m <= m - 1)
  BY <1>1
<1>3. m - 1 \in N
  BY <1>1, <1>2
<1> QED BY <1>1, <1>2, <1>3

\* A strict total order of the elements of S
Orders(S, before) ==
    /\ \A x \in S : <<x, x>> \notin before
    /\ \A x, y \in S : x # y => <<x, y>> \in before \/ <<y, x>> \in before
    /\ \A x, y, z \in S : <<x, y>> \in before /\ <<y, z>> \in before => <<x, z>> \in before

\* A set in an order has each element once, those before the others.
LEMMA OrderedIs ==
    ASSUME NEW S, IsFiniteSet(S), NEW before, Orders(S, before)
    PROVE  /\ Cardinality(S) \in Nat
           /\ Ordered(S, before) \in [1..Cardinality(S) -> S]
           /\ \A m, n \in 1..Cardinality(S) :
                m < n => <<Ordered(S, before)[m], Ordered(S, before)[n]>> \in before
           /\ \A x \in S : \E n \in 1..Cardinality(S) : Ordered(S, before)[n] = x
<1> DEFINE c == Cardinality(S)
           prior(x) == {y \in S : <<y, x>> \in before}
           r == [x \in S |-> Cardinality(prior(x))]
<1>0. /\ \A x \in S : <<x, x>> \notin before
      /\ \A x, y \in S : x # y => <<x, y>> \in before \/ <<y, x>> \in before
      /\ \A x, y, z \in S : <<x, y>> \in before /\ <<y, z>> \in before => <<x, z>> \in before
  BY DEF Orders
<1>1. c \in Nat
  BY FS_CardinalityType
<1>2. \A x \in S : prior(x) \in SUBSET S
  OBVIOUS
<1>3. \A x \in S : IsFiniteSet(prior(x)) /\ Cardinality(prior(x)) \in Nat
  BY <1>2, FS_Subset, FS_CardinalityType
<1>4. ASSUME NEW x \in S PROVE Cardinality(prior(x)) \in 0..(c - 1)
  <2>1. IsFiniteSet(S \ {x}) /\ Cardinality(S \ {x}) = c - 1
    BY FS_RemoveElement
  <2>2. prior(x) \in SUBSET (S \ {x})
    BY <1>0
  <2>3. Cardinality(prior(x)) <= Cardinality(S \ {x})
    BY <2>1, <2>2, FS_Subset
  <2>4. Cardinality(prior(x)) \in Nat /\ Cardinality(prior(x)) <= c - 1
    BY <1>3, <2>1, <2>3
  <2> QED BY <1>1, <2>4
<1>5. ASSUME NEW x \in S, NEW y \in S, <<x, y>> \in before
      PROVE  Cardinality(prior(x)) < Cardinality(prior(y))
  <2>1. prior(x) \in SUBSET prior(y) /\ x \in prior(y) /\ x \notin prior(x)
    BY <1>0, <1>5
  <2>2. /\ Cardinality(prior(x)) <= Cardinality(prior(y))
        /\ Cardinality(prior(y)) = Cardinality(prior(x)) => prior(y) = prior(x)
    BY <1>3, <2>1, FS_Subset
  <2>3. Cardinality(prior(y)) # Cardinality(prior(x))
    BY <2>1, <2>2
  <2> DEFINE a == Cardinality(prior(x))
             b == Cardinality(prior(y))
  <2>4. a \in Nat /\ b \in Nat
    BY <1>3
  <2>5. a <= b /\ b # a
    BY <2>2, <2>3
  <2> HIDE DEF a, b
  <2>6. a < b
    BY <2>4, <2>5
  <2> QED BY <2>6 DEF a, b
<1> HIDE DEF prior
<1>6. r \in Injection(S, 0..(c - 1))
  <2>1. r \in [S -> 0..(c - 1)]
    BY <1>4
  <2>2. ASSUME NEW x \in S, NEW y \in S, r[x] = r[y] PROVE x = y
    <3>1. <<x, y>> \notin before /\ <<y, x>> \notin before
      BY <1>3, <1>5, <2>2
    <3> QED BY <1>0, <3>1
  <2> QED BY <2>1, <2>2 DEF Injection, IsInjective
<1>7. IsFiniteSet(0..(c - 1)) /\ Cardinality(0..(c - 1)) = c
  <2>1. 0 \in Int /\ c - 1 \in Int
    BY <1>1
  <2> HIDE DEF c
  <2>2. IsFiniteSet(0..(c - 1)) /\ Cardinality(0..(c - 1)) = IF 0 > c - 1 THEN 0 ELSE (c - 1) - 0 + 1
    BY <2>1, FS_Interval
  <2> QED BY <1>1, <2>2
<1>8. r \in Surjection(S, 0..(c - 1))
  BY <1>6, <1>7, FS_Injection
<1>9. \A n \in 1..c : \E x \in S : Cardinality(prior(x)) = n - 1
  <2> TAKE n \in 1..c
  <2>1. n - 1 \in 0..(c - 1)
    BY <1>1
  <2>2. \A t \in 0..(c - 1) : \E x \in S : r[x] = t
    BY <1>8 DEF Surjection
  <2> QED BY <2>1, <2>2
<1> DEFINE s == Ordered(S, before)
<1>10. s = [n \in 1..c |-> CHOOSE x \in S : Cardinality(prior(x)) = n - 1]
  BY DEF Ordered, prior
<1>11. \A n \in 1..c : s[n] \in S /\ Cardinality(prior(s[n])) = n - 1
  BY <1>9, <1>10
<1>12. s \in [1..c -> S]
  BY <1>10, <1>11
<1> HIDE DEF s, c
<1>13. ASSUME NEW m \in 1..c, NEW n \in 1..c, m < n PROVE <<s[m], s[n]>> \in before
  <2>1. s[m] \in S /\ s[n] \in S /\ Cardinality(prior(s[m])) = m - 1
        /\ Cardinality(prior(s[n])) = n - 1
    BY <1>11
  <2>2. m \in Int /\ n \in Int
    BY <1>1
  <2>3. s[m] # s[n]
    BY <1>13, <2>1, <2>2
  <2>4. <<s[n], s[m]>> \notin before
    <3>1. ASSUME <<s[n], s[m]>> \in before PROVE FALSE
      <4>1. Cardinality(prior(s[n])) < Cardinality(prior(s[m]))
        BY <1>5, <2>1, <3>1
      <4> QED BY <1>13, <2>1, <2>2, <4>1
    <3> QED BY <3>1
  <2> QED BY <1>0, <2>1, <2>3, <2>4
<1>14. ASSUME NEW x \in S PROVE \E n \in 1..c : s[n] = x
  <2> DEFINE n == Cardinality(prior(x)) + 1
  <2>1. n \in 1..c /\ Cardinality(prior(x)) \in Nat /\ n - 1 = Cardinality(prior(x))
    BY <1>1, <1>4, <1>3
  <2>2. s[n] \in S /\ Cardinality(prior(s[n])) = n - 1
    BY <1>11, <2>1
  <2>3. r[s[n]] = r[x]
    BY <2>1, <2>2
  <2>4. s[n] = x
    BY <1>6, <2>2, <2>3 DEF Injection, IsInjective
  <2> QED BY <2>1, <2>4
<1> QED BY <1>1, <1>12, <1>13, <1>14 DEF s, c

\* A set of numbers in order has each of them once, the lower before the higher.
LEMMA InOrderIs ==
    ASSUME NEW S \in SUBSET Nat, IsFiniteSet(S)
    PROVE  /\ Cardinality(S) \in Nat
           /\ InOrder(S) \in [1..Cardinality(S) -> S]
           /\ \A m, n \in 1..Cardinality(S) : m < n => InOrder(S)[m] < InOrder(S)[n]
           /\ \A i \in S : \E n \in 1..Cardinality(S) : InOrder(S)[n] = i
<1> DEFINE before == {p \in S \X S : p[1] < p[2]}
           s == InOrder(S)
           c == Cardinality(S)
<1>1. \A x, y \in S : <<x, y>> \in before <=> x < y
  OBVIOUS
<1>2. \A x \in S : x \in Nat
  OBVIOUS
<1>0. InOrder(S) = Ordered(S, before)
  BY DEF InOrder
<1> HIDE DEF before
<1>3. Orders(S, before)
  BY <1>1, <1>2 DEF Orders
<1>4. /\ c \in Nat /\ s \in [1..c -> S]
      /\ \A m, n \in 1..c : m < n => <<s[m], s[n]>> \in before
      /\ \A x \in S : \E n \in 1..c : s[n] = x
  BY <1>0, <1>3, OrderedIs
<1> HIDE DEF s, c
<1>5. \A m, n \in 1..c : m < n => s[m] < s[n]
  BY <1>1, <1>4
<1> QED BY <1>4, <1>5 DEF s, c

\* The places of a sequence are finitely many.
LEMMA PlacesAreFinite ==
    ASSUME NEW n \in Nat, NEW S \in SUBSET (1..n)
    PROVE  IsFiniteSet(S) /\ S \in SUBSET Nat /\ Cardinality(S) \in Nat /\ Cardinality(S) <= n
<1>1. IsFiniteSet(1..n) /\ Cardinality(1..n) = n
  <2>1. IsFiniteSet(1..n) /\ Cardinality(1..n) = IF 1 > n THEN 0 ELSE n - 1 + 1
    BY FS_Interval
  <2> QED BY <2>1
<1>2. IsFiniteSet(S) /\ Cardinality(S) <= n
  BY <1>1, FS_Subset
<1> QED BY <1>2, FS_CardinalityType

\* At some places a sequence has what it has there, in the same order.
LEMMA AtIs ==
    ASSUME NEW X, NEW s \in Seq(X), NEW P \in SUBSET (DOMAIN s)
    PROVE  \E c \in Nat, o \in [1..Cardinality(P) -> P] :
              /\ c = Cardinality(P) /\ c <= Len(s)
              /\ At(s, P) \in Seq(X) /\ Len(At(s, P)) = c
              /\ \A n \in 1..c : At(s, P)[n] = s[o[n]]
              /\ \A m, n \in 1..c : m < n => o[m] < o[n]
              /\ \A i \in P : \E n \in 1..c : o[n] = i
<1> DEFINE c == Cardinality(P)
           o == InOrder(P)
           a == At(s, P)
<1>1. Len(s) \in Nat /\ DOMAIN s = 1..Len(s) /\ \A i \in DOMAIN s : s[i] \in X
  OBVIOUS
<1>2. IsFiniteSet(P) /\ P \in SUBSET Nat /\ c \in Nat /\ c <= Len(s)
  BY <1>1, PlacesAreFinite
<1>3. /\ o \in [1..c -> P]
      /\ \A m, n \in 1..c : m < n => o[m] < o[n]
      /\ \A i \in P : \E n \in 1..c : o[n] = i
  BY <1>2, InOrderIs
<1>4. a = [n \in DOMAIN o |-> s[o[n]]]
  BY DEF At
<1> HIDE DEF c, o, a
<1>5. DOMAIN o = 1..c /\ \A n \in 1..c : s[o[n]] \in X
  BY <1>1, <1>3
<1>6. a = [n \in 1..c |-> s[o[n]]]
  BY <1>4, <1>5
<1>7. a \in [1..c -> X]
  BY <1>5, <1>6
<1>8. a \in Seq(X) /\ Len(a) = c
  BY <1>2, <1>7
<1>9. \A n \in 1..c : a[n] = s[o[n]]
  BY <1>6
<1>10. o \in [1..Cardinality(P) -> P]
  BY <1>3 DEF c
<1>11. /\ c = Cardinality(P) /\ c <= Len(s)
       /\ a \in Seq(X) /\ Len(a) = c
       /\ \A n \in 1..c : a[n] = s[o[n]]
       /\ \A m, n \in 1..c : m < n => o[m] < o[n]
       /\ \A i \in P : \E n \in 1..c : o[n] = i
  BY <1>2, <1>3, <1>8, <1>9 DEF c
<1> QED BY <1>2, <1>10, <1>11 DEF a

\* Functions from 0 to L that begin with a and go on by steps
Runs(L, X, a, step) == {g \in [0..L -> X] : g[0] = a /\ \A n \in 1..L : g[n] = step[n][g[n - 1]]}

\* There is such a function, up to any L.
LEMMA RunsExist ==
    ASSUME NEW L \in Nat, NEW X, NEW a \in X, NEW step \in [1..L -> [X -> X]]
    PROVE  Runs(L, X, a, step) # {}
<1> DEFINE Is(g, l) == g \in [0..l -> X] /\ g[0] = a /\ \A n \in 1..l : g[n] = step[n][g[n - 1]]
           N == {l \in 0..L : \E g : Is(g, l)}
<1>1. 0 \in N
  <2> DEFINE g == [n \in 0..0 |-> a]
  <2>1. Is(g, 0)
    OBVIOUS
  <2>2. 0 \in 0..L
    OBVIOUS
  <2> HIDE DEF g, Is
  <2> QED BY <2>1, <2>2
<1>2. ASSUME NEW l \in 0..L, l \in N, l < L PROVE l + 1 \in N
  <2>1. PICK g : Is(g, l)
    BY <1>2
  <2>2. l \in Nat /\ l + 1 \in 1..L /\ l + 1 \in 0..L
    BY <1>2
  <2> DEFINE h == [n \in 0..(l + 1) |-> IF n = l + 1 THEN step[l + 1][g[l]] ELSE g[n]]
  <2>3. step[l + 1][g[l]] \in X
    <3>1. g[l] \in X
      BY <2>1, <2>2
    <3>2. step[l + 1] \in [X -> X]
      BY <2>2
    <3> QED BY <3>1, <3>2
  <2>4. h \in [0..(l + 1) -> X] /\ h[0] = a
    BY <2>1, <2>2, <2>3
  <2>5. ASSUME NEW n \in 1..(l + 1) PROVE h[n] = step[n][h[n - 1]]
    <3>1. CASE n = l + 1
      <4>1. h[n] = step[l + 1][g[l]] /\ h[n - 1] = g[l]
        BY <2>2, <3>1
      <4> QED BY <3>1, <4>1
    <3>2. CASE n # l + 1
      <4>1. n \in 1..l /\ n \in 0..(l + 1) /\ n - 1 \in 0..(l + 1) /\ n - 1 # l + 1
        BY <2>2, <3>2
      <4>2. h[n] = g[n] /\ h[n - 1] = g[n - 1]
        BY <3>2, <4>1
      <4> QED BY <2>1, <4>1, <4>2
    <3> QED BY <3>1, <3>2
  <2>6. Is(h, l + 1)
    BY <2>4, <2>5
  <2> HIDE DEF h, Is
  <2> QED BY <2>2, <2>6
<1>3. \A l \in 0..L : l \in N /\ l < L => l + 1 \in N
  BY <1>2, Zenon
<1> HIDE DEF N
<1>4. 0..L \subseteq N
  BY <1>1, <1>3, Upto, Zenon
<1>5. L \in N
  BY <1>4
<1>6. PICK g : Is(g, L)
  BY <1>5 DEF N
<1> QED BY <1>6 DEF Runs

\* Sums grow by the elements of the sequence.
LEMMA SumsAre ==
    ASSUME NEW s \in Seq(Nat)
    PROVE  /\ Sums(s) \in [0..Len(s) -> Nat] /\ Sums(s)[0] = 0
           /\ \A n \in 1..Len(s) : Sums(s)[n] = Sums(s)[n - 1] + s[n]
           /\ \A m, n \in 0..Len(s) : m <= n => Sums(s)[m] <= Sums(s)[n]
<1> DEFINE L == Len(s)
           step == [n \in 1..L |-> [x \in Nat |-> x + s[n]]]
           F == CHOOSE g : g = [n \in 0..L |-> IF n = 0 THEN 0 ELSE g[n - 1] + s[n]]
<1>1. L \in Nat /\ \A n \in 1..L : s[n] \in Nat
  OBVIOUS
<1>2. Sums(s) = F
  BY DEF Sums
<1>3. PICK g : g \in Runs(L, Nat, 0, step)
  <2>1. step \in [1..L -> [Nat -> Nat]]
    BY <1>1
  <2> HIDE DEF step, L
  <2>2. Runs(L, Nat, 0, step) # {}
    BY <1>1, <2>1, RunsExist
  <2> QED BY <2>2
<1>4. /\ g \in [0..L -> Nat] /\ g[0] = 0
      /\ \A n \in 1..L : g[n] = g[n - 1] + s[n]
  <2>1. g \in [0..L -> Nat] /\ g[0] = 0 /\ \A n \in 1..L : g[n] = step[n][g[n - 1]]
    BY <1>3 DEF Runs
  <2>2. \A n \in 1..L : n - 1 \in 0..L
    BY <1>1
  <2>3. \A n \in 1..L : g[n - 1] \in Nat
    BY <2>1, <2>2
  <2> QED BY <2>1, <2>3
<1>5. g = [n \in 0..L |-> IF n = 0 THEN 0 ELSE g[n - 1] + s[n]]
  BY <1>4
<1>6. F = [n \in 0..L |-> IF n = 0 THEN 0 ELSE F[n - 1] + s[n]]
  BY <1>5
<1> HIDE DEF F, L, step
<1>7. F[0] = 0 /\ \A n \in 1..L : F[n] = F[n - 1] + s[n]
  <2>1. \A n \in 1..L : n \in 0..L /\ n # 0
    OBVIOUS
  <2>2. 0 \in 0..L
    BY <1>1
  <2> QED BY <1>6, <2>1, <2>2
<1> DEFINE N == {n \in 0..L : F[n] \in Nat /\ \A m \in 0..n : F[m] \in Nat /\ F[m] <= F[n]}
<1>8. 0 \in N
  BY <1>1, <1>7
<1>9. ASSUME NEW n \in 0..L, n \in N, n < L PROVE n + 1 \in N
  <2>1. n + 1 \in 1..L /\ n + 1 \in 0..L /\ (n + 1) - 1 = n
    BY <1>1, <1>9
  <2>2. F[n + 1] = F[n] + s[n + 1] /\ s[n + 1] \in Nat
    BY <1>1, <1>7, <2>1
  <2>3. F[n] \in Nat /\ \A m \in 0..n : F[m] \in Nat /\ F[m] <= F[n]
    BY <1>9
  <2>4. \A m \in 0..(n + 1) : m = n + 1 \/ m \in 0..n
    OBVIOUS
  <2>5. \A m \in 0..(n + 1) : F[m] \in Nat /\ F[m] <= F[n + 1]
    BY <2>2, <2>3, <2>4
  <2>6. F[n + 1] \in Nat
    BY <2>2, <2>3
  <2> QED BY <2>1, <2>5, <2>6
<1>10. \A n \in 0..L : n \in N /\ n < L => n + 1 \in N
  BY <1>9, Zenon
<1> HIDE DEF N
<1>11. 0..L \subseteq N
  BY <1>1, <1>8, <1>10, Upto, Zenon
<1>12. \A n \in 0..L : F[n] \in Nat /\ \A m \in 0..n : F[m] <= F[n]
  BY <1>11 DEF N
<1>13. F \in [0..L -> Nat]
  <2>1. F = [n \in 0..L |-> F[n]]
    BY <1>6
  <2> QED BY <1>12, <2>1
<1>14. \A m, n \in 0..L : m <= n => m \in 0..n
  BY <1>1
<1>15. \A m, n \in 0..L : m <= n => F[m] <= F[n]
  BY <1>12, <1>14
<1> QED BY <1>2, <1>7, <1>13, <1>15 DEF L

\* Each place of t is one of the first n sequences in ss: that of which, and there that of place.
Flat(ss, n, t, which, place) ==
    /\ which \in [DOMAIN t -> 1..n] /\ place \in [DOMAIN t -> Nat \ {0}]
    /\ \A i \in DOMAIN t : place[i] \in DOMAIN ss[which[i]] /\ t[i] = ss[which[i]][place[i]]
    /\ \A i, j \in DOMAIN t :
          i < j => which[i] < which[j] \/ (which[i] = which[j] /\ place[i] < place[j])
    /\ \A m \in 1..n : \A k \in DOMAIN ss[m] : \E i \in DOMAIN t : which[i] = m /\ place[i] = k

\* With one sequence more
LEMMA FlatGoesOn ==
    ASSUME NEW X, NEW ss \in Seq(Seq(X)), NEW n \in Nat, n + 1 \in DOMAIN ss,
           NEW t \in Seq(X), NEW which, NEW place, Flat(ss, n, t, which, place)
    PROVE  \E w, p : Flat(ss, n + 1, t \o ss[n + 1], w, p)
<1> DEFINE u == ss[n + 1]
           c == t \o u
           l == Len(t)
           k == Len(u)
<1>1. u \in Seq(X) /\ n + 1 \in Nat
  OBVIOUS
<1>2. /\ l \in Nat /\ k \in Nat /\ DOMAIN t = 1..l /\ DOMAIN u = 1..k
      /\ DOMAIN c = 1..(l + k)
      /\ \A i \in 1..l : c[i] = t[i]
      /\ \A i \in 1..k : c[l + i] = u[i]
  <2> HIDE DEF u
  <2> QED BY <1>1
<1>3. /\ which \in [1..l -> 1..n] /\ place \in [1..l -> Nat \ {0}]
      /\ \A i \in 1..l : place[i] \in DOMAIN ss[which[i]] /\ t[i] = ss[which[i]][place[i]]
      /\ \A i, j \in 1..l :
            i < j => which[i] < which[j] \/ (which[i] = which[j] /\ place[i] < place[j])
      /\ \A m \in 1..n : \A q \in DOMAIN ss[m] : \E i \in 1..l : which[i] = m /\ place[i] = q
  <2> HIDE DEF l, k, c, u
  <2>1. DOMAIN t = 1..l
    BY <1>2
  <2>2. which \in [DOMAIN t -> 1..n] /\ place \in [DOMAIN t -> Nat \ {0}]
    BY DEF Flat
  <2>3. \A i \in DOMAIN t : place[i] \in DOMAIN ss[which[i]] /\ t[i] = ss[which[i]][place[i]]
    BY DEF Flat
  <2>4. \A i, j \in DOMAIN t :
          i < j => which[i] < which[j] \/ (which[i] = which[j] /\ place[i] < place[j])
    BY DEF Flat
  <2>5. \A m \in 1..n : \A q \in DOMAIN ss[m] : \E i \in DOMAIN t : which[i] = m /\ place[i] = q
    BY DEF Flat
  <2>6. which \in [1..l -> 1..n] /\ place \in [1..l -> Nat \ {0}]
    BY <2>1, <2>2
  <2>7. \A i \in 1..l : place[i] \in DOMAIN ss[which[i]] /\ t[i] = ss[which[i]][place[i]]
    BY <2>1, <2>3
  <2>8. \A i, j \in 1..l :
          i < j => which[i] < which[j] \/ (which[i] = which[j] /\ place[i] < place[j])
    BY <2>1, <2>4
  <2>9. \A m \in 1..n : \A q \in DOMAIN ss[m] : \E i \in 1..l : which[i] = m /\ place[i] = q
    BY <2>1, <2>5
  <2> QED BY <2>6, <2>7, <2>8, <2>9
<1> DEFINE w == [i \in 1..(l + k) |-> IF i \in 1..l THEN which[i] ELSE n + 1]
           p == [i \in 1..(l + k) |-> IF i \in 1..l THEN place[i] ELSE i - l]
<1> HIDE DEF l, k, c, u
<1>4. /\ \A i \in 1..l : i \in 1..(l + k)
      /\ \A i \in 1..(l + k) : i \in 1..l \/ (i \notin 1..l /\ i - l \in 1..k /\ i = l + (i - l))
      /\ \A i \in 1..k : l + i \in 1..(l + k) /\ l + i \notin 1..l /\ (l + i) - l = i
  BY <1>2
<1>5. /\ \A i \in 1..l : w[i] = which[i] /\ p[i] = place[i] /\ w[i] \in 1..n
      /\ \A i \in 1..(l + k) : i \notin 1..l => w[i] = n + 1 /\ p[i] = i - l
  BY <1>3, <1>4
<1>6. w \in [1..(l + k) -> 1..(n + 1)] /\ p \in [1..(l + k) -> Nat \ {0}]
  <2>1. \A i \in 1..l : which[i] \in 1..(n + 1) /\ place[i] \in Nat \ {0}
    <3>1. \A m \in 1..n : m \in 1..(n + 1)
      OBVIOUS
    <3>2. \A i \in 1..l : which[i] \in 1..n /\ place[i] \in Nat \ {0}
      BY <1>3
    <3> QED BY <3>1, <3>2, Zenon
  <2>2. n + 1 \in 1..(n + 1) /\ \A i \in 1..(l + k) : i \notin 1..l => i - l \in Nat \ {0}
    BY <1>4
  <2> QED BY <2>1, <2>2
<1> HIDE DEF w, p
<1>7. ASSUME NEW i \in 1..(l + k) PROVE p[i] \in DOMAIN ss[w[i]] /\ c[i] = ss[w[i]][p[i]]
  <2>1. CASE i \in 1..l
    BY <1>2, <1>3, <1>5, <2>1
  <2>2. CASE i \notin 1..l
    <3>1. i - l \in 1..k /\ c[l + (i - l)] = u[i - l]
      BY <1>2, <1>4, <2>2
    <3>2. l + (i - l) = i
      BY <1>4, <2>2
    <3>3. w[i] = n + 1 /\ p[i] = i - l
      BY <1>5, <2>2
    <3> QED BY <1>2, <3>1, <3>2, <3>3 DEF u
  <2> QED BY <2>1, <2>2
<1>8. ASSUME NEW i \in 1..(l + k), NEW j \in 1..(l + k), i < j
      PROVE  w[i] < w[j] \/ (w[i] = w[j] /\ p[i] < p[j])
  <2>1. CASE j \in 1..l
    <3>1. i \in 1..l
      BY <1>2, <1>8, <2>1
    <3> QED BY <1>3, <1>5, <1>8, <2>1, <3>1
  <2>2. CASE j \notin 1..l /\ i \in 1..l
    <3>1. w[j] = n + 1 /\ w[i] \in 1..n
      BY <1>5, <2>2
    <3> QED BY <3>1
  <2>3. CASE j \notin 1..l /\ i \notin 1..l
    <3>1. w[j] = n + 1 /\ w[i] = n + 1 /\ p[i] = i - l /\ p[j] = j - l
      BY <1>5, <2>3
    <3>2. i - l < j - l
      BY <1>2, <1>8
    <3> QED BY <3>1, <3>2
  <2> QED BY <2>1, <2>2, <2>3
<1>9. ASSUME NEW m \in 1..(n + 1), NEW q \in DOMAIN ss[m]
      PROVE  \E i \in 1..(l + k) : w[i] = m /\ p[i] = q
  <2>1. CASE m = n + 1
    <3>1. q \in 1..k
      BY <1>2, <2>1 DEF u
    <3>2. w[l + q] = m /\ p[l + q] = q /\ l + q \in 1..(l + k)
      BY <1>4, <1>5, <2>1, <3>1
    <3> QED BY <3>2
  <2>2. CASE m # n + 1
    <3>1. m \in 1..n
      BY <2>2
    <3>2. PICK i \in 1..l : which[i] = m /\ place[i] = q
      BY <1>3, <3>1
    <3> QED BY <1>4, <1>5, <3>2
  <2> QED BY <2>1, <2>2
<1>10. Flat(ss, n + 1, c, w, p)
  <2>1. DOMAIN c = 1..(l + k)
    BY <1>2
  <2>2. w \in [DOMAIN c -> 1..(n + 1)] /\ p \in [DOMAIN c -> Nat \ {0}]
    BY <1>6, <2>1, Zenon
  <2>3. \A i \in DOMAIN c : p[i] \in DOMAIN ss[w[i]] /\ c[i] = ss[w[i]][p[i]]
    BY <1>7, <2>1, Zenon
  <2>4. \A i, j \in DOMAIN c : i < j => w[i] < w[j] \/ (w[i] = w[j] /\ p[i] < p[j])
    BY <1>8, <2>1, Zenon
  <2>5. \A m \in 1..(n + 1) : \A q \in DOMAIN ss[m] : \E i \in DOMAIN c : w[i] = m /\ p[i] = q
    <3> TAKE m \in 1..(n + 1)
    <3> TAKE q \in DOMAIN ss[m]
    <3>1. \E i \in 1..(l + k) : w[i] = m /\ p[i] = q
      BY <1>9
    <3> QED BY <2>1, <3>1
  <2> QED BY <2>2, <2>3, <2>4, <2>5, Zenon DEF Flat
<1> QED BY <1>10 DEF c, u

\* A flattened sequence is made of the places of all its sequences, in their order.
LEMMA FlattenIs ==
    ASSUME NEW X, NEW ss \in Seq(Seq(X))
    PROVE  /\ FlattenSeq(ss) \in Seq(X)
           /\ \E which, place : Flat(ss, Len(ss), FlattenSeq(ss), which, place)
<1> DEFINE L == Len(ss)
           step == [n \in 1..L |-> [x \in Seq(X) |-> x \o ss[n]]]
           F == CHOOSE g : g = [n \in 1..L |-> IF n = 1 THEN ss[n] ELSE g[n - 1] \o ss[n]]
<1>1. L \in Nat /\ \A n \in 1..L : ss[n] \in Seq(X)
  OBVIOUS
<1>2. CASE L = 0
  <2>1. FlattenSeq(ss) = <<>> /\ Len(ss) = 0
    BY <1>2 DEF FlattenSeq
  <2>2. <<>> \in Seq(X) /\ DOMAIN <<>> = {}
    OBVIOUS
  <2>3. Flat(ss, 0, <<>>, <<>>, <<>>)
    <3>1. <<>> \in [DOMAIN <<>> -> 1..0] /\ <<>> \in [DOMAIN <<>> -> Nat \ {0}]
      OBVIOUS
    <3>2. 1..0 = {}
      OBVIOUS
    <3> QED BY <2>2, <3>1, <3>2 DEF Flat
  <2> QED BY <2>1, <2>2, <2>3
<1>3. CASE L # 0
  <2>0. L \in 1..L /\ 1 \in 1..L
    BY <1>1, <1>3
  <2>1. FlattenSeq(ss) = F[L]
    BY <1>3 DEF FlattenSeq
  <2>2. PICK g : g \in Runs(L, Seq(X), <<>>, step)
    <3>1. \A n \in 1..L : \A x \in Seq(X) : x \o ss[n] \in Seq(X)
      BY <1>1
    <3>2. step \in [1..L -> [Seq(X) -> Seq(X)]]
      BY <3>1
    <3>3. <<>> \in Seq(X)
      OBVIOUS
    <3> HIDE DEF step, L
    <3>4. Runs(L, Seq(X), <<>>, step) # {}
      BY <1>1, <3>2, <3>3, RunsExist
    <3> QED BY <3>4
  <2>3. g \in [0..L -> Seq(X)] /\ g[0] = <<>> /\ \A n \in 1..L : g[n] = g[n - 1] \o ss[n]
    <3>1. g \in [0..L -> Seq(X)] /\ g[0] = <<>> /\ \A n \in 1..L : g[n] = step[n][g[n - 1]]
      BY <2>2 DEF Runs
    <3>2. \A n \in 1..L : n - 1 \in 0..L
      BY <1>1
    <3>3. \A n \in 1..L : g[n - 1] \in Seq(X)
      BY <3>1, <3>2
    <3> QED BY <3>1, <3>3
  <2> DEFINE h == [n \in 1..L |-> g[n]]
  <2>4. h[1] = ss[1]
    <3>1. g[1] = g[1 - 1] \o ss[1]
      BY <2>0, <2>3, Zenon
    <3>3. 1 - 1 = 0
      OBVIOUS
    <3>2. <<>> \o ss[1] = ss[1]
      BY <1>1, <2>0
    <3> QED BY <2>0, <2>3, <3>1, <3>2, <3>3
  <2>5. \A n \in 1..L : n # 1 => h[n] = h[n - 1] \o ss[n]
    <3>1. \A n \in 1..L : n # 1 => n - 1 \in 1..L
      BY <1>1
    <3> QED BY <2>3, <3>1
  <2>6. h = [n \in 1..L |-> IF n = 1 THEN ss[n] ELSE h[n - 1] \o ss[n]]
    <3>1. \A n \in 1..L : h[n] = IF n = 1 THEN ss[n] ELSE h[n - 1] \o ss[n]
      BY <2>4, <2>5
    <3>2. h = [n \in 1..L |-> h[n]]
      OBVIOUS
    <3> HIDE DEF h
    <3> QED BY <3>1, <3>2
  <2> HIDE DEF h
  <2>7. F = [n \in 1..L |-> IF n = 1 THEN ss[n] ELSE F[n - 1] \o ss[n]]
    BY <2>6
  <2> HIDE DEF F, L, step
  <2>8. F[1] = ss[1] /\ \A n \in 1..L : n # 1 => F[n] = F[n - 1] \o ss[n]
    BY <2>0, <2>7
  <2> DEFINE Is(n) == F[n] \in Seq(X) /\ \E which, place : Flat(ss, n, F[n], which, place)
             N == {n \in 0..L : n # 0 => Is(n)}
  <2>9. 0 \in N
    BY <1>1
  <2>10. ASSUME NEW n \in 0..L, n \in N, n < L PROVE n + 1 \in N
    <3>1. n + 1 \in 1..L /\ n + 1 \in 0..L /\ (n + 1) - 1 = n /\ n \in Nat
      BY <1>1, <2>10
    <3>2. n + 1 \in DOMAIN ss
      BY <3>1 DEF L
    <3>3. ss[n + 1] \in Seq(X)
      BY <1>1, <3>1
    <3>4. CASE n = 0
      <4>1. F[1] = <<>> \o ss[1] /\ ss[1] \in Seq(X) /\ 0 + 1 \in DOMAIN ss /\ 0 + 1 = 1
        BY <2>8, <3>2, <3>3, <3>4
      <4>2. <<>> \in Seq(X) /\ DOMAIN <<>> = {}
        OBVIOUS
      <4>3. Flat(ss, 0, <<>>, <<>>, <<>>)
        <5>1. <<>> \in [DOMAIN <<>> -> 1..0] /\ <<>> \in [DOMAIN <<>> -> Nat \ {0}]
          OBVIOUS
        <5>2. 1..0 = {}
          OBVIOUS
        <5> QED BY <4>2, <5>1, <5>2 DEF Flat
      <4>4. \E which, place : Flat(ss, 0 + 1, <<>> \o ss[0 + 1], which, place)
        BY <4>1, <4>2, <4>3, FlatGoesOn
      <4>5. \E which, place : Flat(ss, 1, F[1], which, place)
        BY <4>1, <4>4
      <4>6. Is(1)
        BY <2>8, <4>1, <4>5
      <4> HIDE DEF Is
      <4> QED BY <3>1, <3>4, <4>6
    <3>5. CASE n # 0
      <4>1. Is(n)
        BY <2>10, <3>5
      <4>2. F[n + 1] = F[n] \o ss[n + 1]
        <5>1. n + 1 # 1
          BY <3>1, <3>5
        <5>2. F[n + 1] = F[(n + 1) - 1] \o ss[n + 1]
          BY <2>8, <3>1, <5>1, Zenon
        <5> QED BY <3>1, <5>2, Zenon
      <4>3. \E which, place : Flat(ss, n + 1, F[n] \o ss[n + 1], which, place)
        BY <3>1, <3>2, <4>1, FlatGoesOn
      <4>4. Is(n + 1)
        BY <3>3, <4>1, <4>2, <4>3
      <4> HIDE DEF Is
      <4> QED BY <3>1, <4>4
    <3> QED BY <3>4, <3>5
  <2>11. \A n \in 0..L : n \in N /\ n < L => n + 1 \in N
    BY <2>10, Zenon
  <2> HIDE DEF N
  <2>12. 0..L \subseteq N
    BY <1>1, <2>9, <2>11, Upto, Zenon
  <2>13. L \in 0..L /\ L # 0
    BY <1>1, <1>3
  <2>14. Is(L)
    <3>1. L \in N
      BY <2>12, <2>13
    <3> HIDE DEF Is
    <3> QED BY <2>13, <3>1 DEF N
  <2> QED BY <2>1, <2>14 DEF L
<1> QED BY <1>2, <1>3

-----------------------------------------------------------------------------
(* Numbers and texts *)

\* How often r goes into a
LEMMA DivIs ==
    ASSUME NEW a \in Nat, NEW r \in Nat \ {0}
    PROVE  a \div r \in Nat /\ (a \div r) * r <= a /\ a < (a \div r) * r + r
OBVIOUS

\* If a goes that often into r, so does no more than a; and with r more, once more.
LEMMA DivGrows ==
    ASSUME NEW a \in Nat, NEW b \in Nat, NEW r \in Nat \ {0}, a <= b
    PROVE  a \div r <= b \div r /\ (a + r) \div r = a \div r + 1
<1> DEFINE x == a \div r
           y == b \div r
           z == (a + r) \div r
<1>1. /\ x \in Nat /\ x * r <= a /\ a < x * r + r
      /\ y \in Nat /\ y * r <= b /\ b < y * r + r
  BY DivIs
<1>2. a + r \in Nat
  OBVIOUS
<1>3. z \in Nat /\ z * r <= a + r /\ a + r < z * r + r
  BY <1>2, DivIs
<1> HIDE DEF x, y, z
<1>4. x <= y
  <2> SUFFICES ASSUME y + 1 <= x PROVE FALSE
    BY <1>1
  <2>1. (y + 1) * r <= x * r
    BY <1>1
  <2>2. (y + 1) * r = y * r + r
    BY <1>1
  <2> QED BY <1>1, <2>1, <2>2
<1>5. ~(x + 2 <= z)
  <2> SUFFICES ASSUME x + 2 <= z PROVE FALSE
    OBVIOUS
  <2>1. (x + 2) * r <= z * r
    BY <1>1, <1>3
  <2>2. (x + 2) * r = x * r + r + r
    BY <1>1
  <2> QED BY <1>1, <1>3, <2>1, <2>2
<1>6. ~(z <= x)
  <2> SUFFICES ASSUME z <= x PROVE FALSE
    OBVIOUS
  <2>1. z * r <= x * r
    BY <1>1, <1>3
  <2> QED BY <1>1, <1>3, <2>1
<1>7. z = x + 1
  BY <1>1, <1>3, <1>5, <1>6
<1> QED BY <1>4, <1>7 DEF x, y, z

\* What no other exceeds is the greatest, and what exceeds no other the least.
LEMMA MaxOf ==
    ASSUME NEW S, S \subseteq Int, NEW m \in S
    PROVE  /\ (\A x \in S : x <= m) => Max(S) = m
           /\ (\A x \in S : m <= x) => Min(S) = m
<1>1. ASSUME \A x \in S : x <= m PROVE Max(S) = m
  <2>1. Max(S) \in S /\ \A y \in S : Max(S) >= y
    <3>1. \E x \in S : \A y \in S : x >= y
      BY <1>1
    <3> QED BY <3>1 DEF Max
  <2>2. Max(S) \in Int /\ m \in Int /\ Max(S) <= m /\ Max(S) >= m
    BY <1>1, <2>1
  <2> QED BY <2>2
<1>2. ASSUME \A x \in S : m <= x PROVE Min(S) = m
  <2>1. Min(S) \in S /\ \A y \in S : Min(S) <= y
    <3>1. \E x \in S : \A y \in S : x <= y
      BY <1>2
    <3> QED BY <3>1 DEF Min
  <2>2. Min(S) \in Int /\ m \in Int /\ m <= Min(S) /\ Min(S) <= m
    BY <1>2, <2>1
  <2> QED BY <2>2
<1> QED BY <1>1, <1>2

\* A word that is not silent is embedded as often as it is there.
LEMMA EmbeddedIs ==
    ASSUME NEW t \in Seq(Texts), NEW q
    PROVE  /\ Embedded(t) \in Seq(Texts)
           /\ Cosine(q, t) \in Nat
           /\ q \notin Silent => Cosine(q, Embedded(t)) = Cosine(q, t)
<1> DEFINE P == {i \in DOMAIN t : t[i] \notin Silent}
           e == At(t, P)
<1>1. Len(t) \in Nat /\ DOMAIN t = 1..Len(t)
  OBVIOUS
<1>2. P \in SUBSET (DOMAIN t)
  OBVIOUS
<1>3. PICK c \in Nat, o \in [1..Cardinality(P) -> P] :
        /\ c = Cardinality(P) /\ c <= Len(t)
        /\ e \in Seq(Texts) /\ Len(e) = c
        /\ \A n \in 1..c : e[n] = t[o[n]]
        /\ \A m, n \in 1..c : m < n => o[m] < o[n]
        /\ \A i \in P : \E n \in 1..c : o[n] = i
  <2>1. \E c \in Nat, o \in [1..Cardinality(P) -> P] :
          /\ c = Cardinality(P) /\ c <= Len(t)
          /\ At(t, P) \in Seq(Texts) /\ Len(At(t, P)) = c
          /\ \A n \in 1..c : At(t, P)[n] = t[o[n]]
          /\ \A m, n \in 1..c : m < n => o[m] < o[n]
          /\ \A i \in P : \E n \in 1..c : o[n] = i
    <3> HIDE DEF P
    <3> HIDE DEF e
    <3> QED BY <1>2, AtIs, SMTT(30)
  <2> QED BY <2>1
<1>4. Embedded(t) = e
  BY DEF Embedded
<1> HIDE DEF e
<1>5. DOMAIN e = 1..c /\ o \in [1..c -> P]
  BY <1>3
<1> DEFINE A == {i \in DOMAIN t : t[i] = q}
           B == {i \in DOMAIN e : e[i] = q}
<1>6. A \in SUBSET (1..Len(t)) /\ B \in SUBSET (1..c)
  BY <1>1, <1>5
<1>7. IsFiniteSet(A) /\ IsFiniteSet(B) /\ Cardinality(A) \in Nat
  BY <1>1, <1>6, PlacesAreFinite
<1>8. ASSUME q \notin Silent PROVE Cardinality(A) = Cardinality(B)
  <2> DEFINE f == [n \in B |-> o[n]]
  <2>1. \A n \in B : n \in 1..c /\ o[n] \in P /\ t[o[n]] = q
    BY <1>3, <1>5
  <2>2. f \in [B -> A]
    BY <2>1
  <2>3. ASSUME NEW m \in B, NEW n \in B, f[m] = f[n] PROVE m = n
    <3>1. m \in 1..c /\ n \in 1..c /\ o[m] = o[n] /\ o[m] \in 1..Len(t)
      BY <1>1, <2>1, <2>3
    <3>2. ~(m < n) /\ ~(n < m)
      BY <1>3, <3>1
    <3> QED BY <3>1, <3>2
  <2>4. ASSUME NEW i \in A PROVE \E n \in B : f[n] = i
    <3>1. i \in P /\ t[i] = q
      BY <1>8
    <3>2. PICK n \in 1..c : o[n] = i
      BY <1>3, <3>1
    <3>3. n \in B
      BY <1>3, <1>5, <3>1, <3>2
    <3> QED BY <3>2, <3>3
  <2> HIDE DEF f, A, B
  <2>5. f \in Bijection(B, A)
    <3>1. f \in Injection(B, A)
      BY <2>2, <2>3 DEF Injection, IsInjective
    <3>2. f \in Surjection(B, A)
      BY <2>2, <2>4 DEF Surjection
    <3> QED BY <3>1, <3>2 DEF Bijection
  <2> QED BY <1>7, <2>5, FS_Bijection DEF ExistsBijection
<1> QED BY <1>3, <1>4, <1>7, <1>8 DEF Cosine

-----------------------------------------------------------------------------
(* The index *)

Word == [word : Texts, start : Nat, end : Nat]
Chunk == [start : Nat, end : Nat, breadcrumb : Seq(Texts), prefix : Nat, kept : Nat, words : Seq(Word)]

\* The chunks of a page are in their order.
ChunksAre ==
    /\ wiki \in Seq(Page) /\ DOMAIN chunks = DOMAIN wiki
    /\ \A p \in DOMAIN wiki : chunks[p] \in Seq(Chunk)
    /\ \A p \in DOMAIN wiki : \A i, j \in DOMAIN chunks[p] : i <= j => chunks[p][i].start <= chunks[p][j].start

VectorOf(p, k) == Embedded(Text(wiki[p], chunks[p][k]))
Score(q, p, k) == Cosine(q, Text(wiki[p], chunks[p][k]))

\* The text of a chunk
LEMMA TextIs ==
    ASSUME NEW page \in Page, NEW chunk \in Chunk
    PROVE  Text(page, chunk) \in Seq(Texts)
<1> DEFINE a == <<page.title>>
           b == IF chunk.breadcrumb = <<page.title>> THEN <<>> ELSE chunk.breadcrumb
           c == [i \in DOMAIN chunk.words |-> chunk.words[i].word]
<1>1. page.title \in Texts
  BY DEF Page
<1>2. a \in Seq(Texts)
  BY <1>1
<1>3. chunk.breadcrumb \in Seq(Texts) /\ chunk.words \in Seq(Word)
  BY DEF Chunk
<1>4. b \in Seq(Texts)
  <2>1. <<>> \in Seq(Texts)
    OBVIOUS
  <2> QED BY <1>3, <2>1
<1>5. c \in Seq(Texts)
  <2> DEFINE w == chunk.words
  <2>1. w \in Seq(Word)
    BY <1>3
  <2> HIDE DEF w
  <2>2. DOMAIN w = 1..Len(w) /\ Len(w) \in Nat /\ \A i \in DOMAIN w : w[i] \in Word
    BY <2>1
  <2>3. \A i \in 1..Len(w) : w[i].word \in Texts
    BY <2>2 DEF Word
  <2>4. [i \in 1..Len(w) |-> w[i].word] \in Seq(Texts)
    BY <2>2, <2>3
  <2> QED BY <2>2, <2>4 DEF w
<1> HIDE DEF a, b, c
<1>6. (a \o b) \o c \in Seq(Texts)
  BY <1>2, <1>4, <1>5
<1> QED BY <1>6 DEF Text, a, b, c

\* The vectors and scores of chunks
LEMMA VectorsAre ==
    ASSUME ChunksAre, NEW q, NEW p \in DOMAIN wiki, NEW k \in DOMAIN chunks[p]
    PROVE  /\ VectorOf(p, k) \in Seq(Texts) /\ Score(q, p, k) \in Nat
           /\ q \notin Silent => Cosine(q, VectorOf(p, k)) = Score(q, p, k)
           /\ Cosine(q, VectorOf(p, k)) \in Nat
           /\ chunks[p][k].start \in Nat /\ chunks[p][k].end \in Nat
<1>1. wiki[p] \in Page /\ chunks[p] \in Seq(Chunk)
  BY DEF ChunksAre
<1>2. chunks[p][k] \in Chunk
  BY <1>1
<1>3. Text(wiki[p], chunks[p][k]) \in Seq(Texts)
  BY <1>1, <1>2, TextIs
<1>4. VectorOf(p, k) \in Seq(Texts)
  BY <1>3, EmbeddedIs DEF VectorOf
<1>5. /\ Score(q, p, k) \in Nat
      /\ q \notin Silent => Cosine(q, VectorOf(p, k)) = Score(q, p, k)
  BY <1>3, EmbeddedIs DEF VectorOf, Score
<1>6. Cosine(q, VectorOf(p, k)) \in Nat
  BY <1>4, EmbeddedIs
<1>7. chunks[p][k].start \in Nat /\ chunks[p][k].end \in Nat
  BY <1>2 DEF Chunk
<1> QED BY <1>4, <1>5, <1>6, <1>7

\* Row i is of a chunk of a page; every chunk has one row.
Located(n, which, place) ==
    /\ n \in Nat /\ which \in [1..n -> DOMAIN wiki] /\ place \in [1..n -> Nat \ {0}]
    /\ \A i \in 1..n : place[i] \in DOMAIN chunks[which[i]]
    /\ \A i, j \in 1..n : which[i] = which[j] /\ place[i] = place[j] => i = j
    /\ \A p \in DOMAIN wiki : \A k \in DOMAIN chunks[p] : \E i \in 1..n : which[i] = p /\ place[i] = k

\* What is kept of row i, apart from its vector
RecordIs(r, p, k) ==
    /\ r.page = p /\ r.ordinal = k - 1
    /\ r.start = chunks[p][k].start /\ r.end = chunks[p][k].end

Record == [page : Nat, ordinal : Int, start : Nat, end : Nat, vector : Seq(Texts), norm : Nat]
ChunkRecord(p, i) ==
    [page |-> p, ordinal |-> i - 1, start |-> chunks[p][i].start, end |-> chunks[p][i].end,
     vector |-> VectorOf(p, i), norm |-> Norm(VectorOf(p, i))]

\* The records are those of all chunks.
LEMMA RecordsAre ==
    ASSUME ChunksAre
    PROVE  \E n, which, place :
              /\ Located(n, which, place)
              /\ Records \in Seq(Record) /\ Len(Records) = n
              /\ \A i \in 1..n : Records[i] = ChunkRecord(which[i], place[i])
<1> DEFINE ss == [p \in DOMAIN wiki |-> [i \in DOMAIN chunks[p] |-> ChunkRecord(p, i)]]
           L == Len(wiki)
<1>1. L \in Nat /\ DOMAIN wiki = 1..L
  BY DEF ChunksAre
<1>2. ASSUME NEW p \in DOMAIN wiki
      PROVE  /\ [i \in DOMAIN chunks[p] |-> ChunkRecord(p, i)] \in Seq(Record)
             /\ DOMAIN chunks[p] = 1..Len(chunks[p])
  <2> DEFINE c == chunks[p]
  <2>1. c \in Seq(Chunk) /\ p \in Nat
    BY <1>1 DEF ChunksAre
  <2>2. Len(c) \in Nat /\ DOMAIN c = 1..Len(c)
    BY <2>1
  <2>3. ASSUME NEW i \in DOMAIN c PROVE ChunkRecord(p, i) \in Record
    <3>1. VectorOf(p, i) \in Seq(Texts) /\ c[i].start \in Nat /\ c[i].end \in Nat
      BY VectorsAre
    <3>2. Norm(VectorOf(p, i)) \in Nat /\ i - 1 \in Int
      BY <2>2, <3>1 DEF Norm
    <3> QED BY <2>1, <3>1, <3>2 DEF ChunkRecord, Record
  <2> HIDE DEF c
  <2>4. [i \in 1..Len(c) |-> ChunkRecord(p, i)] \in Seq(Record)
    BY <2>2, <2>3
  <2> QED BY <2>2, <2>4 DEF c
<1>3. ss \in Seq(Seq(Record)) /\ Len(ss) = L /\ DOMAIN ss = 1..L
  <2>1. ss \in [1..L -> Seq(Record)]
    BY <1>1, <1>2
  <2> HIDE DEF ss, L
  <2> QED BY <1>1, <2>1
<1>4. Records = FlattenSeq(ss)
  BY DEF Records, ChunkRecord, VectorOf
<1>5. \A p \in DOMAIN wiki : DOMAIN ss[p] = DOMAIN chunks[p] /\ \A i \in DOMAIN chunks[p] : ss[p][i] = ChunkRecord(p, i)
  OBVIOUS
<1> HIDE DEF ss, L
<1> DEFINE R == Records
           n == Len(R)
<1>6. R \in Seq(Record) /\ \E which, place : Flat(ss, L, R, which, place)
  BY <1>3, <1>4, FlattenIs
<1>7. PICK which, place : Flat(ss, L, R, which, place)
  BY <1>6
<1>8. n \in Nat /\ DOMAIN R = 1..n
  BY <1>6
<1> HIDE DEF R, n
<1>9. /\ which \in [1..n -> DOMAIN wiki] /\ place \in [1..n -> Nat \ {0}]
      /\ \A i \in 1..n : place[i] \in DOMAIN ss[which[i]] /\ R[i] = ss[which[i]][place[i]]
  BY <1>1, <1>7, <1>8 DEF Flat
<1>10. \A i, j \in 1..n :
          i < j => which[i] < which[j] \/ (which[i] = which[j] /\ place[i] < place[j])
  BY <1>7, <1>8 DEF Flat
<1>11. \A p \in 1..L : \A k \in DOMAIN ss[p] : \E i \in 1..n : which[i] = p /\ place[i] = k
  BY <1>7, <1>8 DEF Flat
<1>12. \A i \in 1..n : which[i] \in Int /\ place[i] \in Int
  BY <1>1, <1>9
<1>13. ASSUME NEW i \in 1..n, NEW j \in 1..n, which[i] = which[j], place[i] = place[j] PROVE i = j
  <2>1. ~(i < j) /\ ~(j < i)
    BY <1>10, <1>12, <1>13
  <2> QED BY <1>8, <2>1
<1>14. \A i \in 1..n : which[i] \in DOMAIN wiki /\ place[i] \in DOMAIN chunks[which[i]]
                      /\ R[i] = ChunkRecord(which[i], place[i])
  BY <1>5, <1>9
<1>15. Located(n, which, place)
  <2>1. \A p \in DOMAIN wiki : \A k \in DOMAIN chunks[p] : \E i \in 1..n : which[i] = p /\ place[i] = k
    BY <1>1, <1>5, <1>11
  <2> QED BY <1>8, <1>9, <1>13, <1>14, <2>1 DEF Located
<1>16. R \in Seq(Record) /\ Len(R) = n
  BY <1>6 DEF R, n
<1> QED BY <1>14, <1>15, <1>16 DEF R

-----------------------------------------------------------------------------
(* Reading a page *)

LineOfPage == [kind : {"heading"}, level : Nat \ {0}, label : Texts] \cup {BlankLine}
              \cup [kind : {"text"}, words : Seq(Texts) \ {<<>>}]
Paragraph == [words : Seq(Word), breadcrumb : Seq(Texts)]
Reader == [done : Seq(Paragraph), open : Seq(Word), breadcrumb : Seq(Texts), offset : Nat]

\* Words that are one after the other
Proper(ws) ==
    /\ ws \in Seq(Word)
    /\ \A i \in DOMAIN ws : ws[i].start < ws[i].end
    /\ \A i, j \in DOMAIN ws : i < j => ws[i].end < ws[j].start
Precede(ws, vs) == \A i \in DOMAIN ws, j \in DOMAIN vs : ws[i].end < vs[j].start

\* A joined sequence
LEMMA JoinIs ==
    ASSUME NEW X, NEW s \in Seq(X), NEW t \in Seq(X)
    PROVE  /\ s \o t \in Seq(X)
           /\ \A i \in DOMAIN (s \o t) : \/ i \in DOMAIN s /\ (s \o t)[i] = s[i]
                                         \/ i \notin DOMAIN s /\ i - Len(s) \in DOMAIN t
                                            /\ (s \o t)[i] = t[i - Len(s)]
           /\ \A i \in DOMAIN s : i \in DOMAIN (s \o t) /\ (s \o t)[i] = s[i]
           /\ \A i \in DOMAIN t : i + Len(s) \in DOMAIN (s \o t) /\ (s \o t)[i + Len(s)] = t[i]
<1>1. Len(s) \in Nat /\ Len(t) \in Nat /\ DOMAIN s = 1..Len(s) /\ DOMAIN t = 1..Len(t)
  OBVIOUS
<1>2. s \o t \in Seq(X)
  OBVIOUS
<1>3. DOMAIN (s \o t) = 1..(Len(s) + Len(t))
  OBVIOUS
<1>4. \A i \in 1..(Len(s) + Len(t)) : (s \o t)[i] = IF i <= Len(s) THEN s[i] ELSE t[i - Len(s)]
  OBVIOUS
<1> DEFINE c == s \o t
           l == Len(s)
           k == Len(t)
<1> HIDE DEF c, l, k
<1>5. l \in Nat /\ k \in Nat /\ DOMAIN s = 1..l /\ DOMAIN t = 1..k /\ DOMAIN c = 1..(l + k)
      /\ \A i \in 1..(l + k) : c[i] = IF i <= l THEN s[i] ELSE t[i - l]
  BY <1>1, <1>3, <1>4 DEF c, l, k
<1>6. \A i \in DOMAIN c : \/ i \in DOMAIN s /\ c[i] = s[i]
                          \/ i \notin DOMAIN s /\ i - l \in DOMAIN t /\ c[i] = t[i - l]
  BY <1>5
<1>7. \A i \in DOMAIN s : i \in DOMAIN c /\ c[i] = s[i]
  BY <1>5
<1>8. \A i \in DOMAIN t : i + l \in DOMAIN c /\ c[i + l] = t[i]
  <2> TAKE i \in DOMAIN t
  <2>1. i + l \in 1..(l + k) /\ ~(i + l <= l) /\ (i + l) - l = i
    BY <1>5
  <2> QED BY <1>5, <2>1
<1> QED BY <1>2, <1>6, <1>7, <1>8 DEF c, l

\* Joined words are one after the other, if those joined are.
LEMMA ProperJoins ==
    ASSUME NEW ws, NEW vs, Proper(ws), Proper(vs), Precede(ws, vs)
    PROVE  Proper(ws \o vs)
<1> DEFINE c == ws \o vs
           l == Len(ws)
<1>1. ws \in Seq(Word) /\ vs \in Seq(Word)
  BY DEF Proper
<1>2. /\ c \in Seq(Word)
      /\ \A i \in DOMAIN c : \/ i \in DOMAIN ws /\ c[i] = ws[i]
                             \/ i \notin DOMAIN ws /\ i - l \in DOMAIN vs /\ c[i] = vs[i - l]
  BY <1>1, JoinIs
<1>3. l \in Nat /\ DOMAIN ws = 1..l /\ DOMAIN c \subseteq Nat
  <2>1. l \in Nat /\ DOMAIN ws = 1..l
    BY <1>1
  <2> HIDE DEF c, l
  <2>2. DOMAIN c = 1..Len(c)
    BY <1>2
  <2> QED BY <2>1, <2>2
<1> HIDE DEF c, l
<1>4. \A i \in DOMAIN c : c[i].start < c[i].end
  BY <1>2 DEF Proper
<1>5. ASSUME NEW i \in DOMAIN c, NEW j \in DOMAIN c, i < j PROVE c[i].end < c[j].start
  <2>1. CASE j \in DOMAIN ws
    <3>1. i \in Nat /\ j \in 1..l /\ i # 0
      <4>1. DOMAIN c = 1..Len(c)
        BY <1>2
      <4>2. i \in 1..Len(c)
        BY <4>1
      <4>3. i # 0
        BY <4>2
      <4> QED BY <1>3, <2>1, <4>3
    <3>2. i \in 1..l
      BY <1>3, <1>5, <3>1
    <3>3. i \in DOMAIN ws
      BY <1>3, <3>2
    <3>4. c[i] = ws[i] /\ c[j] = ws[j]
      BY <1>2, <2>1, <3>3
    <3> QED BY <1>5, <2>1, <3>3, <3>4 DEF Proper
  <2>2. CASE j \notin DOMAIN ws /\ i \in DOMAIN ws
    BY <1>2, <2>2 DEF Precede
  <2>3. CASE j \notin DOMAIN ws /\ i \notin DOMAIN ws
    <3>1. i - l < j - l
      BY <1>3, <1>5
    <3>2. i - l \in DOMAIN vs /\ c[i] = vs[i - l] /\ j - l \in DOMAIN vs /\ c[j] = vs[j - l]
      BY <1>2, <2>3
    <3> QED BY <3>1, <3>2 DEF Proper
  <2> QED BY <2>1, <2>2, <2>3
<1> QED BY <1>2, <1>4, <1>5 DEF Proper, c

\* Placed words are one after the other, within the line.
LEMMA PlacedIs ==
    ASSUME NEW words \in Seq(Texts), NEW offset \in Nat
    PROVE  LET total == Sums([i \in DOMAIN words |-> Length[words[i]] + 1])[Len(words)]
           IN  /\ total \in Nat /\ (words # <<>> => total > 0)
               /\ Proper(Placed(words, offset))
               /\ DOMAIN Placed(words, offset) = DOMAIN words
               /\ \A i \in DOMAIN words : /\ offset <= Placed(words, offset)[i].start
                                          /\ Placed(words, offset)[i].end < offset + total
<1> DEFINE sizes == [i \in DOMAIN words |-> Length[words[i]] + 1]
           before == Sums(sizes)
           L == Len(words)
           p == Placed(words, offset)
<1>1. L \in Nat /\ DOMAIN words = 1..L /\ \A i \in 1..L : words[i] \in Texts
  OBVIOUS
<1>2. \A i \in 1..L : Length[words[i]] \in Nat \ {0}
  BY <1>1, ChunksAssumption
<1>3. sizes \in Seq(Nat) /\ Len(sizes) = L /\ \A i \in 1..L : sizes[i] = Length[words[i]] + 1
  <2>1. sizes \in [1..L -> Nat] /\ \A i \in 1..L : sizes[i] = Length[words[i]] + 1
    BY <1>1, <1>2
  <2> HIDE DEF sizes, L
  <2> QED BY <1>1, <2>1
<1> HIDE DEF sizes
<1>4. /\ before \in [0..L -> Nat] /\ before[0] = 0
      /\ \A i \in 1..L : before[i] = before[i - 1] + sizes[i]
      /\ \A m, n \in 0..L : m <= n => before[m] <= before[n]
  BY <1>3, SumsAre
<1>5. p = [i \in 1..L |-> [word |-> words[i], start |-> offset + before[i - 1],
                          end |-> offset + before[i - 1] + Length[words[i]]]]
  BY <1>1 DEF Placed, sizes
<1> HIDE DEF before, p, L
<1>6. ASSUME NEW i \in 1..L
      PROVE  /\ before[i - 1] \in Nat /\ before[i] \in Nat /\ before[i] <= before[L]
             /\ Length[words[i]] \in Nat \ {0} /\ before[i] = before[i - 1] + Length[words[i]] + 1
             /\ before[L] \in Nat
             /\ p[i].start = offset + before[i - 1]
             /\ p[i].end = offset + before[i - 1] + Length[words[i]]
             /\ p[i] \in Word
  <2>1. i - 1 \in 0..L /\ i \in 0..L /\ L \in 0..L /\ i <= L
    BY <1>1
  <2>2. before[i - 1] \in Nat /\ before[i] \in Nat /\ before[i] <= before[L] /\ before[L] \in Nat
    BY <1>4, <2>1
  <2>3. Length[words[i]] \in Nat \ {0} /\ words[i] \in Texts
    BY <1>1, <1>2
  <2>4. before[i] = before[i - 1] + Length[words[i]] + 1
    <3>1. before[i] = before[i - 1] + sizes[i] /\ sizes[i] = Length[words[i]] + 1
      BY <1>3, <1>4
    <3> DEFINE x == before[i - 1]
               y == Length[words[i]]
    <3>2. x \in Nat /\ y \in Nat
      BY <2>2, <2>3
    <3> HIDE DEF x, y
    <3>3. before[i] = x + (y + 1)
      BY <3>1 DEF x, y
    <3> QED BY <3>2, <3>3 DEF x, y
  <2>5. p[i] = [word |-> words[i], start |-> offset + before[i - 1],
                end |-> offset + before[i - 1] + Length[words[i]]]
    BY <1>5
  <2> DEFINE x == before[i - 1]
             y == Length[words[i]]
  <2>6. x \in Nat /\ y \in Nat \ {0} /\ words[i] \in Texts
        /\ p[i] = [word |-> words[i], start |-> offset + x, end |-> offset + x + y]
    BY <2>2, <2>3, <2>5
  <2> HIDE DEF x, y
  <2>7. p[i] \in Word /\ p[i].start = offset + x /\ p[i].end = offset + x + y
    BY <2>6 DEF Word
  <2> QED BY <2>2, <2>3, <2>4, <2>7 DEF x, y
<1>7. p \in Seq(Word) /\ DOMAIN p = 1..L
  <2>1. p \in [1..L -> Word]
    BY <1>5, <1>6
  <2> QED BY <1>1, <2>1
<1>8. \A i \in 1..L : p[i].start < p[i].end /\ offset <= p[i].start /\ p[i].end < offset + before[L]
  BY <1>6
<1>9. ASSUME NEW i \in 1..L, NEW j \in 1..L, i < j PROVE p[i].end < p[j].start
  <2>1. i \in 0..L /\ j - 1 \in 0..L /\ i <= j - 1
    BY <1>1, <1>9
  <2>2. before[i] <= before[j - 1]
    BY <1>4, <2>1
  <2> DEFINE x == before[i - 1]
             y == Length[words[i]]
             z == before[j - 1]
  <2>3. x \in Nat /\ y \in Nat /\ z \in Nat /\ before[i] = x + y + 1
        /\ p[i].end = offset + x + y /\ p[j].start = offset + z
    BY <1>6
  <2> HIDE DEF x, y
  <2>4. x + y + 1 <= z
    BY <2>2, <2>3
  <2> QED BY <2>3, <2>4
<1>10. Proper(p)
  BY <1>7, <1>8, <1>9 DEF Proper
<1>11. before[L] \in Nat /\ (words # <<>> => before[L] > 0)
  <2>1. L \in 0..L
    BY <1>1
  <2>2. before[L] \in Nat
    BY <1>4, <2>1
  <2>3. ASSUME words # <<>> PROVE before[L] > 0
    <3>1. L # 0
      BY <2>3 DEF L
    <3>2. L \in 1..L
      BY <1>1, <3>1
    <3> DEFINE t == p[L].start
               e == p[L].end
               b == before[L]
    <3>3. offset <= t /\ t < e /\ e < offset + b
      BY <1>8, <3>2
    <3>4. t \in Nat /\ e \in Nat /\ b \in Nat
      <4>1. p[L] \in Word
        BY <1>6, <3>2
      <4> QED BY <2>2, <4>1 DEF Word
    <3> HIDE DEF t, e, b
    <3>5. b > 0
      BY <3>3, <3>4
    <3> QED BY <3>5 DEF b
  <2> QED BY <2>2, <2>3
<1> QED BY <1>1, <1>7, <1>8, <1>10, <1>11 DEF before, sizes, p, L

\* A line is longer than nothing.
LEMMA SizeIs ==
    ASSUME NEW line \in LineOfPage
    PROVE  Size(line) \in Nat \ {0}
<1>1. CASE line.kind = "heading"
  <2>1. line.level \in Nat \ {0} /\ line.label \in Texts
    BY <1>1 DEF LineOfPage, BlankLine
  <2>2. Length[line.label] \in Nat
    BY <2>1, ChunksAssumption
  <2>3. Size(line) = line.level + 1 + Length[line.label] + 1
    BY <1>1 DEF Size
  <2> QED BY <2>1, <2>2, <2>3
<1>2. CASE line.kind = "blank"
  <2>1. Size(line) = 1
    BY <1>2 DEF Size
  <2> QED BY <2>1
<1>3. CASE line.kind = "text"
  <2>1. line.words \in Seq(Texts) /\ line.words # <<>>
    BY <1>3 DEF LineOfPage, BlankLine
  <2>2. Size(line) = Sums([i \in DOMAIN line.words |-> Length[line.words[i]] + 1])[Len(line.words)]
    BY <1>3 DEF Size
  <2>3. 0 \in Nat
    OBVIOUS
  <2>4. LET total == Sums([i \in DOMAIN line.words |-> Length[line.words[i]] + 1])[Len(line.words)]
        IN  total \in Nat /\ total > 0
    BY <2>1, <2>3, PlacedIs
  <2> QED BY <2>2, <2>4
<1>4. line.kind \in {"heading", "blank", "text"}
  BY DEF LineOfPage, BlankLine
<1> QED BY <1>1, <1>2, <1>3, <1>4

\* A finished paragraph
LEMMA FlushIs ==
    ASSUME NEW s \in Reader
    PROVE  /\ FlushParagraph(s) \in Reader
           /\ FlushParagraph(s).open = <<>> /\ FlushParagraph(s).breadcrumb = s.breadcrumb
           /\ FlushParagraph(s).offset = s.offset
           /\ s.open = <<>> => FlushParagraph(s).done = s.done
           /\ s.open # <<>> =>
                FlushParagraph(s).done = Append(s.done, [words |-> s.open, breadcrumb |-> s.breadcrumb])
<1>1. /\ s.done \in Seq(Paragraph) /\ s.open \in Seq(Word) /\ s.breadcrumb \in Seq(Texts) /\ s.offset \in Nat
      /\ s = [done |-> s.done, open |-> s.open, breadcrumb |-> s.breadcrumb, offset |-> s.offset]
  BY DEF Reader
<1>2. CASE s.open = <<>>
  BY <1>1, <1>2 DEF FlushParagraph
<1>3. CASE s.open # <<>>
  <2> DEFINE d == Append(s.done, [words |-> s.open, breadcrumb |-> s.breadcrumb])
  <2>1. FlushParagraph(s) = [s EXCEPT !.done = d, !.open = <<>>]
    BY <1>3 DEF FlushParagraph
  <2>2. [words |-> s.open, breadcrumb |-> s.breadcrumb] \in Paragraph
    BY <1>1 DEF Paragraph
  <2>3. d \in Seq(Paragraph) /\ <<>> \in Seq(Word)
    BY <1>1, <2>2
  <2> HIDE DEF d
  <2>4. FlushParagraph(s) = [done |-> d, open |-> <<>>, breadcrumb |-> s.breadcrumb, offset |-> s.offset]
    BY <1>1, <2>1 DEF Reader
  <2> QED BY <1>1, <1>3, <2>3, <2>4 DEF Reader, d
<1> QED BY <1>2, <1>3

\* The headings above
LEMMA BreadcrumbIs ==
    ASSUME NEW b \in Seq(Texts), NEW level \in Nat \ {0}, NEW label \in Texts
    PROVE  \E m \in Nat : /\ m = (IF level - 1 <= Len(b) THEN level - 1 ELSE Len(b))
                          /\ Breadcrumb(b, level, label) \in Seq(Texts)
                          /\ Breadcrumb(b, level, label) =
                               [k \in 1..(m + 1) |-> IF k = m + 1 THEN label ELSE b[k]]
<1> DEFINE m == IF level - 1 <= Len(b) THEN level - 1 ELSE Len(b)
<1>1. Len(b) \in Nat /\ m \in Nat /\ m <= Len(b) /\ level - 1 \in Int
  OBVIOUS
<1>2. Min({level - 1, Len(b)}) = m
  BY <1>1, OfTwo
<1>3. Breadcrumb(b, level, label) = Append(SubSeq(b, 1, m), label)
  BY <1>2 DEF Breadcrumb
<1> HIDE DEF m
<1> DEFINE t == SubSeq(b, 1, m)
<1>4. t = [k \in 1..m |-> b[k]]
  BY <1>1
<1>5. \A k \in 1..m : b[k] \in Texts
  BY <1>1
<1>6. t \in [1..m -> Texts]
  BY <1>4, <1>5
<1>7. t \in Seq(Texts) /\ Len(t) = m /\ \A k \in 1..m : t[k] = b[k]
  BY <1>1, <1>4, <1>6
<1> HIDE DEF t
<1>8. Append(t, label) \in Seq(Texts)
  BY <1>7
<1>9. Append(t, label) = [k \in 1..(m + 1) |-> IF k = m + 1 THEN label ELSE t[k]]
  <2> DEFINE a == Append(t, label)
  <2>1. t \in Seq(Texts) /\ Len(t) = m
    BY <1>7
  <2>2. a \in Seq(Texts) /\ Len(a) = Len(t) + 1 /\ a[Len(t) + 1] = label
        /\ \A k \in 1..Len(t) : a[k] = t[k]
    BY <2>1
  <2> HIDE DEF a
  <2>3. a = [k \in 1..(m + 1) |-> a[k]]
    BY <2>1, <2>2
  <2>4. \A k \in 1..(m + 1) : k = m + 1 \/ (k # m + 1 /\ k \in 1..m)
    BY <1>1
  <2>5. \A k \in 1..(m + 1) : a[k] = IF k = m + 1 THEN label ELSE t[k]
    BY <2>1, <2>2, <2>4
  <2>6. a = [k \in 1..(m + 1) |-> IF k = m + 1 THEN label ELSE t[k]]
    BY <2>3, <2>5
  <2> QED BY <2>6 DEF a
<1>10. Append(t, label) = [k \in 1..(m + 1) |-> IF k = m + 1 THEN label ELSE b[k]]
  <2>1. \A k \in 1..(m + 1) : k # m + 1 => k \in 1..m
    BY <1>1
  <2> QED BY <1>7, <1>9, <2>1
<1> QED BY <1>1, <1>3, <1>8, <1>10 DEF t, m

\* What reading one line does
LEMMA ReadLineIs ==
    ASSUME NEW s \in Reader, NEW line \in LineOfPage
    PROVE  /\ ReadLine(s, line) \in Reader
           /\ ReadLine(s, line).offset = s.offset + Size(line)
           /\ line.kind = "text" =>
                /\ line.words \in Seq(Texts)
                /\ ReadLine(s, line).done = s.done /\ ReadLine(s, line).breadcrumb = s.breadcrumb
                /\ ReadLine(s, line).open = s.open \o Placed(line.words, s.offset)
           /\ line.kind # "text" =>
                /\ ReadLine(s, line).done = FlushParagraph(s).done /\ ReadLine(s, line).open = <<>>
           /\ line.kind = "blank" => ReadLine(s, line).breadcrumb = s.breadcrumb
           /\ line.kind = "heading" =>
                /\ line.level \in Nat \ {0} /\ line.label \in Texts
                /\ ReadLine(s, line).breadcrumb = Breadcrumb(s.breadcrumb, line.level, line.label)
<1>1. /\ s.done \in Seq(Paragraph) /\ s.open \in Seq(Word) /\ s.breadcrumb \in Seq(Texts) /\ s.offset \in Nat
      /\ s = [done |-> s.done, open |-> s.open, breadcrumb |-> s.breadcrumb, offset |-> s.offset]
  BY DEF Reader
<1>2. Size(line) \in Nat
  BY SizeIs
<1> DEFINE f == FlushParagraph(s)
           r == ReadLine(s, line)
<1>3. /\ f \in Reader /\ f.open = <<>> /\ f.breadcrumb = s.breadcrumb /\ f.offset = s.offset
      /\ f = [done |-> f.done, open |-> <<>>, breadcrumb |-> s.breadcrumb, offset |-> s.offset]
      /\ f.done \in Seq(Paragraph)
  <2>1. f \in Reader /\ f.open = <<>> /\ f.breadcrumb = s.breadcrumb /\ f.offset = s.offset
    BY FlushIs
  <2> HIDE DEF f
  <2> QED BY <2>1 DEF Reader
<1> HIDE DEF f
<1>4. CASE line.kind = "heading"
  <2> DEFINE b == Breadcrumb(s.breadcrumb, line.level, line.label)
  <2>1. line.level \in Nat \ {0} /\ line.label \in Texts
    BY <1>4 DEF LineOfPage, BlankLine
  <2>2. b \in Seq(Texts)
    BY <1>1, <2>1, BreadcrumbIs
  <2>3. r = [[f EXCEPT !.breadcrumb = Breadcrumb(@, line.level, line.label)] EXCEPT !.offset = @ + Size(line)]
    BY <1>4 DEF ReadLine, f
  <2>4. [f EXCEPT !.breadcrumb = Breadcrumb(@, line.level, line.label)]
        = [done |-> f.done, open |-> <<>>, breadcrumb |-> b, offset |-> s.offset]
    BY <1>3
  <2> HIDE DEF b
  <2>5. r = [done |-> f.done, open |-> <<>>, breadcrumb |-> b, offset |-> s.offset + Size(line)]
    BY <2>3, <2>4
  <2> HIDE DEF r
  <2>6. s.offset + Size(line) \in Nat /\ <<>> \in Seq(Word)
    BY <1>1, <1>2
  <2>7. r \in Reader
    BY <1>3, <2>2, <2>5, <2>6 DEF Reader
  <2> QED BY <1>4, <2>1, <2>5, <2>7 DEF b, r, f
<1>5. CASE line.kind = "blank"
  <2>1. r = [f EXCEPT !.offset = @ + Size(line)]
    BY <1>5 DEF ReadLine, f
  <2>2. r = [done |-> f.done, open |-> <<>>, breadcrumb |-> s.breadcrumb, offset |-> s.offset + Size(line)]
    BY <1>3, <2>1
  <2> HIDE DEF r
  <2>3. s.offset + Size(line) \in Nat /\ <<>> \in Seq(Word)
    BY <1>1, <1>2
  <2>4. r \in Reader
    BY <1>1, <1>3, <2>2, <2>3 DEF Reader
  <2> QED BY <1>5, <2>2, <2>4 DEF r, f
<1>6. CASE line.kind = "text"
  <2> DEFINE o == s.open \o Placed(line.words, s.offset)
  <2>1. line.words \in Seq(Texts)
    BY <1>6 DEF LineOfPage, BlankLine
  <2>2. Proper(Placed(line.words, s.offset))
    BY <1>1, <2>1, PlacedIs
  <2>3. o \in Seq(Word)
    BY <1>1, <2>2 DEF Proper
  <2>4. r = [[s EXCEPT !.open = @ \o Placed(line.words, s.offset)] EXCEPT !.offset = @ + Size(line)]
    BY <1>6 DEF ReadLine
  <2>5. [s EXCEPT !.open = @ \o Placed(line.words, s.offset)]
        = [done |-> s.done, open |-> o, breadcrumb |-> s.breadcrumb, offset |-> s.offset]
    <3>1. [s EXCEPT !.open = @ \o Placed(line.words, s.offset)] = [s EXCEPT !.open = o]
      OBVIOUS
    <3> HIDE DEF o
    <3>2. [s EXCEPT !.open = o]
          = [done |-> s.done, open |-> o, breadcrumb |-> s.breadcrumb, offset |-> s.offset]
      BY <1>1 DEF Reader
    <3> QED BY <3>1, <3>2
  <2> HIDE DEF o
  <2>6. r = [done |-> s.done, open |-> o, breadcrumb |-> s.breadcrumb, offset |-> s.offset + Size(line)]
    BY <2>4, <2>5
  <2> HIDE DEF r
  <2>7. s.offset + Size(line) \in Nat
    BY <1>1, <1>2
  <2>8. r \in Reader
    BY <1>1, <2>3, <2>6, <2>7 DEF Reader
  <2>9. /\ r.offset = s.offset + Size(line) /\ r.done = s.done /\ r.breadcrumb = s.breadcrumb
        /\ r.open = o
    BY <2>6
  <2>10. line.kind # "heading" /\ line.kind # "blank"
    BY <1>6
  <2> QED BY <1>6, <2>1, <2>8, <2>9, <2>10, Zenon DEF o, r
<1>7. line.kind \in {"heading", "blank", "text"}
  BY DEF LineOfPage, BlankLine
<1> QED BY <1>4, <1>5, <1>6, <1>7 DEF r, f

NothingRead == [done |-> <<>>, open |-> <<>>, breadcrumb |-> <<>>, offset |-> 0]

\* A page is read line by line.
LEMMA ReadsAre ==
    ASSUME NEW page \in Page
    PROVE  /\ page.lines \in Seq(LineOfPage)
           /\ ReadLines(page) \in [0..Len(page.lines) -> Reader]
           /\ ReadLines(page)[0] = NothingRead
           /\ \A n \in 1..Len(page.lines) :
                 ReadLines(page)[n] = ReadLine(ReadLines(page)[n - 1], page.lines[n])
<1> DEFINE lines == page.lines
           L == Len(lines)
           step == [n \in 1..L |-> [x \in Reader |-> ReadLine(x, lines[n])]]
           F == CHOOSE g : g = [n \in 0..L |-> IF n = 0 THEN NothingRead ELSE ReadLine(g[n - 1], lines[n])]
<1>1. lines \in Seq(LineOfPage)
  BY DEF Page, LineOfPage
<1>2. ReadLines(page) = F
  BY DEF ReadLines, NothingRead
<1> HIDE DEF lines
<1>3. L \in Nat /\ \A n \in 1..L : lines[n] \in LineOfPage
  BY <1>1
<1>4. NothingRead \in Reader
  <2>1. <<>> \in Seq(Paragraph) /\ <<>> \in Seq(Word) /\ <<>> \in Seq(Texts)
    OBVIOUS
  <2> QED BY <2>1 DEF NothingRead, Reader
<1>5. PICK g : g \in Runs(L, Reader, NothingRead, step)
  <2>1. \A n \in 1..L : \A x \in Reader : ReadLine(x, lines[n]) \in Reader
    BY <1>3, ReadLineIs
  <2>2. step \in [1..L -> [Reader -> Reader]]
    BY <2>1
  <2> HIDE DEF step, L
  <2>3. Runs(L, Reader, NothingRead, step) # {}
    BY <1>3, <1>4, <2>2, RunsExist
  <2> QED BY <2>3
<1>6. /\ g \in [0..L -> Reader] /\ g[0] = NothingRead
      /\ \A n \in 1..L : g[n] = ReadLine(g[n - 1], lines[n])
  <2>1. g \in [0..L -> Reader] /\ g[0] = NothingRead /\ \A n \in 1..L : g[n] = step[n][g[n - 1]]
    BY <1>5 DEF Runs
  <2>2. \A n \in 1..L : n - 1 \in 0..L
    BY <1>3
  <2>3. \A n \in 1..L : g[n - 1] \in Reader
    BY <2>1, <2>2
  <2> QED BY <2>1, <2>3
<1>7. g = [n \in 0..L |-> IF n = 0 THEN NothingRead ELSE ReadLine(g[n - 1], lines[n])]
  BY <1>6
<1>8. F = [n \in 0..L |-> IF n = 0 THEN NothingRead ELSE ReadLine(F[n - 1], lines[n])]
  BY <1>7
<1> HIDE DEF F, L, step
<1>9. F[0] = NothingRead /\ \A n \in 1..L : F[n] = ReadLine(F[n - 1], lines[n])
  <2>1. \A n \in 1..L : n \in 0..L /\ n # 0
    OBVIOUS
  <2>2. 0 \in 0..L
    BY <1>3
  <2> QED BY <1>8, <2>1, <2>2
<1> DEFINE N == {n \in 0..L : F[n] \in Reader}
<1>10. 0 \in N
  BY <1>3, <1>4, <1>9
<1>11. ASSUME NEW n \in 0..L, n \in N, n < L PROVE n + 1 \in N
  <2>1. n + 1 \in 1..L /\ n + 1 \in 0..L /\ (n + 1) - 1 = n
    BY <1>3, <1>11
  <2>2. F[n + 1] = ReadLine(F[n], lines[n + 1]) /\ lines[n + 1] \in LineOfPage
    BY <1>3, <1>9, <2>1
  <2>3. F[n] \in Reader
    BY <1>11
  <2>4. F[n + 1] \in Reader
    BY <2>2, <2>3, ReadLineIs
  <2> QED BY <2>1, <2>4
<1>12. \A n \in 0..L : n \in N /\ n < L => n + 1 \in N
  BY <1>11, Zenon
<1> HIDE DEF N
<1>13. 0..L \subseteq N
  BY <1>3, <1>10, <1>12, Upto, Zenon
<1>14. \A n \in 0..L : F[n] \in Reader
  BY <1>13 DEF N
<1>15. F \in [0..L -> Reader]
  <2>1. F = [n \in 0..L |-> F[n]]
    BY <1>8
  <2> QED BY <1>14, <2>1
<1> QED BY <1>1, <1>2, <1>9, <1>15 DEF L, lines

-----------------------------------------------------------------------------
(* What has been read *)

\* Paragraphs, and the words after them, are one after the other, up to an offset.
Told(done, open, offset) ==
    /\ Proper(open) /\ \A k \in DOMAIN open : open[k].end < offset
    /\ \A d \in DOMAIN done :
          /\ done[d].words # <<>> /\ Proper(done[d].words)
          /\ \A k \in DOMAIN done[d].words : done[d].words[k].end < offset
          /\ Precede(done[d].words, open)
    /\ \A c, d \in DOMAIN done : c < d => Precede(done[c].words, done[d].words)

\* A word is in a paragraph, or after them, below these headings.
Holds(done, open, breadcrumb, w, crumb) ==
    \/ \E d \in DOMAIN done : w \in ToSet(done[d].words) /\ done[d].breadcrumb = crumb
    \/ w \in ToSet(open) /\ breadcrumb = crumb

\* No paragraph goes over an offset, and all words after them are behind it.
Apart(done, open, offset) ==
    /\ \A k \in DOMAIN open : offset <= open[k].start
    /\ \A d \in DOMAIN done : \/ \A k \in DOMAIN done[d].words : offset <= done[d].words[k].start
                              \/ \A k \in DOMAIN done[d].words : done[d].words[k].end <= offset

\* An appended element
LEMMA AppendIs ==
    ASSUME NEW X, NEW s \in Seq(X), NEW x \in X
    PROVE  /\ Append(s, x) \in Seq(X)
           /\ \A i \in DOMAIN Append(s, x) : \/ i \in DOMAIN s /\ Append(s, x)[i] = s[i]
                                             \/ i = Len(s) + 1 /\ Append(s, x)[i] = x
           /\ \A i \in DOMAIN s : i \in DOMAIN Append(s, x) /\ Append(s, x)[i] = s[i] /\ i < Len(s) + 1
           /\ Len(s) + 1 \in DOMAIN Append(s, x) /\ Append(s, x)[Len(s) + 1] = x
<1> DEFINE a == Append(s, x)
           l == Len(s)
<1>1. l \in Nat /\ DOMAIN s = 1..l
  OBVIOUS
<1>2. a \in Seq(X) /\ Len(a) = Len(s) + 1 /\ a[Len(s) + 1] = x
  OBVIOUS
<1>3. \A k \in 1..Len(s) : a[k] = s[k]
  OBVIOUS
<1> HIDE DEF a, l
<1>4. DOMAIN a = 1..(l + 1) /\ a[l + 1] = x /\ \A k \in 1..l : a[k] = s[k]
  BY <1>2, <1>3 DEF l
<1>5. \A i \in DOMAIN a : (i \in DOMAIN s /\ a[i] = s[i]) \/ (i = l + 1 /\ a[i] = x)
  BY <1>1, <1>4
<1>6. \A i \in DOMAIN s : i \in DOMAIN a /\ a[i] = s[i] /\ i < l + 1
  BY <1>1, <1>4
<1>7. l + 1 \in DOMAIN a /\ a[l + 1] = x
  BY <1>1, <1>4
<1> QED BY <1>2, <1>5, <1>6, <1>7 DEF a, l

\* A finished paragraph keeps what was told, held and apart.
LEMMA FlushKeeps ==
    ASSUME NEW s \in Reader
    PROVE  /\ Told(s.done, s.open, s.offset) => /\ Told(FlushParagraph(s).done, <<>>, s.offset)
                                                /\ Apart(FlushParagraph(s).done, <<>>, s.offset)
           /\ \A w, crumb, b : Holds(s.done, s.open, s.breadcrumb, w, crumb) =>
                                  Holds(FlushParagraph(s).done, <<>>, b, w, crumb)
           /\ \A o : Apart(s.done, s.open, o) => Apart(FlushParagraph(s).done, <<>>, o)
<1> DEFINE f == FlushParagraph(s).done
           x == [words |-> s.open, breadcrumb |-> s.breadcrumb]
           l == Len(s.done) + 1
<1>1. s.done \in Seq(Paragraph) /\ s.open \in Seq(Word) /\ s.breadcrumb \in Seq(Texts) /\ s.offset \in Nat
  BY DEF Reader
<1>2. x \in Paragraph /\ x.words = s.open /\ x.breadcrumb = s.breadcrumb
  BY <1>1 DEF Paragraph
<1>3. f \in Seq(Paragraph)
  <2>1. FlushParagraph(s) \in Reader
    BY FlushIs
  <2> QED BY <2>1 DEF Reader
<1>4. s.open = <<>> => f = s.done
  BY FlushIs
<1>5. s.open # <<>> => f = Append(s.done, x)
  BY FlushIs
<1> HIDE DEF f, x
<1>6. l \in Nat /\ \A d \in DOMAIN s.done : d \in Nat /\ d < l
  <2> DEFINE t == s.done
  <2>1. t \in Seq(Paragraph)
    BY <1>1
  <2> HIDE DEF t
  <2>2. Len(t) \in Nat /\ DOMAIN t = 1..Len(t)
    BY <2>1
  <2>3. Len(t) + 1 \in Nat /\ \A d \in DOMAIN t : d \in Nat /\ d < Len(t) + 1
    BY <2>2
  <2> QED BY <2>3 DEF t
<1> HIDE DEF l
<1>7. \A d \in DOMAIN f : \/ d \in DOMAIN s.done /\ f[d] = s.done[d]
                          \/ d = l /\ f[d] = x /\ s.open # <<>>
  <2>1. CASE s.open = <<>>
    BY <1>4, <2>1
  <2>2. CASE s.open # <<>>
    BY <1>1, <1>2, <1>5, <2>2, AppendIs DEF l
  <2> QED BY <2>1, <2>2
<1>8. /\ \A d \in DOMAIN s.done : d \in DOMAIN f /\ f[d] = s.done[d]
      /\ s.open # <<>> => l \in DOMAIN f /\ f[l] = x
  <2>1. CASE s.open = <<>>
    BY <1>4, <2>1
  <2>2. CASE s.open # <<>>
    BY <1>1, <1>2, <1>5, <2>2, AppendIs DEF l
  <2> QED BY <2>1, <2>2
<1>9. <<>> \in Seq(Word) /\ DOMAIN <<>> = {}
  OBVIOUS
<1>10. ASSUME Told(s.done, s.open, s.offset)
       PROVE  Told(f, <<>>, s.offset) /\ Apart(f, <<>>, s.offset)
  <2>1. /\ Proper(s.open) /\ \A k \in DOMAIN s.open : s.open[k].end < s.offset
        /\ \A d \in DOMAIN s.done :
              /\ s.done[d].words # <<>> /\ Proper(s.done[d].words)
              /\ \A k \in DOMAIN s.done[d].words : s.done[d].words[k].end < s.offset
              /\ Precede(s.done[d].words, s.open)
        /\ \A c, d \in DOMAIN s.done : c < d => Precede(s.done[c].words, s.done[d].words)
    BY <1>10 DEF Told
  <2>2. Proper(<<>>) /\ \A ws : Precede(ws, <<>>)
    BY <1>9 DEF Proper, Precede
  <2>3. ASSUME NEW d \in DOMAIN f
        PROVE  /\ f[d].words # <<>> /\ Proper(f[d].words)
               /\ \A k \in DOMAIN f[d].words : f[d].words[k].end < s.offset
    BY <1>2, <1>7, <2>1
  <2>4. ASSUME NEW c \in DOMAIN f, NEW d \in DOMAIN f, c < d PROVE Precede(f[c].words, f[d].words)
    <3>1. CASE d \in DOMAIN s.done /\ f[d] = s.done[d]
      <4>1. c \in DOMAIN s.done /\ f[c] = s.done[c]
        <5>1. ~(c = l)
          BY <1>6, <2>4, <3>1
        <5> QED BY <1>7, <5>1
      <4> QED BY <2>1, <2>4, <3>1, <4>1
    <3>2. CASE d = l /\ f[d] = x
      <4>1. c \in DOMAIN s.done /\ f[c] = s.done[c]
        <5>1. ~(c = l)
          BY <1>6, <2>4, <3>2
        <5> QED BY <1>7, <5>1
      <4> QED BY <1>2, <2>1, <3>2, <4>1
    <3> QED BY <1>7, <3>1, <3>2
  <2>5. Told(f, <<>>, s.offset)
    BY <1>9, <2>2, <2>3, <2>4 DEF Told
  <2>6. Apart(f, <<>>, s.offset)
    <3>1. \A d \in DOMAIN f : \A k \in DOMAIN f[d].words : f[d].words[k].end <= s.offset
      <4> SUFFICES ASSUME NEW d \in DOMAIN f, NEW k \in DOMAIN f[d].words
                   PROVE  f[d].words[k].end <= s.offset
        OBVIOUS
      <4>1. f[d].words[k].end < s.offset
        BY <2>3
      <4>2. f[d].words[k].end \in Nat
        <5> DEFINE t == f[d].words
        <5>1. t \in Seq(Word)
          BY <2>3 DEF Proper
        <5>2. k \in DOMAIN t
          OBVIOUS
        <5> HIDE DEF t
        <5>3. t[k] \in Word
          BY <5>1, <5>2
        <5> QED BY <5>3 DEF Word, t
      <4> QED BY <1>1, <4>1, <4>2
    <3> QED BY <1>9, <3>1 DEF Apart
  <2> QED BY <2>5, <2>6
<1>11. ASSUME NEW w, NEW crumb, NEW b, Holds(s.done, s.open, s.breadcrumb, w, crumb)
       PROVE  Holds(f, <<>>, b, w, crumb)
  <2>1. CASE \E d \in DOMAIN s.done : w \in ToSet(s.done[d].words) /\ s.done[d].breadcrumb = crumb
    BY <1>8, <2>1 DEF Holds
  <2>2. CASE w \in ToSet(s.open) /\ s.breadcrumb = crumb
    <3>1. s.open # <<>>
      BY <1>9, <2>2 DEF ToSet
    <3> QED BY <1>2, <1>8, <2>2, <3>1 DEF Holds
  <2> QED BY <1>11, <2>1, <2>2 DEF Holds
<1>12. ASSUME NEW o, Apart(s.done, s.open, o) PROVE Apart(f, <<>>, o)
  <2>1. /\ \A k \in DOMAIN s.open : o <= s.open[k].start
        /\ \A d \in DOMAIN s.done : \/ \A k \in DOMAIN s.done[d].words : o <= s.done[d].words[k].start
                                    \/ \A k \in DOMAIN s.done[d].words : s.done[d].words[k].end <= o
    BY <1>12 DEF Apart
  <2>2. ASSUME NEW d \in DOMAIN f
        PROVE  \/ \A k \in DOMAIN f[d].words : o <= f[d].words[k].start
               \/ \A k \in DOMAIN f[d].words : f[d].words[k].end <= o
    BY <1>2, <1>7, <2>1
  <2> QED BY <1>9, <2>2 DEF Apart
<1> QED BY <1>10, <1>11, <1>12 DEF f

\* Where each line ends
Ends(page) == Sums([j \in DOMAIN page.lines |-> Size(page.lines[j])])
\* The headings of line i
Crumb(page, i) == ReadLines(page)[i - 1].breadcrumb

\* Lines follow each other without a gap, and none is empty.
LEMMA EndsAre ==
    ASSUME NEW page \in Page
    PROVE  /\ Len(page.lines) \in Nat /\ DOMAIN page.lines = 1..Len(page.lines)
           /\ Ends(page) \in [0..Len(page.lines) -> Nat] /\ Ends(page)[0] = 0
           /\ \A m, n \in 0..Len(page.lines) : m <= n => Ends(page)[m] <= Ends(page)[n]
           /\ \A n \in 1..Len(page.lines) : /\ page.lines[n] \in LineOfPage
                                            /\ Ends(page)[n] = Ends(page)[n - 1] + Size(page.lines[n])
                                            /\ Offset(page, n) = Ends(page)[n - 1]
                                            /\ Size(page.lines[n]) \in Nat \ {0}
<1> DEFINE lines == page.lines
           L == Len(lines)
           sizes == [j \in DOMAIN lines |-> Size(lines[j])]
<1>1. lines \in Seq(LineOfPage)
  BY ReadsAre
<1>2. L \in Nat /\ DOMAIN lines = 1..L /\ \A n \in 1..L : lines[n] \in LineOfPage
  <2> HIDE DEF lines
  <2> QED BY <1>1
<1>3. \A n \in 1..L : Size(lines[n]) \in Nat \ {0}
  BY <1>2, SizeIs
<1> HIDE DEF lines, L
<1>4. sizes \in Seq(Nat) /\ Len(sizes) = L /\ \A n \in 1..L : sizes[n] = Size(lines[n])
  <2>1. sizes \in [1..L -> Nat] /\ \A n \in 1..L : sizes[n] = Size(lines[n])
    BY <1>2, <1>3
  <2> HIDE DEF sizes
  <2> QED BY <1>2, <2>1
<1> HIDE DEF sizes
<1>5. /\ Sums(sizes) \in [0..L -> Nat] /\ Sums(sizes)[0] = 0
      /\ \A n \in 1..L : Sums(sizes)[n] = Sums(sizes)[n - 1] + sizes[n]
      /\ \A m, n \in 0..L : m <= n => Sums(sizes)[m] <= Sums(sizes)[n]
  BY <1>4, SumsAre
<1>6. Ends(page) = Sums(sizes)
  BY DEF Ends, sizes, lines
<1>7. \A n : Offset(page, n) = Ends(page)[n - 1]
  BY DEF Offset, Ends
<1>8. \A n \in 1..L : Ends(page)[n] = Ends(page)[n - 1] + Size(lines[n])
  BY <1>4, <1>5, <1>6
<1> QED BY <1>2, <1>3, <1>5, <1>6, <1>7, <1>8 DEF L, lines

\* What has been read of the first n lines
ReadSoFar(page, n) ==
    LET s == ReadLines(page)[n]
    IN  /\ s.offset = Ends(page)[n]
        /\ Told(s.done, s.open, s.offset)
        /\ \A i \in TextLines(page) : i <= n =>
              \A w \in WordsAt(page, i) : Holds(s.done, s.open, s.breadcrumb, w, Crumb(page, i))
        /\ \A i \in DOMAIN page.lines \ TextLines(page) : i <= n => Apart(s.done, s.open, Offset(page, i))

\* One more line, and what has been read is still as it should be (vector.py:704-726).
LEMMA ReadSoFarGoesOn ==
    ASSUME NEW page \in Page, NEW n \in 1..Len(page.lines), ReadSoFar(page, n - 1)
    PROVE  ReadSoFar(page, n)
<1> DEFINE s == ReadLines(page)[n - 1]
           r == ReadLines(page)[n]
           line == page.lines[n]
           L == Len(page.lines)
<1>1. L \in Nat /\ n - 1 \in 0..L /\ n \in 0..L /\ n \in Nat /\ n - 1 \in Nat
      /\ DOMAIN page.lines = 1..L /\ n \in DOMAIN page.lines
  BY EndsAre
<1>2. line \in LineOfPage /\ Ends(page)[n] = Ends(page)[n - 1] + Size(line)
      /\ Offset(page, n) = Ends(page)[n - 1] /\ Size(line) \in Nat \ {0}
      /\ Ends(page)[n - 1] \in Nat
  BY <1>1, EndsAre
<1>3. s \in Reader /\ r = ReadLine(s, line)
  BY <1>1, ReadsAre
<1>4. /\ s.offset = Ends(page)[n - 1]
      /\ Told(s.done, s.open, s.offset)
      /\ \A i \in TextLines(page) : i <= n - 1 =>
            \A w \in WordsAt(page, i) : Holds(s.done, s.open, s.breadcrumb, w, Crumb(page, i))
      /\ \A i \in DOMAIN page.lines \ TextLines(page) : i <= n - 1 => Apart(s.done, s.open, Offset(page, i))
  BY DEF ReadSoFar
<1>5. \A i \in DOMAIN page.lines : i <= n => i <= n - 1 \/ i = n
  BY <1>1
<1>6. \A i \in TextLines(page) : i \in DOMAIN page.lines
  BY DEF TextLines
<1>7. n \in TextLines(page) <=> line.kind = "text"
  BY <1>1 DEF TextLines
<1>8. Crumb(page, n) = s.breadcrumb
  BY DEF Crumb
<1> HIDE DEF s, r, line
<1>9. /\ r \in Reader /\ r.offset = s.offset + Size(line)
      /\ line.kind = "text" =>
           /\ line.words \in Seq(Texts)
           /\ r.done = s.done /\ r.breadcrumb = s.breadcrumb
           /\ r.open = s.open \o Placed(line.words, s.offset)
      /\ line.kind # "text" => r.done = FlushParagraph(s).done /\ r.open = <<>>
  BY <1>2, <1>3, ReadLineIs
<1>10. r.offset = Ends(page)[n] /\ s.offset \in Nat /\ s.offset < r.offset
  BY <1>2, <1>4, <1>9
<1>11. s.open \in Seq(Word) /\ s.done \in Seq(Paragraph)
  BY <1>3 DEF Reader
<1>12. CASE line.kind = "text"
  <2> DEFINE p == Placed(line.words, s.offset)
             total == Sums([i \in DOMAIN line.words |-> Length[line.words[i]] + 1])[Len(line.words)]
             o == s.open \o p
  <2>1. /\ total \in Nat /\ Proper(p) /\ DOMAIN p = DOMAIN line.words
        /\ \A i \in DOMAIN p : s.offset <= p[i].start /\ p[i].end < s.offset + total
    BY <1>9, <1>10, <1>12, PlacedIs
  <2>2. Size(line) = total
    BY <1>12 DEF Size
  <2> HIDE DEF p, total, o
  <2>3. r.open = o /\ r.done = s.done /\ r.breadcrumb = s.breadcrumb
    BY <1>9, <1>12 DEF o, p
  <2>4. p \in Seq(Word) /\ \A k \in DOMAIN p : p[k] \in Word /\ p[k].start \in Nat /\ p[k].end \in Nat
    <3>1. p \in Seq(Word)
      BY <2>1 DEF Proper
    <3>2. \A k \in DOMAIN p : p[k] \in Word
      BY <3>1
    <3> QED BY <3>1, <3>2 DEF Word
  <2>5. /\ \A i \in DOMAIN o : \/ i \in DOMAIN s.open /\ o[i] = s.open[i]
                               \/ i - Len(s.open) \in DOMAIN p /\ o[i] = p[i - Len(s.open)]
        /\ \A i \in DOMAIN s.open : i \in DOMAIN o /\ o[i] = s.open[i]
        /\ \A i \in DOMAIN p : i + Len(s.open) \in DOMAIN o /\ o[i + Len(s.open)] = p[i]
    <3>1. s.open \in Seq(Word) /\ p \in Seq(Word)
      BY <1>11, <2>4
    <3> DEFINE u == s.open
    <3> HIDE DEF u
    <3>2. /\ \A i \in DOMAIN (u \o p) : \/ i \in DOMAIN u /\ (u \o p)[i] = u[i]
                                        \/ i \notin DOMAIN u /\ i - Len(u) \in DOMAIN p
                                           /\ (u \o p)[i] = p[i - Len(u)]
          /\ \A i \in DOMAIN u : i \in DOMAIN (u \o p) /\ (u \o p)[i] = u[i]
          /\ \A i \in DOMAIN p : i + Len(u) \in DOMAIN (u \o p) /\ (u \o p)[i + Len(u)] = p[i]
      BY <3>1, JoinIs DEF u
    <3>3. o = u \o p
      BY DEF o, u
    <3> HIDE DEF o
    <3> QED BY <3>2, <3>3 DEF u
  <2>6. /\ Proper(s.open) /\ \A k \in DOMAIN s.open : s.open[k].end < s.offset
        /\ \A d \in DOMAIN s.done :
              /\ s.done[d].words # <<>> /\ Proper(s.done[d].words)
              /\ \A k \in DOMAIN s.done[d].words : s.done[d].words[k].end < s.offset
              /\ Precede(s.done[d].words, s.open)
        /\ \A c, d \in DOMAIN s.done : c < d => Precede(s.done[c].words, s.done[d].words)
    BY <1>4 DEF Told
  <2>7. \A k \in DOMAIN s.open : s.open[k].end \in Nat /\ s.open[k].start \in Nat
    <3>1. \A k \in DOMAIN s.open : s.open[k] \in Word
      BY <1>11
    <3> QED BY <3>1 DEF Word
  <2>8. \A d \in DOMAIN s.done : \A k \in DOMAIN s.done[d].words : s.done[d].words[k].end \in Nat
    <3> SUFFICES ASSUME NEW d \in DOMAIN s.done, NEW k \in DOMAIN s.done[d].words
                 PROVE  s.done[d].words[k].end \in Nat
      OBVIOUS
    <3> DEFINE t == s.done[d].words
    <3>1. t \in Seq(Word)
      BY <2>6 DEF Proper
    <3>2. k \in DOMAIN t
      OBVIOUS
    <3> HIDE DEF t
    <3>3. t[k] \in Word
      BY <3>1, <3>2
    <3> QED BY <3>3 DEF Word, t
  <2>9. Precede(s.open, p)
    <3> SUFFICES ASSUME NEW i \in DOMAIN s.open, NEW j \in DOMAIN p PROVE s.open[i].end < p[j].start
      BY DEF Precede
    <3>1. s.open[i].end < s.offset /\ s.offset <= p[j].start
      BY <2>1, <2>6
    <3> QED BY <1>10, <2>4, <2>7, <3>1
  <2>10. Proper(o)
    BY <2>1, <2>6, <2>9, ProperJoins DEF o
  <2>11. \A k \in DOMAIN o : o[k].end < r.offset
    <3> SUFFICES ASSUME NEW k \in DOMAIN o PROVE o[k].end < r.offset
      OBVIOUS
    <3>1. CASE k \in DOMAIN s.open /\ o[k] = s.open[k]
      <4>1. s.open[k].end < s.offset /\ s.open[k].end \in Nat
        BY <2>6, <2>7, <3>1
      <4> QED BY <1>2, <1>9, <1>10, <3>1, <4>1
    <3>2. CASE k - Len(s.open) \in DOMAIN p /\ o[k] = p[k - Len(s.open)]
      <4>1. p[k - Len(s.open)].end < s.offset + total
        BY <2>1, <3>2
      <4> QED BY <1>9, <2>2, <3>2, <4>1
    <3> QED BY <2>5, <3>1, <3>2
  <2>12. ASSUME NEW d \in DOMAIN s.done
         PROVE  /\ Precede(s.done[d].words, o)
                /\ \A k \in DOMAIN s.done[d].words : s.done[d].words[k].end < r.offset
    <3>1. ASSUME NEW k \in DOMAIN s.done[d].words
          PROVE  s.done[d].words[k].end < r.offset /\ \A j \in DOMAIN o : s.done[d].words[k].end < o[j].start
      <4> DEFINE e == s.done[d].words[k].end
      <4>1. e < s.offset /\ e \in Nat
        BY <2>6, <2>8
      <4>2. \A j \in DOMAIN s.open : e < s.open[j].start
        BY <2>6 DEF Precede
      <4> HIDE DEF e
      <4>3. e < r.offset
        BY <1>2, <1>9, <1>10, <4>1
      <4>4. \A j \in DOMAIN p : e < p[j].start
        <5> SUFFICES ASSUME NEW j \in DOMAIN p PROVE e < p[j].start
          OBVIOUS
        <5>1. s.offset <= p[j].start
          BY <2>1
        <5> QED BY <1>10, <2>4, <4>1, <5>1
      <4>5. \A j \in DOMAIN o : e < o[j].start
        BY <2>5, <4>2, <4>4
      <4> QED BY <4>3, <4>5 DEF e
    <3> QED BY <3>1 DEF Precede
  <2>13. Told(r.done, r.open, r.offset)
    BY <2>3, <2>6, <2>10, <2>11, <2>12 DEF Told
  <2>14. ASSUME NEW i \in TextLines(page), i <= n, NEW w \in WordsAt(page, i)
         PROVE  Holds(r.done, r.open, r.breadcrumb, w, Crumb(page, i))
    <3>1. CASE i <= n - 1
      <4>1. Holds(s.done, s.open, s.breadcrumb, w, Crumb(page, i))
        BY <1>4, <3>1
      <4>2. w \in ToSet(s.open) => w \in ToSet(o)
        BY <2>5 DEF ToSet
      <4> QED BY <2>3, <4>1, <4>2 DEF Holds
    <3>2. CASE i = n
      <4>1. w \in ToSet(p)
        BY <1>2, <1>4, <3>2 DEF WordsAt, p, line
      <4>2. w \in ToSet(o)
        BY <2>5, <4>1 DEF ToSet
      <4> QED BY <1>8, <2>3, <3>2, <4>2 DEF Holds
    <3> QED BY <1>5, <1>6, <2>14, <3>1, <3>2
  <2>15. ASSUME NEW i \in DOMAIN page.lines \ TextLines(page), i <= n
         PROVE  Apart(r.done, r.open, Offset(page, i))
    <3>1. i <= n - 1
      BY <1>5, <1>7, <1>12, <2>15
    <3>2. Apart(s.done, s.open, Offset(page, i))
      BY <1>4, <3>1
    <3>3. Offset(page, i) <= s.offset /\ Offset(page, i) \in Nat
      <4>1. i \in 1..L /\ i - 1 \in 0..L /\ i - 1 <= n - 1
        BY <1>1, <3>1
      <4>2. Ends(page)[i - 1] <= Ends(page)[n - 1]
        BY <1>1, <4>1, EndsAre
      <4>3. Offset(page, i) = Ends(page)[i - 1] /\ Ends(page)[i - 1] \in Nat
        BY <4>1, EndsAre
      <4> QED BY <1>4, <4>2, <4>3
    <3>4. \A k \in DOMAIN p : Offset(page, i) <= p[k].start
      <4> SUFFICES ASSUME NEW k \in DOMAIN p PROVE Offset(page, i) <= p[k].start
        OBVIOUS
      <4>1. s.offset <= p[k].start
        BY <2>1
      <4> QED BY <1>10, <2>4, <3>3, <4>1
    <3>5. \A k \in DOMAIN o : Offset(page, i) <= o[k].start
      BY <2>5, <3>2, <3>4 DEF Apart
    <3> QED BY <2>3, <3>2, <3>5 DEF Apart
  <2> QED BY <1>10, <2>13, <2>14, <2>15 DEF ReadSoFar, r
<1>13. CASE line.kind # "text"
  <2>1. r.done = FlushParagraph(s).done /\ r.open = <<>>
    BY <1>9, <1>13
  <2>2. Told(r.done, r.open, s.offset) /\ Apart(r.done, r.open, s.offset)
    BY <1>3, <1>4, <2>1, FlushKeeps
  <2>3. Told(r.done, r.open, r.offset)
    <3>1. /\ Proper(r.open) /\ DOMAIN r.open = {}
          /\ \A d \in DOMAIN r.done :
                /\ r.done[d].words # <<>> /\ Proper(r.done[d].words)
                /\ \A k \in DOMAIN r.done[d].words : r.done[d].words[k].end < s.offset
                /\ Precede(r.done[d].words, r.open)
          /\ \A c, d \in DOMAIN r.done : c < d => Precede(r.done[c].words, r.done[d].words)
      BY <2>1, <2>2 DEF Told
    <3>2. ASSUME NEW d \in DOMAIN r.done, NEW k \in DOMAIN r.done[d].words
          PROVE  r.done[d].words[k].end < r.offset
      <4> DEFINE t == r.done[d].words
      <4>1. t \in Seq(Word) /\ k \in DOMAIN t /\ t[k].end < s.offset
        BY <3>1 DEF Proper
      <4> HIDE DEF t
      <4>2. t[k] \in Word
        BY <4>1
      <4>3. t[k].end < r.offset
        BY <1>2, <1>9, <1>10, <4>1, <4>2 DEF Word
      <4> QED BY <4>3 DEF t
    <3> QED BY <3>1, <3>2 DEF Told
  <2>4. ASSUME NEW i \in TextLines(page), i <= n, NEW w \in WordsAt(page, i)
        PROVE  Holds(r.done, r.open, r.breadcrumb, w, Crumb(page, i))
    <3>1. i <= n - 1
      BY <1>5, <1>6, <1>7, <1>13, <2>4
    <3>2. Holds(s.done, s.open, s.breadcrumb, w, Crumb(page, i))
      BY <1>4, <3>1
    <3> QED BY <1>3, <2>1, <3>2, FlushKeeps
  <2>5. ASSUME NEW i \in DOMAIN page.lines \ TextLines(page), i <= n
        PROVE  Apart(r.done, r.open, Offset(page, i))
    <3>1. CASE i <= n - 1
      <4>1. Apart(s.done, s.open, Offset(page, i))
        BY <1>4, <3>1
      <4> QED BY <1>3, <2>1, <4>1, FlushKeeps
    <3>2. CASE i = n
      BY <1>2, <1>4, <2>2, <3>2
    <3> QED BY <1>5, <2>5, <3>1, <3>2
  <2> QED BY <1>10, <2>3, <2>4, <2>5 DEF ReadSoFar, r
<1> QED BY <1>12, <1>13

\* The paragraphs of a page
LEMMA ParagraphsAre ==
    ASSUME NEW page \in Page
    PROVE  LET ps == PageParagraphs(page)
           IN  /\ ps \in Seq(Paragraph)
               /\ \A d \in DOMAIN ps : ps[d].words # <<>> /\ Proper(ps[d].words)
               /\ \A c, d \in DOMAIN ps : c < d => Precede(ps[c].words, ps[d].words)
               /\ \A i \in TextLines(page) : \A w \in WordsAt(page, i) :
                     \E d \in DOMAIN ps : w \in ToSet(ps[d].words) /\ ps[d].breadcrumb = Crumb(page, i)
               /\ \A i \in DOMAIN page.lines \ TextLines(page) : \A d \in DOMAIN ps :
                     \/ \A k \in DOMAIN ps[d].words : Offset(page, i) <= ps[d].words[k].start
                     \/ \A k \in DOMAIN ps[d].words : ps[d].words[k].end <= Offset(page, i)
<1> DEFINE L == Len(page.lines)
           N == {n \in 0..L : ReadSoFar(page, n)}
           s == ReadLines(page)[L]
           ps == PageParagraphs(page)
<1>1. L \in Nat /\ DOMAIN page.lines = 1..L /\ Ends(page)[0] = 0
  BY EndsAre
<1>2. ReadLines(page)[0] = NothingRead /\ ReadLines(page) \in [0..L -> Reader]
  BY ReadsAre
<1>3. ReadSoFar(page, 0)
  <2>1. DOMAIN <<>> = {} /\ <<>> \in Seq(Word)
    OBVIOUS
  <2>2. Told(<<>>, <<>>, 0)
    BY <2>1 DEF Told, Proper
  <2>3. \A i \in DOMAIN page.lines : ~(i <= 0)
    BY <1>1
  <2>4. \A i \in TextLines(page) : i \in DOMAIN page.lines
    BY DEF TextLines
  <2> QED BY <1>1, <1>2, <2>2, <2>3, <2>4 DEF ReadSoFar, NothingRead
<1>4. 0 \in N
  BY <1>1, <1>3
<1>5. ASSUME NEW n \in 0..L, n \in N, n < L PROVE n + 1 \in N
  <2>1. n + 1 \in 1..L /\ (n + 1) - 1 = n /\ n + 1 \in 0..L
    BY <1>1, <1>5
  <2>2. ReadSoFar(page, (n + 1) - 1)
    BY <1>5, <2>1
  <2>3. ReadSoFar(page, n + 1)
    BY <2>1, <2>2, ReadSoFarGoesOn
  <2> QED BY <2>1, <2>3
<1>6. \A n \in 0..L : n \in N /\ n < L => n + 1 \in N
  BY <1>5, Zenon
<1> HIDE DEF N
<1>7. 0..L \subseteq N
  BY <1>1, <1>4, <1>6, Upto, Zenon
<1>8. ReadSoFar(page, L) /\ s \in Reader
  <2>1. L \in 0..L
    BY <1>1
  <2> QED BY <1>2, <1>7, <2>1 DEF N
<1>9. /\ Told(s.done, s.open, s.offset)
      /\ \A i \in TextLines(page) : i <= L =>
            \A w \in WordsAt(page, i) : Holds(s.done, s.open, s.breadcrumb, w, Crumb(page, i))
      /\ \A i \in DOMAIN page.lines \ TextLines(page) : i <= L => Apart(s.done, s.open, Offset(page, i))
  BY <1>8 DEF ReadSoFar
<1>10. ps = FlushParagraph(s).done
  BY DEF PageParagraphs
<1> HIDE DEF s, ps
<1>11. Told(ps, <<>>, s.offset)
  BY <1>8, <1>9, <1>10, FlushKeeps
<1>12. \A i \in DOMAIN page.lines : i <= L
  BY <1>1
<1>13. \A i \in TextLines(page) : i \in DOMAIN page.lines
  BY DEF TextLines
<1>14. ASSUME NEW i \in TextLines(page), NEW w \in WordsAt(page, i)
       PROVE  \E d \in DOMAIN ps : w \in ToSet(ps[d].words) /\ ps[d].breadcrumb = Crumb(page, i)
  <2>1. Holds(s.done, s.open, s.breadcrumb, w, Crumb(page, i))
    BY <1>9, <1>12, <1>13
  <2>2. Holds(ps, <<>>, <<>>, w, Crumb(page, i))
    BY <1>8, <1>10, <2>1, FlushKeeps
  <2>3. ToSet(<<>>) = {}
    BY DEF ToSet
  <2> QED BY <2>2, <2>3 DEF Holds
<1>15. ASSUME NEW i \in DOMAIN page.lines \ TextLines(page) PROVE Apart(ps, <<>>, Offset(page, i))
  <2>1. Apart(s.done, s.open, Offset(page, i))
    BY <1>9, <1>12
  <2> QED BY <1>8, <1>10, <2>1, FlushKeeps
<1>16. ps \in Seq(Paragraph)
  <2>1. FlushParagraph(s) \in Reader
    BY <1>8, FlushIs
  <2> QED BY <1>10, <2>1 DEF Reader
<1>17. /\ \A d \in DOMAIN ps : ps[d].words # <<>> /\ Proper(ps[d].words)
       /\ \A c, d \in DOMAIN ps : c < d => Precede(ps[c].words, ps[d].words)
  BY <1>11 DEF Told
<1>18. \A i \in DOMAIN page.lines \ TextLines(page) : \A d \in DOMAIN ps :
          \/ \A k \in DOMAIN ps[d].words : Offset(page, i) <= ps[d].words[k].start
          \/ \A k \in DOMAIN ps[d].words : ps[d].words[k].end <= Offset(page, i)
  BY <1>15 DEF Apart
<1> QED BY <1>14, <1>16, <1>17, <1>18 DEF ps

-----------------------------------------------------------------------------
(* Cutting a paragraph *)

Segment == [start : Nat, end : Nat, words : Seq(Word)]

\* Pieces are segments.
LEMMA PiecesAreSegments ==
    ASSUME NEW ws \in Seq(Word), ws # <<>>
    PROVE  ParagraphSegment(ws) \in Seq(Segment)
<1> DEFINE start == ws[1].start
           end == Last(ws).end
           K == (end - start + MaxChunk - 1) \div MaxChunk
           piece(k) == [start |-> start + (k - 1) * MaxChunk, end |-> Min({end, start + k * MaxChunk}),
                        words |-> ws]
<1>1. ws[1] \in Word /\ Last(ws) \in Word
  BY DEF Last
<1>2. start \in Nat /\ end \in Nat /\ MaxChunk \in Nat \ {0}
  BY <1>1, ChunksAssumption DEF Word
<1>3. ParagraphSegment(ws) = [k \in 1..K |-> piece(k)]
  BY DEF ParagraphSegment
<1> HIDE DEF start, end
<1>4. ASSUME NEW k \in Nat \ {0} PROVE piece(k) \in Segment
  <2>1. (k - 1) * MaxChunk \in Nat /\ k * MaxChunk \in Nat
    BY <1>2
  <2> DEFINE x == (k - 1) * MaxChunk
             y == k * MaxChunk
  <2> HIDE DEF x, y
  <2>2. x \in Nat /\ y \in Nat
    BY <2>1 DEF x, y
  <2>3. Min({end, start + y}) = IF end <= start + y THEN end ELSE start + y
    BY <1>2, <2>2, OfTwo
  <2>4. start + x \in Nat /\ Min({end, start + y}) \in Nat
    BY <1>2, <2>2, <2>3
  <2>5. piece(k) = [start |-> start + x, end |-> Min({end, start + y}), words |-> ws]
    BY DEF x, y
  <2> QED BY <2>4, <2>5 DEF Segment
<1>5. CASE end - start + MaxChunk - 1 \in Nat
  <2>1. K \in Nat
    BY <1>2, <1>5, DivIs
  <2> HIDE DEF piece, K
  <2>2. \A k \in 1..K : piece(k) \in Segment
    BY <1>4, <2>1
  <2> QED BY <1>3, <2>1, <2>2
<1>6. CASE end - start + MaxChunk - 1 \notin Nat
  <2>1. ~(1 <= K) /\ K \in Int
    <3> DEFINE a == end - start + MaxChunk - 1
    <3>1. a \in Int /\ a < 0
      BY <1>2, <1>6
    <3> HIDE DEF a
    <3>2. K = a \div MaxChunk
      BY DEF a
    <3>3. a \div MaxChunk \in Int /\ (a \div MaxChunk) * MaxChunk <= a
      BY <1>2, <3>1
    <3>4. ASSUME 1 <= a \div MaxChunk PROVE FALSE
      <4> DEFINE q == a \div MaxChunk
      <4>1. q \in Int /\ q * MaxChunk <= a /\ 1 <= q
        BY <3>3, <3>4
      <4> HIDE DEF q
      <4>2. q * MaxChunk >= MaxChunk
        BY <1>2, <4>1
      <4> QED BY <1>2, <3>1, <4>1, <4>2
    <3> QED BY <3>2, <3>3, <3>4
  <2> HIDE DEF K, piece
  <2>2. 1..K = {}
    BY <2>1
  <2>3. [k \in 1..K |-> piece(k)] = <<>>
    BY <2>2
  <2>4. <<>> \in Seq(Segment)
    OBVIOUS
  <2> QED BY <1>3, <2>3, <2>4
<1> QED BY <1>5, <1>6

\* Words that are one after the other lie between the first and the last.
LEMMA ProperSpan ==
    ASSUME NEW ws, Proper(ws), ws # <<>>
    PROVE  /\ Len(ws) \in Nat \ {0} /\ DOMAIN ws = 1..Len(ws) /\ Last(ws) = ws[Len(ws)]
           /\ \A i \in DOMAIN ws : /\ ws[i] \in Word /\ ws[i].start \in Nat /\ ws[i].end \in Nat
                                   /\ ws[i].start < ws[i].end
                                   /\ ws[1].start <= ws[i].start /\ ws[i].end <= ws[Len(ws)].end
           /\ 1 \in DOMAIN ws /\ Len(ws) \in DOMAIN ws
<1> DEFINE L == Len(ws)
<1>1. ws \in Seq(Word)
  BY DEF Proper
<1>2. L \in Nat \ {0} /\ DOMAIN ws = 1..L
  BY <1>1
<1>3. \A i \in DOMAIN ws : ws[i] \in Word
  BY <1>1
<1>4. \A i \in DOMAIN ws : ws[i].start \in Nat /\ ws[i].end \in Nat /\ ws[i].start < ws[i].end
  BY <1>3 DEF Word, Proper
<1> HIDE DEF L
<1>5. 1 \in DOMAIN ws /\ L \in DOMAIN ws
  BY <1>2
<1>6. ASSUME NEW i \in DOMAIN ws PROVE ws[1].start <= ws[i].start /\ ws[i].end <= ws[L].end
  <2>1. \A a, b \in DOMAIN ws : a < b => ws[a].end < ws[b].start
    BY DEF Proper
  <2>2. i = 1 \/ 1 < i
    BY <1>2
  <2>3. i = L \/ i < L
    BY <1>2
  <2>4. ws[1].start <= ws[i].start
    BY <1>4, <1>5, <2>1, <2>2
  <2>5. ws[i].end <= ws[L].end
    BY <1>4, <1>5, <2>1, <2>3
  <2> QED BY <2>4, <2>5
<1>7. Last(ws) = ws[L]
  BY DEF Last, L
<1> QED BY <1>2, <1>3, <1>4, <1>5, <1>6, <1>7 DEF L

\* The pieces of words that are one after the other
LEMMA PiecesAre ==
    ASSUME NEW ws, Proper(ws), ws # <<>>
    PROVE  LET ps == ParagraphSegment(ws)
               a == ws[1].start
               e == ws[Len(ws)].end
           IN  /\ ps \in Seq(Segment)
               /\ \A i \in DOMAIN ps : /\ ps[i].words = ws /\ ps[i].start < ps[i].end
                                       /\ a <= ps[i].start /\ ps[i].end <= e
               /\ \A i, j \in DOMAIN ps : i < j => ps[i].end <= ps[j].start
               /\ 1 \in DOMAIN ps /\ ps[1].start = a
               /\ e - a <= MaxChunk => ps[1].end = e
<1> DEFINE ps == ParagraphSegment(ws)
           a == ws[1].start
           e == ws[Len(ws)].end
           K == (e - a + MaxChunk - 1) \div MaxChunk
<1>1. /\ a \in Nat /\ e \in Nat /\ a < e /\ Last(ws).end = e /\ MaxChunk \in Nat \ {0}
  <2>1. /\ 1 \in DOMAIN ws /\ Len(ws) \in DOMAIN ws /\ Last(ws) = ws[Len(ws)]
        /\ \A i \in DOMAIN ws : /\ ws[i].start \in Nat /\ ws[i].end \in Nat
                                /\ ws[i].start < ws[i].end
                                /\ ws[1].start <= ws[i].start /\ ws[i].end <= ws[Len(ws)].end
    BY ProperSpan
  <2>2. ws[1].start \in Nat /\ ws[1].start < ws[1].end /\ ws[1].end \in Nat /\ ws[1].end <= e /\ e \in Nat
    BY <2>1
  <2>3. MaxChunk \in Nat \ {0}
    BY ChunksAssumption
  <2> HIDE DEF e
  <2>4. a \in Nat /\ a < e
    BY <2>2
  <2> QED BY <2>1, <2>2, <2>3, <2>4 DEF e
<1>2. ps = [k \in 1..K |-> [start |-> a + (k - 1) * MaxChunk, end |-> Min({e, a + k * MaxChunk}), words |-> ws]]
  BY <1>1 DEF ParagraphSegment
<1>3. ps \in Seq(Segment)
  BY PiecesAreSegments DEF Proper
<1> HIDE DEF ps, a, e
<1>4. K \in Nat /\ K * MaxChunk <= e - a + MaxChunk - 1 /\ e - a + MaxChunk - 1 < K * MaxChunk + MaxChunk
  <2>1. e - a + MaxChunk - 1 \in Nat
    BY <1>1
  <2> QED BY <1>1, <2>1, DivIs
<1> HIDE DEF K
<1>5. K # 0
  <2>1. 0 * MaxChunk = 0
    BY <1>1
  <2> QED BY <1>1, <1>4, <2>1
<1>6. DOMAIN ps = 1..K /\ 1 \in DOMAIN ps
  BY <1>2, <1>4, <1>5
<1>7. ASSUME NEW k \in 1..K
      PROVE  /\ ps[k].words = ws /\ ps[k].start < ps[k].end
             /\ a <= ps[k].start /\ ps[k].end <= e
             /\ ps[k].start = a + (k - 1) * MaxChunk
             /\ ps[k].end = IF e <= a + k * MaxChunk THEN e ELSE a + k * MaxChunk
             /\ (k - 1) * MaxChunk \in Nat /\ k * MaxChunk \in Nat
  <2>1. k \in Nat /\ k - 1 \in Nat /\ k <= K
    BY <1>4
  <2>2. (k - 1) * MaxChunk \in Nat /\ k * MaxChunk \in Nat /\ k * MaxChunk = (k - 1) * MaxChunk + MaxChunk
    BY <1>1, <2>1
  <2>3. k * MaxChunk <= K * MaxChunk /\ K * MaxChunk \in Nat
    BY <1>1, <1>4, <2>1
  <2> DEFINE x == (k - 1) * MaxChunk
             y == k * MaxChunk
             z == K * MaxChunk
  <2>4. x \in Nat /\ y \in Nat /\ z \in Nat /\ y = x + MaxChunk /\ y <= z /\ z <= e - a + MaxChunk - 1
    BY <1>4, <2>2, <2>3
  <2>5. ps[k] = [start |-> a + x, end |-> Min({e, a + y}), words |-> ws]
    BY <1>2
  <2> HIDE DEF x, y, z
  <2>6. Min({e, a + y}) = IF e <= a + y THEN e ELSE a + y
    BY <1>1, <2>4, OfTwo
  <2>7. a + x < e
    BY <1>1, <2>4
  <2>8. /\ ps[k].words = ws /\ ps[k].start = a + x
        /\ ps[k].end = IF e <= a + y THEN e ELSE a + y
    BY <2>5, <2>6
  <2>9. ps[k].start < ps[k].end /\ a <= ps[k].start /\ ps[k].end <= e
    BY <1>1, <2>4, <2>7, <2>8
  <2> QED BY <2>4, <2>8, <2>9 DEF x, y
<1>8. ASSUME NEW i \in 1..K, NEW j \in 1..K, i < j PROVE ps[i].end <= ps[j].start
  <2>1. i \in Nat /\ j - 1 \in Nat /\ i <= j - 1
    BY <1>4, <1>8
  <2>2. i * MaxChunk <= (j - 1) * MaxChunk
    BY <1>1, <2>1
  <2>3. i * MaxChunk \in Nat /\ (j - 1) * MaxChunk \in Nat /\ ps[j].start = a + (j - 1) * MaxChunk
        /\ ps[i].end = IF e <= a + i * MaxChunk THEN e ELSE a + i * MaxChunk
    BY <1>7
  <2> DEFINE x == i * MaxChunk
             y == (j - 1) * MaxChunk
  <2>4. x \in Nat /\ y \in Nat /\ x <= y /\ ps[j].start = a + y /\ ps[i].end = IF e <= a + x THEN e ELSE a + x
    BY <2>2, <2>3
  <2> HIDE DEF x, y
  <2> QED BY <1>1, <2>4
<1>9. 1 \in 1..K /\ (1 - 1) * MaxChunk = 0 /\ 1 * MaxChunk = MaxChunk
  BY <1>1, <1>6
<1>10. ps[1].start = a
  <2>1. ps[1].start = a + (1 - 1) * MaxChunk
    BY <1>7, <1>9
  <2> QED BY <1>1, <1>9, <2>1
<1>11. e - a <= MaxChunk => ps[1].end = e
  <2>1. ps[1].end = IF e <= a + 1 * MaxChunk THEN e ELSE a + 1 * MaxChunk
    BY <1>7, <1>9
  <2> QED BY <1>1, <1>9, <2>1
<1> QED BY <1>3, <1>6, <1>7, <1>8, <1>10, <1>11 DEF ps, a, e

-----------------------------------------------------------------------------
(* The segments of a paragraph *)

\* Segment seg has word w, at its place, and all of it if it is small enough.
Covers(seg, w, max) ==
    /\ In(w, seg) /\ w \in ToSet(seg.words)
    /\ w.end - w.start <= max => w.end <= seg.end /\ seg.end - seg.start <= max

\* Segments of the first k words
CutUpTo(segments, words, max, k) ==
    /\ segments \in Seq(Segment)
    /\ \A i \in DOMAIN segments :
          /\ Len(segments[i].words) <= TargetTerms /\ segments[i].words \in Seq(Word)
          /\ \A n \in DOMAIN segments[i].words : segments[i].words[n] \in ToSet(words)
          /\ segments[i].start < segments[i].end
          /\ words[1].start <= segments[i].start
          /\ \E m \in 1..k : segments[i].end <= words[m].end
    /\ \A i, j \in DOMAIN segments : i < j => segments[i].end <= segments[j].start
    /\ \A m \in 1..k : \E i \in DOMAIN segments : Covers(segments[i], words[m], max)

\* Words k to n fit into a segment.
Fits(words, max, k, n) ==
    /\ k \in 1..n /\ n \in 1..Len(words)
    /\ n - k + 1 <= TargetTerms
    /\ k = n \/ words[n].end - words[k].start <= max

\* Some words of those that are one after the other
LEMMA GroupIs ==
    ASSUME NEW words, Proper(words), NEW n \in 1..Len(words), NEW k \in 1..n
    PROVE  LET g == SubSeq(words, k, n)
           IN  /\ Proper(g) /\ g # <<>> /\ Len(g) = n - k + 1
               /\ g[1] = words[k] /\ g[Len(g)] = words[n]
               /\ \A i \in DOMAIN g : i + k - 1 \in k..n /\ g[i] = words[i + k - 1]
               /\ \A m \in k..n : m - k + 1 \in DOMAIN g /\ g[m - k + 1] = words[m]
<1> DEFINE g == SubSeq(words, k, n)
           l == n - k + 1
           L == Len(words)
<1>1. words \in Seq(Word)
  BY DEF Proper
<1>2. L \in Nat /\ DOMAIN words = 1..L
  BY <1>1
<1> HIDE DEF L
<1>3. n \in 1..L /\ n \in Nat /\ k \in Nat /\ l \in Nat \ {0} /\ k \in 1..L
  BY <1>2 DEF L
<1>4. g = [i \in 1..l |-> words[i + k - 1]]
  <2>1. g = [i \in 1..(n - k + 1) |-> words[k + i - 1]]
    BY <1>1, <1>3 DEF L
  <2>2. \A i \in 1..l : k + i - 1 = i + k - 1
    BY <1>3
  <2> QED BY <2>1, <2>2
<1> HIDE DEF g, l
<1>5. \A i \in 1..l : i + k - 1 \in k..n /\ i + k - 1 \in 1..L
  <2> TAKE i \in 1..l
  <2>1. i \in Nat /\ 1 <= i /\ i <= n - k + 1
    BY <1>3 DEF l
  <2>2. n <= L /\ 1 <= k /\ L \in Nat
    BY <1>2, <1>3
  <2>3. i + k - 1 \in Nat /\ k <= i + k - 1 /\ i + k - 1 <= n
    BY <1>3, <2>1, <2>2
  <2> QED BY <1>3, <2>2, <2>3
<1>6. \A i \in 1..L : words[i] \in Word
  BY <1>1, <1>2
<1>7. g \in Seq(Word) /\ Len(g) = l /\ DOMAIN g = 1..l
  <2>1. g \in [1..l -> Word]
    BY <1>4, <1>5, <1>6
  <2> QED BY <1>3, <2>1
<1>8. \A i \in DOMAIN g : i + k - 1 \in k..n /\ g[i] = words[i + k - 1] /\ i + k - 1 \in DOMAIN words
  BY <1>2, <1>4, <1>5, <1>7
<1>9. \A m \in k..n : m - k + 1 \in DOMAIN g /\ g[m - k + 1] = words[m]
  <2> TAKE m \in k..n
  <2>1. m - k + 1 \in 1..l /\ (m - k + 1) + k - 1 = m
    BY <1>3 DEF l
  <2> QED BY <1>4, <1>7, <2>1
<1>10. Proper(g)
  <2>1. \A i \in DOMAIN g : g[i].start < g[i].end
    BY <1>8 DEF Proper
  <2>2. ASSUME NEW i \in DOMAIN g, NEW j \in DOMAIN g, i < j PROVE g[i].end < g[j].start
    <3>1. i + k - 1 < j + k - 1
      BY <1>3, <1>7, <2>2
    <3> QED BY <1>8, <3>1 DEF Proper
  <2> QED BY <1>7, <2>1, <2>2 DEF Proper
<1>11. g[1] = words[k] /\ g[l] = words[n]
  <2>1. 1 \in 1..l /\ l \in 1..l /\ 1 + k - 1 = k /\ l + k - 1 = n
    BY <1>3 DEF l
  <2> QED BY <1>4, <2>1
<1>12. g # <<>>
  BY <1>3, <1>7
<1> QED BY <1>7, <1>8, <1>9, <1>10, <1>11, <1>12 DEF g, l

\* With the pieces of the next words
LEMMA CutGoesOn ==
    ASSUME NEW words, Proper(words), NEW max \in 1..MaxChunk, NEW k, NEW n, Fits(words, max, k, n),
           NEW segments, CutUpTo(segments, words, max, k - 1)
    PROVE  CutUpTo(segments \o ParagraphSegment(SubSeq(words, k, n)), words, max, n)
<1> DEFINE g == SubSeq(words, k, n)
           ps == ParagraphSegment(g)
           c == segments \o ps
           l == Len(segments)
           L == Len(words)
<1>1. words \in Seq(Word) /\ L \in Nat /\ DOMAIN words = 1..L /\ MaxChunk \in Nat \ {0} /\ max \in Nat
  <2>1. MaxChunk \in Nat \ {0}
    BY ChunksAssumption
  <2> QED BY <2>1 DEF Proper
<1>2. k \in 1..n /\ n \in 1..L /\ n - k + 1 <= TargetTerms /\ (k = n \/ words[n].end - words[k].start <= max)
  BY DEF Fits
<1> HIDE DEF L
<1>3. /\ k \in Nat \ {0} /\ n \in Nat \ {0} /\ k <= n /\ k \in DOMAIN words /\ n \in DOMAIN words
      /\ 1 \in DOMAIN words /\ words # <<>>
  <2>1. k \in Nat \ {0} /\ n \in Nat \ {0} /\ k <= n /\ n <= L
    BY <1>1, <1>2
  <2>2. k \in 1..L /\ n \in 1..L /\ 1 \in 1..L
    BY <1>1, <2>1
  <2>3. words # <<>>
    BY <1>1, <2>2
  <2> QED BY <1>1, <2>1, <2>2, <2>3
<1>4. /\ Proper(g) /\ g # <<>> /\ Len(g) = n - k + 1
      /\ g[1] = words[k] /\ g[Len(g)] = words[n]
      /\ \A i \in DOMAIN g : i + k - 1 \in k..n /\ g[i] = words[i + k - 1]
      /\ \A m \in k..n : m - k + 1 \in DOMAIN g /\ g[m - k + 1] = words[m]
  BY <1>2, GroupIs DEF L
<1> HIDE DEF g
<1>5. /\ ps \in Seq(Segment)
      /\ \A i \in DOMAIN ps : /\ ps[i].words = g /\ ps[i].start < ps[i].end
                              /\ words[k].start <= ps[i].start /\ ps[i].end <= words[n].end
      /\ \A i, j \in DOMAIN ps : i < j => ps[i].end <= ps[j].start
      /\ 1 \in DOMAIN ps /\ ps[1].start = words[k].start
      /\ words[n].end - words[k].start <= MaxChunk => ps[1].end = words[n].end
  <2>1. LET q == ParagraphSegment(g)
            a == g[1].start
            e == g[Len(g)].end
        IN  /\ q \in Seq(Segment)
            /\ \A i \in DOMAIN q : /\ q[i].words = g /\ q[i].start < q[i].end
                                    /\ a <= q[i].start /\ q[i].end <= e
            /\ \A i, j \in DOMAIN q : i < j => q[i].end <= q[j].start
            /\ 1 \in DOMAIN q /\ q[1].start = a
            /\ e - a <= MaxChunk => q[1].end = e
    BY <1>4, PiecesAre
  <2>2. g[1].start = words[k].start /\ g[Len(g)].end = words[n].end
    BY <1>4
  <2> HIDE DEF ps
  <2> QED BY <2>1, <2>2 DEF ps
<1> HIDE DEF ps
<1>6. \A i \in DOMAIN words : /\ words[i].start \in Nat /\ words[i].end \in Nat /\ words[i].start < words[i].end
                              /\ words[1].start <= words[i].start
  BY <1>3, ProperSpan
<1>7. /\ segments \in Seq(Segment)
      /\ \A i \in DOMAIN segments :
            /\ Len(segments[i].words) <= TargetTerms /\ segments[i].words \in Seq(Word)
            /\ \A q \in DOMAIN segments[i].words : segments[i].words[q] \in ToSet(words)
            /\ segments[i].start < segments[i].end
            /\ words[1].start <= segments[i].start
            /\ \E m \in 1..(k - 1) : segments[i].end <= words[m].end
      /\ \A i, j \in DOMAIN segments : i < j => segments[i].end <= segments[j].start
      /\ \A m \in 1..(k - 1) : \E i \in DOMAIN segments : Covers(segments[i], words[m], max)
  BY DEF CutUpTo
<1>8. /\ c \in Seq(Segment)
      /\ \A i \in DOMAIN c : \/ i \in DOMAIN segments /\ c[i] = segments[i]
                             \/ i \notin DOMAIN segments /\ i - l \in DOMAIN ps /\ c[i] = ps[i - l]
      /\ \A i \in DOMAIN segments : i \in DOMAIN c /\ c[i] = segments[i]
      /\ \A i \in DOMAIN ps : i + l \in DOMAIN c /\ c[i + l] = ps[i]
  BY <1>5, <1>7, JoinIs
<1>9. l \in Nat /\ DOMAIN segments = 1..l
  BY <1>7
<1>10. DOMAIN c \subseteq Nat \ {0}
  <2> HIDE DEF c
  <2>1. DOMAIN c = 1..Len(c)
    BY <1>8
  <2> QED BY <2>1
<1> HIDE DEF c, l
<1>11. ASSUME NEW i \in DOMAIN ps
       PROVE  /\ Len(ps[i].words) <= TargetTerms /\ ps[i].words \in Seq(Word)
              /\ \A q \in DOMAIN ps[i].words : ps[i].words[q] \in ToSet(words)
              /\ ps[i].start < ps[i].end /\ words[1].start <= ps[i].start
              /\ ps[i].end <= words[n].end
              /\ ps[i].start \in Nat /\ ps[i].end \in Nat
  <2>1. ps[i] \in Segment /\ ps[i].words = g
    BY <1>5
  <2>2. ps[i].start \in Nat /\ ps[i].end \in Nat
    BY <2>1 DEF Segment
  <2>3. words[1].start <= ps[i].start
    BY <1>3, <1>5, <1>6, <2>2
  <2>4. \A q \in DOMAIN g : g[q] \in ToSet(words)
    <3> TAKE q \in DOMAIN g
    <3>1. q + k - 1 \in DOMAIN words
      <4>1. q + k - 1 \in k..n
        BY <1>4
      <4> QED BY <1>1, <1>2, <1>3, <4>1
    <3> QED BY <1>4, <3>1 DEF ToSet
  <2>5. Len(g) <= TargetTerms /\ g \in Seq(Word)
    BY <1>2, <1>4 DEF Proper
  <2> QED BY <1>5, <2>1, <2>2, <2>3, <2>4, <2>5
<1>12. ASSUME NEW i \in DOMAIN c
       PROVE  /\ Len(c[i].words) <= TargetTerms /\ c[i].words \in Seq(Word)
              /\ \A q \in DOMAIN c[i].words : c[i].words[q] \in ToSet(words)
              /\ c[i].start < c[i].end /\ words[1].start <= c[i].start
              /\ \E m \in 1..n : c[i].end <= words[m].end
  <2>1. CASE i \in DOMAIN segments /\ c[i] = segments[i]
    <3>1. \A m \in 1..(k - 1) : m \in 1..n
      BY <1>3
    <3> QED BY <1>7, <2>1, <3>1
  <2>2. CASE i - l \in DOMAIN ps /\ c[i] = ps[i - l]
    <3>1. n \in 1..n
      BY <1>3
    <3> QED BY <1>11, <2>2, <3>1
  <2> QED BY <1>8, <2>1, <2>2
<1>13. ASSUME NEW i \in DOMAIN c, NEW j \in DOMAIN c, i < j PROVE c[i].end <= c[j].start
  <2>0. i \in Nat \ {0} /\ j \in Nat \ {0}
    BY <1>10
  <2>1. CASE j \in DOMAIN segments
    <3>1. i \in DOMAIN segments
      BY <1>9, <1>13, <2>0, <2>1
    <3>2. c[i] = segments[i] /\ c[j] = segments[j]
      BY <1>8, <2>1, <3>1
    <3> QED BY <1>7, <1>13, <2>1, <3>1, <3>2
  <2>2. CASE j \notin DOMAIN segments /\ i \in DOMAIN segments
    <3>1. c[i] = segments[i] /\ j - l \in DOMAIN ps /\ c[j] = ps[j - l]
      BY <1>8, <2>2
    <3>2. PICK m \in 1..(k - 1) : segments[i].end <= words[m].end
      BY <1>7, <2>2
    <3>3. m \in DOMAIN words /\ m < k
      BY <1>1, <1>2, <1>3
    <3>4. words[m].end < words[k].start
      BY <1>3, <3>3 DEF Proper
    <3>5. segments[i].end \in Nat
      <4>1. segments[i] \in Segment
        BY <1>7, <2>2
      <4> QED BY <4>1 DEF Segment
    <3>6. words[k].start <= ps[j - l].start /\ ps[j - l].start \in Nat
      BY <1>5, <1>11, <3>1
    <3>7. words[m].end \in Nat /\ words[k].start \in Nat
      BY <1>3, <1>6, <3>3
    <3>8. segments[i].end <= ps[j - l].start
      BY <3>2, <3>4, <3>5, <3>6, <3>7
    <3> QED BY <3>1, <3>8
  <2>3. CASE j \notin DOMAIN segments /\ i \notin DOMAIN segments
    <3>1. i - l \in DOMAIN ps /\ c[i] = ps[i - l] /\ j - l \in DOMAIN ps /\ c[j] = ps[j - l]
      BY <1>8, <2>3
    <3>2. i - l < j - l
      BY <1>9, <1>13, <2>0
    <3> QED BY <1>5, <3>1, <3>2
  <2> QED BY <2>1, <2>2, <2>3
<1>14. ASSUME NEW m \in 1..n PROVE \E i \in DOMAIN c : Covers(c[i], words[m], max)
  <2>1. CASE m < k
    <3>1. m \in 1..(k - 1)
      BY <1>3, <2>1
    <3>2. PICK i \in DOMAIN segments : Covers(segments[i], words[m], max)
      BY <1>7, <3>1
    <3> QED BY <1>8, <3>2
  <2>2. CASE k <= m
    <3>1. m \in k..n /\ m \in DOMAIN words
      BY <1>1, <1>2, <1>3, <2>2
    <3>2. words[m] \in ToSet(g)
      BY <1>4, <3>1 DEF ToSet
    <3> DEFINE w == words[m]
               p == ps[1]
               a == words[k].start
               e == words[n].end
    <3>3. /\ w.start \in Nat /\ w.end \in Nat /\ w.start < w.end /\ a \in Nat /\ e \in Nat /\ a < e
          /\ a <= w.start /\ w.end <= e
      <4>1. /\ words[m].start \in Nat /\ words[m].end \in Nat /\ words[m].start < words[m].end
            /\ words[k].start \in Nat /\ words[k].end \in Nat /\ words[k].start < words[k].end
            /\ words[n].start \in Nat /\ words[n].end \in Nat /\ words[n].start < words[n].end
        BY <1>3, <1>6, <3>1
      <4>2. \A x, y \in DOMAIN words : x < y => words[x].end < words[y].start
        BY DEF Proper
      <4>3. (m = k \/ words[k].end < words[m].start) /\ (m = n \/ words[m].end < words[n].start)
        <5>1. m = k \/ k < m
          BY <1>3, <2>2
        <5>2. m = n \/ m < n
          BY <1>3
        <5> QED BY <1>3, <3>1, <4>2, <5>1, <5>2
      <4>4. a <= w.start /\ w.end <= e
        BY <4>1, <4>3
      <4> QED BY <4>1, <4>4
    <3>4. /\ p.start = a /\ p.start < p.end /\ p.words = g /\ p.end \in Nat
          /\ e - a <= MaxChunk => p.end = e
      BY <1>5, <1>11
    <3>5. CASE e - a <= max
      <4>1. e - a <= MaxChunk
        BY <1>1, <3>3, <3>5
      <4>2. p.end = e
        BY <3>4, <4>1
      <4>3. Covers(p, w, max)
        <5> HIDE DEF w, p, a, e
        <5>1. w \in ToSet(p.words)
          BY <3>2, <3>4 DEF w
        <5>2. In(w, p)
          BY <3>3, <3>4, <4>2 DEF In
        <5>3. w.end <= p.end /\ p.end - p.start <= max
          BY <3>3, <3>4, <3>5, <4>2
        <5> QED BY <5>1, <5>2, <5>3 DEF Covers
      <4> QED BY <1>5, <1>8, <4>3
    <3>6. CASE ~(e - a <= max)
      <4>1. k = n /\ m = n
        BY <1>2, <1>3, <2>2, <3>6
      <4>2. w.start = a /\ w.end = e
        BY <4>1
      <4>3. Covers(p, w, max)
        <5> HIDE DEF w, p, a, e
        <5>1. w \in ToSet(p.words)
          BY <3>2, <3>4 DEF w
        <5>2. In(w, p)
          BY <3>3, <3>4, <4>2 DEF In
        <5> QED BY <3>6, <4>2, <5>1, <5>2 DEF Covers
      <4> QED BY <1>5, <1>8, <4>3
    <3> QED BY <3>5, <3>6
  <2> QED BY <1>3, <2>1, <2>2
<1> QED BY <1>8, <1>12, <1>13, <1>14 DEF CutUpTo, c, ps, g

-----------------------------------------------------------------------------
(* The words that are read one by one *)

\* The words of the open segment, and the segments before it
Splitter == {s \in [segments : Seq(Segment), open : Seq(Word), count : Nat] : s.count > 0 => s.open # <<>>}
NoWords == [segments |-> <<>>, open |-> <<>>, count |-> 0]

\* A word more
LEMMA AddWordIs ==
    ASSUME NEW max, NEW s \in Splitter, NEW w \in Word
    PROVE  /\ AddWord(max, s, w) \in Splitter
           /\ s.count > 0 /\ (w.end - s.open[1].start > max \/ s.count >= TargetTerms) =>
                AddWord(max, s, w) = [segments |-> s.segments \o ParagraphSegment(s.open),
                                      open |-> <<w>>, count |-> 1]
           /\ ~(s.count > 0 /\ (w.end - s.open[1].start > max \/ s.count >= TargetTerms)) =>
                AddWord(max, s, w) = [segments |-> s.segments, open |-> Append(s.open, w), count |-> s.count + 1]
<1>1. /\ s.segments \in Seq(Segment) /\ s.open \in Seq(Word) /\ s.count \in Nat
      /\ s.count > 0 => s.open # <<>>
      /\ s = [segments |-> s.segments, open |-> s.open, count |-> s.count]
  BY DEF Splitter
<1> DEFINE full == s.count > 0 /\ (w.end - s.open[1].start > max \/ s.count >= TargetTerms)
           a == AddWord(max, s, w)
<1>2. ASSUME full
      PROVE  /\ a = [segments |-> s.segments \o ParagraphSegment(s.open), open |-> <<w>>, count |-> 1]
             /\ a \in Splitter
  <2>1. a = [segments |-> s.segments \o ParagraphSegment(s.open), open |-> <<w>>, count |-> 1]
    BY <1>2 DEF AddWord
  <2>2. ParagraphSegment(s.open) \in Seq(Segment)
    BY <1>1, <1>2, PiecesAreSegments
  <2>3. s.segments \o ParagraphSegment(s.open) \in Seq(Segment)
    BY <1>1, <2>2
  <2>4. <<w>> \in Seq(Word) /\ <<w>> # <<>>
    OBVIOUS
  <2> DEFINE t == s.segments \o ParagraphSegment(s.open)
  <2>5. a = [segments |-> t, open |-> <<w>>, count |-> 1] /\ t \in Seq(Segment)
    BY <2>1, <2>3
  <2> HIDE DEF t, a
  <2>6. a \in Splitter
    BY <2>4, <2>5 DEF Splitter
  <2> QED BY <2>5, <2>6 DEF t
<1>3. ASSUME ~full
      PROVE  /\ a = [segments |-> s.segments, open |-> Append(s.open, w), count |-> s.count + 1]
             /\ a \in Splitter
  <2> DEFINE o == Append(s.open, w)
  <2>1. a = [s EXCEPT !.open = Append(@, w), !.count = @ + 1]
    BY <1>3 DEF AddWord
  <2>2. o \in Seq(Word) /\ o # <<>> /\ s.count + 1 \in Nat
    BY <1>1
  <2>3. [s EXCEPT !.open = Append(@, w), !.count = @ + 1] = [s EXCEPT !.open = o, !.count = s.count + 1]
    OBVIOUS
  <2> HIDE DEF o, a
  <2>4. a = [segments |-> s.segments, open |-> o, count |-> s.count + 1]
    BY <1>1, <2>1, <2>3
  <2>5. a \in Splitter
    BY <1>1, <2>2, <2>4 DEF Splitter
  <2> QED BY <2>4, <2>5 DEF o
<1> QED BY <1>2, <1>3

\* A paragraph is split word by word.
LEMMA SplitsAre ==
    ASSUME NEW words \in Seq(Word), NEW max
    PROVE  /\ Splits(words, max) \in [0..Len(words) -> Splitter]
           /\ Splits(words, max)[0] = NoWords
           /\ \A n \in 1..Len(words) :
                 Splits(words, max)[n] = AddWord(max, Splits(words, max)[n - 1], words[n])
<1> DEFINE L == Len(words)
           step == [n \in 1..L |-> [x \in Splitter |-> AddWord(max, x, words[n])]]
           F == CHOOSE g : g = [n \in 0..L |-> IF n = 0 THEN NoWords ELSE AddWord(max, g[n - 1], words[n])]
<1>1. L \in Nat /\ \A n \in 1..L : words[n] \in Word
  OBVIOUS
<1>2. Splits(words, max) = F
  BY DEF Splits, NoWords
<1>3. NoWords \in Splitter
  <2>1. <<>> \in Seq(Segment) /\ <<>> \in Seq(Word)
    OBVIOUS
  <2> QED BY <2>1 DEF NoWords, Splitter
<1>4. PICK g : g \in Runs(L, Splitter, NoWords, step)
  <2>1. \A n \in 1..L : \A x \in Splitter : AddWord(max, x, words[n]) \in Splitter
    BY <1>1, AddWordIs
  <2>2. step \in [1..L -> [Splitter -> Splitter]]
    BY <2>1
  <2> HIDE DEF step, L
  <2>3. Runs(L, Splitter, NoWords, step) # {}
    BY <1>1, <1>3, <2>2, RunsExist
  <2> QED BY <2>3
<1>5. /\ g \in [0..L -> Splitter] /\ g[0] = NoWords
      /\ \A n \in 1..L : g[n] = AddWord(max, g[n - 1], words[n])
  <2>1. g \in [0..L -> Splitter] /\ g[0] = NoWords /\ \A n \in 1..L : g[n] = step[n][g[n - 1]]
    BY <1>4 DEF Runs
  <2>2. \A n \in 1..L : n - 1 \in 0..L
    BY <1>1
  <2>3. \A n \in 1..L : g[n - 1] \in Splitter
    BY <2>1, <2>2
  <2> QED BY <2>1, <2>3
<1>6. g = [n \in 0..L |-> IF n = 0 THEN NoWords ELSE AddWord(max, g[n - 1], words[n])]
  BY <1>5
<1>7. F = [n \in 0..L |-> IF n = 0 THEN NoWords ELSE AddWord(max, F[n - 1], words[n])]
  BY <1>6
<1> HIDE DEF F, L, step
<1>8. F[0] = NoWords /\ \A n \in 1..L : F[n] = AddWord(max, F[n - 1], words[n])
  <2>1. \A n \in 1..L : n \in 0..L /\ n # 0
    OBVIOUS
  <2>2. 0 \in 0..L
    BY <1>1
  <2> QED BY <1>7, <2>1, <2>2
<1> DEFINE N == {n \in 0..L : F[n] \in Splitter}
<1>9. 0 \in N
  BY <1>1, <1>3, <1>8
<1>10. ASSUME NEW n \in 0..L, n \in N, n < L PROVE n + 1 \in N
  <2>1. n + 1 \in 1..L /\ n + 1 \in 0..L /\ (n + 1) - 1 = n
    BY <1>1, <1>10
  <2>2. F[n + 1] = AddWord(max, F[n], words[n + 1]) /\ words[n + 1] \in Word
    BY <1>1, <1>8, <2>1
  <2>3. F[n] \in Splitter
    BY <1>10
  <2>4. F[n + 1] \in Splitter
    BY <2>2, <2>3, AddWordIs
  <2> QED BY <2>1, <2>4
<1>11. \A n \in 0..L : n \in N /\ n < L => n + 1 \in N
  BY <1>10, Zenon
<1> HIDE DEF N
<1>12. 0..L \subseteq N
  BY <1>1, <1>9, <1>11, Upto, Zenon
<1>13. \A n \in 0..L : F[n] \in Splitter
  BY <1>12 DEF N
<1>14. F \in [0..L -> Splitter]
  <2>1. F = [n \in 0..L |-> F[n]]
    BY <1>7
  <2> QED BY <1>13, <2>1
<1> QED BY <1>2, <1>8, <1>14 DEF L

\* Of the first n words, those from k on are open.
SplitSoFar(words, max, n) ==
    LET s == Splits(words, max)[n]
    IN  \E k \in 1..n : /\ Fits(words, max, k, n)
                        /\ s.open = SubSeq(words, k, n) /\ s.count = n - k + 1
                        /\ CutUpTo(s.segments, words, max, k - 1)

\* Before the first word nothing is cut.
LEMMA NothingCut ==
    ASSUME NEW words, NEW max
    PROVE  CutUpTo(<<>>, words, max, 0)
<1>1. <<>> \in Seq(Segment) /\ DOMAIN <<>> = {} /\ 1..0 = {}
  OBVIOUS
<1> QED BY <1>1 DEF CutUpTo

\* One more word, and the segments still hold all words before the open ones (vector.py:753-763).
LEMMA SplitGoesOn ==
    ASSUME NEW words, Proper(words), NEW max \in 1..MaxChunk, NEW n \in 1..Len(words),
           n = 1 \/ SplitSoFar(words, max, n - 1)
    PROVE  SplitSoFar(words, max, n)
<1> DEFINE L == Len(words)
           s == Splits(words, max)[n - 1]
           r == Splits(words, max)[n]
           w == words[n]
<1>1. words \in Seq(Word) /\ L \in Nat /\ DOMAIN words = 1..L /\ MaxChunk \in Nat \ {0} /\ max \in Nat \ {0}
      /\ TargetTerms \in Nat \ {0}
  BY ChunksAssumption DEF Proper
<1>2. n \in 1..L /\ n - 1 \in 0..L /\ n \in Nat \ {0} /\ n - 1 \in Nat /\ w \in Word
  BY <1>1
<1>3. s \in Splitter /\ r = AddWord(max, s, w) /\ Splits(words, max)[0] = NoWords
  BY <1>1, <1>2, SplitsAre
<1> HIDE DEF L, s, r
<1>4. SubSeq(words, n, n) = <<w>> /\ Fits(words, max, n, n)
  <2>1. SubSeq(words, n, n) = <<w>>
    <3> DEFINE g == SubSeq(words, n, n)
    <3>1. n \in 1..n
      BY <1>2
    <3>2. /\ Proper(g) /\ Len(g) = n - n + 1 /\ g[1] = words[n]
      BY <3>1, GroupIs
    <3> HIDE DEF g
    <3>3. g \in Seq(Word) /\ Len(g) = 1 /\ g[1] = w
      BY <1>2, <3>2 DEF Proper
    <3>4. g = <<w>>
      BY <3>3
    <3> QED BY <3>4 DEF g
  <2>2. n \in 1..n /\ n - n + 1 <= TargetTerms
    BY <1>1, <1>2
  <2> QED BY <1>2, <2>1, <2>2 DEF Fits, L
<1>5. CASE n = 1
  <2>1. s = NoWords
    BY <1>3, <1>5 DEF s
  <2>2. s.count = 0 /\ s.segments = <<>> /\ s.open = <<>>
    BY <2>1 DEF NoWords
  <2>3. r = [segments |-> s.segments, open |-> Append(s.open, w), count |-> s.count + 1]
    <3>1. ~(s.count > 0 /\ (w.end - s.open[1].start > max \/ s.count >= TargetTerms))
      BY <2>2
    <3> QED BY <1>2, <1>3, <3>1, AddWordIs, Zenon
  <2>4. Append(<<>>, w) = <<w>>
    OBVIOUS
  <2>5. r.open = <<w>> /\ r.count = 1 /\ r.segments = <<>>
    BY <2>2, <2>3, <2>4
  <2>6. 1 \in 1..n /\ n - 1 + 1 = 1 /\ 1 - 1 = 0
    BY <1>5
  <2>7. CutUpTo(r.segments, words, max, 1 - 1)
    BY <2>5, <2>6, NothingCut
  <2>8. /\ Fits(words, max, 1, n) /\ r.open = SubSeq(words, 1, n) /\ r.count = n - 1 + 1
    BY <1>4, <1>5, <2>5
  <2> QED BY <2>6, <2>7, <2>8 DEF SplitSoFar, r
<1>6. CASE n # 1
  <2>1. PICK k \in 1..(n - 1) :
          /\ Fits(words, max, k, n - 1)
          /\ s.open = SubSeq(words, k, n - 1) /\ s.count = (n - 1) - k + 1
          /\ CutUpTo(s.segments, words, max, k - 1)
    BY <1>6 DEF SplitSoFar, s
  <2>2. /\ k \in Nat \ {0} /\ k <= n - 1 /\ k \in 1..n /\ s.count \in Nat \ {0}
        /\ s.count = n - k /\ n - 1 \in 1..Len(words) /\ n - k + 1 = s.count + 1
    <3>1. k \in Nat \ {0} /\ k <= n - 1 /\ n <= L
      BY <1>1, <1>2
    <3> QED BY <1>1, <1>2, <2>1, <3>1 DEF L
  <2>3. s.open[1] = words[k] /\ s.open \in Seq(Word) /\ Len(s.open) = n - k
    <3> DEFINE g == SubSeq(words, k, n - 1)
    <3>1. Proper(g) /\ g[1] = words[k] /\ Len(g) = (n - 1) - k + 1
      BY <2>2, GroupIs
    <3>2. (n - 1) - k + 1 = n - k
      BY <1>2, <2>2
    <3> HIDE DEF g
    <3>3. s.open = g
      BY <2>1 DEF g
    <3> QED BY <3>1, <3>2, <3>3 DEF Proper
  <2>4. CASE w.end - s.open[1].start > max \/ s.count >= TargetTerms
    <3>1. r = [segments |-> s.segments \o ParagraphSegment(s.open), open |-> <<w>>, count |-> 1]
      <4>1. s.count > 0 /\ (w.end - s.open[1].start > max \/ s.count >= TargetTerms)
        BY <2>2, <2>4
      <4> QED BY <1>2, <1>3, <4>1, AddWordIs, Zenon
    <3>2. CutUpTo(s.segments \o ParagraphSegment(SubSeq(words, k, n - 1)), words, max, n - 1)
      BY <2>1, CutGoesOn
    <3>3. r.open = SubSeq(words, n, n) /\ r.count = n - n + 1 /\ CutUpTo(r.segments, words, max, n - 1)
      BY <1>2, <1>4, <2>1, <3>1, <3>2
    <3>4. n \in 1..n
      BY <1>2
    <3> QED BY <1>4, <3>3, <3>4 DEF SplitSoFar, r
  <2>5. CASE ~(w.end - s.open[1].start > max \/ s.count >= TargetTerms)
    <3>1. r = [segments |-> s.segments, open |-> Append(s.open, w), count |-> s.count + 1]
      <4>1. ~(s.count > 0 /\ (w.end - s.open[1].start > max \/ s.count >= TargetTerms))
        BY <2>5
      <4> QED BY <1>2, <1>3, <4>1, AddWordIs, Zenon
    <3>2. Append(s.open, w) = SubSeq(words, k, n)
      <4> DEFINE g == SubSeq(words, k, n)
                 h == SubSeq(words, k, n - 1)
                 a == Append(h, w)
                 l == n - k
      <4>0. k \in 1..n /\ k \in 1..(n - 1) /\ n - 1 \in 1..Len(words)
        BY <2>2
      <4>1. /\ Proper(g) /\ Len(g) = n - k + 1
            /\ \A i \in DOMAIN g : g[i] = words[i + k - 1]
        <5> HIDE DEF a, h, l, w
        <5> QED BY <4>0, GroupIs
      <4>2. /\ Proper(h) /\ Len(h) = (n - 1) - k + 1
            /\ \A i \in DOMAIN h : h[i] = words[i + k - 1]
        <5> HIDE DEF a, g, l, w
        <5> QED BY <4>0, GroupIs
      <4> HIDE DEF g, h, l
      <4>3. l \in Nat /\ l + 1 = n - k + 1 /\ (n - 1) - k + 1 = l /\ (l + 1) + k - 1 = n
        BY <1>2, <2>2 DEF l
      <4>4. g \in Seq(Word) /\ h \in Seq(Word) /\ DOMAIN g = 1..(l + 1) /\ DOMAIN h = 1..l /\ Len(h) = l
            /\ Len(g) = l + 1
        <5>1. g \in Seq(Word) /\ h \in Seq(Word)
          BY <4>1, <4>2 DEF Proper
        <5> QED BY <4>1, <4>2, <4>3, <5>1
      <4>5. /\ a \in Seq(Word)
            /\ \A i \in DOMAIN a : (i \in DOMAIN h /\ a[i] = h[i]) \/ (i = Len(h) + 1 /\ a[i] = w)
        BY <1>2, <4>4, AppendIs
      <4>6. Len(a) = l + 1
        BY <4>4
      <4> HIDE DEF a
      <4>7. DOMAIN a = 1..(l + 1)
        BY <4>5, <4>6
      <4>8. \A i \in 1..(l + 1) : a[i] = words[i + k - 1]
        <5> TAKE i \in 1..(l + 1)
        <5>1. CASE i \in DOMAIN h /\ a[i] = h[i]
          BY <4>2, <5>1
        <5>2. CASE i = Len(h) + 1 /\ a[i] = w
          BY <4>3, <4>4, <5>2
        <5> QED BY <4>5, <4>7, <5>1, <5>2
      <4>9. \A i \in 1..(l + 1) : g[i] = a[i]
        BY <4>1, <4>4, <4>8
      <4>10. g = a
        BY <4>4, <4>5, <4>6, <4>9
      <4> QED BY <2>1, <4>10 DEF a, g, h
    <3>3. Fits(words, max, k, n)
      <4>1. s.count + 1 <= TargetTerms
        BY <1>1, <2>2, <2>5
      <4>2. words[n].end - words[k].start <= max
        <5>1. words[n].end \in Nat /\ words[k].start \in Nat
          <6>1. words[k] \in Word
            BY <1>1, <2>2 DEF L
          <6> QED BY <1>2, <6>1 DEF Word
        <5> QED BY <1>1, <2>3, <2>5, <5>1
      <4> QED BY <1>2, <2>2, <4>1, <4>2 DEF Fits, L
    <3>4. r.open = SubSeq(words, k, n) /\ r.count = n - k + 1 /\ r.segments = s.segments
      BY <2>2, <3>1, <3>2
    <3>5. CutUpTo(r.segments, words, max, k - 1)
      BY <2>1, <3>4
    <3> QED BY <2>2, <3>3, <3>4, <3>5 DEF SplitSoFar, r
  <2> QED BY <2>4, <2>5
<1> QED BY <1>5, <1>6

\* All words of a paragraph are in its segments, which are in order.
LEMMA SegmentsAre ==
    ASSUME NEW words, Proper(words), words # <<>>, NEW max \in 1..MaxChunk
    PROVE  CutUpTo(SplitParagraph(words, max), words, max, Len(words))
<1> DEFINE L == Len(words)
           N == {n \in 0..L : n # 0 => SplitSoFar(words, max, n)}
           s == Splits(words, max)[L]
<1>1. L \in Nat \ {0}
  BY ProperSpan
<1>2. 0 \in N
  BY <1>1
<1>3. ASSUME NEW n \in 0..L, n \in N, n < L PROVE n + 1 \in N
  <2>1. n + 1 \in 1..L /\ (n + 1) - 1 = n /\ n + 1 \in 0..L
    BY <1>1, <1>3
  <2>2. n + 1 = 1 \/ SplitSoFar(words, max, (n + 1) - 1)
    BY <1>3, <2>1
  <2>3. SplitSoFar(words, max, n + 1)
    BY <2>1, <2>2, SplitGoesOn
  <2> QED BY <2>1, <2>3
<1>4. \A n \in 0..L : n \in N /\ n < L => n + 1 \in N
  BY <1>3, Zenon
<1> HIDE DEF N
<1>5. 0..L \subseteq N
  <2>1. L \in Nat
    BY <1>1
  <2> HIDE DEF L
  <2> QED BY <1>2, <1>4, <2>1, Upto, Zenon
<1>6. SplitSoFar(words, max, L)
  <2>1. L \in 0..L /\ L # 0
    BY <1>1
  <2> QED BY <1>5, <2>1 DEF N
<1>7. PICK k \in 1..L : /\ Fits(words, max, k, L)
                        /\ s.open = SubSeq(words, k, L)
                        /\ CutUpTo(s.segments, words, max, k - 1)
  BY <1>6 DEF SplitSoFar
<1>8. CutUpTo(s.segments \o ParagraphSegment(SubSeq(words, k, L)), words, max, L)
  BY <1>7, CutGoesOn
<1>9. SplitParagraph(words, max) = s.segments \o ParagraphSegment(s.open)
  BY DEF SplitParagraph
<1> QED BY <1>7, <1>8, <1>9

-----------------------------------------------------------------------------
(* The chunks of a page *)

\* A prefix has a length (vector.py:795-800).
LEMMA PrefixIs ==
    ASSUME NEW page \in Page, NEW b \in Seq(Texts)
    PROVE  PrefixLength(page, b) \in Nat
<1> DEFINE sizes == [i \in DOMAIN b |-> Length[b[i]]]
           path == Sums(sizes)[Len(b)] + 3 * (Len(b) - 1)
<1>1. Length[page.title] \in Nat
  BY ChunksAssumption DEF Page
<1>2. PrefixLength(page, b) = Length[page.title] + IF b \in {<<>>, <<page.title>>} THEN 0 ELSE 1 + path
  BY DEF PrefixLength
<1>3. CASE b = <<>>
  BY <1>1, <1>2, <1>3
<1>4. CASE b # <<>>
  <2>1. Len(b) \in Nat \ {0} /\ DOMAIN b = 1..Len(b)
    BY <1>4
  <2>2. \A i \in 1..Len(b) : Length[b[i]] \in Nat
    BY ChunksAssumption
  <2>3. sizes \in Seq(Nat) /\ Len(sizes) = Len(b)
    <3>1. sizes \in [1..Len(b) -> Nat]
      BY <2>1, <2>2
    <3> HIDE DEF sizes
    <3> QED BY <2>1, <3>1
  <2> HIDE DEF sizes
  <2>4. Sums(sizes) \in [0..Len(b) -> Nat]
    BY <2>3, SumsAre
  <2>5. Sums(sizes)[Len(b)] \in Nat
    <3>1. Len(b) \in 0..Len(b)
      BY <2>1
    <3> QED BY <2>4, <3>1
  <2>6. path \in Nat
    <3> DEFINE x == Sums(sizes)[Len(b)]
               l == Len(b)
    <3>1. x \in Nat /\ l \in Nat \ {0}
      BY <2>1, <2>5
    <3> HIDE DEF x, l
    <3>2. x + 3 * (l - 1) \in Nat
      BY <3>1
    <3> QED BY <3>2 DEF x, l
  <2> HIDE DEF path
  <2> QED BY <1>1, <1>2, <2>6
<1> QED BY <1>3, <1>4

\* The largest segment beside a prefix
LEMMA LimitIs ==
    ASSUME NEW prefix \in Nat
    PROVE  /\ Max({MinSegment, MaxChunk - prefix - 1}) \in 1..MaxChunk
           /\ MinSegment + prefix + 1 <= MaxChunk =>
                Max({MinSegment, MaxChunk - prefix - 1}) = MaxChunk - prefix - 1
           /\ MaxChunk \in Nat \ {0} /\ MinSegment \in Nat
<1>1. MaxChunk \in Nat \ {0} /\ MinSegment \in 1..MaxChunk
  BY ChunksAssumption
<1>2. Max({MinSegment, MaxChunk - prefix - 1}) =
        IF MinSegment <= MaxChunk - prefix - 1 THEN MaxChunk - prefix - 1 ELSE MinSegment
  <2> DEFINE room == MaxChunk - prefix - 1
  <2>1. MinSegment \in Int /\ room \in Int
    BY <1>1
  <2> HIDE DEF room
  <2>2. Max({MinSegment, room}) = IF MinSegment <= room THEN room ELSE MinSegment
    BY <2>1, OfTwo
  <2> QED BY <2>2 DEF room
<1> QED BY <1>1, <1>2

\* The text that is kept of a segment fits beside the prefix.
LEMMA KeptIs ==
    ASSUME NEW prefix \in Nat, NEW segment, segment.words \in Seq(Word),
           segment.start \in Nat, segment.end \in Nat, segment.start < segment.end
    PROVE  /\ KeptEnd(prefix, segment) \in Nat
           /\ segment.end - segment.start <= MaxChunk - prefix - 1 => KeptEnd(prefix, segment) = segment.end
           /\ prefix < MaxChunk => prefix + 1 + KeptEnd(prefix, segment) - segment.start <= MaxChunk
<1> DEFINE room == MaxChunk - prefix - 1
           start == segment.start
           end == segment.end
           kept == KeptEnd(prefix, segment)
           breaks == {w.end : w \in {x \in ToSet(segment.words) :
                                       x.end < segment.end /\ x.end - segment.start < room}}
           m == Max(breaks \cup {start})
<1>0. MaxChunk \in Nat
  BY LimitIs
<1>1. room \in Int /\ start \in Nat /\ end \in Nat /\ start < end /\ MaxChunk \in Nat
      /\ room = MaxChunk - prefix - 1
  BY <1>0
<1>2. \/ kept = end /\ end - start <= room
      \/ kept = start /\ room < 0 /\ ~(end - start <= room)
      \/ kept = m /\ ~(room < 0) /\ ~(end - start <= room)
      \/ kept = start + room /\ ~(room < 0) /\ ~(end - start <= room)
  <2> DEFINE boundary == prefix + 1 + Max(breaks \cup {segment.start - 1}) - segment.start
  <2>1. kept = IF end - start <= room THEN end
               ELSE IF room < 0 THEN start
               ELSE IF boundary >= MaxChunk \div 2 THEN m
               ELSE start + room
    BY DEF KeptEnd
  <2> HIDE DEF kept, m, breaks, boundary, room, start, end
  <2> QED BY <2>1
<1> HIDE DEF kept
<1>3. m \in Nat /\ (room >= 0 => m - start <= room)
  <2> DEFINE S == breaks \cup {start}
  <2>1. ASSUME NEW x \in breaks PROVE x \in Nat /\ x <= end /\ x - start < room
    <3>1. PICK w \in ToSet(segment.words) : x = w.end /\ w.end < end /\ w.end - start < room
      OBVIOUS
    <3>2. w \in Word
      <4>1. PICK i \in DOMAIN segment.words : w = segment.words[i]
        BY DEF ToSet
      <4> DEFINE t == segment.words
      <4> HIDE DEF t
      <4>2. t \in Seq(Word) /\ i \in DOMAIN t /\ w = t[i]
        BY <4>1 DEF t
      <4> QED BY <4>2
    <3>3. w.end \in Nat
      BY <3>2 DEF Word
    <3> HIDE DEF breaks
    <3> QED BY <1>1, <3>1, <3>3
  <2> HIDE DEF breaks, start, end, room
  <2>2. S \in SUBSET Nat /\ S # {} /\ \A x \in S : x <= end
    BY <1>1, <2>1
  <2> HIDE DEF S
  <2>3. Max(S) \in S
    BY <1>1, <2>2, MaxIsGreatest
  <2>4. Max(S) \in Nat
    BY <2>2, <2>3
  <2>5. Max(S) = start \/ Max(S) \in breaks
    BY <2>3 DEF S
  <2>6. room >= 0 => Max(S) - start <= room
    BY <1>1, <2>1, <2>4, <2>5
  <2> QED BY <2>4, <2>6 DEF S
<1> HIDE DEF m, start, end, room
<1>4. kept \in Nat
  BY <1>1, <1>2, <1>3
<1>5. end - start <= room => kept = end
  BY <1>1, <1>2
<1>6. prefix < MaxChunk => kept - start <= room
  BY <1>1, <1>2, <1>3
<1> HIDE DEF kept
<1>7. prefix < MaxChunk => prefix + 1 + kept - start <= MaxChunk
  BY <1>1, <1>4, <1>6
<1> QED BY <1>4, <1>5, <1>7 DEF kept, start, end, room

\* What the chunks of a paragraph hold
LEMMA CutIs ==
    ASSUME NEW page \in Page, NEW paragraph \in Paragraph, Proper(paragraph.words), paragraph.words # <<>>
    PROVE  LET cs == Cut(page, paragraph)
               words == paragraph.words
           IN  /\ cs \in Seq(Chunk)
               /\ \A i \in DOMAIN cs :
                     /\ cs[i].start < cs[i].end /\ cs[i].breadcrumb = paragraph.breadcrumb
                     /\ words[1].start <= cs[i].start /\ cs[i].end <= words[Len(words)].end
                     /\ Len(cs[i].words) <= TargetTerms
                     /\ cs[i].prefix < MaxChunk => cs[i].prefix + 1 + cs[i].kept - cs[i].start <= MaxChunk
               /\ \A i, j \in DOMAIN cs : i < j => cs[i].end <= cs[j].start
               /\ \A w \in ToSet(words) : \E i \in DOMAIN cs :
                     /\ In(w, cs[i])
                     /\ (w.end - w.start + cs[i].prefix + 1 <= MaxChunk
                         /\ MinSegment + cs[i].prefix + 1 <= MaxChunk) => w \in ToSet(cs[i].words)
<1> DEFINE words == paragraph.words
           crumb == paragraph.breadcrumb
           prefix == PrefixLength(page, crumb)
           max == Max({MinSegment, MaxChunk - prefix - 1})
           segments == SplitParagraph(words, max)
           kept(segment) == KeptEnd(prefix, segment)
           within(segment) == {k \in DOMAIN segment.words : /\ segment.start <= segment.words[k].start
                                                            /\ segment.words[k].end <= kept(segment)}
           chunk(i) == [start |-> segments[i].start, end |-> segments[i].end,
                        breadcrumb |-> crumb, prefix |-> prefix, kept |-> kept(segments[i]),
                        words |-> At(segments[i].words, within(segments[i]))]
           cs == Cut(page, paragraph)
<1>1. words \in Seq(Word) /\ crumb \in Seq(Texts)
  BY DEF Paragraph
<1>2. prefix \in Nat
  BY <1>1, PrefixIs
<1>3. cs = [i \in DOMAIN segments |-> chunk(i)]
  BY DEF Cut
<1> HIDE DEF prefix, crumb, cs
<1>4. /\ max \in 1..MaxChunk /\ MaxChunk \in Nat \ {0} /\ MinSegment \in Nat
      /\ MinSegment + prefix + 1 <= MaxChunk => max = MaxChunk - prefix - 1
  BY <1>2, LimitIs
<1> HIDE DEF max
<1>5. CutUpTo(segments, words, max, Len(words))
  BY <1>4, SegmentsAre
<1> HIDE DEF segments
<1>6. /\ segments \in Seq(Segment)
      /\ \A i \in DOMAIN segments :
            /\ Len(segments[i].words) <= TargetTerms /\ segments[i].words \in Seq(Word)
            /\ segments[i].start < segments[i].end
            /\ words[1].start <= segments[i].start
            /\ \E m \in 1..Len(words) : segments[i].end <= words[m].end
      /\ \A i, j \in DOMAIN segments : i < j => segments[i].end <= segments[j].start
      /\ \A m \in 1..Len(words) : \E i \in DOMAIN segments : Covers(segments[i], words[m], max)
  BY <1>5 DEF CutUpTo
<1>7. /\ DOMAIN words = 1..Len(words)
      /\ \A i \in DOMAIN words : words[i].end \in Nat /\ words[i].end <= words[Len(words)].end
                                 /\ words[i].start \in Nat
      /\ Len(words) \in DOMAIN words
  BY ProperSpan
<1>8. Len(segments) \in Nat /\ DOMAIN segments = 1..Len(segments) /\ \A i \in DOMAIN segments : segments[i] \in Segment
  BY <1>6
<1> HIDE DEF words
<1>9. ASSUME NEW i \in DOMAIN segments
      PROVE  /\ segments[i].start \in Nat /\ segments[i].end \in Nat
             /\ segments[i].words \in Seq(Word)
             /\ kept(segments[i]) \in Nat
             /\ segments[i].end - segments[i].start <= MaxChunk - prefix - 1 =>
                  kept(segments[i]) = segments[i].end
             /\ prefix < MaxChunk => prefix + 1 + kept(segments[i]) - segments[i].start <= MaxChunk
  <2> DEFINE g == segments[i]
  <2>1. g \in Segment /\ g.words \in Seq(Word) /\ g.start < g.end
    BY <1>6, <1>8
  <2> HIDE DEF g
  <2>2. g.start \in Nat /\ g.end \in Nat
    BY <2>1 DEF Segment
  <2>3. /\ kept(g) \in Nat
        /\ g.end - g.start <= MaxChunk - prefix - 1 => kept(g) = g.end
        /\ prefix < MaxChunk => prefix + 1 + kept(g) - g.start <= MaxChunk
    BY <1>2, <2>1, <2>2, KeptIs
  <2> HIDE DEF kept
  <2> QED BY <2>1, <2>2, <2>3 DEF g
<1> HIDE DEF kept
<1>10. ASSUME NEW i \in DOMAIN segments
       PROVE  LET a == At(segments[i].words, within(segments[i]))
              IN  /\ a \in Seq(Word) /\ Len(a) <= TargetTerms
                  /\ \A k \in within(segments[i]) : segments[i].words[k] \in ToSet(a)
  <2> DEFINE t == segments[i].words
             P == within(segments[i])
             a == At(t, P)
  <2>1. t \in Seq(Word) /\ Len(t) <= TargetTerms
    BY <1>6
  <2>2. P \in SUBSET (DOMAIN t)
    OBVIOUS
  <2> HIDE DEF P, t
  <2>3. PICK c \in Nat, o \in [1..Cardinality(P) -> P] :
          /\ c = Cardinality(P) /\ c <= Len(t)
          /\ a \in Seq(Word) /\ Len(a) = c
          /\ \A n \in 1..c : a[n] = t[o[n]]
          /\ \A k \in P : \E n \in 1..c : o[n] = k
    BY <2>1, <2>2, AtIs
  <2> HIDE DEF a
  <2>4. DOMAIN a = 1..c
    BY <2>3
  <2>5. \A k \in P : t[k] \in ToSet(a)
    <3> TAKE k \in P
    <3>1. PICK n \in 1..c : o[n] = k
      BY <2>3
    <3>2. a[n] = t[k] /\ n \in DOMAIN a
      BY <2>3, <2>4, <3>1
    <3> QED BY <3>2 DEF ToSet
  <2>6. Len(a) <= TargetTerms
    <3>1. Len(t) \in Nat /\ TargetTerms \in Nat
      BY <2>1, ChunksAssumption
    <3> QED BY <2>1, <2>3, <3>1
  <2> QED BY <2>3, <2>5, <2>6 DEF a, t, P
<1> HIDE DEF within
<1>11. ASSUME NEW i \in DOMAIN segments
       PROVE  chunk(i) \in Chunk
  BY <1>1, <1>2, <1>9, <1>10 DEF Chunk, crumb
<1>12. cs \in Seq(Chunk) /\ DOMAIN cs = DOMAIN segments /\ \A i \in DOMAIN segments : cs[i] = chunk(i)
  <2> HIDE DEF chunk
  <2>1. cs \in [1..Len(segments) -> Chunk] /\ \A i \in DOMAIN segments : cs[i] = chunk(i)
    BY <1>3, <1>8, <1>11
  <2> QED BY <1>8, <2>1
<1>13. ASSUME NEW i \in DOMAIN segments
       PROVE  /\ cs[i].start = segments[i].start /\ cs[i].end = segments[i].end
              /\ cs[i].breadcrumb = crumb /\ cs[i].prefix = prefix /\ cs[i].kept = kept(segments[i])
              /\ cs[i].words = At(segments[i].words, within(segments[i]))
  BY <1>12
<1> HIDE DEF chunk
<1>14. ASSUME NEW i \in DOMAIN cs
       PROVE  /\ cs[i].start < cs[i].end /\ cs[i].breadcrumb = paragraph.breadcrumb
              /\ words[1].start <= cs[i].start /\ cs[i].end <= words[Len(words)].end
              /\ Len(cs[i].words) <= TargetTerms
              /\ cs[i].prefix < MaxChunk => cs[i].prefix + 1 + cs[i].kept - cs[i].start <= MaxChunk
  <2>1. i \in DOMAIN segments
    BY <1>12
  <2>2. PICK m \in 1..Len(words) : segments[i].end <= words[m].end
    BY <1>6, <2>1
  <2>3. segments[i].end <= words[Len(words)].end
    <3>1. words[m].end \in Nat /\ words[m].end <= words[Len(words)].end /\ words[Len(words)].end \in Nat
      BY <1>7
    <3>2. segments[i].end \in Nat
      BY <1>9, <2>1
    <3> QED BY <2>2, <3>1, <3>2
  <2>4. Len(cs[i].words) <= TargetTerms
    BY <1>10, <1>13, <2>1
  <2>5. cs[i].prefix < MaxChunk => cs[i].prefix + 1 + cs[i].kept - cs[i].start <= MaxChunk
    BY <1>9, <1>13, <2>1
  <2> QED BY <1>6, <1>13, <2>1, <2>3, <2>4, <2>5 DEF crumb
<1>15. ASSUME NEW w \in ToSet(words)
       PROVE  \E i \in DOMAIN cs :
                 /\ In(w, cs[i])
                 /\ (w.end - w.start + cs[i].prefix + 1 <= MaxChunk
                     /\ MinSegment + cs[i].prefix + 1 <= MaxChunk) => w \in ToSet(cs[i].words)
  <2>1. PICK m \in 1..Len(words) : words[m] = w
    BY <1>7 DEF ToSet
  <2>2. PICK i \in DOMAIN segments : Covers(segments[i], w, max)
    BY <1>6, <2>1
  <2>3. w.start \in Nat /\ w.end \in Nat
    BY <1>7, <2>1
  <2>4. /\ segments[i].start <= w.start /\ w.start < segments[i].end /\ w \in ToSet(segments[i].words)
        /\ w.end - w.start <= max => w.end <= segments[i].end /\ segments[i].end - segments[i].start <= max
    BY <2>2 DEF Covers, In
  <2>5. In(w, cs[i])
    BY <1>13, <2>4 DEF In
  <2>6. ASSUME w.end - w.start + prefix + 1 <= MaxChunk, MinSegment + prefix + 1 <= MaxChunk
        PROVE  w \in ToSet(cs[i].words)
    <3>1. max = MaxChunk - prefix - 1
      BY <1>4, <2>6
    <3>2. w.end - w.start <= max
      BY <1>2, <1>4, <2>3, <2>6, <3>1
    <3>3. kept(segments[i]) = segments[i].end /\ w.end <= segments[i].end
      BY <1>9, <2>4, <3>1, <3>2
    <3>4. PICK k \in DOMAIN segments[i].words : segments[i].words[k] = w
      BY <2>4 DEF ToSet
    <3>5. k \in within(segments[i])
      BY <2>4, <3>3, <3>4 DEF within
    <3>6. segments[i].words[k] \in ToSet(At(segments[i].words, within(segments[i])))
      BY <1>10, <3>5
    <3> QED BY <1>13, <3>4, <3>6
  <2> QED BY <1>12, <1>13, <2>5, <2>6
<1>16. \A i, j \in DOMAIN cs : i < j => cs[i].end <= cs[j].start
  BY <1>6, <1>12, <1>13
<1> QED BY <1>12, <1>14, <1>15, <1>16 DEF cs, words

\* What the chunks of a page hold
LEMMA ChunksOfPageAre ==
    ASSUME NEW page \in Page
    PROVE  LET cs == ChunksOf(page)
           IN  /\ cs \in Seq(Chunk)
               /\ \A i \in DOMAIN cs :
                     /\ cs[i].start < cs[i].end /\ Len(cs[i].words) <= TargetTerms
                     /\ cs[i].prefix < MaxChunk => cs[i].prefix + 1 + cs[i].kept - cs[i].start <= MaxChunk
                     /\ \A k \in DOMAIN page.lines \ TextLines(page) :
                           Offset(page, k) <= cs[i].start \/ cs[i].end <= Offset(page, k)
               /\ \A i, j \in DOMAIN cs : i < j => cs[i].end <= cs[j].start
               /\ \A k \in TextLines(page) : \A w \in WordsAt(page, k) : \E i \in DOMAIN cs :
                     /\ In(w, cs[i]) /\ cs[i].breadcrumb = Crumb(page, k)
                     /\ (w.end - w.start + cs[i].prefix + 1 <= MaxChunk
                         /\ MinSegment + cs[i].prefix + 1 <= MaxChunk) => w \in ToSet(cs[i].words)
<1> DEFINE ps == PageParagraphs(page)
           ss == [d \in DOMAIN ps |-> Cut(page, ps[d])]
           L == Len(ps)
           cs == ChunksOf(page)
<1>1. cs = FlattenSeq(ss)
  BY DEF ChunksOf
<1>2. /\ ps \in Seq(Paragraph)
      /\ \A d \in DOMAIN ps : ps[d].words # <<>> /\ Proper(ps[d].words)
      /\ \A c, d \in DOMAIN ps : c < d => Precede(ps[c].words, ps[d].words)
      /\ \A i \in TextLines(page) : \A w \in WordsAt(page, i) :
            \E d \in DOMAIN ps : w \in ToSet(ps[d].words) /\ ps[d].breadcrumb = Crumb(page, i)
      /\ \A i \in DOMAIN page.lines \ TextLines(page) : \A d \in DOMAIN ps :
            \/ \A k \in DOMAIN ps[d].words : Offset(page, i) <= ps[d].words[k].start
            \/ \A k \in DOMAIN ps[d].words : ps[d].words[k].end <= Offset(page, i)
  BY ParagraphsAre
<1> HIDE DEF ps, cs
<1>3. L \in Nat /\ DOMAIN ps = 1..L /\ \A d \in DOMAIN ps : ps[d] \in Paragraph
  BY <1>2
<1>4. ASSUME NEW d \in DOMAIN ps
      PROVE  LET c == Cut(page, ps[d])
                 words == ps[d].words
             IN  /\ c \in Seq(Chunk)
                 /\ \A i \in DOMAIN c :
                       /\ c[i].start < c[i].end /\ c[i].breadcrumb = ps[d].breadcrumb
                       /\ words[1].start <= c[i].start /\ c[i].end <= words[Len(words)].end
                       /\ Len(c[i].words) <= TargetTerms
                       /\ c[i].prefix < MaxChunk => c[i].prefix + 1 + c[i].kept - c[i].start <= MaxChunk
                 /\ \A i, j \in DOMAIN c : i < j => c[i].end <= c[j].start
                 /\ \A w \in ToSet(words) : \E i \in DOMAIN c :
                       /\ In(w, c[i])
                       /\ (w.end - w.start + c[i].prefix + 1 <= MaxChunk
                           /\ MinSegment + c[i].prefix + 1 <= MaxChunk) => w \in ToSet(c[i].words)
  BY <1>2, <1>3, CutIs
<1> HIDE DEF L
<1>5. ss \in Seq(Seq(Chunk)) /\ Len(ss) = L
  <2>1. \A d \in 1..L : Cut(page, ps[d]) \in Seq(Chunk)
    BY <1>3, <1>4
  <2>2. ss \in [1..L -> Seq(Chunk)]
    BY <1>3, <2>1
  <2> HIDE DEF ss
  <2> QED BY <1>3, <2>2
<1>6. \A d \in DOMAIN ps : ss[d] = Cut(page, ps[d])
  OBVIOUS
<1> HIDE DEF ss
<1>7. cs \in Seq(Chunk) /\ \E a, b : Flat(ss, L, cs, a, b)
  BY <1>1, <1>5, FlattenIs
<1>8. PICK which, place : Flat(ss, L, cs, which, place)
  BY <1>7
<1>9. ASSUME NEW i \in DOMAIN cs
      PROVE  /\ which[i] \in DOMAIN ps /\ place[i] \in DOMAIN ss[which[i]] /\ cs[i] = ss[which[i]][place[i]]
             /\ cs[i].start \in Nat /\ cs[i].end \in Nat
             /\ cs[i].start < cs[i].end /\ cs[i].breadcrumb = ps[which[i]].breadcrumb
             /\ Len(cs[i].words) <= TargetTerms
             /\ cs[i].prefix < MaxChunk => cs[i].prefix + 1 + cs[i].kept - cs[i].start <= MaxChunk
             /\ ps[which[i]].words[1].start <= cs[i].start
             /\ cs[i].end <= ps[which[i]].words[Len(ps[which[i]].words)].end
  <2>1. which[i] \in 1..L /\ place[i] \in DOMAIN ss[which[i]] /\ cs[i] = ss[which[i]][place[i]]
    BY <1>8 DEF Flat
  <2>2. which[i] \in DOMAIN ps
    BY <1>3, <2>1
  <2>3. cs[i] \in Chunk
    BY <1>7
  <2>4. cs[i].start \in Nat /\ cs[i].end \in Nat
    BY <2>3 DEF Chunk
  <2>5. ss[which[i]] = Cut(page, ps[which[i]])
    BY <1>6, <2>2
  <2> QED BY <1>4, <2>1, <2>2, <2>4, <2>5
<1>10. ASSUME NEW d \in DOMAIN ps
       PROVE  LET words == ps[d].words
              IN  /\ 1 \in DOMAIN words /\ Len(words) \in DOMAIN words
                  /\ words[1].start \in Nat /\ words[Len(words)].end \in Nat
  BY <1>2, ProperSpan
<1>11. ASSUME NEW i \in DOMAIN cs, NEW j \in DOMAIN cs, i < j PROVE cs[i].end <= cs[j].start
  <2>1. which[i] < which[j] \/ (which[i] = which[j] /\ place[i] < place[j])
    BY <1>8, <1>11 DEF Flat
  <2>2. CASE which[i] < which[j]
    <3> DEFINE u == ps[which[i]].words
               v == ps[which[j]].words
    <3>1. Precede(u, v)
      BY <1>2, <1>9, <2>2
    <3>2. u[Len(u)].end < v[1].start /\ u[Len(u)].end \in Nat /\ v[1].start \in Nat
      <4>1. Len(u) \in DOMAIN u /\ 1 \in DOMAIN v /\ u[Len(u)].end \in Nat /\ v[1].start \in Nat
        BY <1>9, <1>10
      <4> HIDE DEF u, v
      <4> QED BY <3>1, <4>1 DEF Precede
    <3>3. cs[i].end <= u[Len(u)].end /\ v[1].start <= cs[j].start /\ cs[i].end \in Nat /\ cs[j].start \in Nat
      BY <1>9
    <3> HIDE DEF u, v
    <3> QED BY <3>2, <3>3
  <2>3. CASE which[i] = which[j] /\ place[i] < place[j]
    BY <1>4, <1>6, <1>9, <2>3
  <2> QED BY <2>1, <2>2, <2>3
<1>12. ASSUME NEW i \in DOMAIN cs, NEW k \in DOMAIN page.lines \ TextLines(page)
       PROVE  Offset(page, k) <= cs[i].start \/ cs[i].end <= Offset(page, k)
  <2> DEFINE u == ps[which[i]].words
             o == Offset(page, k)
  <2>1. (\A q \in DOMAIN u : o <= u[q].start) \/ (\A q \in DOMAIN u : u[q].end <= o)
    BY <1>2, <1>9
  <2>2. 1 \in DOMAIN u /\ Len(u) \in DOMAIN u /\ u[1].start \in Nat /\ u[Len(u)].end \in Nat
    BY <1>9, <1>10
  <2>3. o \in Nat
    <3>1. k \in 1..Len(page.lines) /\ k - 1 \in 0..Len(page.lines)
      BY EndsAre
    <3> QED BY <3>1, EndsAre
  <2>4. cs[i].end <= u[Len(u)].end /\ u[1].start <= cs[i].start /\ cs[i].end \in Nat /\ cs[i].start \in Nat
    BY <1>9
  <2> HIDE DEF u, o
  <2>5. o <= cs[i].start \/ cs[i].end <= o
    BY <2>1, <2>2, <2>3, <2>4
  <2> QED BY <2>5 DEF o
<1>13. ASSUME NEW k \in TextLines(page), NEW w \in WordsAt(page, k)
       PROVE  \E i \in DOMAIN cs :
                 /\ In(w, cs[i]) /\ cs[i].breadcrumb = Crumb(page, k)
                 /\ (w.end - w.start + cs[i].prefix + 1 <= MaxChunk
                     /\ MinSegment + cs[i].prefix + 1 <= MaxChunk) => w \in ToSet(cs[i].words)
  <2>1. PICK d \in DOMAIN ps : w \in ToSet(ps[d].words) /\ ps[d].breadcrumb = Crumb(page, k)
    BY <1>2
  <2>2. PICK q \in DOMAIN ss[d] :
          /\ In(w, ss[d][q])
          /\ (w.end - w.start + ss[d][q].prefix + 1 <= MaxChunk
              /\ MinSegment + ss[d][q].prefix + 1 <= MaxChunk) => w \in ToSet(ss[d][q].words)
    BY <1>4, <1>6, <2>1
  <2>3. PICK i \in DOMAIN cs : which[i] = d /\ place[i] = q
    BY <1>3, <1>8 DEF Flat
  <2>4. cs[i] = ss[d][q] /\ cs[i].breadcrumb = ps[d].breadcrumb
    BY <1>9, <2>3
  <2> QED BY <2>1, <2>2, <2>4
<1> QED BY <1>7, <1>9, <1>11, <1>12, <1>13 DEF cs

-----------------------------------------------------------------------------
(* The headings of a line *)

\* A sequence that has each element of a set once, the lower before the higher, is the set in order.
LEMMA InOrderOne ==
    ASSUME NEW S \in SUBSET Nat, NEW c \in Nat, NEW u \in [1..c -> S],
           \A m, n \in 1..c : m < n => u[m] < u[n],
           \A i \in S : \E n \in 1..c : u[n] = i
    PROVE  Cardinality(S) = c /\ InOrder(S) = u
<1>1. IsFiniteSet(1..c) /\ Cardinality(1..c) = c
  <2>1. IsFiniteSet(1..c) /\ Cardinality(1..c) = IF 1 > c THEN 0 ELSE c - 1 + 1
    BY FS_Interval
  <2> QED BY <2>1
<1>2. \A m, n \in 1..c : u[m] = u[n] => m = n
  <2> SUFFICES ASSUME NEW m \in 1..c, NEW n \in 1..c, m < n PROVE u[m] # u[n]
    OBVIOUS
  <2>1. u[m] \in Nat /\ u[n] \in Nat
    OBVIOUS
  <2> QED BY <2>1
<1>3. u \in Bijection(1..c, S)
  BY <1>2 DEF Bijection, Injection, Surjection, IsInjective
<1>4. IsFiniteSet(S) /\ Cardinality(S) = c
  BY <1>1, <1>3, FS_Bijection DEF ExistsBijection
<1> DEFINE o == InOrder(S)
<1>5. /\ o \in [1..c -> S]
      /\ \A m, n \in 1..c : m < n => o[m] < o[n]
      /\ \A i \in S : \E n \in 1..c : o[n] = i
  BY <1>4, InOrderIs
<1> HIDE DEF o
<1> DEFINE N == {n \in 0..c : \A m \in 1..n : o[m] = u[m]}
<1>6. 0 \in N
  OBVIOUS
<1>7. ASSUME NEW n \in 0..c, n \in N, n < c PROVE n + 1 \in N
  <2> DEFINE x == n + 1
  <2>1. x \in 1..c /\ x \in 0..c /\ \A m \in 1..x : m = x \/ m \in 1..n
    BY <1>7
  <2>2. \A m \in 1..c : m < x => o[m] = u[m]
    <3> SUFFICES ASSUME NEW m \in 1..c, m < x PROVE o[m] = u[m]
      OBVIOUS
    <3>1. m \in 1..n
      OBVIOUS
    <3> QED BY <1>7, <3>1
  <2> HIDE DEF N, x
  <2>3. o[x] \in Nat /\ u[x] \in Nat /\ o[x] \in S /\ u[x] \in S
    BY <1>5, <2>1
  <2>4. PICK p \in 1..c : u[p] = o[x]
    BY <2>3
  <2>5. PICK q \in 1..c : o[q] = u[x]
    BY <1>5, <2>3
  <2>6. ~(p < x)
    <3> SUFFICES ASSUME p < x PROVE FALSE
      OBVIOUS
    <3>1. o[p] = o[x] /\ o[p] < o[x]
      BY <1>5, <2>1, <2>2, <2>4
    <3> QED BY <2>3, <3>1
  <2>7. ~(q < x)
    <3> SUFFICES ASSUME q < x PROVE FALSE
      OBVIOUS
    <3>1. u[q] = u[x] /\ u[q] < u[x]
      BY <2>1, <2>2, <2>5
    <3> QED BY <2>3, <3>1
  <2>8. u[x] <= o[x]
    <3>1. p = x \/ x < p
      BY <2>1, <2>6
    <3>2. x < p => u[x] < u[p]
      BY <2>1
    <3> QED BY <2>3, <2>4, <3>1, <3>2
  <2>9. o[x] <= u[x]
    <3>1. q = x \/ x < q
      BY <2>1, <2>7
    <3>2. x < q => o[x] < o[q]
      BY <1>5, <2>1
    <3> QED BY <2>3, <2>5, <3>1, <3>2
  <2>10. o[x] = u[x]
    BY <2>3, <2>8, <2>9
  <2>11. \A m \in 1..x : o[m] = u[m]
    BY <1>7, <2>1, <2>10 DEF N
  <2>12. x \in N
    BY <2>1, <2>11 DEF N
  <2> QED BY <2>12 DEF x
<1>8. \A n \in 0..c : n \in N /\ n < c => n + 1 \in N
  BY <1>7, Zenon
<1>9. c \in N
  <2> HIDE DEF N
  <2>1. 0..c \subseteq N
    BY <1>6, <1>8, Upto
  <2> QED BY <2>1
<1>10. \A m \in 1..c : o[m] = u[m]
  BY <1>9
<1>11. o = u
  BY <1>5, <1>10
<1> QED BY <1>4, <1>11 DEF o

\* The headings above line i, and what the reader has of them
Under(page, i, c, u) ==
    /\ c \in Nat /\ u \in [1..c -> Active(page, i)]
    /\ \A k, l \in 1..c : k < l => u[k] < u[l]
    /\ \A k \in 1..c : page.lines[u[k]].level = k
    /\ \A j \in Active(page, i) : \E k \in 1..c : u[k] = j
    /\ Crumb(page, i) = [k \in 1..c |-> page.lines[u[k]].label]

\* Above the first line there are no headings.
LEMMA NothingAbove ==
    ASSUME NEW page \in Page
    PROVE  Under(page, 1, 0, <<>>)
<1>1. DOMAIN page.lines = 1..Len(page.lines)
  BY EndsAre
<1>2. Active(page, 1) = {}
  BY <1>1 DEF Active, Headings
<1>3. Crumb(page, 1) = <<>>
  BY ReadsAre DEF Crumb, NothingRead
<1>4. 1..0 = {} /\ <<>> = [k \in 1..0 |-> page.lines[<<>>[k]].label]
  OBVIOUS
<1>5. <<>> \in [1..0 -> {}]
  OBVIOUS
<1> QED BY <1>2, <1>3, <1>4, <1>5 DEF Under

\* The headings above the next line
LEMMA ActiveIs ==
    ASSUME NEW page \in Page, NEW i \in DOMAIN page.lines
    PROVE  /\ Active(page, i) \in SUBSET Nat /\ \A j \in Active(page, i) : j < i /\ j \in Headings(page)
           /\ i \notin Headings(page) => Active(page, i + 1) = Active(page, i)
           /\ i \in Headings(page) =>
                Active(page, i + 1) =
                  {i} \cup {j \in Active(page, i) : page.lines[i].level > page.lines[j].level}
<1>1. \A j \in Headings(page) : j \in Nat
  BY EndsAre DEF Headings
<1>2. i \in Nat
  BY EndsAre
<1>3. \A j \in Nat : j < i + 1 <=> j < i \/ j = i
  BY <1>2
<1>4. CASE i \notin Headings(page)
  BY <1>1, <1>2, <1>3, <1>4 DEF Active
<1>5. CASE i \in Headings(page)
  BY <1>1, <1>2, <1>3, <1>5 DEF Active
<1> QED BY <1>1, <1>4, <1>5 DEF Active

\* One more line, and the reader still has the headings above, each at its level
\* (vector.py:713-717).
LEMMA UnderGoesOn ==
    ASSUME NEW page \in Page, ~SkipsLevels(page), NEW i \in DOMAIN page.lines,
           NEW c, NEW u, Under(page, i, c, u)
    PROVE  \E d, v : Under(page, i + 1, d, v)
<1> DEFINE b == Crumb(page, i)
           line == page.lines[i]
           A == Active(page, i)
           B == Active(page, i + 1)
           r == ReadLines(page)[i - 1]
<1>1. /\ Len(page.lines) \in Nat /\ i \in 1..Len(page.lines) /\ line \in LineOfPage
  BY EndsAre
<1>2. /\ r \in Reader /\ ReadLines(page)[i] = ReadLine(r, line)
  <2>1. i - 1 \in 0..Len(page.lines)
    BY <1>1
  <2> QED BY <1>1, <2>1, ReadsAre
<1>3. Crumb(page, i + 1) = ReadLine(r, line).breadcrumb /\ r.breadcrumb = b
  <2>1. (i + 1) - 1 = i
    BY <1>1
  <2> QED BY <1>2, <2>1 DEF Crumb
<1>4. /\ A \in SUBSET Nat /\ \A j \in A : j < i /\ j \in Headings(page)
      /\ i \notin Headings(page) => B = A
      /\ i \in Headings(page) => B = {i} \cup {j \in A : line.level > page.lines[j].level}
  BY ActiveIs
<1>5. /\ c \in Nat /\ u \in [1..c -> A]
      /\ \A k, l \in 1..c : k < l => u[k] < u[l]
      /\ \A k \in 1..c : page.lines[u[k]].level = k
      /\ \A j \in A : \E k \in 1..c : u[k] = j
      /\ b = [k \in 1..c |-> page.lines[u[k]].label]
  BY DEF Under
<1> HIDE DEF b, r, A, B, line
<1>6. CASE i \notin Headings(page)
  <2>1. line.kind # "heading"
    BY <1>6 DEF Headings, line
  <2>2. line.kind = "text" \/ line.kind = "blank"
    BY <1>1, <2>1 DEF LineOfPage, BlankLine
  <2>3. ReadLine(r, line).breadcrumb = b
    BY <1>1, <1>2, <1>3, <2>2, ReadLineIs
  <2>4. Under(page, i + 1, c, u)
    BY <1>3, <1>4, <1>5, <1>6, <2>3 DEF Under, A, B
  <2> QED BY <2>4
<1>7. CASE i \in Headings(page)
  <2> DEFINE level == line.level
             label == line.label
             v == [k \in 1..level |-> IF k = level THEN i ELSE u[k]]
  <2>1. line.kind = "heading"
    BY <1>7 DEF Headings, line
  <2>2. /\ level \in Nat \ {0} /\ label \in Texts
        /\ ReadLine(r, line).breadcrumb = Breadcrumb(b, level, label)
    BY <1>1, <1>2, <1>3, <2>1, ReadLineIs
  <2>3. Cardinality(A) = c
    BY <1>4, <1>5, InOrderOne
  <2>4. ~(level > Cardinality(A) + 1)
    BY <1>7 DEF SkipsLevels, A, line
  <2>5. b \in Seq(Texts) /\ Len(b) = c
    <3>1. b \in Seq(Texts)
      BY <1>2, <1>3 DEF Reader
    <3>2. DOMAIN b = 1..c
      BY <1>5
    <3>3. DOMAIN b = 1..Len(b) /\ Len(b) \in Nat
      BY <3>1
    <3> QED BY <1>5, <3>1, <3>2, <3>3
  <2> HIDE DEF level, label
  <2>6. level - 1 <= c /\ level \in Nat /\ level - 1 \in Nat
    BY <1>5, <2>2, <2>3, <2>4
  <2>7. Breadcrumb(b, level, label) = [k \in 1..level |-> IF k = level THEN label ELSE b[k]]
    <3>0. \E m \in Nat : /\ m = (IF level - 1 <= Len(b) THEN level - 1 ELSE Len(b))
                         /\ Breadcrumb(b, level, label) \in Seq(Texts)
                         /\ Breadcrumb(b, level, label) =
                              [k \in 1..(m + 1) |-> IF k = m + 1 THEN label ELSE b[k]]
      BY <2>2, <2>5, BreadcrumbIs, Zenon
    <3>1. PICK m \in Nat : /\ m = (IF level - 1 <= Len(b) THEN level - 1 ELSE Len(b))
                           /\ Breadcrumb(b, level, label) =
                                [k \in 1..(m + 1) |-> IF k = m + 1 THEN label ELSE b[k]]
      BY <3>0
    <3>2. m + 1 = level
      BY <2>5, <2>6, <3>1
    <3> QED BY <3>1, <3>2
  <2>8. \A k \in 1..level : k = level \/ (k # level /\ k \in 1..c /\ k < level)
    BY <1>5, <2>6
  <2>9. i \in B /\ \A j \in A : page.lines[j].level < level => j \in B
    <3>1. \A j \in A : page.lines[j].level < level => line.level > page.lines[j].level
      <4>1. \A j \in A : \E k \in 1..c : page.lines[j].level = k
        BY <1>5
      <4> QED BY <2>6, <4>1 DEF level
    <3> QED BY <1>4, <1>7, <3>1
  <2>10. \A k \in 1..c : k < level => u[k] \in B
    BY <1>5, <2>9
  <2>11. v \in [1..level -> B] /\ v[level] = i /\ \A k \in 1..level : k # level => v[k] = u[k]
    <3>1. level \in 1..level
      BY <2>2
    <3> QED BY <2>8, <2>9, <2>10, <3>1
  <2> HIDE DEF v
  <2>12. ASSUME NEW k \in 1..level, NEW l \in 1..level, k < l PROVE v[k] < v[l]
    <3>1. k # level /\ k \in 1..c /\ v[k] = u[k] /\ u[k] \in A
      BY <1>5, <2>6, <2>8, <2>11, <2>12
    <3>2. CASE l = level
      BY <1>4, <2>11, <3>1, <3>2
    <3>3. CASE l # level
      <4>1. l \in 1..c /\ v[l] = u[l]
        BY <2>8, <2>11, <3>3
      <4> QED BY <1>5, <2>12, <3>1, <4>1
    <3> QED BY <3>2, <3>3
  <2>13. ASSUME NEW k \in 1..level PROVE page.lines[v[k]].level = k
    <3>1. CASE k = level
      BY <2>11, <3>1 DEF level, line
    <3>2. CASE k # level
      BY <1>5, <2>8, <2>11, <3>2
    <3> QED BY <3>1, <3>2
  <2>14. ASSUME NEW j \in B PROVE \E k \in 1..level : v[k] = j
    <3>1. CASE j = i
      <4>1. level \in 1..level
        BY <2>2
      <4> QED BY <2>11, <3>1, <4>1
    <3>2. CASE j # i
      <4>1. j \in A /\ level > page.lines[j].level
        BY <1>4, <1>7, <3>2 DEF level
      <4>2. PICK k \in 1..c : u[k] = j
        BY <1>5, <4>1
      <4>3. k < level
        BY <1>5, <2>6, <4>1, <4>2
      <4>4. k \in 1..level /\ k # level
        BY <1>5, <2>6, <4>3
      <4> QED BY <2>11, <4>2, <4>4
    <3> QED BY <3>1, <3>2
  <2>15. Crumb(page, i + 1) = [k \in 1..level |-> page.lines[v[k]].label]
    <3>1. \A k \in 1..level : (IF k = level THEN label ELSE b[k]) = page.lines[v[k]].label
      <4> TAKE k \in 1..level
      <4>1. CASE k = level
        BY <2>11, <4>1 DEF label, line
      <4>2. CASE k # level
        BY <1>5, <2>8, <2>11, <4>2
      <4> QED BY <4>1, <4>2
    <3>2. Crumb(page, i + 1) = [k \in 1..level |-> IF k = level THEN label ELSE b[k]]
      BY <1>3, <2>2, <2>7
    <3> QED BY <3>1, <3>2
  <2>16. Under(page, i + 1, level, v)
    BY <2>6, <2>11, <2>12, <2>13, <2>14, <2>15 DEF Under, B
  <2> QED BY <2>16
<1> QED BY <1>6, <1>7

\* The labels of some lines, in order
LabelsOf(page, S) == [k \in DOMAIN InOrder(S) |-> page.lines[InOrder(S)[k]].label]

\* Where no level is missing, the reader has the headings that a line stands under.
LEMMA CrumbIs ==
    ASSUME NEW page \in Page, ~SkipsLevels(page), NEW i \in DOMAIN page.lines
    PROVE  Crumb(page, i) = LabelsOf(page, Active(page, i))
<1> DEFINE L == Len(page.lines)
           N == {n \in 0..L : \E c, u : Under(page, n + 1, c, u)}
<1>1. L \in Nat /\ DOMAIN page.lines = 1..L
  BY EndsAre
<1>2. 0 \in N
  <2>1. Under(page, 0 + 1, 0, <<>>)
    BY NothingAbove
  <2> QED BY <1>1, <2>1
<1>3. ASSUME NEW n \in 0..L, n \in N, n < L PROVE n + 1 \in N
  <2>1. n + 1 \in DOMAIN page.lines /\ n + 1 \in 0..L
    BY <1>1, <1>3
  <2>2. PICK c, u : Under(page, n + 1, c, u)
    BY <1>3
  <2>3. \E d, v : Under(page, (n + 1) + 1, d, v)
    BY <2>1, <2>2, UnderGoesOn
  <2> QED BY <2>1, <2>3
<1>4. \A n \in 0..L : n \in N /\ n < L => n + 1 \in N
  BY <1>3, Zenon
<1>5. i - 1 \in N
  <2> HIDE DEF N
  <2>1. 0..L \subseteq N
    BY <1>1, <1>2, <1>4, Upto
  <2>2. i - 1 \in 0..L
    BY <1>1
  <2> QED BY <2>1, <2>2
<1>6. PICK c, u : Under(page, i, c, u)
  <2>1. (i - 1) + 1 = i
    BY <1>1
  <2> QED BY <1>5, <2>1
<1>7. /\ c \in Nat /\ u \in [1..c -> Active(page, i)]
      /\ \A k, l \in 1..c : k < l => u[k] < u[l]
      /\ \A j \in Active(page, i) : \E k \in 1..c : u[k] = j
      /\ Crumb(page, i) = [k \in 1..c |-> page.lines[u[k]].label]
  BY <1>6 DEF Under
<1>8. Active(page, i) \in SUBSET Nat
  BY ActiveIs
<1>9. InOrder(Active(page, i)) = u
  BY <1>7, <1>8, InOrderOne
<1> QED BY <1>7, <1>9 DEF LabelsOf

-----------------------------------------------------------------------------
(* The search *)

\* An index in memory: all chunks, each with its vector in the matrix and maybe in its record
IndexIs(m, n, which, place) ==
    /\ Located(n, which, place) /\ DOMAIN m.records = 1..n
    /\ \A i \in 1..n :
          /\ RecordIs(m.records[i], which[i], place[i])
          /\ m.records[i].norm = Len(VectorOf(which[i], place[i]))
          /\ m.matrix[i] = VectorOf(which[i], place[i])
          /\ m.records[i].vector \in {<<>>, VectorOf(which[i], place[i])}

\* No row of an eligible page is left out, unless its vector is zero.
LEMMA PositionsAre ==
    ASSUME ChunksAre, NEW n, NEW which, NEW place, IndexIs(inMemory, n, which, place),
           NEW effective
    PROVE  /\ FilteredPositions(effective) \in Seq(1..n)
           /\ \A i \in 1..n : which[i] \in effective /\ inMemory.records[i].norm > 0 =>
                 i \in ToSet(FilteredPositions(effective))
<1> DEFINE W == {i \in DOMAIN inMemory.records :
                    inMemory.records[i].page \in effective /\ inMemory.records[i].norm > 0}
           w == InOrder(W)
           c == Cardinality(W)
<1>1. n \in Nat /\ DOMAIN inMemory.records = 1..n /\ \A i \in 1..n : inMemory.records[i].page = which[i]
  BY DEF IndexIs, Located, RecordIs
<1>2. W \in SUBSET (1..n)
  BY <1>1
<1>3. IsFiniteSet(W) /\ W \in SUBSET Nat /\ c \in Nat
  <2> HIDE DEF W
  <2> QED BY <1>1, <1>2, PlacesAreFinite
<1>4. w \in [1..c -> W] /\ \A i \in W : \E k \in 1..c : w[k] = i
  <2> HIDE DEF W
  <2> QED BY <1>3, InOrderIs
<1>5. Wanted(effective) = w
  BY DEF Wanted
<1>6. w \in Seq(1..n) /\ DOMAIN w = 1..c
  <2> HIDE DEF w, c, W
  <2>1. w \in [1..c -> 1..n]
    BY <1>2, <1>4
  <2>2. DOMAIN w = 1..c
    BY <2>1
  <2> QED BY <1>1, <1>3, <2>1, <2>2
<1>7. \A i \in W : i \in ToSet(w)
  <2> HIDE DEF w, c, W
  <2> QED BY <1>4, <1>6 DEF ToSet
<1>8. Positions \in Seq(1..n) /\ \A i \in 1..n : i \in ToSet(Positions)
  <2>1. Positions = [i \in 1..n |-> i]
    BY <1>1 DEF Positions
  <2>2. [i \in 1..n |-> i] \in Seq(1..n)
    BY <1>1
  <2>3. \A i \in 1..n : i \in DOMAIN Positions /\ Positions[i] = i
    BY <2>1
  <2> QED BY <2>1, <2>2, <2>3 DEF ToSet
<1>9. \A i \in 1..n : which[i] \in effective /\ inMemory.records[i].norm > 0 => i \in W
  BY <1>1
<1> HIDE DEF w, c, W
<1>10. <<>> \in Seq(1..n)
  OBVIOUS
<1>11. CASE effective = {}
  <2>1. FilteredPositions(effective) = <<>>
    BY <1>11 DEF FilteredPositions
  <2> QED BY <1>10, <1>11, <2>1
<1>12. CASE effective # {}
  <2>1. FilteredPositions(effective) = Positions \/ FilteredPositions(effective) = w
    BY <1>5, <1>12 DEF FilteredPositions
  <2> QED BY <1>6, <1>7, <1>8, <1>9, <2>1
<1> QED BY <1>11, <1>12

\* Row i and its score
Item(q, which, place, i) == <<i, Cosine(q, VectorOf(which[i], place[i]))>>

\* With NumPy or without, each of the rows gets its score, and nothing else does.
LEMMA PythonScoresAre ==
    ASSUME ChunksAre, NEW n, NEW which, NEW place, IndexIs(inMemory, n, which, place),
           NEW q, NEW positions \in Seq(1..n)
    PROVE  ToSet(PythonScores(q, positions)) = {Item(q, which, place, i) : i \in ToSet(positions)}
<1> DEFINE s == PythonScores(q, positions)
<1>1. DOMAIN s = DOMAIN positions
  BY DEF PythonScores
<1>0. \A k \in DOMAIN positions : positions[k] \in 1..n
  <2>1. n \in Nat
    BY DEF IndexIs, Located
  <2> QED BY <2>1
<1>2. ASSUME NEW k \in DOMAIN positions PROVE s[k] = Item(q, which, place, positions[k])
  <2> DEFINE i == positions[k]
             r == inMemory.records[i]
             v == VectorOf(which[i], place[i])
  <2>1. i \in 1..n
    BY <1>0
  <2>2. r.vector \in {<<>>, v} /\ inMemory.matrix[i] = v
    BY <2>1 DEF IndexIs
  <2>3. (IF r.vector # <<>> THEN r.vector ELSE inMemory.matrix[i]) = v
    BY <2>2
  <2>4. s[k] = <<i, Cosine(q, IF r.vector # <<>> THEN r.vector ELSE inMemory.matrix[i])>>
    BY DEF PythonScores
  <2> HIDE DEF s
  <2> QED BY <2>3, <2>4 DEF Item
<1> HIDE DEF s
<1> QED BY <1>1, <1>2 DEF ToSet, s

\* NumPy's blocks hold the score of every row that is selected, and no other
\* (vector.py:1984-2055).
LEMMA NumpyScoresAre ==
    ASSUME ChunksAre, NEW n, NEW which, NEW place, IndexIs(inMemory, n, which, place),
           NEW q, NEW positions \in Seq(1..n)
    PROVE  ToSet(NumpyScores(q, positions)) = {Item(q, which, place, i) : i \in ToSet(positions)}
<1> DEFINE L == Len(positions)
           rows == IF positions = Positions THEN BlockRows ELSE Max({1, Len(positions)})
           size(cursor) == Min({Len(positions), cursor + rows}) - cursor
           block(cursor) ==
              [k \in 1..size(cursor) |->
                  <<positions[cursor + k], Cosine(q, inMemory.matrix[positions[cursor + k]])>>]
           blocks == [b \in 1..((Len(positions) + rows - 1) \div rows) |-> block((b - 1) * rows)]
           B == (L + rows - 1) \div rows
           X == {Item(q, which, place, i) : i \in ToSet(positions)}
<1>1. L \in Nat /\ DOMAIN positions = 1..L /\ \A k \in 1..L : positions[k] \in 1..n
  <2>1. L \in Nat /\ DOMAIN positions = 1..L
    OBVIOUS
  <2>2. n \in Nat
    BY DEF IndexIs, Located
  <2>3. \A k \in DOMAIN positions : positions[k] \in 1..n
    BY <2>2
  <2> QED BY <2>1, <2>3
<1>2. rows \in Nat \ {0}
  <2>1. BlockRows \in Nat \ {0}
    BY ChunksAssumption
  <2>2. Max({1, Len(positions)}) = IF 1 <= L THEN L ELSE 1
    BY <1>1, OfTwo
  <2> QED BY <1>1, <2>1, <2>2
<1>3. NumpyScores(q, positions) = FlattenSeq(blocks)
  BY DEF NumpyScores
<1> HIDE DEF rows
<1>4. ASSUME NEW c \in Nat, c < L
      PROVE  /\ size(c) \in Nat \ {0} /\ c + size(c) <= L /\ size(c) <= rows
             /\ c + rows <= L => size(c) = rows
             /\ ~(c + rows <= L) => size(c) = L - c
  <2>1. Min({Len(positions), c + rows}) = IF L <= c + rows THEN L ELSE c + rows
    BY <1>1, <1>2, OfTwo
  <2> HIDE DEF L
  <2> QED BY <1>1, <1>2, <1>4, <2>1 DEF L
<1>5. B \in Nat
  <2>1. L + rows - 1 \in Nat
    BY <1>1, <1>2
  <2> QED BY <1>2, <2>1, DivIs
<1>6. ASSUME NEW b \in 1..B PROVE (b - 1) * rows \in Nat /\ (b - 1) * rows < L
  <2>1. L + rows - 1 \in Nat /\ B * rows <= L + rows - 1
    <3>1. L + rows - 1 \in Nat
      BY <1>1, <1>2
    <3> QED BY <1>2, <3>1, DivIs
  <2> HIDE DEF B, L
  <2>2. b * rows <= B * rows /\ (b - 1) * rows = b * rows - rows /\ b - 1 \in Nat /\ b * rows \in Int
    BY <1>2, <1>5
  <2>3. (b - 1) * rows \in Nat
    BY <1>2, <2>2
  <2> DEFINE x == b * rows
             y == B * rows
             z == (b - 1) * rows
  <2>4. x <= y /\ z = x - rows /\ x \in Int /\ y <= L + rows - 1 /\ z \in Nat /\ y \in Int
    <3>1. B * rows \in Int
      BY <1>2, <1>5
    <3> QED BY <2>1, <2>2, <2>3, <3>1
  <2> HIDE DEF x, y, z
  <2>5. z < L
    BY <1>1, <1>2, <2>4
  <2> QED BY <2>4, <2>5 DEF z
<1>7. ASSUME NEW c \in Nat, c < L
      PROVE  /\ block(c) \in Seq(X) /\ DOMAIN block(c) = 1..size(c)
             /\ \A k \in 1..size(c) : c + k \in 1..L /\ block(c)[k] = Item(q, which, place, positions[c + k])
  <2>1. size(c) \in Nat /\ \A k \in 1..size(c) : c + k \in 1..L
    <3> HIDE DEF size, L
    <3> QED BY <1>1, <1>4, <1>7
  <2> HIDE DEF size
  <2>2. ASSUME NEW k \in 1..size(c)
        PROVE  /\ block(c)[k] = Item(q, which, place, positions[c + k])
               /\ block(c)[k] \in X
    <3>1. positions[c + k] \in 1..n /\ positions[c + k] \in ToSet(positions)
      BY <1>1, <2>1 DEF ToSet
    <3>2. inMemory.matrix[positions[c + k]] = VectorOf(which[positions[c + k]], place[positions[c + k]])
      BY <3>1 DEF IndexIs
    <3>3. block(c)[k] = Item(q, which, place, positions[c + k])
      BY <3>2 DEF Item
    <3> QED BY <3>1, <3>3
  <2>3. block(c) \in [1..size(c) -> X]
    BY <2>2
  <2> HIDE DEF block, X
  <2>4. block(c) \in Seq(X) /\ DOMAIN block(c) = 1..size(c)
    BY <2>1, <2>3
  <2> QED BY <2>1, <2>2, <2>4
<1>8. blocks \in Seq(Seq(X)) /\ Len(blocks) = B /\ \A b \in 1..B : blocks[b] = block((b - 1) * rows)
  <2>1. \A b \in 1..B : block((b - 1) * rows) \in Seq(X)
    BY <1>6, <1>7
  <2> HIDE DEF block, X
  <2>2. blocks \in [1..B -> Seq(X)] /\ \A b \in 1..B : blocks[b] = block((b - 1) * rows)
    BY <2>1
  <2> HIDE DEF blocks, B
  <2> QED BY <1>5, <2>2
<1> DEFINE F == FlattenSeq(blocks)
<1>9. F \in Seq(X) /\ \E a, d : Flat(blocks, B, F, a, d)
  <2> HIDE DEF blocks, X, B, block
  <2>1. Len(blocks) = B
    BY <1>8
  <2>2. FlattenSeq(blocks) \in Seq(X) /\ \E a, d : Flat(blocks, Len(blocks), FlattenSeq(blocks), a, d)
    BY <1>8, FlattenIs
  <2> QED BY <2>1, <2>2
<1> HIDE DEF F
<1>10. ToSet(F) \subseteq X
  <2> HIDE DEF X
  <2> QED BY <1>9 DEF ToSet
<1>11. ASSUME NEW k \in 1..L PROVE Item(q, which, place, positions[k]) \in ToSet(F)
  <2> DEFINE b == (k - 1) \div rows + 1
             j == k - (b - 1) * rows
  <2>1. k - 1 \in Nat /\ k - 1 <= L - 1 /\ L - 1 \in Nat /\ (L - 1) + rows = L + rows - 1
    BY <1>1, <1>2
  <2>2. /\ (k - 1) \div rows \in Nat
        /\ ((k - 1) \div rows) * rows <= k - 1 /\ k - 1 < ((k - 1) \div rows) * rows + rows
    BY <1>2, <2>1, DivIs
  <2> HIDE DEF L
  <2>3. (k - 1) \div rows <= (L - 1) \div rows /\ ((L - 1) + rows) \div rows = (L - 1) \div rows + 1
    <3>1. (k - 1) \div rows <= (L - 1) \div rows
      BY <1>2, <2>1, DivGrows
    <3>2. L - 1 <= L - 1
      BY <2>1
    <3>3. ((L - 1) + rows) \div rows = (L - 1) \div rows + 1
      BY <1>2, <2>1, <3>2, DivGrows
    <3> QED BY <3>1, <3>3
  <2>4. (L - 1) \div rows \in Nat
    BY <1>2, <2>1, DivIs
  <2>5. B = (L - 1) \div rows + 1
    BY <2>1, <2>3
  <2> DEFINE x == (k - 1) \div rows
             y == (L - 1) \div rows
             c == x * rows
  <2>6. /\ x \in Nat /\ y \in Nat /\ x <= y /\ B = y + 1 /\ c \in Nat
        /\ c <= k - 1 /\ k - 1 < c + rows
    BY <1>2, <2>2, <2>3, <2>4, <2>5
  <2> HIDE DEF x, y, B
  <2>7. x + 1 \in 1..B /\ (x + 1) - 1 = x
    BY <2>6
  <2> HIDE DEF c, L
  <2>8. c < L /\ k - c \in Nat \ {0} /\ c + (k - c) = k
    BY <1>1, <2>6
  <2>9. k - c \in 1..size(c)
    <3>1. size(c) \in Nat /\ (size(c) = rows \/ size(c) = L - c)
      BY <1>4, <2>6, <2>8
    <3>2. k - c <= rows /\ k - c <= L - c
      BY <1>1, <1>2, <2>6, <2>8
    <3> HIDE DEF size
    <3> QED BY <2>8, <3>1, <3>2
  <2>10. blocks[x + 1] = block(c)
    BY <1>8, <2>7 DEF c
  <2>11. DOMAIN block(c) = 1..size(c) /\ block(c)[k - c] = Item(q, which, place, positions[k])
    <3> HIDE DEF block, size
    <3>1. DOMAIN block(c) = 1..size(c) /\ block(c)[k - c] = Item(q, which, place, positions[c + (k - c)])
      BY <1>7, <2>6, <2>8, <2>9
    <3> QED BY <2>8, <3>1
  <2> HIDE DEF block, blocks, size
  <2>12. PICK a, d : Flat(blocks, B, F, a, d)
    BY <1>9
  <2>13. PICK i \in DOMAIN F : a[i] = x + 1 /\ d[i] = k - c
    BY <2>7, <2>9, <2>10, <2>11, <2>12 DEF Flat
  <2>14. F[i] = blocks[a[i]][d[i]]
    BY <2>12 DEF Flat
  <2>15. F[i] = Item(q, which, place, positions[k])
    BY <2>10, <2>11, <2>13, <2>14
  <2> QED BY <2>15 DEF ToSet
<1>12. X \subseteq ToSet(F)
  <2> SUFFICES ASSUME NEW i \in ToSet(positions) PROVE Item(q, which, place, i) \in ToSet(F)
    OBVIOUS
  <2>1. PICK k \in 1..L : positions[k] = i
    BY <1>1 DEF ToSet
  <2> QED BY <1>11, <2>1
<1> QED BY <1>3, <1>10, <1>12 DEF F

-----------------------------------------------------------------------------
(* The best of a page *)

\* Chunks of a page that have a vector, and the first of those that score best
Embeds(p) == {k \in DOMAIN chunks[p] : VectorOf(p, k) # <<>>}
BestOf(q, p, k) ==
    /\ k \in Embeds(p)
    /\ \A j \in Embeds(p) : Score(q, p, j) < Score(q, p, k) \/ (Score(q, p, j) = Score(q, p, k) /\ k <= j)

\* A page with a vector has a best chunk.
LEMMA BestExists ==
    ASSUME ChunksAre, NEW q, NEW p \in DOMAIN wiki, Embeds(p) # {}
    PROVE  \E k \in Embeds(p) : BestOf(q, p, k)
<1> DEFINE K == Embeds(p)
           better(i, j) == \/ Score(q, p, i) > Score(q, p, j)
                           \/ Score(q, p, i) = Score(q, p, j) /\ i < j
           before == {ij \in K \X K : better(ij[1], ij[2])}
           c == Cardinality(K)
           s == Ordered(K, before)
<1>1. chunks[p] \in Seq(Chunk)
  BY DEF ChunksAre
<1>2. DOMAIN chunks[p] = 1..Len(chunks[p]) /\ Len(chunks[p]) \in Nat
  BY <1>1
<1>3. K \in SUBSET (1..Len(chunks[p]))
  BY <1>2 DEF Embeds
<1>4. IsFiniteSet(K) /\ K \in SUBSET Nat /\ c \in Nat
  BY <1>2, <1>3, PlacesAreFinite
<1>5. \A k \in K : k \in Nat /\ Score(q, p, k) \in Nat
  BY <1>4, VectorsAre DEF Embeds
<1>6. \A i, j \in K : <<i, j>> \in before <=> better(i, j)
  OBVIOUS
<1> HIDE DEF before
<1>7. Orders(K, before)
  <2> HIDE DEF K
  <2>1. \A x \in K : <<x, x>> \notin before
    BY <1>5, <1>6
  <2>2. \A x, y \in K : x # y => <<x, y>> \in before \/ <<y, x>> \in before
    BY <1>5, <1>6
  <2>3. \A x, y, z \in K : <<x, y>> \in before /\ <<y, z>> \in before => <<x, z>> \in before
    <3> SUFFICES ASSUME NEW x \in K, NEW y \in K, NEW z \in K, better(x, y), better(y, z)
                 PROVE  better(x, z)
      BY <1>6
    <3> QED BY <1>5
  <2> QED BY <2>1, <2>2, <2>3 DEF Orders
<1>8. /\ s \in [1..c -> K]
      /\ \A m, n \in 1..c : m < n => <<s[m], s[n]>> \in before
      /\ \A x \in K : \E n \in 1..c : s[n] = x
  <2> HIDE DEF K
  <2> QED BY <1>4, <1>7, OrderedIs
<1> HIDE DEF c, s, K
<1>9. PICK x \in K : TRUE
  BY DEF K
<1>10. 1 \in 1..c
  BY <1>4, <1>8, <1>9
<1>11. s[1] \in K /\ \A j \in K : j = s[1] \/ better(s[1], j)
  <2>1. s[1] \in K
    BY <1>8, <1>10
  <2>2. ASSUME NEW j \in K PROVE j = s[1] \/ better(s[1], j)
    <3>1. PICK m \in 1..c : s[m] = j
      BY <1>8
    <3>2. m = 1 \/ 1 < m
      BY <1>4, <3>1
    <3>3. CASE 1 < m
      <4>1. <<s[1], s[m]>> \in before
        BY <1>8, <1>10, <3>3
      <4> QED BY <1>6, <2>1, <3>1, <4>1
    <3> QED BY <3>1, <3>2, <3>3
  <2> QED BY <2>1, <2>2
<1>12. \A j \in K : Score(q, p, j) < Score(q, p, s[1]) \/ (Score(q, p, j) = Score(q, p, s[1]) /\ s[1] <= j)
  BY <1>5, <1>11
<1>13. BestOf(q, p, s[1])
  BY <1>11, <1>12 DEF BestOf, K
<1> QED BY <1>11, <1>13 DEF K

\* There is one best chunk.
LEMMA BestIsOne ==
    ASSUME ChunksAre, NEW q, NEW p \in DOMAIN wiki, NEW k, NEW j, BestOf(q, p, k), BestOf(q, p, j)
    PROVE  j = k
<1>1. j \in Embeds(p) /\ k \in Embeds(p)
  BY DEF BestOf
<1>2. Score(q, p, j) \in Nat /\ Score(q, p, k) \in Nat
  BY <1>1, VectorsAre DEF Embeds
<1>3. j \in Nat /\ k \in Nat
  <2>1. chunks[p] \in Seq(Chunk)
    BY DEF ChunksAre
  <2> QED BY <1>1, <2>1 DEF Embeds
<1>4. Score(q, p, j) < Score(q, p, k) \/ (Score(q, p, j) = Score(q, p, k) /\ k <= j)
  BY <1>1 DEF BestOf
<1>5. Score(q, p, k) < Score(q, p, j) \/ (Score(q, p, k) = Score(q, p, j) /\ j <= k)
  BY <1>1 DEF BestOf
<1> QED BY <1>2, <1>3, <1>4, <1>5

\* The items are rows P with their scores.
ItemsAre(items, q, which, place, P) == ToSet(items) = {Item(q, which, place, i) : i \in P}

\* Of each eligible page that has a vector, the best chunk is kept, with its score.
LEMMA BestByPageIs ==
    ASSUME ChunksAre, NEW n, NEW which, NEW place, IndexIs(inMemory, n, which, place),
           NEW effective, NEW q, q \notin Silent, NEW P \in SUBSET (1..n),
           \A i \in 1..n : which[i] \in effective /\ inMemory.records[i].norm > 0 => i \in P,
           NEW items, ItemsAre(items, q, which, place, P),
           NEW p \in DOMAIN wiki
    PROVE  IF p \in effective /\ Embeds(p) # {}
           THEN \E i \in 1..n : /\ which[i] = p /\ BestOf(q, p, place[i])
                                /\ BestByPage(items, effective)[p] = <<i, Score(q, p, place[i])>>
           ELSE BestByPage(items, effective)[p] = Missing
<1> DEFINE of == {item \in ToSet(items) : /\ inMemory.records[item[1]].page = p
                                          /\ inMemory.records[item[1]].norm > 0}
           best == CHOOSE item \in of : \A other \in of \ {item} : BetterRecord(item, other)
           score(i) == <<i, Score(q, p, place[i])>>
<1>1. BestByPage(items, effective)[p] = IF p \notin effective \/ of = {} THEN Missing ELSE best
  BY DEF BestByPage
<1>2. n \in Nat /\ \A i \in 1..n : /\ inMemory.records[i].page = which[i]
                                   /\ inMemory.records[i].ordinal = place[i] - 1
                                   /\ place[i] \in Nat /\ place[i] \in DOMAIN chunks[which[i]]
                                   /\ which[i] \in DOMAIN wiki
                                   /\ inMemory.records[i].norm = Len(VectorOf(which[i], place[i]))
  BY DEF IndexIs, Located, RecordIs
<1>3. ASSUME NEW i \in 1..n, which[i] = p
      PROVE  /\ inMemory.records[i].norm > 0 <=> place[i] \in Embeds(p)
             /\ Item(q, which, place, i) = score(i)
  <2> DEFINE v == VectorOf(p, place[i])
  <2>1. place[i] \in DOMAIN chunks[p]
    BY <1>2, <1>3
  <2>2. v \in Seq(Texts) /\ Cosine(q, v) = Score(q, p, place[i])
    BY <2>1, VectorsAre
  <2> HIDE DEF v
  <2>3. Len(v) > 0 <=> v # <<>>
    BY <2>2
  <2>4. inMemory.records[i].norm = Len(v)
    BY <1>2, <1>3 DEF v
  <2>5. Item(q, which, place, i) = score(i)
    BY <1>3, <2>2 DEF Item, v
  <2> QED BY <2>1, <2>3, <2>4, <2>5 DEF Embeds, v
<1> DEFINE rows == {i \in 1..n : which[i] = p /\ place[i] \in Embeds(p)}
<1>4. ASSUME p \in effective PROVE of = {score(i) : i \in rows}
  <2>0. ToSet(items) = {Item(q, which, place, i) : i \in P}
    BY DEF ItemsAre
  <2>1. ASSUME NEW item \in of PROVE item \in {score(i) : i \in rows}
    <3>1. PICK i \in P : item = Item(q, which, place, i)
      BY <2>0
    <3>2. item[1] = i
      BY <3>1 DEF Item
    <3>3. i \in 1..n /\ which[i] = p /\ inMemory.records[i].norm > 0
      BY <1>2, <3>1, <3>2
    <3>4. i \in rows /\ item = score(i)
      BY <1>3, <3>1, <3>3
    <3> QED BY <3>4
  <2>2. ASSUME NEW i \in rows PROVE score(i) \in of
    <3>1. i \in 1..n /\ which[i] = p /\ inMemory.records[i].norm > 0 /\ Item(q, which, place, i) = score(i)
      BY <1>3
    <3>2. i \in P
      BY <1>4, <3>1
    <3>3. score(i) \in ToSet(items) /\ score(i)[1] = i
      BY <2>0, <3>1, <3>2
    <3> QED BY <1>2, <3>1, <3>3
  <2> QED BY <2>1, <2>2
<1>5. \A k \in Embeds(p) : \E i \in rows : place[i] = k
  <2> TAKE k \in Embeds(p)
  <2>1. k \in DOMAIN chunks[p]
    BY DEF Embeds
  <2>2. PICK i \in 1..n : which[i] = p /\ place[i] = k
    BY <2>1 DEF IndexIs, Located
  <2> QED BY <2>2
<1> HIDE DEF of, rows
<1>6. CASE p \in effective /\ Embeds(p) # {}
  <2>1. PICK k \in Embeds(p) : BestOf(q, p, k)
    BY <1>6, BestExists
  <2>2. PICK i \in rows : place[i] = k
    BY <1>5
  <2>3. score(i) \in of /\ of # {}
    BY <1>4, <1>6, <2>2
  <2>4. \A j \in rows : /\ j \in 1..n /\ which[j] = p /\ place[j] \in Embeds(p) /\ place[j] \in Nat
                        /\ inMemory.records[j].ordinal = place[j] - 1 /\ Score(q, p, place[j]) \in Nat
    BY <1>2, VectorsAre DEF rows, Embeds
  <2>5. ASSUME NEW a \in rows, NEW b \in rows
        PROVE  BetterRecord(score(a), score(b)) <=>
                  \/ Score(q, p, place[a]) > Score(q, p, place[b])
                  \/ Score(q, p, place[a]) = Score(q, p, place[b]) /\ place[a] < place[b]
    BY <2>4 DEF BetterRecord
  <2>6. \A a, b \in rows : place[a] = place[b] => a = b
    BY <2>4 DEF IndexIs, Located
  <2> HIDE DEF score
  <2>7. ASSUME NEW other \in of \ {score(i)} PROVE BetterRecord(score(i), other)
    <3>1. PICK j \in rows : other = score(j)
      BY <1>4, <1>6
    <3>2. place[j] # place[i]
      BY <2>6, <3>1
    <3>3. Score(q, p, place[j]) < Score(q, p, place[i])
            \/ (Score(q, p, place[j]) = Score(q, p, place[i]) /\ place[i] <= place[j])
      BY <2>1, <2>2, <2>4 DEF BestOf
    <3> QED BY <2>4, <2>5, <3>1, <3>2, <3>3
  <2>8. best \in of /\ \A other \in of \ {best} : BetterRecord(best, other)
    BY <2>3, <2>7
  <2> HIDE DEF best
  <2>9. PICK j \in rows : best = score(j)
    BY <1>4, <1>6, <2>8
  <2>10. j = i
    <3> SUFFICES ASSUME score(i) # best PROVE j = i
      <4>1. score(i) = score(j) => i = j
        BY DEF score
      <4> QED BY <2>9, <4>1
    <3>1. BetterRecord(score(j), score(i))
      BY <2>3, <2>8, <2>9
    <3>2. BetterRecord(score(i), score(j))
      BY <2>7, <2>8, <2>9
    <3>3. FALSE
      BY <2>4, <2>5, <3>1, <3>2
    <3> QED BY <3>3
  <2>11. i \in 1..n /\ which[i] = p /\ BestOf(q, p, place[i])
    BY <2>1, <2>2, <2>4
  <2>12. BestByPage(items, effective)[p] = score(i)
    BY <1>1, <1>6, <2>3, <2>9, <2>10
  <2> QED BY <1>6, <2>11, <2>12 DEF score
<1>7. CASE p \notin effective \/ Embeds(p) = {}
  <2>1. p \in effective => of = {}
    BY <1>4, <1>7 DEF rows
  <2>2. BestByPage(items, effective)[p] = Missing
    BY <1>1, <1>7, <2>1
  <2> QED BY <1>7, <2>2
<1> QED BY <1>6, <1>7

-----------------------------------------------------------------------------
(* The answer *)

\* What AnswersAreExact says of one answer
ScoresOf(q, p) ==
    [c \in {x \in ToSet(chunks[p]) : Embedded(Text(wiki[p], x)) # <<>>} |-> Cosine(q, Text(wiki[p], c))]
Exact(q, eligible, answer) ==
    LET scores(p) == ScoresOf(q, p)
        score == [p \in {x \in eligible : DOMAIN scores(x) # {}} |->
                    LET of == scores(p) IN Max({of[c] : c \in DOMAIN of})]
        atLeast(p, r) == score[p] > score[r] \/ (score[p] = score[r] /\ p < r)
        pages == {answer[i].page : i \in DOMAIN answer}
    IN  /\ pages \subseteq DOMAIN score /\ Cardinality(pages) = Len(answer)
        /\ Len(answer) = Min({MaxFound, Cardinality(DOMAIN score)})
        /\ \A p \in pages, r \in DOMAIN score \ pages : atLeast(p, r)
        /\ \A i, j \in DOMAIN answer : i < j => atLeast(answer[i].page, answer[j].page)
        /\ \A i \in DOMAIN answer :
              LET of == scores(answer[i].page)
                  best == {c \in DOMAIN of : of[c] = score[answer[i].page]}
              IN  /\ answer[i].score = score[answer[i].page]
                  /\ answer[i].start = Min({c.start : c \in best})

Greatest(q, p) == Max({ScoresOf(q, p)[c] : c \in DOMAIN ScoresOf(q, p)})
Earliest(q, p, s) == Min({c.start : c \in {d \in DOMAIN ScoresOf(q, p) : ScoresOf(q, p)[d] = s}})

\* The greatest score of a page is that of its best chunk, and the first with that score.
LEMMA ScoresAre ==
    ASSUME ChunksAre, NEW q, NEW p \in DOMAIN wiki
    PROVE  /\ DOMAIN ScoresOf(q, p) # {} <=> Embeds(p) # {}
           /\ \A k \in Embeds(p) : BestOf(q, p, k) =>
                 /\ Greatest(q, p) = Score(q, p, k)
                 /\ Earliest(q, p, Score(q, p, k)) = chunks[p][k].start
<1> DEFINE of == ScoresOf(q, p)
           D == {x \in ToSet(chunks[p]) : Embedded(Text(wiki[p], x)) # <<>>}
<1>1. DOMAIN of = D /\ \A c \in D : of[c] = Cosine(q, Text(wiki[p], c))
  BY DEF ScoresOf
<1>2. \A k \in DOMAIN chunks[p] : chunks[p][k] \in ToSet(chunks[p])
  BY DEF ToSet
<1>3. ASSUME NEW k \in Embeds(p) PROVE chunks[p][k] \in D /\ of[chunks[p][k]] = Score(q, p, k)
  <2>1. k \in DOMAIN chunks[p] /\ VectorOf(p, k) # <<>>
    BY DEF Embeds
  <2>2. chunks[p][k] \in D
    BY <1>2, <2>1 DEF VectorOf
  <2> HIDE DEF D, of
  <2> QED BY <1>1, <2>2 DEF Score
<1>4. ASSUME NEW c \in D PROVE \E k \in Embeds(p) : c = chunks[p][k]
  <2>1. PICK k \in DOMAIN chunks[p] : c = chunks[p][k]
    BY DEF ToSet
  <2>2. k \in Embeds(p)
    BY <2>1 DEF Embeds, VectorOf
  <2> QED BY <2>1, <2>2
<1> HIDE DEF D, of
<1>5. \A k \in Embeds(p) : k \in DOMAIN chunks[p] /\ Score(q, p, k) \in Nat /\ chunks[p][k].start \in Nat
  BY VectorsAre DEF Embeds
<1>6. ASSUME NEW k \in Embeds(p), BestOf(q, p, k)
      PROVE  /\ Greatest(q, p) = Score(q, p, k)
             /\ Earliest(q, p, Score(q, p, k)) = chunks[p][k].start
  <2> DEFINE S == {of[c] : c \in DOMAIN of}
             T == {c.start : c \in {d \in DOMAIN of : of[d] = Score(q, p, k)}}
  <2>1. ASSUME NEW x \in S PROVE x \in Int /\ x <= Score(q, p, k)
    <3>1. PICK c \in D : x = of[c]
      BY <1>1
    <3>2. PICK j \in Embeds(p) : c = chunks[p][j]
      BY <1>4
    <3>3. x = Score(q, p, j)
      BY <1>3, <3>1, <3>2
    <3>4. Score(q, p, j) < Score(q, p, k) \/ Score(q, p, j) = Score(q, p, k)
      BY <1>6 DEF BestOf
    <3> QED BY <1>5, <3>3, <3>4
  <2>2. Score(q, p, k) \in S
    BY <1>1, <1>3
  <2>3. ASSUME NEW x \in T PROVE x \in Int /\ chunks[p][k].start <= x
    <3>1. PICK c \in D : x = c.start /\ of[c] = Score(q, p, k)
      BY <1>1
    <3>2. PICK j \in Embeds(p) : c = chunks[p][j]
      BY <1>4
    <3>3. Score(q, p, j) = Score(q, p, k)
      BY <1>3, <3>1, <3>2
    <3>4. k <= j
      BY <1>5, <1>6, <3>3 DEF BestOf
    <3>5. chunks[p][k].start <= chunks[p][j].start
      BY <1>5, <3>4 DEF ChunksAre
    <3> QED BY <1>5, <3>1, <3>2, <3>5
  <2>4. chunks[p][k].start \in T
    BY <1>1, <1>3
  <2> HIDE DEF S, T
  <2>5. Max(S) = Score(q, p, k)
    BY <2>1, <2>2, MaxOf
  <2>6. Min(T) = chunks[p][k].start
    BY <2>3, <2>4, MaxOf
  <2> QED BY <2>5, <2>6 DEF S, T, of, Greatest, Earliest
<1>7. DOMAIN of # {} <=> Embeds(p) # {}
  BY <1>1, <1>3, <1>4
<1> QED BY <1>6, <1>7 DEF of

\* What is kept of a page, if it has a best chunk, is a row of it and its score.
Kept(q, effective, best, n, which, place) ==
    \A p \in DOMAIN wiki :
        IF p \in effective /\ Embeds(p) # {}
        THEN \E i \in 1..n : /\ which[i] = p /\ BestOf(q, p, place[i])
                             /\ best[p] = <<i, Score(q, p, place[i])>>
        ELSE best[p] = Missing

\* An answer of the best of each page is exact.
LEMMA RankedIsExact ==
    ASSUME ChunksAre, NEW n, NEW which, NEW place, IndexIs(inMemory, n, which, place),
           NEW q, NEW effective \in SUBSET DOMAIN wiki, NEW best,
           Kept(q, effective, best, n, which, place)
    PROVE  Exact(q, effective, RankedPages(best))
<1> DEFINE pages == {p \in DOMAIN wiki : best[p] # Missing}
           ahead(p, r) == best[p][2] > best[r][2] \/ (best[p][2] = best[r][2] /\ p < r)
           before == {pq \in pages \X pages :
                        \/ best[pq[1]][2] > best[pq[2]][2]
                        \/ best[pq[1]][2] = best[pq[2]][2] /\ pq[1] < pq[2]}
           c == Cardinality(pages)
           ranked == Ordered(pages, before)
           of(p) == ScoresOf(q, p)
           D == {x \in effective : DOMAIN of(x) # {}}
           score == [p \in D |-> Greatest(q, p)]
           answer == RankedPages(best)
<1>1. Len(wiki) \in Nat /\ DOMAIN wiki = 1..Len(wiki)
  BY DEF ChunksAre
<1>2. ASSUME NEW p \in DOMAIN wiki
      PROVE  /\ p \in pages <=> p \in effective /\ Embeds(p) # {}
             /\ p \in pages => \E i \in 1..n : /\ which[i] = p /\ BestOf(q, p, place[i])
                                               /\ best[p] = <<i, Score(q, p, place[i])>>
  <2>1. ASSUME p \in effective, Embeds(p) # {}
        PROVE  /\ p \in pages
               /\ \E i \in 1..n : /\ which[i] = p /\ BestOf(q, p, place[i])
                                  /\ best[p] = <<i, Score(q, p, place[i])>>
    <3>1. PICK i \in 1..n : /\ which[i] = p /\ BestOf(q, p, place[i])
                            /\ best[p] = <<i, Score(q, p, place[i])>>
      BY <2>1 DEF Kept
    <3>2. Score(q, p, place[i]) \in Nat /\ i \in Nat
      <4>1. place[i] \in DOMAIN chunks[p]
        BY <3>1 DEF BestOf, Embeds
      <4>2. n \in Nat
        BY DEF IndexIs, Located
      <4>3. Score(q, p, place[i]) \in Nat
        BY <4>1, VectorsAre
      <4> QED BY <4>2, <4>3
    <3>3. best[p] \in Nat \X Nat
      BY <3>1, <3>2
    <3>4. best[p] # Missing
      BY <3>3, ChunksAssumption
    <3> QED BY <3>1, <3>4
  <2>2. ASSUME ~(p \in effective /\ Embeds(p) # {}) PROVE p \notin pages
    BY <2>2 DEF Kept
  <2> QED BY <2>1, <2>2
<1>3. D = pages
  <2>1. \A p \in DOMAIN wiki : DOMAIN of(p) # {} <=> Embeds(p) # {}
    BY ScoresAre
  <2> HIDE DEF of
  <2>2. \A p \in D : p \in pages
    BY <1>2, <2>1
  <2>3. \A p \in pages : p \in D
    <3> SUFFICES ASSUME NEW p \in pages PROVE p \in D
      OBVIOUS
    <3>1. p \in DOMAIN wiki
      OBVIOUS
    <3>2. p \in effective /\ Embeds(p) # {}
      BY <1>2, <3>1
    <3> QED BY <2>1, <3>1, <3>2
  <2> QED BY <2>2, <2>3
<1>4. ASSUME NEW p \in pages
      PROVE  /\ p \in Nat /\ best[p][2] \in Nat /\ score[p] = best[p][2]
             /\ inMemory.records[best[p][1]].start = Earliest(q, p, score[p])
  <2>0. p \in DOMAIN wiki /\ p \in D
    BY <1>3
  <2>1. PICK i \in 1..n : /\ which[i] = p /\ BestOf(q, p, place[i])
                          /\ best[p] = <<i, Score(q, p, place[i])>>
    BY <1>2, <2>0
  <2>2. place[i] \in Embeds(p)
    BY <2>1 DEF BestOf
  <2>3. score[p] = Greatest(q, p)
    BY <2>0
  <2>4. score[p] = Score(q, p, place[i])
    <3> HIDE DEF score
    <3> QED BY <2>0, <2>1, <2>2, <2>3, ScoresAre
  <2>5. Earliest(q, p, score[p]) = chunks[p][place[i]].start
    <3>1. BestOf(q, p, place[i])
      BY <2>1
    <3>2. Earliest(q, p, Score(q, p, place[i])) = chunks[p][place[i]].start
      BY <2>0, <2>2, <3>1, ScoresAre
    <3> QED BY <2>4, <3>2
  <2>6. inMemory.records[i].start = chunks[p][place[i]].start
    BY <2>1 DEF IndexIs, RecordIs
  <2>7. Score(q, p, place[i]) \in Nat
    BY <2>0, <2>2, VectorsAre DEF Embeds
  <2>8. best[p][1] = i /\ best[p][2] = Score(q, p, place[i])
    BY <2>1
  <2>9. p \in Nat
    BY <1>1, <2>0
  <2> HIDE DEF score, pages, of
  <2> QED BY <2>4, <2>5, <2>6, <2>7, <2>8, <2>9
<1>5. IsFiniteSet(pages) /\ c \in Nat
  <2>1. pages \in SUBSET (1..Len(wiki))
    BY <1>1
  <2> HIDE DEF pages
  <2> QED BY <1>1, <2>1, PlacesAreFinite
<1>6. \A p, r \in pages : <<p, r>> \in before <=> ahead(p, r)
  OBVIOUS
<1> HIDE DEF before
<1>7. Orders(pages, before)
  <2> HIDE DEF pages
  <2>1. \A x \in pages : <<x, x>> \notin before
    <3> SUFFICES ASSUME NEW x \in pages PROVE ~ahead(x, x)
      BY <1>6
    <3>1. x \in Nat /\ best[x][2] \in Nat
      BY <1>4
    <3> QED BY <3>1
  <2>2. \A x, y \in pages : x # y => <<x, y>> \in before \/ <<y, x>> \in before
    <3> SUFFICES ASSUME NEW x \in pages, NEW y \in pages, x # y PROVE ahead(x, y) \/ ahead(y, x)
      BY <1>6
    <3>1. /\ x \in Nat /\ best[x][2] \in Nat
          /\ y \in Nat /\ best[y][2] \in Nat
      BY <1>4
    <3> QED BY <3>1
  <2>3. \A x, y, z \in pages : <<x, y>> \in before /\ <<y, z>> \in before => <<x, z>> \in before
    <3> SUFFICES ASSUME NEW x \in pages, NEW y \in pages, NEW z \in pages, ahead(x, y), ahead(y, z)
                 PROVE  ahead(x, z)
      BY <1>6
    <3>1. /\ x \in Nat /\ best[x][2] \in Nat
          /\ y \in Nat /\ best[y][2] \in Nat
          /\ z \in Nat /\ best[z][2] \in Nat
      BY <1>4
    <3> QED BY <3>1
  <2> QED BY <2>1, <2>2, <2>3 DEF Orders
<1>8. /\ ranked \in [1..c -> pages]
      /\ \A i, j \in 1..c : i < j => <<ranked[i], ranked[j]>> \in before
      /\ \A p \in pages : \E i \in 1..c : ranked[i] = p
  <2> HIDE DEF pages
  <2> QED BY <1>5, <1>7, OrderedIs
<1> DEFINE m == Min({MaxFound, Len(ranked)})
<1>9. m \in Nat /\ m <= c /\ m = Min({MaxFound, c})
  <2>1. Len(ranked) = c
    <3> HIDE DEF ranked, pages, c
    <3> QED BY <1>5, <1>8
  <2>2. MaxFound \in Nat
    BY ChunksAssumption
  <2>3. Min({MaxFound, c}) = IF MaxFound <= c THEN MaxFound ELSE c
    <3> HIDE DEF c
    <3> QED BY <1>5, <2>2, OfTwo
  <2> HIDE DEF c, ranked
  <2> QED BY <1>5, <2>1, <2>2, <2>3
<1>10. /\ answer = [i \in 1..m |->
                      [page |-> ranked[i], score |-> best[ranked[i]][2],
                       start |-> inMemory.records[best[ranked[i]][1]].start,
                       end |-> inMemory.records[best[ranked[i]][1]].end]]
  BY DEF RankedPages, before
<1> HIDE DEF m, c, ranked, answer
<1>11. DOMAIN answer = 1..m /\ Len(answer) = m
  BY <1>9, <1>10
<1>12. ASSUME NEW i \in 1..m
       PROVE  /\ i \in 1..c /\ answer[i].page = ranked[i] /\ answer[i].page \in pages
              /\ answer[i].score = best[ranked[i]][2]
              /\ answer[i].start = inMemory.records[best[ranked[i]][1]].start
  <2>1. i \in 1..c
    BY <1>5, <1>9
  <2> HIDE DEF pages
  <2> QED BY <1>8, <1>10, <2>1
<1> HIDE DEF pages, score, of
<1>13. \A p, r \in pages : ahead(p, r) <=> score[p] > score[r] \/ (score[p] = score[r] /\ p < r)
  BY <1>4
<1>14. DOMAIN score = pages
  BY <1>3 DEF score
<1> DEFINE shown == {answer[i].page : i \in DOMAIN answer}
<1>15. shown \subseteq pages /\ \A i \in 1..m : ranked[i] \in shown
  BY <1>11, <1>12
<1>16. Cardinality(shown) = m
  <2> DEFINE f == [i \in 1..m |-> ranked[i]]
  <2>1. f \in [1..m -> shown]
    BY <1>15
  <2>2. ASSUME NEW i \in 1..m, NEW j \in 1..m, f[i] = f[j] PROVE i = j
    <3>1. i \in 1..c /\ j \in 1..c /\ i \in Int /\ j \in Int
      BY <1>12
    <3>2. ASSUME NEW a \in 1..c, NEW b \in 1..c, a < b, ranked[a] = ranked[b] PROVE FALSE
      <4>1. ranked[a] \in pages /\ ahead(ranked[a], ranked[a])
        BY <1>6, <1>8, <3>2
      <4>2. ranked[a] \in Nat /\ best[ranked[a]][2] \in Nat
        BY <1>4, <4>1
      <4> QED BY <4>1, <4>2
    <3>3. ranked[i] = ranked[j]
      BY <2>2
    <3> QED BY <3>1, <3>2, <3>3
  <2>3. \A p \in shown : \E i \in 1..m : f[i] = p
    BY <1>11, <1>12
  <2>4. f \in Bijection(1..m, shown)
    <3> HIDE DEF f
    <3>1. f \in Injection(1..m, shown)
      BY <2>1, <2>2 DEF Injection, IsInjective
    <3>2. f \in Surjection(1..m, shown)
      BY <2>1, <2>3 DEF Surjection
    <3> QED BY <3>1, <3>2 DEF Bijection
  <2>5. IsFiniteSet(1..m) /\ Cardinality(1..m) = m
    <3>1. IsFiniteSet(1..m) /\ Cardinality(1..m) = IF 1 > m THEN 0 ELSE m - 1 + 1
      <4>1. 1 \in Int /\ m \in Int
        BY <1>9
      <4> QED BY <4>1, FS_Interval
    <3> QED BY <1>9, <3>1
  <2> HIDE DEF f, shown
  <2> QED BY <2>4, <2>5, FS_Bijection DEF ExistsBijection
<1>17. ASSUME NEW p \in shown, NEW r \in pages \ shown PROVE ahead(p, r)
  <2>1. PICK i \in 1..m : ranked[i] = p
    BY <1>11, <1>12
  <2>2. PICK j \in 1..c : ranked[j] = r
    BY <1>8
  <2>3. ~(j \in 1..m)
    BY <1>15, <2>2
  <2>4. i \in 1..c /\ i < j
    BY <1>5, <1>9, <1>12, <2>3
  <2>5. p \in pages /\ r \in pages
    BY <1>15
  <2> QED BY <1>6, <1>8, <2>1, <2>2, <2>4, <2>5
<1>18. ASSUME NEW i \in 1..m, NEW j \in 1..m, i < j PROVE ahead(answer[i].page, answer[j].page)
  <2>1. i \in 1..c /\ j \in 1..c /\ answer[i].page = ranked[i] /\ answer[j].page = ranked[j]
        /\ answer[i].page \in pages /\ answer[j].page \in pages
    BY <1>12
  <2>2. <<ranked[i], ranked[j]>> \in before
    BY <1>8, <1>18, <2>1
  <2> QED BY <1>6, <2>1, <2>2
<1>19. ASSUME NEW i \in 1..m
       PROVE  /\ answer[i].score = score[answer[i].page]
              /\ answer[i].start = Earliest(q, answer[i].page, score[answer[i].page])
  <2> DEFINE p == answer[i].page
  <2>1. p \in pages /\ p = ranked[i] /\ answer[i].score = best[p][2]
        /\ answer[i].start = inMemory.records[best[p][1]].start
    BY <1>12
  <2> HIDE DEF p
  <2>2. /\ score[p] = best[p][2]
        /\ inMemory.records[best[p][1]].start = Earliest(q, p, score[p])
    BY <1>4, <2>1
  <2>3. /\ answer[i].score = score[p]
        /\ answer[i].start = Earliest(q, p, score[p])
    BY <2>1, <2>2
  <2> QED BY <2>3 DEF p
<1> HIDE DEF ahead
<1>20. /\ shown \subseteq DOMAIN score /\ Cardinality(shown) = Len(answer)
       /\ Len(answer) = Min({MaxFound, Cardinality(DOMAIN score)})
  BY <1>9, <1>11, <1>14, <1>15, <1>16 DEF c
<1>21. \A p \in shown, r \in DOMAIN score \ shown : score[p] > score[r] \/ (score[p] = score[r] /\ p < r)
  <2> TAKE p \in shown, r \in DOMAIN score \ shown
  <2>1. p \in pages /\ r \in pages \ shown
    BY <1>14, <1>15
  <2> QED BY <1>13, <1>17, <2>1
<1>22. \A i, j \in DOMAIN answer : i < j =>
          LET p == answer[i].page
              r == answer[j].page
          IN  score[p] > score[r] \/ (score[p] = score[r] /\ p < r)
  <2> TAKE i, j \in DOMAIN answer
  <2> HAVE i < j
  <2>1. i \in 1..m /\ j \in 1..m
    BY <1>11
  <2>2. answer[i].page \in pages /\ answer[j].page \in pages
    BY <1>12, <2>1
  <2>3. ahead(answer[i].page, answer[j].page)
    BY <1>18, <2>1
  <2> QED BY <1>13, <2>2, <2>3
<1>23. \A i \in DOMAIN answer :
          /\ answer[i].score = score[answer[i].page]
          /\ answer[i].start = Earliest(q, answer[i].page, score[answer[i].page])
  BY <1>11, <1>19
<1>24. Exact(q, effective, answer)
  BY <1>20, <1>21, <1>22, <1>23 DEF Exact, score, of, Greatest, Earliest
<1> QED BY <1>24 DEF answer

-----------------------------------------------------------------------------

\* Whichever way the rows are selected and scored, the answer is exact.
LEMMA AnswersAre ==
    ASSUME ChunksAre, NEW n, NEW which, NEW place, IndexIs(inMemory, n, which, place),
           NEW query, query \notin Silent, NEW visible \in SUBSET DOMAIN wiki, NEW excluded,
           NEW numpy \in BOOLEAN
    PROVE  Exact(query, visible \ excluded, Answered(query, visible, excluded, numpy))
<1> DEFINE effective == visible \ excluded
           positions == FilteredPositions(effective)
           items == IF numpy THEN NumpyScores(query, positions) ELSE PythonScores(query, positions)
           best == BestByPage(items, effective)
           P == ToSet(positions)
<1>1. effective \in SUBSET DOMAIN wiki
  OBVIOUS
<1> HIDE DEF effective
<1>2. /\ positions \in Seq(1..n)
      /\ \A i \in 1..n : which[i] \in effective /\ inMemory.records[i].norm > 0 => i \in P
  BY PositionsAre
<1> HIDE DEF positions
<1>3. P \in SUBSET (1..n)
  <2>1. n \in Nat
    BY DEF IndexIs, Located
  <2> QED BY <1>2, <2>1 DEF ToSet
<1>4. ItemsAre(items, query, which, place, P)
  <2>1. CASE numpy
    <3>1. items = NumpyScores(query, positions)
      BY <2>1
    <3> HIDE DEF items, P
    <3>2. ToSet(NumpyScores(query, positions)) = {Item(query, which, place, i) : i \in ToSet(positions)}
      BY <1>2, NumpyScoresAre
    <3> QED BY <3>1, <3>2 DEF P, ItemsAre
  <2>2. CASE ~numpy
    <3>1. items = PythonScores(query, positions)
      BY <2>2
    <3> HIDE DEF items, P
    <3>2. ToSet(PythonScores(query, positions)) = {Item(query, which, place, i) : i \in ToSet(positions)}
      BY <1>2, PythonScoresAre
    <3> QED BY <3>1, <3>2 DEF P, ItemsAre
  <2> QED BY <2>1, <2>2
<1> HIDE DEF items, P
<1>5. ASSUME NEW p \in DOMAIN wiki
      PROVE  IF p \in effective /\ Embeds(p) # {}
             THEN \E i \in 1..n : /\ which[i] = p /\ BestOf(query, p, place[i])
                                  /\ best[p] = <<i, Score(query, p, place[i])>>
             ELSE best[p] = Missing
  <2>1. IF p \in effective /\ Embeds(p) # {}
        THEN \E i \in 1..n : /\ which[i] = p /\ BestOf(query, p, place[i])
                             /\ BestByPage(items, effective)[p] = <<i, Score(query, p, place[i])>>
        ELSE BestByPage(items, effective)[p] = Missing
    BY <1>2, <1>3, <1>4, BestByPageIs, Zenon
  <2> QED BY <2>1
<1> HIDE DEF best
<1>6. Kept(query, effective, best, n, which, place)
  BY <1>5 DEF Kept
<1>7. Exact(query, effective, RankedPages(best))
  BY <1>1, <1>6, RankedIsExact
<1>8. Answered(query, visible, excluded, numpy) = RankedPages(best)
  BY DEF Answered, best, items, positions, effective
<1> QED BY <1>7, <1>8 DEF effective

-----------------------------------------------------------------------------
(* The specification *)

\* The sidecars: all chunks, each with its vector in the matrix
FilesAre(f, n, which, place) ==
    /\ Located(n, which, place) /\ DOMAIN f.metadata = 1..n /\ f.metadata \in Seq(Record)
    /\ \A i \in 1..n : /\ RecordIs(f.metadata[i], which[i], place[i])
                       /\ f.metadata[i].vector = <<>>
                       /\ f.vectors[i] = VectorOf(which[i], place[i])

ChunksInv ==
    /\ wiki \in Wikis
    /\ chunks # Missing => chunks = [p \in DOMAIN wiki |-> ChunksOf(wiki[p])]
    /\ files # Missing \/ inMemory # Missing \/ found # Missing => chunks # Missing
    /\ files # Missing => \E n, which, place : FilesAre(files, n, which, place)
    /\ inMemory # Missing => \E n, which, place : IndexIs(inMemory, n, which, place)
    /\ found # Missing /\ found.query \notin Silent =>
          Exact(found.query, found.visible \ found.excluded, found.answer)

\* The chunks of a page are in their order.
LEMMA ChunksOfAre ==
    ASSUME NEW page \in Page
    PROVE  /\ ChunksOf(page) \in Seq(Chunk)
           /\ \A i, j \in DOMAIN ChunksOf(page) : i <= j => ChunksOf(page)[i].start <= ChunksOf(page)[j].start
<1> DEFINE cs == ChunksOf(page)
<1>1. /\ cs \in Seq(Chunk)
      /\ \A i \in DOMAIN cs : cs[i].start < cs[i].end
      /\ \A i, j \in DOMAIN cs : i < j => cs[i].end <= cs[j].start
  BY ChunksOfPageAre
<1> HIDE DEF cs
<1>2. Len(cs) \in Nat /\ DOMAIN cs = 1..Len(cs) /\ \A i \in DOMAIN cs : cs[i] \in Chunk
  BY <1>1
<1>3. \A i \in DOMAIN cs : cs[i].start \in Nat /\ cs[i].end \in Nat
  BY <1>2 DEF Chunk
<1>4. ASSUME NEW i \in DOMAIN cs, NEW j \in DOMAIN cs, i <= j PROVE cs[i].start <= cs[j].start
  <2>1. CASE i = j
    BY <1>3, <2>1
  <2>2. CASE i < j
    BY <1>1, <1>3, <2>2
  <2> QED BY <1>2, <1>4, <2>1, <2>2
<1> QED BY <1>1, <1>4 DEF cs

\* Once cut, each page has its own chunks.
LEMMA ChunksHold ==
    ASSUME ChunksInv, chunks # Missing
    PROVE  ChunksAre
<1>1. wiki \in Seq(Page)
  BY ChunksAssumption DEF ChunksInv
<1>2. \A p \in DOMAIN wiki : wiki[p] \in Page
  BY <1>1
<1>3. chunks = [p \in DOMAIN wiki |-> ChunksOf(wiki[p])]
  BY DEF ChunksInv
<1>4. DOMAIN chunks = DOMAIN wiki /\ \A p \in DOMAIN wiki : chunks[p] = ChunksOf(wiki[p])
  BY <1>3
<1> QED BY <1>1, <1>2, <1>4, ChunksOfAre DEF ChunksAre

\* Loaded sidecars are an index again.
LEMMA LoadedIs ==
    ASSUME NEW f, NEW n, NEW which, NEW place, FilesAre(f, n, which, place)
    PROVE  IndexIs(FromSidecars(f), n, which, place)
<1> DEFINE m == FromSidecars(f)
<1>1. /\ Located(n, which, place) /\ DOMAIN f.metadata = 1..n /\ f.metadata \in Seq(Record)
      /\ \A i \in 1..n : /\ RecordIs(f.metadata[i], which[i], place[i])
                         /\ f.metadata[i].vector = <<>>
                         /\ f.vectors[i] = VectorOf(which[i], place[i])
  BY DEF FilesAre
<1>2. /\ m.records = [i \in 1..n |-> [f.metadata[i] EXCEPT !.norm = Norm(f.vectors[i])]]
      /\ m.matrix = f.vectors
  BY <1>1 DEF FromSidecars
<1> HIDE DEF m
<1>3. DOMAIN m.records = 1..n
  BY <1>2
<1>4. ASSUME NEW i \in 1..n
      PROVE  /\ RecordIs(m.records[i], which[i], place[i])
             /\ m.records[i].norm = Len(VectorOf(which[i], place[i]))
             /\ m.matrix[i] = VectorOf(which[i], place[i])
             /\ m.records[i].vector \in {<<>>, VectorOf(which[i], place[i])}
  <2> DEFINE r == f.metadata[i]
  <2>1. r \in Record
    <3> DEFINE d == f.metadata
    <3>1. d \in Seq(Record)
      BY <1>1
    <3>2. i \in DOMAIN d
      BY <1>1
    <3> HIDE DEF d
    <3>3. \A k \in DOMAIN d : d[k] \in Record
      BY <3>1
    <3> QED BY <3>2, <3>3 DEF d
  <2>2. m.records[i] = [r EXCEPT !.norm = Norm(f.vectors[i])]
    BY <1>2
  <2> HIDE DEF r
  <2>3. /\ m.records[i].page = r.page /\ m.records[i].ordinal = r.ordinal
        /\ m.records[i].start = r.start /\ m.records[i].end = r.end
        /\ m.records[i].vector = r.vector /\ m.records[i].norm = Norm(f.vectors[i])
    BY <2>1, <2>2 DEF Record
  <2>4. RecordIs(r, which[i], place[i]) /\ r.vector = <<>> /\ f.vectors[i] = VectorOf(which[i], place[i])
    BY <1>1 DEF r
  <2>5. RecordIs(m.records[i], which[i], place[i])
    BY <2>3, <2>4 DEF RecordIs
  <2> QED BY <1>2, <2>3, <2>4, <2>5 DEF Norm
<1> QED BY <1>1, <1>3, <1>4 DEF IndexIs, m

\* What is published at the end of a build
LEMMA BuiltIs ==
    ASSUME ChunksAre
    PROVE  \E n, which, place :
              /\ IndexIs([records |-> Records, matrix |-> Rows(Records)], n, which, place)
              /\ FilesAre([vectors |-> Rows(Records),
                           metadata |-> [i \in DOMAIN Records |-> [Records[i] EXCEPT !.vector = <<>>]]],
                          n, which, place)
<1> DEFINE R == Records
           m == [records |-> R, matrix |-> Rows(R)]
           d == [i \in DOMAIN R |-> [R[i] EXCEPT !.vector = <<>>]]
           f == [vectors |-> Rows(R), metadata |-> d]
<1>1. PICK n, which, place :
        /\ Located(n, which, place)
        /\ R \in Seq(Record) /\ Len(R) = n
        /\ \A i \in 1..n : R[i] = ChunkRecord(which[i], place[i])
  BY RecordsAre
<1> HIDE DEF R
<1>2. n \in Nat /\ DOMAIN R = 1..n
  BY <1>1
<1>3. m.records = R /\ m.matrix = [i \in 1..n |-> R[i].vector]
  BY <1>2 DEF Rows
<1>4. f.metadata = d /\ f.vectors = [i \in 1..n |-> R[i].vector]
  BY <1>2 DEF Rows
<1>5. ASSUME NEW i \in 1..n
      PROVE  /\ R[i] \in Record
             /\ RecordIs(R[i], which[i], place[i])
             /\ R[i].norm = Len(VectorOf(which[i], place[i]))
             /\ R[i].vector = VectorOf(which[i], place[i])
  <2>1. R[i] = ChunkRecord(which[i], place[i])
    BY <1>1
  <2>2. R[i] \in Record
    BY <1>1, <1>2
  <2> QED BY <2>1, <2>2 DEF ChunkRecord, RecordIs, Norm
<1>6. DOMAIN d = 1..n /\ \A i \in 1..n : d[i] = [R[i] EXCEPT !.vector = <<>>]
  BY <1>2
<1> HIDE DEF d
<1>7. ASSUME NEW i \in 1..n
      PROVE  /\ d[i] \in Record
             /\ RecordIs(d[i], which[i], place[i])
             /\ d[i].vector = <<>>
  <2> DEFINE r == R[i]
  <2>1. r \in Record /\ RecordIs(r, which[i], place[i])
    BY <1>5
  <2>2. d[i] = [r EXCEPT !.vector = <<>>]
    BY <1>6
  <2> HIDE DEF r
  <2>3. <<>> \in Seq(Texts)
    OBVIOUS
  <2> QED BY <2>1, <2>2, <2>3 DEF Record, RecordIs
<1>8. d \in Seq(Record)
  <2>1. d \in [1..n -> Record]
    <3>1. d = [i \in 1..n |-> [R[i] EXCEPT !.vector = <<>>]]
      BY <1>2 DEF d
    <3> QED BY <1>6, <1>7, <3>1
  <2> QED BY <1>2, <2>1
<1> HIDE DEF m, f
<1>9. IndexIs(m, n, which, place)
  <2>1. \A i \in 1..n :
          /\ RecordIs(m.records[i], which[i], place[i])
          /\ m.records[i].norm = Len(VectorOf(which[i], place[i]))
          /\ m.matrix[i] = VectorOf(which[i], place[i])
          /\ m.records[i].vector \in {<<>>, VectorOf(which[i], place[i])}
    BY <1>3, <1>5
  <2> QED BY <1>1, <1>2, <1>3, <2>1 DEF IndexIs
<1>10. FilesAre(f, n, which, place)
  <2>1. \A i \in 1..n : /\ RecordIs(f.metadata[i], which[i], place[i])
                        /\ f.metadata[i].vector = <<>>
                        /\ f.vectors[i] = VectorOf(which[i], place[i])
    BY <1>4, <1>5, <1>7
  <2> QED BY <1>1, <1>4, <1>6, <1>8, <2>1 DEF FilesAre
<1> QED BY <1>9, <1>10 DEF m, f, d, R

\* The invariant holds at first, when nothing is cut, built or searched.
LEMMA ChunksInitInv == ChunksInit => ChunksInv
BY DEF ChunksInit, ChunksInv

\* Cutting, building, loading, restarting and searching keep the invariant.
LEMMA ChunksNextInv == ChunksInv /\ [ChunksNext]_chunkVars => ChunksInv'
<1> SUFFICES ASSUME ChunksInv, [ChunksNext]_chunkVars PROVE ChunksInv'
  OBVIOUS
<1>0. /\ wiki \in Wikis
      /\ chunks # Missing => chunks = [p \in DOMAIN wiki |-> ChunksOf(wiki[p])]
      /\ files # Missing \/ inMemory # Missing \/ found # Missing => chunks # Missing
      /\ files # Missing => \E n, which, place : FilesAre(files, n, which, place)
      /\ inMemory # Missing => \E n, which, place : IndexIs(inMemory, n, which, place)
      /\ found # Missing /\ found.query \notin Silent =>
          Exact(found.query, found.visible \ found.excluded, found.answer)
  BY DEF ChunksInv
\* What is said of the index and of answers is about the pages and their chunks.
<1>1. ASSUME wiki' = wiki, chunks' = chunks
      PROVE  /\ \A f, n, which, place : FilesAre(f, n, which, place)' <=> FilesAre(f, n, which, place)
             /\ \A m, n, which, place : IndexIs(m, n, which, place)' <=> IndexIs(m, n, which, place)
             /\ \A q, eligible, answer : Exact(q, eligible, answer)' <=> Exact(q, eligible, answer)
  BY <1>1 DEF FilesAre, IndexIs, Located, RecordIs, VectorOf, Exact, ScoresOf
<1>2. CASE UNCHANGED chunkVars
  BY <1>0, <1>1, <1>2 DEF ChunksInv, chunkVars
<1>3. CASE CutPages
  <2>1. /\ wiki' = wiki /\ chunks = Missing /\ chunks' = [p \in DOMAIN wiki |-> ChunksOf(wiki[p])]
        /\ files' = files /\ inMemory' = inMemory /\ found' = found
    BY <1>3 DEF CutPages
  <2>2. files' = Missing /\ inMemory' = Missing /\ found' = Missing
    BY <1>0, <2>1
  <2> QED BY <1>0, <2>1, <2>2 DEF ChunksInv
<1>4. CASE BuildIndex
  <2>1. /\ wiki' = wiki /\ chunks' = chunks /\ chunks # Missing /\ found' = found
        /\ inMemory' = [records |-> Records, matrix |-> Rows(Records)]
        /\ files' = [vectors |-> Rows(Records),
                     metadata |-> [i \in DOMAIN Records |-> [Records[i] EXCEPT !.vector = <<>>]]]
    BY <1>4 DEF BuildIndex
  <2>2. ChunksAre
    BY <2>1, ChunksHold
  <2>3. PICK n, which, place : IndexIs(inMemory', n, which, place) /\ FilesAre(files', n, which, place)
    BY <2>1, <2>2, BuiltIs
  <2> QED BY <1>0, <1>1, <2>1, <2>3 DEF ChunksInv
<1>5. CASE LoadIndex
  <2>1. /\ wiki' = wiki /\ chunks' = chunks /\ found' = found /\ files' = files
        /\ files # Missing /\ inMemory' = FromSidecars(files)
    BY <1>5 DEF LoadIndex
  <2>2. PICK n, which, place : FilesAre(files, n, which, place)
    BY <1>0, <2>1
  <2>3. IndexIs(inMemory', n, which, place)
    BY <2>1, <2>2, LoadedIs
  <2> QED BY <1>0, <1>1, <2>1, <2>2, <2>3 DEF ChunksInv
<1>6. CASE Restart
  <2>1. /\ wiki' = wiki /\ chunks' = chunks /\ files' = files
        /\ inMemory' = Missing /\ found' = Missing
    BY <1>6 DEF Restart
  <2> QED BY <1>0, <1>1, <2>1 DEF ChunksInv
<1>7. CASE SearchIndex
  <2>1. /\ wiki' = wiki /\ chunks' = chunks /\ files' = files /\ inMemory' = inMemory
        /\ inMemory # Missing
    BY <1>7 DEF SearchIndex
  <2>2. PICK query \in Questions, visible \in SUBSET DOMAIN wiki, excluded \in SUBSET DOMAIN wiki,
             numpy \in BOOLEAN :
          found' = [query |-> query, visible |-> visible, excluded |-> excluded,
                    answer |-> Answered(query, visible, excluded, numpy)]
    BY <1>7 DEF SearchIndex
  <2>3. ChunksAre
    BY <1>0, <2>1, ChunksHold
  <2>4. PICK n, which, place : IndexIs(inMemory, n, which, place)
    BY <1>0, <2>1
  <2>5. query \notin Silent =>
          Exact(query, visible \ excluded, Answered(query, visible, excluded, numpy))
    BY <2>3, <2>4, AnswersAre
  <2>6. /\ found'.query = query /\ found'.visible = visible /\ found'.excluded = excluded
        /\ found'.answer = Answered(query, visible, excluded, numpy)
    BY <2>2
  <2>7. found'.query \notin Silent => Exact(found'.query, found'.visible \ found'.excluded, found'.answer)
    BY <2>5, <2>6
  <2> QED BY <1>0, <1>1, <2>1, <2>7 DEF ChunksInv
<1> QED BY <1>2, <1>3, <1>4, <1>5, <1>6, <1>7 DEF ChunksNext

\* A search answers with the best of the eligible pages, each with its first best chunk, by exact
\* scores, whichever way the rows are selected and scored, from a built or a loaded index.
\* (vector.py: search_vector_index_with_query_vector and filtered_record_positions_for_small_page_subset.)
THEOREM SearchesAreExact == ChunksSpec => []AnswersAreExact
<1>1. ChunksInv => AnswersAreExact
  BY DEF ChunksInv, AnswersAreExact, Exact, ScoresOf
<1> QED BY <1>1, ChunksInitInv, ChunksNextInv, PTL DEF ChunksSpec

\* The chunks of the pages hold their words.
LEMMA WordsAre ==
    ASSUME ChunksInv
    PROVE  ChunksHoldWords
<1> SUFFICES ASSUME chunks # Missing, NEW p \in DOMAIN wiki
             PROVE  LET page == wiki[p]
                    IN  /\ \A i, j \in DOMAIN chunks[p] : i < j => chunks[p][i].end <= chunks[p][j].start
                        /\ \A i \in TextLines(page) : \A w \in WordsAt(page, i) :
                              \E chunk \in ToSet(chunks[p]) :
                                 /\ In(w, chunk)
                                 /\ (w.end - w.start + chunk.prefix + 1 <= MaxChunk
                                     /\ MinSegment + chunk.prefix + 1 <= MaxChunk) => w \in ToSet(chunk.words)
                                 /\ ~SkipsLevels(page) => chunk.breadcrumb = LabelsOf(page, Active(page, i))
                        /\ \A chunk \in ToSet(chunks[p]) :
                              /\ chunk.prefix < MaxChunk => chunk.prefix + 1 + chunk.kept - chunk.start <= MaxChunk
                              /\ Len(chunk.words) <= TargetTerms
                              /\ \A i \in DOMAIN page.lines \ TextLines(page) :
                                    Offset(page, i) <= chunk.start \/ chunk.end <= Offset(page, i)
  BY DEF ChunksHoldWords, LabelsOf
<1> DEFINE page == wiki[p]
           cs == chunks[p]
<1>1. page \in Page /\ cs = ChunksOf(page)
  <2>1. wiki \in Seq(Page)
    BY ChunksAssumption DEF ChunksInv
  <2>2. chunks = [x \in DOMAIN wiki |-> ChunksOf(wiki[x])]
    BY DEF ChunksInv
  <2> QED BY <2>1, <2>2
<1> HIDE DEF page, cs
<1>2. /\ cs \in Seq(Chunk)
      /\ \A i \in DOMAIN cs :
            /\ cs[i].start < cs[i].end /\ Len(cs[i].words) <= TargetTerms
            /\ cs[i].prefix < MaxChunk => cs[i].prefix + 1 + cs[i].kept - cs[i].start <= MaxChunk
            /\ \A k \in DOMAIN page.lines \ TextLines(page) :
                  Offset(page, k) <= cs[i].start \/ cs[i].end <= Offset(page, k)
      /\ \A i, j \in DOMAIN cs : i < j => cs[i].end <= cs[j].start
      /\ \A k \in TextLines(page) : \A w \in WordsAt(page, k) : \E i \in DOMAIN cs :
            /\ In(w, cs[i]) /\ cs[i].breadcrumb = Crumb(page, k)
            /\ (w.end - w.start + cs[i].prefix + 1 <= MaxChunk
                /\ MinSegment + cs[i].prefix + 1 <= MaxChunk) => w \in ToSet(cs[i].words)
  BY <1>1, ChunksOfPageAre
<1>3. \A i \in DOMAIN cs : cs[i] \in ToSet(cs)
  BY DEF ToSet
<1>4. \A chunk \in ToSet(cs) : \E i \in DOMAIN cs : chunk = cs[i]
  BY DEF ToSet
<1>5. ASSUME NEW k \in TextLines(page), NEW w \in WordsAt(page, k)
      PROVE  \E chunk \in ToSet(cs) :
                /\ In(w, chunk)
                /\ (w.end - w.start + chunk.prefix + 1 <= MaxChunk
                    /\ MinSegment + chunk.prefix + 1 <= MaxChunk) => w \in ToSet(chunk.words)
                /\ ~SkipsLevels(page) => chunk.breadcrumb = LabelsOf(page, Active(page, k))
  <2>1. PICK i \in DOMAIN cs :
          /\ In(w, cs[i]) /\ cs[i].breadcrumb = Crumb(page, k)
          /\ (w.end - w.start + cs[i].prefix + 1 <= MaxChunk
              /\ MinSegment + cs[i].prefix + 1 <= MaxChunk) => w \in ToSet(cs[i].words)
    BY <1>2
  <2>2. k \in DOMAIN page.lines
    BY DEF TextLines
  <2>3. ~SkipsLevels(page) => Crumb(page, k) = LabelsOf(page, Active(page, k))
    BY <1>1, <2>2, CrumbIs
  <2> DEFINE chunk == cs[i]
  <2>4. /\ chunk \in ToSet(cs) /\ In(w, chunk) /\ chunk.breadcrumb = Crumb(page, k)
        /\ (w.end - w.start + chunk.prefix + 1 <= MaxChunk
            /\ MinSegment + chunk.prefix + 1 <= MaxChunk) => w \in ToSet(chunk.words)
    BY <1>3, <2>1
  <2> HIDE DEF chunk
  <2> QED BY <2>3, <2>4
<1>6. ASSUME NEW chunk \in ToSet(cs)
      PROVE  /\ chunk.prefix < MaxChunk => chunk.prefix + 1 + chunk.kept - chunk.start <= MaxChunk
             /\ Len(chunk.words) <= TargetTerms
             /\ \A i \in DOMAIN page.lines \ TextLines(page) :
                   Offset(page, i) <= chunk.start \/ chunk.end <= Offset(page, i)
  BY <1>2, <1>4
<1>7. \A i, j \in DOMAIN cs : i < j => cs[i].end <= cs[j].start
  BY <1>2
<1> QED BY <1>5, <1>6, <1>7 DEF page, cs

\* Every word of a page is in one chunk of it, at its place and under its headings, and is
\* embedded whole if it fits; no chunk is larger than it may be.
\* (vector.py: build_vector_chunks, page_paragraphs, split_paragraph, bounded_chunk_text.)
THEOREM ChunksHoldAllWords == ChunksSpec => []ChunksHoldWords
<1> QED BY ChunksInitInv, ChunksNextInv, WordsAre, PTL DEF ChunksSpec
=============================================================================
