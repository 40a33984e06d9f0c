------------------------ MODULE ProjectionCache_proof ------------------------
(***************************************************************************)
(* Proofs about ProjectionCache, for every number of processes, threads,   *)
(* stores, files and contents, every interval and every bound.             *)
(*                                                                         *)
(* The properties speak of answers that were given; what makes them true   *)
(* is what a pass over the files knows while it runs.  A pass is           *)
(* undisturbed when no edit landed since its thread took the lock: what it *)
(* has read is then what is on disk (PassOK).  Four conditions the         *)
(* properties use each imply that a running pass is undisturbed (Calm).    *)
(***************************************************************************)
EXTENDS ProjectionCache, TLAPS

Inside(t) == pc[t] \notin {"idle", "waiting"}
Undisturbed(t) == entered[t] = edits
\* The marker a request sees
SeenMarker == IF HasManifest THEN marker ELSE NoMarker
\* The last fast-forward counted by p found the files as they are now
Settled(p) == generation[p] > 0 /\ movedAt[p] = edits
\* A present marker vouches for the files on disk
Vouched == HasManifest /\ marker # NoMarker /\ ~unmarked

\* Only a process that has scanned before goes over its files again
CheckingOK == \A t \in Threads : pc[t] = "checking" => scanCache[ProcOf[t]] # Nothing

LockOK == \A t \in Threads : Inside(t) => lock[ProcOf[t]] = t

CountersOK ==
    /\ marker <= edits + OldMarker
    /\ \A p \in Procs :
        /\ movedAt[p] <= edits
        /\ gitSeen[p] <= generation[p]
        /\ markerCache[p] # Nothing => markerCache[p].mark <= edits + OldMarker
        /\ lastCheck[p] # Nothing => lastCheck[p] <= clock
    /\ \A t \in Threads :
        /\ began[t] <= edits
        /\ beganAt[t] <= clock
        /\ beganGen[t] <= generation[ProcOf[t]]
        /\ mark[t] <= edits + OldMarker
        /\ gen[t] <= generation[ProcOf[t]]
        /\ entered[t] <= edits

\* What is known of a running pass that no edit has disturbed
Calm ==
    \A t \in Threads :
        Inside(t) =>
            /\ Quiet(t) => Undisturbed(t)
            /\ ~raced => Undisturbed(t)
            /\ ProcOf[t] \notin hit => Undisturbed(t)
            /\ beganGen[t] <= gen[t]
            /\ gitSeen[ProcOf[t]] <= gen[t]
            /\ Settled(ProcOf[t]) /\ gen[t] = generation[ProcOf[t]] => Undisturbed(t)

\* A pass that no edit disturbed has read what is on disk
PassOf(t) ==
    /\ pc[t] = "checking" =>
        /\ mark[t] = NoMarker
        /\ ~forced[t]
        /\ Undisturbed(t) =>
            \A f \in Files \ todo[t] : scanCache[ProcOf[t]][f] = disk[f]
    /\ pc[t] = "scanning" /\ (Undisturbed(t) \/ (Vouched /\ mark[t] = marker)) =>
        \A f \in Files \ todo[t] : files[t][f] = disk[f]
    /\ pc[t] \in {"comparing", "loading"} /\ Undisturbed(t)
        /\ (SeenMarker = NoMarker \/ Vouched \/ forced[t]) => files[t] = disk
    /\ pc[t] \in {"checking", "scanning", "comparing", "loading"} /\ Undisturbed(t)
        => mark[t] = SeenMarker
    /\ pc[t] = "loading" /\ Undisturbed(t) =>
        \A f \in Files \ todo[t] : load[t][f] = disk[f].data

PassOK == \A t \in Threads : PassOf(t)

\* A snapshot cached under the marker that is there now vouches for the files
MarkerCacheOK ==
    \A p \in Procs : markerCache[p] # Nothing /\ markerCache[p].mark = marker /\ Vouched
        => markerCache[p].files = disk

\* Once a counted fast-forward is recorded as served, the published index shows it, and a
\* later check that finds no edit finds the same signature
MoveServed(p) ==
    /\ published[p] # Nothing
    /\ published[p] = [mark |-> SeenMarker, files |-> disk, index |-> DigestOf(disk)]
    /\ SeenMarker # NoMarker => markerCache[p] = [mark |-> SeenMarker, files |-> disk]

MoveTaken(t) ==
    LET p == ProcOf[t] IN
    Inside(t) /\ Settled(p) /\ gen[t] = generation[p] =>
        /\ forced[t] \/ MoveServed(p)
        /\ forced[t] /\ pc[t] \in {"comparing", "loading"} /\ SeenMarker # NoMarker
            => markerCache[p] = [mark |-> SeenMarker, files |-> disk]
        /\ pc[t] \in {"comparing", "loading"} => files[t] = disk

MovesOK ==
    /\ \A p \in Procs : Settled(p) /\ gitSeen[p] = generation[p] => MoveServed(p)
    /\ \A t \in Threads : MoveTaken(t)

\* Records and published indexes are what their keys and signatures say, until an edit has
\* landed inside a check or build
HonestOK ==
    ~raced /\ ~HasManifest =>
        /\ \A s \in Stores, k \in Index : store[s][k] \in {k, Nothing}
        /\ \A p \in Procs : published[p] # Nothing =>
               published[p].index = DigestOf(published[p].files)

\* A check that ended after the last edit, and did not overlap it, left the signature current
CheckedOK ==
    \A p \in Procs : /\ ~HasManifest \/ marker = NoMarker \/ ~unmarked
                     /\ p \notin hit /\ lastCheck[p] # Nothing /\ lastCheck[p] > editedAt
                     => published[p] # Nothing /\ published[p].files = disk

IInv ==
    /\ TypeOK /\ CheckingOK /\ LockOK /\ CountersOK /\ Calm /\ PassOK /\ MarkerCacheOK
    /\ MovesOK /\ HonestOK /\ CheckedOK
    /\ FreshSignature /\ ForcedReadsDisk /\ FastForwardServed
    /\ IntervalVisibility /\ StrictFreshnessUnlessRaced

USE DEF Phases, NoMarker, OldMarker, NewMarker

\* The files of the initial root are file states.
LEMMA InitFilesType == InitFiles \in [Files -> FileState]
  BY ConstantsAssumption DEF InitFiles, FileState

\* The digest of a signature is the contents of an index.
LEMMA DigestType ==
    ASSUME NEW states \in [Files -> FileState]
    PROVE  DigestOf(states) \in Index
  BY DEF DigestOf, Index, FileState

\* A service that has just started has well-typed state.
LEMMA InitType == Init => TypeOK
<1> SUFFICES ASSUME Init PROVE TypeOK
  OBVIOUS
<1> USE DEF Init
<1>1. store \in [Stores -> [Index -> Index \cup {Nothing}]]
  OBVIOUS
<1>2. load \in [Threads -> Index] /\ files \in [Threads -> [Files -> FileState]]
      /\ disk \in [Files -> FileState]
  BY InitFilesType, DigestType
<1>3. marker \in Nat
  OBVIOUS
<1>4. QED
  BY <1>1, <1>2, <1>3 DEF TypeOK

\* What the end of a call does to the types
LEMMA LeaveType ==
    ASSUME TypeOK, NEW t \in Threads, NEW result \in Published \cup {Nothing},
           Leave(t, result)
    PROVE  /\ pc' \in [Threads -> Phases]
           /\ forced' \in [Threads -> BOOLEAN]
           /\ gen' \in [Threads -> Nat]
           /\ mark' \in [Threads -> Nat]
           /\ todo' \in [Threads -> SUBSET Files]
           /\ files' \in [Threads -> [Files -> FileState]]
           /\ load' \in [Threads -> Index]
           /\ answer' \in [Threads -> Published \cup {Nothing}]
           /\ began' \in [Threads -> Nat]
           /\ beganGen' \in [Threads -> Nat]
           /\ beganAt' \in [Threads -> Nat]
           /\ entered' \in [Threads -> Nat]
<1>1. InitFiles \in [Files -> FileState] /\ DigestOf(InitFiles) \in Index
  BY InitFilesType, DigestType
<1>2. QED
  BY <1>1 DEF Leave, TypeOK, asked

\* Publishing a well-typed snapshot keeps the types.
LEMMA FinishType ==
    ASSUME TypeOK, NEW t \in Threads, NEW snapshot \in Published, Finish(t, snapshot),
           UNCHANGED <<source, clock, generation, scanCache, markerCache, history>>,
           store' \in [Stores -> [Index -> Index \cup {Nothing}]]
    PROVE  TypeOK'
<1>1. /\ published' \in [Procs -> Published \cup {Nothing}]
      /\ lastCheck' \in [Procs -> Nat \cup {Nothing}]
      /\ gitSeen' \in [Procs -> Nat]
      /\ lock' \in [Procs -> Threads \cup {Nothing}]
  BY ConstantsAssumption DEF Finish, TypeOK, GenerationServed
<1>2. Leave(t, snapshot)
  BY DEF Finish
<1>3. QED
  BY <1>1, <1>2, LeaveType DEF TypeOK, source, history

\* Every step keeps the types; a check needs to know that an earlier scan left files to
\* compare with.
LEMMA TypeStep == TypeOK /\ CheckingOK /\ [Next]_vars => TypeOK'
<1> SUFFICES ASSUME TypeOK, CheckingOK, [Next]_vars PROVE TypeOK'
  OBVIOUS
<1> USE ConstantsAssumption
<1>1. ASSUME NEW t \in Threads, NEW r \in BOOLEAN, Start(t, r) PROVE TypeOK'
  BY <1>1 DEF Start, TypeOK, source, server, pass, asked, call, history
<1>2. ASSUME NEW t \in Threads, ReuseCachedIndex(t) PROVE TypeOK'
  BY <1>2 DEF ReuseCachedIndex, TypeOK, source, server, pass, asked, call, history, CanReuseCachedIndex, Forced
<1>3. ASSUME NEW t \in Threads, Acquire(t) PROVE TypeOK'
  BY <1>3 DEF Acquire, TypeOK, source, server, pass, asked, call, history, Forced
<1>4. ASSUME NEW t \in Threads, FallBackToFiles(t) PROVE TypeOK'
  BY <1>4 DEF FallBackToFiles, TypeOK, source, server, pass, asked, call, history
<1>5. ASSUME NEW t \in Threads, ReadMarker(t) PROVE TypeOK'
  <2>1. UNCHANGED <<source, clock, generation, store, server, lock, forced, gen, load, answer,
                    asked, entered, history>>
    BY <1>5 DEF ReadMarker
  <2>2. CASE MarkerMatches(t)
    <3>1. markerCache[ProcOf[t]].mark \in Nat /\ markerCache[ProcOf[t]].files \in [Files -> FileState]
      BY <2>2 DEF MarkerMatches, TypeOK, Marked
    <3>2. /\ mark' = [mark EXCEPT ![t] = markerCache[ProcOf[t]].mark]
          /\ files' = [files EXCEPT ![t] = markerCache[ProcOf[t]].files]
          /\ pc' = [pc EXCEPT ![t] = "comparing"] /\ todo' = todo
      BY <1>5, <2>2 DEF ReadMarker
    <3>3. QED
      BY <2>1, <3>1, <3>2 DEF TypeOK, source, server, pass, asked, call, history
  <2>3. CASE ~MarkerMatches(t)
    <3>1. /\ mark' = [mark EXCEPT ![t] = marker] /\ todo' = [todo EXCEPT ![t] = Files]
          /\ pc' = [pc EXCEPT ![t] = "scanning"] /\ files' = files
      BY <1>5, <2>3 DEF ReadMarker
    <3>2. QED
      BY <2>1, <3>1 DEF TypeOK, source, server, pass, asked, call, history
  <2>4. QED
    BY <2>2, <2>3
<1>6. ASSUME NEW t \in Threads, NEW f \in Files, CheckFile(t, f) PROVE TypeOK'
  <2>1. pc' \in [Threads -> Phases] /\ todo' \in [Threads -> SUBSET Files]
    <3>1. CASE SameState(scanCache[ProcOf[t]][f], disk[f])
      <4>1. todo' = [todo EXCEPT ![t] = @ \ {f}] /\ pc' = pc
        BY <1>6, <3>1, Zenon DEF CheckFile
      <4>2. QED
        BY <4>1 DEF TypeOK
    <3>2. CASE ~SameState(scanCache[ProcOf[t]][f], disk[f])
      <4>1. pc' = [pc EXCEPT ![t] = "scanning"] /\ todo' = [todo EXCEPT ![t] = Files]
        BY <1>6, <3>2, Zenon DEF CheckFile
      <4>2. QED
        BY <4>1 DEF TypeOK
    <3>3. QED
      BY <3>1, <3>2
  <2>2. QED
    BY <1>6, <2>1 DEF CheckFile, TypeOK, source, server, pass, asked, call, history
<1>7. ASSUME NEW t \in Threads, NEW f \in Files, ScanFile(t, f) PROVE TypeOK'
  BY <1>7 DEF ScanFile, TypeOK, source, server, pass, asked, call, history
<1>8. ASSUME NEW t \in Threads, NEW f \in Files, LoadFile(t, f) PROVE TypeOK'
  BY <1>8 DEF LoadFile, TypeOK, source, server, pass, asked, call, history, Index, FileState
<1>9. ASSUME NEW t \in Threads, EndCheck(t) PROVE TypeOK'
  BY <1>9 DEF EndCheck, TypeOK, source, server, pass, asked, call, history, CheckingOK
<1>10. ASSUME NEW t \in Threads, EndScan(t) PROVE TypeOK'
  <2>1. CASE mark[t] = NoMarker
    <3>1. files[t] \in [Files -> FileState]
      BY DEF TypeOK
    <3>2. scanCache' \in [Procs -> [Files -> FileState] \cup {Nothing}] /\ UNCHANGED markerCache
      BY <1>10, <2>1, <3>1 DEF EndScan, TypeOK
    <3>3. QED
      BY <1>10, <3>2 DEF EndScan, TypeOK, source, server, pass, asked, call, history
  <2>2. CASE mark[t] # NoMarker
    <3>1. [mark |-> mark[t], files |-> files[t]] \in Marked
      BY DEF Marked, TypeOK
    <3>2. QED
      BY <1>10, <2>2, <3>1 DEF EndScan, TypeOK, source, server, pass, asked, call, history
  <2>3. QED
    BY <2>1, <2>2
<1>11. ASSUME NEW t \in Threads, KeepPublished(t) PROVE TypeOK'
  <2>1. published[ProcOf[t]] \in Published
    BY <1>11 DEF KeepPublished, Unchanged, SameAsPublished, TypeOK
  <2>2. store' \in [Stores -> [Index -> Index \cup {Nothing}]]
    BY <1>11 DEF KeepPublished, TypeOK
  <2>3. QED
    BY <1>11, <2>1, <2>2, FinishType DEF KeepPublished
<1>12. ASSUME NEW t \in Threads, TakeStored(t) PROVE TypeOK'
  <2>1. KeyOf(t) \in Index
    BY DigestType DEF KeyOf, TypeOK
  <2>2. StoredIndex(t) \in Index
    BY <1>12, <2>1 DEF TakeStored, StoredIndex, TypeOK
  <2>3. [mark |-> mark[t], files |-> files[t], index |-> StoredIndex(t)] \in Published
    BY <2>2 DEF Published, TypeOK
  <2>4. store' \in [Stores -> [Index -> Index \cup {Nothing}]]
    BY <1>12 DEF TakeStored, TypeOK
  <2>5. QED
    BY <1>12, <2>3, <2>4, FinishType DEF TakeStored
<1>13. ASSUME NEW t \in Threads, StartLoad(t) PROVE TypeOK'
  BY <1>13 DEF StartLoad, TypeOK, source, server, pass, asked, call, history
<1>14. ASSUME NEW t \in Threads, Install(t) PROVE TypeOK'
  <2>1. KeyOf(t) \in Index
    BY DigestType DEF KeyOf, TypeOK
  <2>2. load[t] \in Index
    BY DEF TypeOK
  <2>3. [mark |-> mark[t], files |-> files[t], index |-> load[t]] \in Published
    BY <2>2 DEF Published, TypeOK
  <2>4. store' \in [Stores -> [Index -> Index \cup {Nothing}]]
    BY <1>14, <2>1, <2>2 DEF Install, TypeOK
  <2>5. QED
    BY <1>14, <2>3, <2>4, FinishType DEF Install
<1>15. ASSUME NEW t \in Threads, BuildFails(t) PROVE TypeOK'
  <2>1. Leave(t, Nothing)
    BY <1>15 DEF BuildFails
  <2>2. QED
    BY <1>15, <2>1, LeaveType DEF BuildFails, TypeOK, source, server, history
<1>16. ASSUME NEW f \in Files, NEW d \in Data, NEW keepStat \in BOOLEAN, Edit(f, d, keepStat)
       PROVE TypeOK'
  <2>1. disk' \in [Files -> FileState]
    BY <1>16 DEF Edit, TypeOK, FileState
  <2>2. /\ edits' \in Nat /\ editedAt' \in Nat /\ hit' \subseteq Procs /\ raced' \in BOOLEAN
        /\ unmarked' \in BOOLEAN
    BY <1>16 DEF Edit, Remember, TypeOK
  <2>3. QED
    BY <1>16, <2>1, <2>2 DEF Edit, Remember, TypeOK, server, call, pass, asked
<1>17. ASSUME NEW m \in {NoMarker, NewMarker}, WriteMarker(m) PROVE TypeOK'
  <2>1. /\ edits' \in Nat /\ editedAt' \in Nat /\ hit' \subseteq Procs /\ raced' \in BOOLEAN
        /\ unmarked' \in BOOLEAN /\ marker' \in Nat
    BY <1>17 DEF WriteMarker, Remember, TypeOK
  <2>2. QED
    BY <1>17, <2>1 DEF WriteMarker, Remember, TypeOK, server, call, pass, asked
<1>18. ASSUME NEW p \in Procs, CountFastForward(p) PROVE TypeOK'
  BY <1>18 DEF CountFastForward, TypeOK, source, server, pass, asked, call, history
<1>19. ASSUME NEW p \in Procs, Restart(p) PROVE TypeOK'
  <2>1. InitFiles \in [Files -> FileState] /\ DigestOf(InitFiles) \in Index
    BY InitFilesType, DigestType
  <2>2. store' \in [Stores -> [Index -> Index \cup {Nothing}]]
    BY <1>19 DEF Restart, TypeOK
  <2>3. /\ pc' \in [Threads -> Phases] /\ forced' \in [Threads -> BOOLEAN]
        /\ gen' \in [Threads -> Nat] /\ mark' \in [Threads -> Nat]
        /\ todo' \in [Threads -> SUBSET Files]
        /\ answer' \in [Threads -> Published \cup {Nothing}]
        /\ began' \in [Threads -> Nat] /\ beganGen' \in [Threads -> Nat]
        /\ beganAt' \in [Threads -> Nat] /\ entered' \in [Threads -> Nat]
    BY <1>19 DEF Restart, ResetCalls, TypeOK
  <2>4. files' \in [Threads -> [Files -> FileState]] /\ load' \in [Threads -> Index]
    BY <1>19, <2>1 DEF Restart, ResetCalls, TypeOK
  <2>5. QED
    BY <1>19, <2>2, <2>3, <2>4 DEF Restart, TypeOK, source, history
<1>20. ASSUME Tick PROVE TypeOK'
  BY <1>20 DEF Tick, TypeOK, source, server, pass, asked, call, history
<1>21. ASSUME UNCHANGED vars PROVE TypeOK'
  BY <1>21 DEF vars, TypeOK, source, server, pass, asked, call, history
<1>22. QED
  BY <1>1, <1>2, <1>3, <1>4, <1>5, <1>6, <1>7, <1>8, <1>9, <1>10, <1>11, <1>12,
     <1>13, <1>14, <1>15, <1>16, <1>17, <1>18, <1>19, <1>20, <1>21 DEF Next, Step, Environment

-----------------------------------------------------------------------------
(* What kinds of steps leave alone *)

\* A step of a pass over the files
Mid(t) ==
    \/ FallBackToFiles(t) \/ ReadMarker(t) \/ EndCheck(t) \/ EndScan(t) \/ StartLoad(t)
    \/ \E f \in Files : CheckFile(t, f) \/ ScanFile(t, f) \/ LoadFile(t, f)

\* The last step of a pass
Ends(t) == KeepPublished(t) \/ TakeStored(t) \/ Install(t) \/ BuildFails(t)

\* What a step in the middle of a pass leaves alone: the root, what is published, the lock,
\* and every other thread.
LEMMA MidFrame ==
    ASSUME TypeOK, NEW t \in Threads, Mid(t)
    PROVE  /\ UNCHANGED <<disk, marker, edits, clock, generation, store, published, lastCheck,
                          gitSeen, lock, forced, gen, answer, began, beganGen, beganAt, entered,
                          editedAt, hit, raced, unmarked, movedAt>>
           /\ Inside(t) /\ pc'[t] \notin {"idle", "waiting"}
           /\ \A u \in Threads \ {t} : /\ pc'[u] = pc[u] /\ mark'[u] = mark[u]
                                       /\ todo'[u] = todo[u] /\ files'[u] = files[u]
                                       /\ load'[u] = load[u]
<1> USE DEF Inside, source, server, pass, asked, history
<1>1. CASE FallBackToFiles(t)
  BY <1>1 DEF FallBackToFiles, TypeOK
<1>2. CASE ReadMarker(t)
  <2>1. CASE MarkerMatches(t)
    BY <1>2, <2>1 DEF ReadMarker, TypeOK
  <2>2. CASE ~MarkerMatches(t)
    BY <1>2, <2>2 DEF ReadMarker, TypeOK
  <2>3. QED
    BY <2>1, <2>2
<1>3. CASE EndCheck(t)
  BY <1>3 DEF EndCheck, TypeOK
<1>4. CASE EndScan(t)
  BY <1>4 DEF EndScan, TypeOK
<1>5. CASE StartLoad(t)
  BY <1>5 DEF StartLoad, TypeOK
<1>6. ASSUME NEW f \in Files, CheckFile(t, f)
      PROVE  \/ todo' = [todo EXCEPT ![t] = @ \ {f}] /\ pc' = pc
             \/ todo' = [todo EXCEPT ![t] = Files] /\ pc' = [pc EXCEPT ![t] = "scanning"]
  BY <1>6, Zenon DEF CheckFile
<1>7. ASSUME NEW f \in Files, CheckFile(t, f)
      PROVE  /\ UNCHANGED <<disk, marker, edits, clock, generation, store, published, lastCheck,
                            gitSeen, lock, forced, gen, answer, began, beganGen, beganAt, entered,
                            editedAt, hit, raced, unmarked, movedAt, mark, files, load>>
             /\ pc[t] = "checking"
  BY <1>7 DEF CheckFile
<1>8. ASSUME NEW f \in Files, ScanFile(t, f) PROVE pc[t] = "scanning" /\ UNCHANGED pc
  BY <1>8 DEF ScanFile
<1>9. ASSUME NEW f \in Files, LoadFile(t, f) PROVE pc[t] = "loading" /\ UNCHANGED pc
  BY <1>9 DEF LoadFile
<1>10. CASE \E f \in Files : CheckFile(t, f)
  BY <1>6, <1>7, <1>10 DEF TypeOK
<1>11. CASE \E f \in Files : ScanFile(t, f)
  BY <1>8, <1>11 DEF ScanFile, TypeOK
<1>12. CASE \E f \in Files : LoadFile(t, f)
  BY <1>9, <1>12 DEF LoadFile, TypeOK
<1>13. QED
  BY <1>1, <1>2, <1>3, <1>4, <1>5, <1>10, <1>11, <1>12 DEF Mid

\* What the end of a pass leaves alone, and that no other thread of the process is in one.
LEMMA EndsFrame ==
    ASSUME TypeOK, LockOK, NEW t \in Threads, Ends(t)
    PROVE  /\ UNCHANGED <<disk, marker, edits, clock, generation, scanCache, markerCache, forced,
                          gen, began, beganGen, beganAt,
                          editedAt, hit, raced, unmarked, movedAt>>
           /\ Inside(t) /\ pc'[t] = "idle" /\ mark'[t] = NoMarker /\ entered'[t] = 0
           /\ \A u \in Threads \ {t} : /\ pc'[u] = pc[u] /\ mark'[u] = mark[u]
                                       /\ todo'[u] = todo[u] /\ files'[u] = files[u]
                                       /\ load'[u] = load[u] /\ entered'[u] = entered[u]
                                       /\ answer'[u] = answer[u]
                                       /\ ProcOf[u] = ProcOf[t] => ~Inside(u)
           /\ \A p \in Procs \ {ProcOf[t]} : /\ published'[p] = published[p]
                                             /\ lastCheck'[p] = lastCheck[p]
                                             /\ gitSeen'[p] = gitSeen[p]
                                             /\ lock'[p] = lock[p]
           /\ gitSeen'[ProcOf[t]] \in {gen[t], gitSeen[ProcOf[t]]}
<1> USE DEF source, server, asked, history
<1>1. pc[t] \in {"comparing", "loading"}
  BY DEF Ends, KeepPublished, TakeStored, Install, BuildFails
<1>2. UNCHANGED <<disk, marker, edits, clock, generation, scanCache, markerCache,
                  editedAt, hit, raced, unmarked, movedAt>>
  BY DEF Ends, KeepPublished, TakeStored, Install, BuildFails
<1>3. \E result \in Published \cup {Nothing, [mark |-> mark[t], files |-> files[t], index |-> load[t]],
                     [mark |-> mark[t], files |-> files[t], index |-> StoredIndex(t)]} : Leave(t, result)
  <2>1. published[ProcOf[t]] \in Published \cup {Nothing}
    BY ConstantsAssumption DEF TypeOK
  <2>2. QED
    BY <2>1 DEF Ends, KeepPublished, TakeStored, Install, BuildFails, Finish
<1>4. \A p \in Procs \ {ProcOf[t]} : /\ published'[p] = published[p]
                                    /\ lastCheck'[p] = lastCheck[p]
                                    /\ gitSeen'[p] = gitSeen[p]
                                    /\ lock'[p] = lock[p]
  <2>1. CASE BuildFails(t)
    BY <2>1, ConstantsAssumption DEF BuildFails, TypeOK
  <2>2. CASE KeepPublished(t) \/ TakeStored(t) \/ Install(t)
    <3>1. PICK snapshot : Finish(t, snapshot)
      BY <2>2 DEF KeepPublished, TakeStored, Install
    <3>2. QED
      BY <3>1, ConstantsAssumption DEF Finish, TypeOK
  <2>3. QED
    BY <2>1, <2>2 DEF Ends
<1>5. gitSeen'[ProcOf[t]] \in {gen[t], gitSeen[ProcOf[t]]}
  <2>1. CASE BuildFails(t)
    BY <2>1 DEF BuildFails
  <2>2. CASE KeepPublished(t) \/ TakeStored(t) \/ Install(t)
    <3>1. PICK snapshot : Finish(t, snapshot)
      BY <2>2 DEF KeepPublished, TakeStored, Install
    <3>2. QED
      BY <3>1, ConstantsAssumption DEF Finish, TypeOK, GenerationServed
  <2>3. QED
    BY <2>1, <2>2 DEF Ends
<1>6. /\ pc'[t] = "idle" /\ mark'[t] = NoMarker /\ entered'[t] = 0
      /\ UNCHANGED <<forced, gen, began, beganGen, beganAt>>
      /\ \A u \in Threads \ {t} : /\ pc'[u] = pc[u] /\ mark'[u] = mark[u]
                                  /\ todo'[u] = todo[u] /\ files'[u] = files[u]
                                  /\ load'[u] = load[u] /\ entered'[u] = entered[u]
                                  /\ answer'[u] = answer[u]
  BY <1>3 DEF Leave, TypeOK
<1>7. \A u \in Threads \ {t} : ProcOf[u] = ProcOf[t] => ~Inside(u)
  BY <1>1 DEF LockOK, Inside
<1>8. QED
  BY <1>1, <1>2, <1>4, <1>5, <1>6, <1>7 DEF Inside

\* The steps of the system, with the steps of a pass in two groups.
LEMMA NextCases ==
    ASSUME [Next]_vars
    PROVE  \/ \E t \in Threads, r \in BOOLEAN : Start(t, r)
           \/ \E t \in Threads : ReuseCachedIndex(t)
           \/ \E t \in Threads : Acquire(t)
           \/ \E t \in Threads : Mid(t)
           \/ \E t \in Threads : Ends(t)
           \/ \E f \in Files, d \in Data, keepStat \in BOOLEAN : Edit(f, d, keepStat)
           \/ \E m \in {NoMarker, NewMarker} : WriteMarker(m)
           \/ \E p \in Procs : CountFastForward(p)
           \/ \E p \in Procs : Restart(p)
           \/ Tick
           \/ UNCHANGED vars
  BY DEF Next, Step, Environment, Mid, Ends

\* A scan cache is only dropped by a restart, which ends the pass that is checking against it.
LEMMA CheckingStep ==
    ASSUME TypeOK, CheckingOK, LockOK, [Next]_vars
    PROVE  CheckingOK'
<1> USE ConstantsAssumption, NothingAssumption DEF CheckingOK, source, server, pass, asked, call, history
<1>1. ASSUME NEW t \in Threads, NEW r \in BOOLEAN, Start(t, r) PROVE CheckingOK'
  BY <1>1 DEF Start, TypeOK
<1>2. ASSUME NEW t \in Threads, ReuseCachedIndex(t) PROVE CheckingOK'
  BY <1>2 DEF ReuseCachedIndex, TypeOK
<1>3. ASSUME NEW t \in Threads, Acquire(t) PROVE CheckingOK'
  BY <1>3 DEF Acquire, TypeOK
<1>4. ASSUME NEW t \in Threads, Mid(t) PROVE CheckingOK'
  <2>1. CASE FallBackToFiles(t)
    BY <2>1 DEF FallBackToFiles, TypeOK
  <2>2. CASE ReadMarker(t)
    <3>1. pc'[t] # "checking" /\ UNCHANGED scanCache
      BY <2>2 DEF ReadMarker, TypeOK
    <3>2. QED
      BY <1>4, <3>1, MidFrame
  <2>3. CASE EndScan(t)
    <3>1. files[t] # Nothing
      BY DEF TypeOK
    <3>2. pc'[t] = "comparing" /\ \A p \in Procs : scanCache'[p] \in {scanCache[p], files[t]}
      BY <2>3 DEF EndScan, TypeOK
    <3>3. QED
      BY <1>4, <3>1, <3>2, MidFrame
  <2>4. CASE EndCheck(t) \/ StartLoad(t)
    BY <2>4 DEF EndCheck, StartLoad, TypeOK
  <2>5. CASE \E f \in Files : CheckFile(t, f) \/ ScanFile(t, f) \/ LoadFile(t, f)
    <3>1. UNCHANGED scanCache /\ pc'[t] \in {pc[t], "scanning"}
      BY <2>5 DEF CheckFile, ScanFile, LoadFile, TypeOK
    <3>2. QED
      BY <1>4, <3>1, MidFrame
  <2>6. QED
    BY <1>4, <2>1, <2>2, <2>3, <2>4, <2>5 DEF Mid
<1>5. ASSUME NEW t \in Threads, Ends(t) PROVE CheckingOK'
  BY <1>5, EndsFrame
<1>6. ASSUME NEW f \in Files, NEW d \in Data, NEW keepStat \in BOOLEAN, Edit(f, d, keepStat)
      PROVE CheckingOK'
  BY <1>6 DEF Edit
<1>7. ASSUME NEW m \in {NoMarker, NewMarker}, WriteMarker(m) PROVE CheckingOK'
  BY <1>7 DEF WriteMarker
<1>8. ASSUME NEW p \in Procs, CountFastForward(p) PROVE CheckingOK'
  BY <1>8 DEF CountFastForward
<1>9. ASSUME NEW p \in Procs, Restart(p) PROVE CheckingOK'
  BY <1>9 DEF Restart, ResetCalls, TypeOK
<1>10. ASSUME Tick \/ UNCHANGED vars PROVE CheckingOK'
  BY <1>10 DEF Tick, vars
<1>11. QED
  BY NextCases, <1>1, <1>2, <1>3, <1>4, <1>5, <1>6, <1>7, <1>8, <1>9, <1>10

\* A thread in a pass holds the index lock of its process.
LEMMA LockStep ==
    ASSUME TypeOK, LockOK, [Next]_vars
    PROVE  LockOK'
<1> USE ConstantsAssumption, NothingAssumption DEF LockOK, Inside, source, server, pass, asked, call, history
<1>1. ASSUME NEW t \in Threads, NEW r \in BOOLEAN, Start(t, r) PROVE LockOK'
  BY <1>1 DEF Start, TypeOK
<1>2. ASSUME NEW t \in Threads, ReuseCachedIndex(t) PROVE LockOK'
  BY <1>2 DEF ReuseCachedIndex, TypeOK
<1>3. ASSUME NEW t \in Threads, Acquire(t) PROVE LockOK'
  BY <1>3 DEF Acquire, TypeOK
<1>4. ASSUME NEW t \in Threads, Mid(t) PROVE LockOK'
  BY <1>4, MidFrame
<1>5. ASSUME NEW t \in Threads, Ends(t) PROVE LockOK'
  BY <1>5, EndsFrame
<1>6. ASSUME NEW f \in Files, NEW d \in Data, NEW keepStat \in BOOLEAN, Edit(f, d, keepStat)
      PROVE LockOK'
  BY <1>6 DEF Edit
<1>7. ASSUME NEW m \in {NoMarker, NewMarker}, WriteMarker(m) PROVE LockOK'
  BY <1>7 DEF WriteMarker
<1>8. ASSUME NEW p \in Procs, CountFastForward(p) PROVE LockOK'
  BY <1>8 DEF CountFastForward
<1>9. ASSUME NEW p \in Procs, Restart(p) PROVE LockOK'
  BY <1>9 DEF Restart, ResetCalls, TypeOK
<1>10. ASSUME Tick \/ UNCHANGED vars PROVE LockOK'
  BY <1>10 DEF Tick, vars
<1>11. QED
  BY NextCases, <1>1, <1>2, <1>3, <1>4, <1>5, <1>6, <1>7, <1>8, <1>9, <1>10

\* What calls, passes and caches remember of a counter never runs ahead of it.
LEMMA CountersStep ==
    ASSUME TypeOK, CountersOK, LockOK, [Next]_vars
    PROVE  CountersOK'
<1> USE ConstantsAssumption, NothingAssumption DEF CountersOK, source, server, pass, asked, call, history
<1>1. ASSUME NEW t \in Threads, NEW r \in BOOLEAN, Start(t, r) PROVE CountersOK'
  BY <1>1 DEF Start, TypeOK
<1>2. ASSUME NEW t \in Threads, ReuseCachedIndex(t) PROVE CountersOK'
  BY <1>2 DEF ReuseCachedIndex, TypeOK
<1>3. ASSUME NEW t \in Threads, Acquire(t) PROVE CountersOK'
  BY <1>3 DEF Acquire, TypeOK
<1>4. ASSUME NEW t \in Threads, Mid(t) PROVE CountersOK'
  <2>1. mark'[t] <= edits + OldMarker
    <3>1. CASE ReadMarker(t)
      BY <3>1 DEF ReadMarker, MarkerMatches, TypeOK
    <3>2. CASE FallBackToFiles(t)
      BY <3>2 DEF FallBackToFiles, TypeOK
    <3>3. CASE ~ReadMarker(t) /\ ~FallBackToFiles(t)
      <4>1. UNCHANGED mark
        BY <1>4, <3>3 DEF Mid, EndCheck, EndScan, StartLoad, CheckFile, ScanFile, LoadFile
      <4>2. QED
        BY <4>1
    <3>4. QED
      BY <3>1, <3>2, <3>3
  <2>2. \A p \in Procs : markerCache'[p] # Nothing => markerCache'[p].mark <= edits + OldMarker
    <3>1. CASE EndScan(t)
      <4>1. CASE mark[t] = NoMarker
        BY <3>1, <4>1 DEF EndScan
      <4>2. CASE mark[t] # NoMarker
        <5>1. \A p \in Procs :
                markerCache'[p] \in {markerCache[p], [mark |-> mark[t], files |-> files[t]]}
          BY <3>1, <4>2 DEF EndScan, TypeOK
        <5>2. QED
          BY <5>1
      <4>3. QED
        BY <4>1, <4>2
    <3>2. CASE FallBackToFiles(t)
      BY <3>2 DEF FallBackToFiles, TypeOK
    <3>3. CASE ~EndScan(t) /\ ~FallBackToFiles(t)
      <4>1. UNCHANGED markerCache
        BY <1>4, <3>3 DEF Mid, EndCheck, ReadMarker, StartLoad, CheckFile, ScanFile, LoadFile
      <4>2. QED
        BY <4>1
    <3>4. QED
      BY <3>1, <3>2, <3>3
  <2>3. QED
    BY <1>4, <2>1, <2>2, MidFrame
<1>5. ASSUME NEW t \in Threads, Ends(t) PROVE CountersOK'
  <2>1. \A p \in Procs : gitSeen'[p] <= generation[p]
    <3>1. gitSeen'[ProcOf[t]] \in {gen[t], gitSeen[ProcOf[t]]}
      BY <1>5, EndsFrame
    <3>2. gen[t] <= generation[ProcOf[t]] /\ gitSeen[ProcOf[t]] <= generation[ProcOf[t]]
      OBVIOUS
    <3>3. \A p \in Procs \ {ProcOf[t]} : gitSeen'[p] = gitSeen[p]
      BY <1>5, EndsFrame
    <3>4. QED
      BY <3>1, <3>2, <3>3
  <2>2. \A u \in Threads : mark'[u] <= edits + OldMarker /\ entered'[u] <= edits
    <3>1. mark'[t] = 0 /\ entered'[t] = 0 /\ edits \in Nat
      BY <1>5, EndsFrame DEF TypeOK
    <3>2. \A u \in Threads \ {t} : mark'[u] = mark[u] /\ entered'[u] = entered[u]
      BY <1>5, EndsFrame
    <3>3. QED
      BY <3>1, <3>2
  <2>3. \A p \in Procs : lastCheck'[p] # Nothing => lastCheck'[p] <= clock
    <3>1. lastCheck'[ProcOf[t]] \in {clock, Nothing, lastCheck[ProcOf[t]]}
      BY <1>5 DEF Ends, KeepPublished, TakeStored, Install, BuildFails, Finish, TypeOK
    <3>2. \A p \in Procs \ {ProcOf[t]} : lastCheck'[p] = lastCheck[p]
      BY <1>5, EndsFrame
    <3>3. QED
      BY <3>1, <3>2 DEF TypeOK
  <2>4. QED
    BY <1>5, <2>1, <2>2, <2>3, EndsFrame
<1>6. ASSUME NEW f \in Files, NEW d \in Data, NEW keepStat \in BOOLEAN, Edit(f, d, keepStat)
      PROVE CountersOK'
  <2>1. /\ edits' = edits + 1
        /\ UNCHANGED <<marker, movedAt, gitSeen, generation, markerCache, lastCheck, began, beganAt,
                       beganGen, mark, gen, entered, clock>>
    BY <1>6 DEF Edit, Remember
  <2>2. \A p \in Procs : markerCache[p] # Nothing => markerCache[p].mark <= edits + 1 + OldMarker
    BY DEF TypeOK, Marked
  <2>3. QED
    BY <2>1, <2>2 DEF TypeOK
<1>7. ASSUME NEW m \in {NoMarker, NewMarker}, WriteMarker(m) PROVE CountersOK'
  <2>1. /\ edits' = edits + 1 /\ marker' = m
        /\ UNCHANGED <<movedAt, gitSeen, generation, markerCache, lastCheck, began, beganAt,
                       beganGen, mark, gen, entered, clock>>
    BY <1>7 DEF WriteMarker, Remember
  <2>2. \A p \in Procs : markerCache[p] # Nothing => markerCache[p].mark <= edits + 1 + OldMarker
    BY DEF TypeOK, Marked
  <2>3. QED
    BY <2>1, <2>2 DEF TypeOK
<1>8. ASSUME NEW p \in Procs, CountFastForward(p) PROVE CountersOK'
  BY <1>8 DEF CountFastForward, TypeOK
<1>9. ASSUME NEW p \in Procs, Restart(p) PROVE CountersOK'
  BY <1>9 DEF Restart, ResetCalls, TypeOK
<1>10. ASSUME Tick \/ UNCHANGED vars PROVE CountersOK'
  BY <1>10 DEF Tick, vars, TypeOK
<1>11. QED
  BY NextCases, <1>1, <1>2, <1>3, <1>4, <1>5, <1>6, <1>7, <1>8, <1>9, <1>10

\* An edit hits every pass that is under way: its process holds the lock.
LEMMA RememberHits ==
    ASSUME LockOK, Remember
    PROVE  \A u \in Threads : Inside(u) => ProcOf[u] \in hit' /\ raced'
<1> SUFFICES ASSUME NEW u \in Threads, Inside(u) PROVE ProcOf[u] \in hit' /\ raced'
  OBVIOUS
<1>1. ProcOf[u] \in Procs /\ lock[ProcOf[u]] = u /\ u # Nothing
  BY ConstantsAssumption, NothingAssumption DEF LockOK
<1>2. QED
  BY <1>1, Zenon DEF Remember

\* Each condition under which the properties speak of an answer keeps its pass undisturbed:
\* an edit falsifies the condition when it disturbs the pass.
LEMMA CalmStep ==
    ASSUME TypeOK, CountersOK, LockOK, Calm, [Next]_vars
    PROVE  Calm'
<1> USE ConstantsAssumption, NothingAssumption
    DEF Calm, Quiet, Undisturbed, Settled, source, server, pass, asked, call, history
<1>1. ASSUME NEW t \in Threads, NEW r \in BOOLEAN, Start(t, r) PROVE Calm'
  BY <1>1 DEF Start, TypeOK, Inside
<1>2. ASSUME NEW t \in Threads, ReuseCachedIndex(t) PROVE Calm'
  BY <1>2 DEF ReuseCachedIndex, TypeOK, Inside, LockOK
<1>3. ASSUME NEW t \in Threads, Acquire(t) PROVE Calm'
  BY <1>3 DEF Acquire, TypeOK, Inside, CountersOK
<1>4. ASSUME NEW t \in Threads, Mid(t) PROVE Calm'
  <2>1. \A u \in Threads : Inside(u)' => Inside(u)
    BY <1>4, MidFrame DEF Inside
  <2>2. QED
    BY <1>4, <2>1, MidFrame
<1>5. ASSUME NEW t \in Threads, Ends(t) PROVE Calm'
  <2>1. \A u \in Threads : Inside(u)' => Inside(u) /\ ProcOf[u] # ProcOf[t] /\ u # t
    BY <1>5, EndsFrame DEF Inside
  <2>2. \A u \in Threads : Inside(u)' => gitSeen'[ProcOf[u]] = gitSeen[ProcOf[u]]
    BY <1>5, <2>1, EndsFrame
  <2>3. QED
    BY <1>5, <2>1, <2>2, EndsFrame
<1>6. ASSUME NEW f \in Files, NEW d \in Data, NEW keepStat \in BOOLEAN, Edit(f, d, keepStat)
      PROVE Calm'
  <2>1. /\ Remember
        /\ UNCHANGED <<gitSeen, generation, began, beganGen, gen, entered, lock, pc>>
    BY <1>6 DEF Edit
  <2>2. \A u \in Threads : Inside(u) => ProcOf[u] \in hit' /\ raced'
    BY <2>1, RememberHits
  <2>3. QED
    BY <2>1, <2>2 DEF Remember, CountersOK, TypeOK, Inside
<1>7. ASSUME NEW m \in {NoMarker, NewMarker}, WriteMarker(m) PROVE Calm'
  <2>1. /\ Remember
        /\ UNCHANGED <<gitSeen, generation, began, beganGen, gen, entered, lock, pc>>
    BY <1>7 DEF WriteMarker
  <2>2. \A u \in Threads : Inside(u) => ProcOf[u] \in hit' /\ raced'
    BY <2>1, RememberHits
  <2>3. QED
    BY <2>1, <2>2 DEF Remember, CountersOK, TypeOK, Inside
<1>8. ASSUME NEW p \in Procs, CountFastForward(p) PROVE Calm'
  BY <1>8 DEF CountFastForward, TypeOK, CountersOK, Inside
<1>9. ASSUME NEW p \in Procs, Restart(p) PROVE Calm'
  BY <1>9 DEF Restart, ResetCalls, TypeOK, Inside
<1>10. ASSUME Tick \/ UNCHANGED vars PROVE Calm'
  BY <1>10 DEF Tick, vars, Inside
<1>11. QED
  BY NextCases, <1>1, <1>2, <1>3, <1>4, <1>5, <1>6, <1>7, <1>8, <1>9, <1>10

\* What a call that ends has published and answers with
LEMMA EndsAnswer ==
    ASSUME TypeOK, NEW t \in Threads, Ends(t)
    PROVE  \/ /\ answer'[t] = Nothing
              /\ UNCHANGED <<published, lastCheck, gitSeen, store>>
           \/ /\ answer'[t] \in Published
              /\ answer'[t].files = files[t] /\ answer'[t].mark = mark[t]
              /\ published'[ProcOf[t]] = answer'[t]
              /\ lastCheck'[ProcOf[t]] \in {clock, Nothing}
              /\ gitSeen'[ProcOf[t]] = gen[t]
              /\ \/ /\ ~forced[t]
                    /\ pc[t] = "comparing"
                    /\ published[ProcOf[t]] # Nothing
                    /\ answer'[t] = published[ProcOf[t]]
                    /\ UNCHANGED store
                 \/ /\ ~forced[t]
                    /\ pc[t] = "comparing"
                    /\ ~SameAsPublished(t)
                    /\ answer'[t].index = store[StoreOf[ProcOf[t]]][KeyOf(t)]
                    /\ UNCHANGED store
                 \/ /\ pc[t] = "loading"
                    /\ todo[t] = {}
                    /\ answer'[t].index = load[t]
                    /\ store' = [store EXCEPT ![StoreOf[ProcOf[t]]] =
                                    [@ EXCEPT ![KeyOf(t)] = load[t]]]
<1> USE ConstantsAssumption, NothingAssumption
<1>a. ASSUME NEW snapshot \in Published, Finish(t, snapshot)
      PROVE  /\ answer'[t] = snapshot /\ published'[ProcOf[t]] = snapshot
             /\ lastCheck'[ProcOf[t]] \in {clock, Nothing}
             /\ gitSeen'[ProcOf[t]] = gen[t]
  BY <1>a DEF Finish, Leave, TypeOK, GenerationServed
<1>1. CASE BuildFails(t)
  BY <1>1 DEF BuildFails, Leave, TypeOK, server
<1>2. CASE KeepPublished(t)
  <2>1. published[ProcOf[t]] \in Published
    BY <1>2 DEF KeepPublished, Unchanged, SameAsPublished, TypeOK
  <2>2. Finish(t, published[ProcOf[t]])
    BY <1>2 DEF KeepPublished
  <2>3. QED
    BY <1>2, <2>1, <2>2, <1>a DEF KeepPublished, Unchanged, SameAsPublished
<1>3. CASE TakeStored(t)
  <2>1. KeyOf(t) \in Index
    BY DigestType DEF KeyOf, TypeOK
  <2>2. ~forced[t] /\ StoredIndex(t) = store[StoreOf[ProcOf[t]]][KeyOf(t)]
        /\ StoredIndex(t) # Nothing
    BY <1>3 DEF TakeStored, StoredIndex
  <2>3. StoredIndex(t) \in Index
    BY <2>1, <2>2 DEF TypeOK
  <2>4. [mark |-> mark[t], files |-> files[t], index |-> StoredIndex(t)] \in Published
    BY <2>3 DEF Published, TypeOK
  <2>5. Finish(t, [mark |-> mark[t], files |-> files[t], index |-> StoredIndex(t)])
    BY <1>3 DEF TakeStored
  <2>6. QED
    BY <1>3, <2>2, <2>4, <2>5, <1>a DEF TakeStored, Unchanged
<1>4. CASE Install(t)
  <2>1. [mark |-> mark[t], files |-> files[t], index |-> load[t]] \in Published
    BY DEF Published, TypeOK
  <2>2. Finish(t, [mark |-> mark[t], files |-> files[t], index |-> load[t]])
    BY <1>4 DEF Install
  <2>3. QED
    BY <1>4, <2>1, <2>2, <1>a DEF Install
<1>5. QED
  BY <1>1, <1>2, <1>3, <1>4 DEF Ends

\* Two functions over the files that agree on every file are equal
LEMMA SameFiles ==
    ASSUME NEW x \in [Files -> FileState], NEW y \in [Files -> FileState],
           \A f \in Files : x[f] = y[f]
    PROVE  x = y
  OBVIOUS

\* Steps that do not touch the files of the root
LEMMA SeenFrame ==
    ASSUME UNCHANGED <<marker, unmarked, edits, disk>>
    PROVE  /\ SeenMarker' = SeenMarker /\ Vouched' = Vouched
           /\ \A u \in Threads : entered'[u] = entered[u] => (Undisturbed(u)' <=> Undisturbed(u))
  BY DEF SeenMarker, Vouched, Undisturbed

\* A step in the middle of an undisturbed pass adds what is on disk to what the pass knows.
LEMMA PassMid ==
    ASSUME TypeOK, CheckingOK, LockOK, PassOK, MarkerCacheOK, NEW t \in Threads, Mid(t)
    PROVE  PassOf(t)'
<1> USE ConstantsAssumption DEF source, server, pass, asked, history
<1>1. UNCHANGED <<disk, marker, edits, unmarked, entered, forced>>
  BY MidFrame
<1>2. PassOf(t) /\ Inside(t) /\ (SeenMarker' = SeenMarker) /\ (Vouched' = Vouched)
      /\ (Undisturbed(t)' <=> Undisturbed(t))
  BY <1>1, MidFrame, SeenFrame DEF PassOK
<1>3. CASE FallBackToFiles(t)
  <2>1. /\ pc'[t] \in {"checking", "scanning"} /\ todo'[t] = Files /\ mark'[t] = NoMarker
        /\ pc'[t] = "checking" => ~forced[t]
        /\ ~HasManifest \/ marker = NoMarker
    BY <1>3 DEF FallBackToFiles, TypeOK
  <2>2. QED
    BY <1>1, <1>2, <2>1 DEF PassOf, SeenMarker
<1>4. CASE ReadMarker(t)
  <2>1. HasManifest /\ marker # NoMarker
    BY <1>4 DEF ReadMarker
  <2>2. CASE MarkerMatches(t)
    <3>1. /\ pc'[t] = "comparing" /\ mark'[t] = marker /\ ~forced[t]
          /\ files'[t] = markerCache[ProcOf[t]].files
          /\ markerCache[ProcOf[t]] # Nothing /\ markerCache[ProcOf[t]].mark = marker
      BY <1>4, <2>2 DEF ReadMarker, MarkerMatches, TypeOK
    <3>2. Vouched => files'[t] = disk
      BY <3>1 DEF MarkerCacheOK
    <3>3. QED
      BY <1>1, <1>2, <2>1, <3>1, <3>2 DEF PassOf, SeenMarker
  <2>3. CASE ~MarkerMatches(t)
    <3>1. pc'[t] = "scanning" /\ todo'[t] = Files /\ mark'[t] = marker
      BY <1>4, <2>3 DEF ReadMarker, TypeOK
    <3>2. QED
      BY <1>1, <1>2, <2>1, <3>1 DEF PassOf, SeenMarker
  <2>4. QED
    BY <2>2, <2>3
<1>5. CASE EndCheck(t)
  <2>1. /\ pc[t] = "checking" /\ todo[t] = {} /\ pc'[t] = "comparing" /\ mark'[t] = mark[t]
        /\ files'[t] = scanCache[ProcOf[t]]
    BY <1>5 DEF EndCheck, TypeOK
  <2>2. scanCache[ProcOf[t]] \in [Files -> FileState] /\ disk \in [Files -> FileState]
    BY <2>1 DEF CheckingOK, TypeOK
  <2>3. Undisturbed(t) => files'[t] = disk
    BY <1>2, <2>1, <2>2, SameFiles DEF PassOf
  <2>4. QED
    BY <1>1, <1>2, <2>1, <2>3 DEF PassOf
<1>6. CASE EndScan(t)
  <2>1. /\ pc[t] = "scanning" /\ todo[t] = {} /\ pc'[t] = "comparing" /\ mark'[t] = mark[t]
        /\ files'[t] = files[t]
    BY <1>6 DEF EndScan, TypeOK
  <2>2. files[t] \in [Files -> FileState] /\ disk \in [Files -> FileState]
    BY DEF TypeOK
  <2>3. Undisturbed(t) => files'[t] = disk
    BY <1>2, <2>1, <2>2, SameFiles DEF PassOf
  <2>4. QED
    BY <1>1, <1>2, <2>1, <2>3 DEF PassOf
<1>7. CASE StartLoad(t)
  <2>1. /\ pc[t] = "comparing" /\ pc'[t] = "loading" /\ todo'[t] = Files /\ mark'[t] = mark[t]
        /\ files'[t] = files[t]
    BY <1>7 DEF StartLoad, TypeOK
  <2>2. QED
    BY <1>1, <1>2, <2>1 DEF PassOf
<1>8. ASSUME NEW f \in Files, CheckFile(t, f) PROVE PassOf(t)'
  <2>1. /\ pc[t] = "checking" /\ UNCHANGED <<scanCache, mark, files, load>>
    BY <1>8 DEF CheckFile
  <2>2. CASE SameState(scanCache[ProcOf[t]][f], disk[f])
    <3>1. todo' = [todo EXCEPT ![t] = @ \ {f}] /\ pc' = pc
      BY <1>8, <2>2, Zenon DEF CheckFile
    <3>2. scanCache[ProcOf[t]][f] = disk[f]
      BY <2>2 DEF SameState
    <3>3. QED
      BY <1>1, <1>2, <2>1, <3>1, <3>2 DEF PassOf, TypeOK
  <2>3. CASE ~SameState(scanCache[ProcOf[t]][f], disk[f])
    <3>1. todo' = [todo EXCEPT ![t] = Files] /\ pc' = [pc EXCEPT ![t] = "scanning"]
      BY <1>8, <2>3, Zenon DEF CheckFile
    <3>2. pc'[t] = "scanning" /\ todo'[t] = Files
      BY <3>1 DEF TypeOK
    <3>3. QED
      BY <1>1, <1>2, <2>1, <3>2 DEF PassOf
  <2>4. QED
    BY <2>2, <2>3
<1>9. ASSUME NEW f \in Files, ScanFile(t, f) PROVE PassOf(t)'
  <2>1. /\ pc[t] = "scanning" /\ pc'[t] = "scanning" /\ mark'[t] = mark[t]
        /\ todo'[t] = todo[t] \ {f} /\ files'[t] = [files[t] EXCEPT ![f] = disk[f]]
    BY <1>9 DEF ScanFile, TypeOK
  <2>2. files[t] \in [Files -> FileState]
    BY DEF TypeOK
  <2>3. QED
    BY <1>1, <1>2, <2>1, <2>2 DEF PassOf
<1>10. ASSUME NEW f \in Files, LoadFile(t, f) PROVE PassOf(t)'
  <2>1. /\ pc[t] = "loading" /\ pc'[t] = "loading" /\ mark'[t] = mark[t] /\ files'[t] = files[t]
        /\ todo'[t] = todo[t] \ {f} /\ load'[t] = [load[t] EXCEPT ![f] = disk[f].data]
    BY <1>10 DEF LoadFile, TypeOK
  <2>2. load[t] \in Index
    BY DEF TypeOK
  <2>3. QED
    BY <1>1, <1>2, <2>1, <2>2 DEF PassOf, Index
<1>11. QED
  BY <1>3, <1>4, <1>5, <1>6, <1>7, <1>8, <1>9, <1>10 DEF Mid

\* What an undisturbed pass has read is what is on disk.
LEMMA PassStep ==
    ASSUME TypeOK, CheckingOK, LockOK, CountersOK, PassOK, MarkerCacheOK, [Next]_vars
    PROVE  PassOK'
<1> USE ConstantsAssumption, NothingAssumption DEF source, server, pass, asked, call, history
<1>a. ASSUME UNCHANGED <<disk, marker, edits, unmarked>>, NEW u \in Threads, PassOf(u),
             UNCHANGED <<pc[u], mark[u], todo[u], files[u], load[u], forced[u], entered[u],
                         scanCache[ProcOf[u]]>>
      PROVE  PassOf(u)'
  BY <1>a, SeenFrame DEF PassOf
<1>b. ASSUME NEW u \in Threads, pc'[u] \in {"idle", "waiting", "marking"} PROVE PassOf(u)'
  BY <1>b DEF PassOf
<1>1. ASSUME NEW t \in Threads, NEW r \in BOOLEAN, Start(t, r) PROVE PassOK'
  <2>1. \A u \in Threads : u # t =>
          UNCHANGED <<pc[u], mark[u], todo[u], files[u], load[u], forced[u], entered[u],
                      scanCache[ProcOf[u]]>>
    BY <1>1 DEF Start, TypeOK
  <2>2. pc'[t] = "waiting" /\ UNCHANGED <<disk, marker, edits, unmarked>>
    BY <1>1 DEF Start, TypeOK
  <2>3. QED
    BY <2>1, <2>2, <1>a, <1>b DEF PassOK
<1>2. ASSUME NEW t \in Threads, ReuseCachedIndex(t) PROVE PassOK'
  <2>1. \A u \in Threads : u # t =>
          UNCHANGED <<pc[u], mark[u], todo[u], files[u], load[u], forced[u], entered[u],
                      scanCache[ProcOf[u]]>>
    BY <1>2 DEF ReuseCachedIndex, TypeOK
  <2>2. pc'[t] = "idle" /\ UNCHANGED <<disk, marker, edits, unmarked>>
    BY <1>2 DEF ReuseCachedIndex, TypeOK
  <2>3. QED
    BY <2>1, <2>2, <1>a, <1>b DEF PassOK
<1>3. ASSUME NEW t \in Threads, Acquire(t) PROVE PassOK'
  <2>1. \A u \in Threads : u # t =>
          UNCHANGED <<pc[u], mark[u], todo[u], files[u], load[u], forced[u], entered[u],
                      scanCache[ProcOf[u]]>>
    BY <1>3 DEF Acquire, TypeOK
  <2>2. pc'[t] = "marking" /\ UNCHANGED <<disk, marker, edits, unmarked>>
    BY <1>3 DEF Acquire, TypeOK
  <2>3. QED
    BY <2>1, <2>2, <1>a, <1>b DEF PassOK
<1>4. ASSUME NEW t \in Threads, Mid(t) PROVE PassOK'
  <2>1. ASSUME NEW u \in Threads, u # t, Inside(u) PROVE scanCache'[ProcOf[u]] = scanCache[ProcOf[u]]
    <3>1. ProcOf[u] # ProcOf[t]
      BY <1>4, <2>1, MidFrame DEF LockOK
    <3>2. CASE EndScan(t)
      BY <2>1, <3>1, <3>2 DEF EndScan, TypeOK
    <3>3. CASE ~EndScan(t)
      BY <1>4, <3>3 DEF Mid, FallBackToFiles, ReadMarker, EndCheck, StartLoad, CheckFile, ScanFile, LoadFile
    <3>4. QED
      BY <3>2, <3>3
  <2>2. ASSUME NEW u \in Threads, u # t PROVE PassOf(u)'
    <3>1. UNCHANGED <<disk, marker, edits, unmarked, pc[u], mark[u], todo[u], files[u], load[u],
                      forced[u], entered[u]>>
      BY <1>4, <2>2, MidFrame
    <3>2. CASE Inside(u)
      BY <2>1, <2>2, <3>1, <3>2, <1>a DEF PassOK
    <3>3. CASE ~Inside(u)
      BY <3>1, <3>3, <1>b DEF Inside
    <3>4. QED
      BY <3>2, <3>3
  <2>3. QED
    BY <1>4, <2>2, PassMid DEF PassOK
<1>5. ASSUME NEW t \in Threads, Ends(t) PROVE PassOK'
  <2>1. ASSUME NEW u \in Threads, u # t PROVE PassOf(u)'
    <3>1. UNCHANGED <<disk, marker, edits, unmarked, pc[u], mark[u], todo[u], files[u], load[u],
                      forced[u], entered[u], scanCache>>
      BY <1>5, <2>1, EndsFrame
    <3>2. QED
      BY <3>1, <1>a DEF PassOK
  <2>2. pc'[t] = "idle"
    BY <1>5, EndsFrame
  <2>3. QED
    BY <2>1, <2>2, <1>b DEF PassOK
<1>6. ASSUME NEW f \in Files, NEW d \in Data, NEW keepStat \in BOOLEAN, Edit(f, d, keepStat)
      PROVE PassOK'
  <2>1. edits' = edits + 1 /\ ~Vouched' /\ UNCHANGED <<pc, mark, forced, entered>>
    BY <1>6 DEF Edit, Remember, Vouched
  <2>2. \A u \in Threads : ~Undisturbed(u)'
    BY <2>1 DEF Undisturbed, CountersOK, TypeOK
  <2>3. ASSUME NEW u \in Threads PROVE PassOf(u)'
    BY <2>1, <2>2 DEF PassOK, PassOf
  <2>4. QED
    BY <2>3 DEF PassOK
<1>7. ASSUME NEW m \in {NoMarker, NewMarker}, WriteMarker(m) PROVE PassOK'
  <2>1. /\ edits' = edits + 1 /\ marker' = m /\ (Vouched' => m = NewMarker)
        /\ UNCHANGED <<pc, mark, forced, entered>>
    BY <1>7 DEF WriteMarker, Remember, Vouched
  <2>2. \A u \in Threads : ~Undisturbed(u)' /\ mark[u] # NewMarker
    BY <2>1 DEF Undisturbed, CountersOK, TypeOK
  <2>3. ASSUME NEW u \in Threads PROVE PassOf(u)'
    BY <2>1, <2>2 DEF PassOK, PassOf
  <2>4. QED
    BY <2>3 DEF PassOK
<1>8. ASSUME NEW p \in Procs, CountFastForward(p) PROVE PassOK'
  BY <1>8, <1>a DEF CountFastForward, PassOK
<1>9. ASSUME NEW p \in Procs, Restart(p) PROVE PassOK'
  <2>1. ASSUME NEW u \in Threads, ProcOf[u] # p PROVE PassOf(u)'
    <3>1. UNCHANGED <<disk, marker, edits, unmarked, pc[u], mark[u], todo[u], files[u], load[u],
                      forced[u], entered[u], scanCache[ProcOf[u]]>>
      BY <1>9, <2>1 DEF Restart, ResetCalls, TypeOK
    <3>2. QED
      BY <3>1, <1>a DEF PassOK
  <2>2. ASSUME NEW u \in Threads, ProcOf[u] = p PROVE PassOf(u)'
    BY <1>9, <2>2, <1>b DEF Restart, ResetCalls
  <2>3. QED
    BY <2>1, <2>2 DEF PassOK
<1>10. ASSUME Tick \/ UNCHANGED vars PROVE PassOK'
  BY <1>10, <1>a DEF Tick, vars, PassOK
<1>11. QED
  BY NextCases, <1>1, <1>2, <1>3, <1>4, <1>5, <1>6, <1>7, <1>8, <1>9, <1>10

\* A snapshot cached under the present, current marker is that of the files on disk.
LEMMA MarkerCacheStep ==
    ASSUME TypeOK, CountersOK, PassOK, MarkerCacheOK, [Next]_vars
    PROVE  MarkerCacheOK'
<1> USE ConstantsAssumption, NothingAssumption DEF MarkerCacheOK, source, server, pass, asked, call, history
<1>a. ASSUME UNCHANGED <<disk, marker, unmarked, markerCache>> PROVE MarkerCacheOK'
  BY <1>a DEF Vouched
<1>1. ASSUME NEW t \in Threads, NEW r \in BOOLEAN, Start(t, r) PROVE MarkerCacheOK'
  BY <1>1, <1>a DEF Start
<1>2. ASSUME NEW t \in Threads, ReuseCachedIndex(t) PROVE MarkerCacheOK'
  BY <1>2, <1>a DEF ReuseCachedIndex
<1>3. ASSUME NEW t \in Threads, Acquire(t) PROVE MarkerCacheOK'
  BY <1>3, <1>a DEF Acquire
<1>4. ASSUME NEW t \in Threads, Mid(t) PROVE MarkerCacheOK'
  <2>1. CASE FallBackToFiles(t)
    BY <2>1 DEF FallBackToFiles, Vouched, TypeOK
  <2>2. CASE EndScan(t)
    <3>1. pc[t] = "scanning" /\ todo[t] = {}
      BY <2>2 DEF EndScan
    <3>2. files[t] \in [Files -> FileState] /\ disk \in [Files -> FileState]
      BY DEF TypeOK
    <3>3. Vouched /\ mark[t] = marker => files[t] = disk
      BY <3>1, <3>2, SameFiles DEF PassOK, PassOf
    <3>4. CASE mark[t] = NoMarker
      BY <2>2, <3>4, <1>a DEF EndScan
    <3>5. CASE mark[t] # NoMarker
      <4>1. \A p \in Procs :
              markerCache'[p] \in {markerCache[p], [mark |-> mark[t], files |-> files[t]]}
        BY <2>2, <3>5 DEF EndScan, TypeOK
      <4>2. Vouched' = Vouched /\ disk' = disk /\ marker' = marker
        BY <2>2 DEF EndScan, Vouched
      <4>3. QED
        BY <3>3, <4>1, <4>2
    <3>6. QED
      BY <3>4, <3>5
  <2>3. CASE ~FallBackToFiles(t) /\ ~EndScan(t)
    BY <1>4, <2>3, <1>a DEF Mid, ReadMarker, EndCheck, StartLoad, CheckFile, ScanFile, LoadFile
  <2>4. QED
    BY <2>1, <2>2, <2>3
<1>5. ASSUME NEW t \in Threads, Ends(t) PROVE MarkerCacheOK'
  BY <1>5, <1>a DEF Ends, KeepPublished, TakeStored, Install, BuildFails
<1>6. ASSUME NEW f \in Files, NEW d \in Data, NEW keepStat \in BOOLEAN, Edit(f, d, keepStat)
      PROVE MarkerCacheOK'
  BY <1>6 DEF Edit, Vouched
<1>7. ASSUME NEW m \in {NoMarker, NewMarker}, WriteMarker(m) PROVE MarkerCacheOK'
  <2>1. /\ marker' = m /\ (Vouched' => m = NewMarker) /\ UNCHANGED markerCache
    BY <1>7 DEF WriteMarker, Vouched
  <2>2. \A p \in Procs : markerCache[p] # Nothing => markerCache[p].mark # NewMarker
    BY DEF CountersOK, TypeOK, Marked
  <2>3. QED
    BY <2>1, <2>2
<1>8. ASSUME NEW p \in Procs, CountFastForward(p) PROVE MarkerCacheOK'
  BY <1>8, <1>a DEF CountFastForward
<1>9. ASSUME NEW p \in Procs, Restart(p) PROVE MarkerCacheOK'
  BY <1>9 DEF Restart, Vouched, TypeOK
<1>10. ASSUME Tick \/ UNCHANGED vars PROVE MarkerCacheOK'
  BY <1>10, <1>a DEF Tick, vars
<1>11. QED
  BY NextCases, <1>1, <1>2, <1>3, <1>4, <1>5, <1>6, <1>7, <1>8, <1>9, <1>10

-----------------------------------------------------------------------------
(* From passes to answers *)

\* An answer that still counts was given in this step, or was given before and nothing the
\* properties compare it with has changed
LEMMA AnswerCases ==
    ASSUME TypeOK, LockOK, CountersOK, [Next]_vars, NEW u \in Threads, Served(u)',
           Quiet(u)' \/ movedAt'[ProcOf[u]] = edits'
    PROVE  \/ Ends(u) \/ ReuseCachedIndex(u)
           \/ /\ Served(u)
              /\ UNCHANGED <<answer[u], began[u], beganAt[u], beganGen[u], forced[u], disk, marker,
                             edits, unmarked, editedAt, hit, raced>>
              /\ \/ UNCHANGED <<generation[ProcOf[u]], movedAt[ProcOf[u]]>>
                 \/ generation'[ProcOf[u]] > beganGen[u]
<1> USE ConstantsAssumption, NothingAssumption
    DEF Served, source, server, pass, asked, call, history
<1>1. ASSUME NEW t \in Threads, NEW r \in BOOLEAN, Start(t, r)
      PROVE  Served(u) /\ UNCHANGED <<answer[u], began[u], beganAt[u], beganGen[u], forced[u],
                 disk, marker, edits, unmarked, editedAt, hit, raced, generation, movedAt>>
  BY <1>1 DEF Start, TypeOK
<1>2. ASSUME NEW t \in Threads, ReuseCachedIndex(t), u # t
      PROVE  Served(u) /\ UNCHANGED <<answer[u], began[u], beganAt[u], beganGen[u], forced[u],
                 disk, marker, edits, unmarked, editedAt, hit, raced, generation, movedAt>>
  BY <1>2 DEF ReuseCachedIndex, TypeOK
<1>3. ASSUME NEW t \in Threads, Acquire(t)
      PROVE  Served(u) /\ UNCHANGED <<answer[u], began[u], beganAt[u], beganGen[u], forced[u],
                 disk, marker, edits, unmarked, editedAt, hit, raced, generation, movedAt>>
  BY <1>3 DEF Acquire, TypeOK
<1>4. ASSUME NEW t \in Threads, Mid(t)
      PROVE  Served(u) /\ UNCHANGED <<answer[u], began[u], beganAt[u], beganGen[u], forced[u],
                 disk, marker, edits, unmarked, editedAt, hit, raced, generation, movedAt>>
  BY <1>4, MidFrame
<1>5. ASSUME NEW t \in Threads, Ends(t), u # t
      PROVE  Served(u) /\ UNCHANGED <<answer[u], began[u], beganAt[u], beganGen[u], forced[u],
                 disk, marker, edits, unmarked, editedAt, hit, raced, generation, movedAt>>
  BY <1>5, EndsFrame
<1>6. ASSUME NEW f \in Files, NEW d \in Data, NEW keepStat \in BOOLEAN, Edit(f, d, keepStat)
      PROVE FALSE
  <2>1. edits' = edits + 1 /\ UNCHANGED <<began, movedAt>>
    BY <1>6 DEF Edit, Remember
  <2>2. QED
    BY <2>1 DEF Quiet, CountersOK, TypeOK
<1>7. ASSUME NEW m \in {NoMarker, NewMarker}, WriteMarker(m) PROVE FALSE
  <2>1. edits' = edits + 1 /\ UNCHANGED <<began, movedAt>>
    BY <1>7 DEF WriteMarker, Remember
  <2>2. QED
    BY <2>1 DEF Quiet, CountersOK, TypeOK
<1>8. ASSUME NEW p \in Procs, CountFastForward(p)
      PROVE  /\ Served(u) /\ UNCHANGED <<answer[u], began[u], beganAt[u], beganGen[u], forced[u],
                 disk, marker, edits, unmarked, editedAt, hit, raced>>
             /\ \/ UNCHANGED <<generation[ProcOf[u]], movedAt[ProcOf[u]]>>
                \/ generation'[ProcOf[u]] > beganGen[u]
  <2>1. Served(u) /\ UNCHANGED <<answer[u], began[u], beganAt[u], beganGen[u], forced[u],
            disk, marker, edits, unmarked, editedAt, hit, raced>>
    BY <1>8 DEF CountFastForward
  <2>2. CASE ProcOf[u] = p
    BY <1>8, <2>1, <2>2 DEF CountFastForward, CountersOK, TypeOK
  <2>3. CASE ProcOf[u] # p
    BY <1>8, <2>1, <2>3 DEF CountFastForward, TypeOK
  <2>4. QED
    BY <2>2, <2>3
<1>9. ASSUME NEW p \in Procs, Restart(p)
      PROVE  Served(u) /\ UNCHANGED <<answer[u], began[u], beganAt[u], beganGen[u], forced[u],
                 disk, marker, edits, unmarked, editedAt, hit, raced,
                 generation[ProcOf[u]], movedAt>>
  <2>1. ProcOf[u] # p
    BY <1>9 DEF Restart, ResetCalls
  <2>2. QED
    BY <1>9, <2>1 DEF Restart, ResetCalls, TypeOK
<1>10. ASSUME Tick \/ UNCHANGED vars
       PROVE  Served(u) /\ UNCHANGED <<answer[u], began[u], beganAt[u], beganGen[u], forced[u],
                  disk, marker, edits, unmarked, editedAt, hit, raced, generation, movedAt>>
  BY <1>10 DEF Tick, vars
<1>11. QED
  BY NextCases, <1>1, <1>2, <1>3, <1>4, <1>5, <1>6, <1>7, <1>8, <1>9, <1>10

\* A load that no edit disturbed read what is on disk
LEMMA LoadedDisk ==
    ASSUME TypeOK, PassOK, NEW t \in Threads, pc[t] = "loading", todo[t] = {}, Undisturbed(t)
    PROVE  load[t] = DigestOf(disk)
<1>1. \A f \in Files : load[t][f] = disk[f].data
  BY DEF PassOK, PassOf
<1>2. load[t] \in [Files -> Data]
  BY DEF TypeOK, Index
<1>3. QED
  BY <1>1, <1>2 DEF DigestOf

\* A signature that no edit disturbed is the signature of what is on disk
LEMMA SignedDisk ==
    ASSUME TypeOK, PassOK, NEW t \in Threads, Ends(t), Undisturbed(t),
           SeenMarker = NoMarker \/ Vouched
    PROVE  files[t] = disk
<1>1. pc[t] \in {"comparing", "loading"}
  BY DEF Ends, KeepPublished, TakeStored, Install, BuildFails
<1>2. QED
  BY <1>1 DEF PassOK, PassOf

\* An answer given without a racing edit carries the signature of the files on disk.
LEMMA FreshStep ==
    ASSUME TypeOK, LockOK, CountersOK, Calm, PassOK, FreshSignature, [Next]_vars
    PROVE  FreshSignature'
<1> SUFFICES ASSUME NEW t \in Threads, Served(t)', Quiet(t)', Interval = 0,
                    (~HasManifest \/ marker = NoMarker \/ ~unmarked)'
             PROVE  answer'[t].files = disk'
  BY DEF FreshSignature
<1>1. CASE Ends(t)
  <2>1. Inside(t) /\ UNCHANGED <<edits, began, disk, marker, unmarked>>
    BY <1>1, EndsFrame
  <2>2. Undisturbed(t)
    BY <2>1 DEF Calm, Quiet
  <2>3. SeenMarker = NoMarker \/ Vouched
    BY <2>1 DEF SeenMarker, Vouched
  <2>4. answer'[t].files = files[t]
    BY <1>1, EndsAnswer DEF Served
  <2>5. QED
    BY <1>1, <2>1, <2>2, <2>3, <2>4, SignedDisk
<1>2. CASE ReuseCachedIndex(t)
  BY <1>2 DEF ReuseCachedIndex, CanReuseCachedIndex
<1>3. QED
  BY <1>1, <1>2, AnswerCases DEF FreshSignature, Quiet

\* A forced pass loads the files itself, so that its answer has the contents on disk.
LEMMA ForcedStep ==
    ASSUME TypeOK, LockOK, CountersOK, Calm, PassOK, ForcedReadsDisk, [Next]_vars
    PROVE  ForcedReadsDisk'
<1> SUFFICES ASSUME NEW t \in Threads, Served(t)', Quiet(t)', forced'[t]
             PROVE  answer'[t].index = DigestOf(disk)'
  BY DEF ForcedReadsDisk
<1>1. CASE Ends(t)
  <2>1. Inside(t) /\ UNCHANGED <<edits, began, disk, forced>>
    BY <1>1, EndsFrame
  <2>2. Undisturbed(t)
    BY <2>1 DEF Calm, Quiet
  <2>3. pc[t] = "loading" /\ todo[t] = {} /\ answer'[t].index = load[t]
    BY <1>1, <2>1, EndsAnswer DEF Served
  <2>4. QED
    BY <2>1, <2>2, <2>3, LoadedDisk DEF DigestOf
<1>2. CASE ReuseCachedIndex(t)
  BY <1>2 DEF ReuseCachedIndex, CanReuseCachedIndex, TypeOK
<1>3. QED
  BY <1>1, <1>2, AnswerCases DEF ForcedReadsDisk, Quiet, DigestOf

\* Until an edit lands inside a pass, records hold the contents their keys name.
LEMMA HonestStep ==
    ASSUME TypeOK, LockOK, Calm, PassOK, HonestOK, [Next]_vars
    PROVE  HonestOK'
<1> SUFFICES ASSUME ~raced', ~HasManifest
             PROVE  /\ \A s \in Stores, k \in Index : store'[s][k] \in {k, Nothing}
                    /\ \A p \in Procs : published'[p] # Nothing =>
                           published'[p].index = DigestOf(published'[p].files)
  BY DEF HonestOK, DigestOf
<1> USE ConstantsAssumption, NothingAssumption DEF source, server, pass, asked, call, history
<1>a. ASSUME UNCHANGED <<store, published>>, ~raced
      PROVE  /\ \A s \in Stores, k \in Index : store'[s][k] \in {k, Nothing}
             /\ \A p \in Procs : published'[p] # Nothing =>
                    published'[p].index = DigestOf(published'[p].files)
  BY <1>a DEF HonestOK
<1>1. ASSUME NEW t \in Threads, Ends(t)
      PROVE  /\ \A s \in Stores, k \in Index : store'[s][k] \in {k, Nothing}
             /\ \A p \in Procs : published'[p] # Nothing =>
                    published'[p].index = DigestOf(published'[p].files)
  <2>1. Inside(t) /\ ~raced /\ Undisturbed(t)
    BY <1>1, EndsFrame DEF Calm
  <2>2. files[t] = disk
    BY <1>1, <2>1, SignedDisk DEF SeenMarker
  <2>3. KeyOf(t) = DigestOf(disk) /\ KeyOf(t) \in Index
    BY <2>2, DigestType DEF KeyOf, TypeOK
  <2>4. CASE answer'[t] = Nothing
    <3>1. UNCHANGED <<store, published>>
      BY <1>1, <2>4, EndsAnswer
    <3>2. QED
      BY <2>1, <3>1, <1>a
  <2>5. CASE answer'[t] # Nothing
    <3>1. answer'[t].files = disk /\ published'[ProcOf[t]] = answer'[t]
      BY <1>1, <2>2, <2>5, EndsAnswer
    <3>2. CASE pc[t] = "loading" /\ todo[t] = {}
      <4>1. load[t] = KeyOf(t)
        BY <2>1, <2>3, <3>2, LoadedDisk
      <4>2. /\ answer'[t].index = load[t]
            /\ store' = [store EXCEPT ![StoreOf[ProcOf[t]]] = [@ EXCEPT ![KeyOf(t)] = load[t]]]
        BY <1>1, <2>5, <3>2, EndsAnswer
      <4>3. \A s \in Stores, k \in Index : store'[s][k] \in {k, Nothing}
        BY <2>1, <2>3, <4>1, <4>2 DEF HonestOK, TypeOK
      <4>4. \A p \in Procs \ {ProcOf[t]} : published'[p] = published[p]
        BY <1>1, EndsFrame
      <4>5. QED
        BY <2>1, <2>3, <3>1, <4>1, <4>2, <4>3, <4>4 DEF HonestOK
    <3>3. CASE ~(pc[t] = "loading" /\ todo[t] = {})
      <4>1. UNCHANGED store
        BY <1>1, <2>5, <3>3, EndsAnswer
      <4>2. \/ answer'[t] = published[ProcOf[t]] /\ published[ProcOf[t]] # Nothing
            \/ answer'[t].index = store[StoreOf[ProcOf[t]]][KeyOf(t)]
        BY <1>1, <2>5, <3>3, EndsAnswer
      <4>3. answer'[t].index = DigestOf(disk)
        <5>1. CASE answer'[t] = published[ProcOf[t]] /\ published[ProcOf[t]] # Nothing
          BY <2>1, <3>1, <5>1 DEF HonestOK
        <5>2. CASE answer'[t].index = store[StoreOf[ProcOf[t]]][KeyOf(t)]
          <6>1. answer'[t].index \in Index
            BY <1>1, <2>5, EndsAnswer DEF Published
          <6>2. QED
            BY <2>1, <2>3, <5>2, <6>1 DEF HonestOK
        <5>3. QED
          BY <4>2, <5>1, <5>2
      <4>4. \A p \in Procs \ {ProcOf[t]} : published'[p] = published[p]
        BY <1>1, EndsFrame
      <4>5. QED
        BY <2>1, <3>1, <4>1, <4>3, <4>4 DEF HonestOK
    <3>4. QED
      BY <3>2, <3>3
  <2>6. QED
    BY <2>4, <2>5
<1>2. ASSUME NEW p \in Procs, Restart(p)
      PROVE  /\ \A s \in Stores, k \in Index : store'[s][k] \in {k, Nothing}
             /\ \A q \in Procs : published'[q] # Nothing =>
                    published'[q].index = DigestOf(published'[q].files)
  <2>1. ~raced
    BY <1>2 DEF Restart
  <2>2. \A s \in Stores, k \in Index : store'[s][k] \in {store[s][k], Nothing}
    BY <1>2 DEF Restart, TypeOK
  <2>3. \A q \in Procs : published'[q] \in {published[q], Nothing}
    BY <1>2 DEF Restart, TypeOK
  <2>4. QED
    BY <2>1, <2>2, <2>3 DEF HonestOK
<1>3. ASSUME NEW t \in Threads, Mid(t) PROVE UNCHANGED <<store, published>> /\ ~raced
  BY <1>3, MidFrame
<1>4. ASSUME \/ \E t \in Threads, r \in BOOLEAN : Start(t, r)
             \/ \E t \in Threads : ReuseCachedIndex(t) \/ Acquire(t)
             \/ \E f \in Files, d \in Data, keepStat \in BOOLEAN : Edit(f, d, keepStat)
             \/ \E m \in {NoMarker, NewMarker} : WriteMarker(m)
             \/ \E p \in Procs : CountFastForward(p)
             \/ Tick
             \/ UNCHANGED vars
      PROVE  UNCHANGED <<store, published>> /\ ~raced
  <2>1. CASE \E f \in Files, d \in Data, keepStat \in BOOLEAN : Edit(f, d, keepStat)
    BY <2>1 DEF Edit, Remember
  <2>2. CASE \E m \in {NoMarker, NewMarker} : WriteMarker(m)
    BY <2>2 DEF WriteMarker, Remember
  <2>3. CASE \E t \in Threads, r \in BOOLEAN : Start(t, r)
    BY <2>3 DEF Start
  <2>4. CASE \E t \in Threads : ReuseCachedIndex(t) \/ Acquire(t)
    BY <2>4 DEF ReuseCachedIndex, Acquire
  <2>5. CASE (\E p \in Procs : CountFastForward(p)) \/ Tick \/ UNCHANGED vars
    BY <2>5 DEF CountFastForward, Tick, vars
  <2>6. QED
    BY <1>4, <2>1, <2>2, <2>3, <2>4, <2>5
<1>5. QED
  BY NextCases, <1>a, <1>1, <1>2, <1>3, <1>4

\* With honest records, a fresh signature comes with fresh contents.
LEMMA UnlessRacedStep ==
    ASSUME TypeOK, LockOK, CountersOK, Calm, PassOK, HonestOK, HonestOK',
           StrictFreshnessUnlessRaced, [Next]_vars
    PROVE  StrictFreshnessUnlessRaced'
<1> SUFFICES ASSUME NEW t \in Threads, Served(t)', Quiet(t)', Interval = 0, ~HasManifest, ~raced'
             PROVE  answer'[t].index = DigestOf(disk)'
  BY DEF StrictFreshnessUnlessRaced
<1>1. CASE Ends(t)
  <2>1. Inside(t) /\ UNCHANGED <<edits, began, disk, raced>>
    BY <1>1, EndsFrame
  <2>2. Undisturbed(t)
    BY <2>1 DEF Calm
  <2>3. files[t] = disk
    BY <1>1, <2>2, SignedDisk DEF SeenMarker
  <2>4. answer'[t].files = disk /\ published'[ProcOf[t]] = answer'[t] /\ answer'[t] # Nothing
    BY <1>1, <2>3, EndsAnswer DEF Served
  <2>5. ProcOf[t] \in Procs
    BY ConstantsAssumption
  <2>6. QED
    BY <2>1, <2>4, <2>5 DEF HonestOK, DigestOf
<1>2. CASE ReuseCachedIndex(t)
  BY <1>2 DEF ReuseCachedIndex, CanReuseCachedIndex
<1>3. QED
  BY <1>1, <1>2, AnswerCases DEF StrictFreshnessUnlessRaced, Quiet, DigestOf

\* A check after the last edit leaves the published signature current.
LEMMA CheckedStep ==
    ASSUME TypeOK, LockOK, CountersOK, Calm, PassOK, CheckedOK, [Next]_vars
    PROVE  CheckedOK'
<1> USE ConstantsAssumption, NothingAssumption DEF source, server, pass, asked, call, history
<1>a. ASSUME UNCHANGED <<disk, marker, unmarked, published, lastCheck, editedAt, hit>>
      PROVE CheckedOK'
  BY <1>a DEF CheckedOK
<1>1. ASSUME NEW t \in Threads, Ends(t) PROVE CheckedOK'
  <2>1. Inside(t) /\ UNCHANGED <<disk, marker, unmarked, hit, editedAt>>
    BY <1>1, EndsFrame
  <2>2. ASSUME ~HasManifest \/ marker = NoMarker \/ ~unmarked, ProcOf[t] \notin hit,
               answer'[t] # Nothing
        PROVE  published'[ProcOf[t]] # Nothing /\ published'[ProcOf[t]].files = disk
    <3>1. Undisturbed(t)
      BY <2>1, <2>2 DEF Calm
    <3>2. files[t] = disk
      BY <1>1, <2>2, <3>1, SignedDisk DEF SeenMarker, Vouched
    <3>3. QED
      BY <1>1, <2>2, <3>2, EndsAnswer
  <2>3. ASSUME answer'[t] = Nothing PROVE CheckedOK'
    BY <1>1, <2>1, <2>3, <1>a, EndsAnswer
  <2>4. \A p \in Procs \ {ProcOf[t]} : published'[p] = published[p] /\ lastCheck'[p] = lastCheck[p]
    BY <1>1, EndsFrame
  <2>5. QED
    BY <2>1, <2>2, <2>3, <2>4 DEF CheckedOK
<1>2. ASSUME NEW f \in Files, NEW d \in Data, NEW keepStat \in BOOLEAN, Edit(f, d, keepStat)
      PROVE CheckedOK'
  <2>1. editedAt' = clock /\ UNCHANGED lastCheck
    BY <1>2 DEF Edit, Remember
  <2>2. QED
    BY <2>1 DEF CheckedOK, CountersOK, TypeOK
<1>3. ASSUME NEW m \in {NoMarker, NewMarker}, WriteMarker(m) PROVE CheckedOK'
  <2>1. editedAt' = clock /\ UNCHANGED lastCheck
    BY <1>3 DEF WriteMarker, Remember
  <2>2. QED
    BY <2>1 DEF CheckedOK, CountersOK, TypeOK
<1>4. ASSUME NEW p \in Procs, Restart(p) PROVE CheckedOK'
  <2>1. /\ UNCHANGED <<disk, marker, unmarked, editedAt, hit>> /\ lastCheck'[p] = Nothing
        /\ \A q \in Procs \ {p} : published'[q] = published[q] /\ lastCheck'[q] = lastCheck[q]
    BY <1>4 DEF Restart, TypeOK
  <2>2. QED
    BY <2>1 DEF CheckedOK
<1>5. ASSUME NEW t \in Threads, Mid(t) PROVE CheckedOK'
  BY <1>5, <1>a, MidFrame
<1>6. CASE \E t \in Threads, r \in BOOLEAN : Start(t, r)
  BY <1>6, <1>a DEF Start
<1>7. CASE \E t \in Threads : ReuseCachedIndex(t) \/ Acquire(t)
  BY <1>7, <1>a DEF ReuseCachedIndex, Acquire
<1>8. CASE (\E p \in Procs : CountFastForward(p)) \/ Tick \/ UNCHANGED vars
  BY <1>8, <1>a DEF CountFastForward, Tick, vars
<1>9. QED
  BY NextCases, <1>1, <1>2, <1>3, <1>4, <1>5, <1>6, <1>7, <1>8

\* An answer reused within the interval was checked after the last edit.
LEMMA IntervalStep ==
    ASSUME TypeOK, LockOK, CountersOK, Calm, PassOK, CheckedOK, IntervalVisibility, [Next]_vars
    PROVE  IntervalVisibility'
<1> SUFFICES ASSUME NEW t \in Threads, Served(t)', Quiet(t)',
                    (~HasManifest \/ marker = NoMarker \/ ~unmarked)',
                    beganAt'[t] >= editedAt' + Interval, ProcOf[t] \notin hit'
             PROVE  answer'[t].files = disk'
  BY DEF IntervalVisibility
<1>1. CASE Ends(t)
  <2>1. Inside(t) /\ UNCHANGED <<edits, began, disk, marker, unmarked>>
    BY <1>1, EndsFrame
  <2>2. Undisturbed(t)
    BY <2>1 DEF Calm, Quiet
  <2>3. files[t] = disk
    BY <1>1, <2>1, <2>2, SignedDisk DEF SeenMarker, Vouched
  <2>4. QED
    BY <1>1, <2>1, <2>3, EndsAnswer DEF Served
<1>2. CASE ReuseCachedIndex(t)
  <2>1. /\ UNCHANGED <<editedAt, hit, disk, marker, unmarked, beganAt>>
        /\ answer'[t] = published[ProcOf[t]]
        /\ lastCheck[ProcOf[t]] # Nothing /\ clock - lastCheck[ProcOf[t]] < Interval
    BY <1>2 DEF ReuseCachedIndex, CanReuseCachedIndex, TypeOK, source, asked, history
  <2>2. ProcOf[t] \in Procs /\ lastCheck[ProcOf[t]] \in Nat /\ Interval \in Nat
        /\ editedAt \in Nat /\ clock \in Nat /\ beganAt[t] \in Nat
    BY <2>1, ConstantsAssumption DEF TypeOK
  <2>3. beganAt[t] <= clock
    BY DEF CountersOK
  <2>4. lastCheck[ProcOf[t]] > editedAt
    BY <2>1, <2>2, <2>3
  <2>5. QED
    BY <2>1, <2>2, <2>4 DEF CheckedOK
<1>3. QED
  BY <1>1, <1>2, AnswerCases DEF IntervalVisibility, Quiet

\* While a pass runs after a settled fast-forward, the marker cache is left as it was, dropped
\* for want of a marker, or filled with the files as they are
LEMMA MidMarkerCache ==
    ASSUME TypeOK, LockOK, Calm, PassOK, NEW t \in Threads, Mid(t),
           Settled(ProcOf[t]), gen[t] = generation[ProcOf[t]]
    PROVE  \/ markerCache'[ProcOf[t]] = markerCache[ProcOf[t]]
           \/ SeenMarker = NoMarker
           \/ markerCache'[ProcOf[t]] = [mark |-> SeenMarker, files |-> disk]
<1>1. Inside(t) /\ Undisturbed(t)
  BY MidFrame DEF Calm
<1>2. CASE FallBackToFiles(t)
  BY <1>2 DEF FallBackToFiles, SeenMarker
<1>3. CASE EndScan(t)
  <2>1. pc[t] = "scanning" /\ todo[t] = {}
    BY <1>3 DEF EndScan
  <2>2. files[t] \in [Files -> FileState] /\ disk \in [Files -> FileState]
    BY DEF TypeOK
  <2>3. files[t] = disk /\ mark[t] = SeenMarker
    BY <1>1, <2>1, <2>2, SameFiles DEF PassOK, PassOf
  <2>4. CASE mark[t] = NoMarker
    BY <2>3, <2>4
  <2>5. CASE mark[t] # NoMarker
    BY <1>3, <2>3, <2>5, ConstantsAssumption DEF EndScan, TypeOK
  <2>6. QED
    BY <2>4, <2>5
<1>4. CASE ~FallBackToFiles(t) /\ ~EndScan(t)
  BY <1>4 DEF Mid, ReadMarker, EndCheck, StartLoad, CheckFile, ScanFile, LoadFile, server
<1>5. QED
  BY <1>2, <1>3, <1>4

\* A step in the middle of a pass keeps what a settled fast-forward promises of the pass.
LEMMA MidMoveTaken ==
    ASSUME TypeOK, CheckingOK, LockOK, Calm, PassOK, MovesOK, NEW t \in Threads, Mid(t)
    PROVE  MoveTaken(t)'
<1>1. UNCHANGED <<disk, marker, edits, generation, published, gitSeen, gen, forced, movedAt>>
      /\ Inside(t)
  BY MidFrame
<1>2. SeenMarker' = SeenMarker /\ Settled(ProcOf[t])' = Settled(ProcOf[t])
  BY <1>1 DEF SeenMarker, Settled
<1>3. SUFFICES ASSUME Settled(ProcOf[t]), gen[t] = generation[ProcOf[t]]
      PROVE  /\ forced[t] \/ MoveServed(ProcOf[t])'
             /\ forced[t] /\ pc'[t] \in {"comparing", "loading"} /\ SeenMarker # NoMarker
                 => markerCache'[ProcOf[t]] = [mark |-> SeenMarker, files |-> disk]
             /\ pc'[t] \in {"comparing", "loading"} => files'[t] = disk
  BY <1>1, <1>2 DEF MoveTaken
<1>4. Undisturbed(t) /\ PassOf(t)
  BY <1>1, <1>3 DEF Calm, PassOK
<1>5. /\ forced[t] \/ MoveServed(ProcOf[t])
      /\ forced[t] /\ pc[t] \in {"comparing", "loading"} /\ SeenMarker # NoMarker
          => markerCache[ProcOf[t]] = [mark |-> SeenMarker, files |-> disk]
      /\ pc[t] \in {"comparing", "loading"} => files[t] = disk
  BY <1>1, <1>3 DEF MovesOK, MoveTaken
<1>6. \/ markerCache'[ProcOf[t]] = markerCache[ProcOf[t]]
      \/ SeenMarker = NoMarker
      \/ markerCache'[ProcOf[t]] = [mark |-> SeenMarker, files |-> disk]
  BY <1>3, MidMarkerCache
<1>7. forced[t] \/ MoveServed(ProcOf[t])'
  BY <1>1, <1>2, <1>5, <1>6 DEF MoveServed, DigestOf
<1>8. CASE pc'[t] \notin {"comparing", "loading"}
  BY <1>7, <1>8
<1>9. CASE ReadMarker(t) /\ pc'[t] = "comparing"
  <2>1. MarkerMatches(t) /\ HasManifest /\ marker # NoMarker
    BY <1>9 DEF ReadMarker, TypeOK
  <2>2. files'[t] = markerCache[ProcOf[t]].files /\ ~forced[t]
    BY <1>9, <2>1 DEF ReadMarker, MarkerMatches, TypeOK
  <2>3. markerCache[ProcOf[t]] = [mark |-> SeenMarker, files |-> disk]
    BY <1>5, <2>1, <2>2 DEF MoveServed, SeenMarker
  <2>4. QED
    BY <1>7, <2>2, <2>3
<1>10. CASE EndCheck(t)
  <2>1. pc[t] = "checking" /\ todo[t] = {} /\ files'[t] = scanCache[ProcOf[t]] /\ ~forced[t]
    BY <1>4, <1>10 DEF EndCheck, TypeOK, PassOf
  <2>2. scanCache[ProcOf[t]] \in [Files -> FileState] /\ disk \in [Files -> FileState]
    BY <2>1, ConstantsAssumption DEF CheckingOK, TypeOK
  <2>3. files'[t] = disk
    BY <1>4, <2>1, <2>2, SameFiles DEF PassOf
  <2>4. QED
    BY <1>7, <2>1, <2>3
<1>11. CASE EndScan(t)
  <2>1. pc[t] = "scanning" /\ todo[t] = {} /\ files'[t] = files[t]
    BY <1>11 DEF EndScan, pass
  <2>2. files[t] \in [Files -> FileState] /\ disk \in [Files -> FileState]
    BY DEF TypeOK
  <2>3. files[t] = disk /\ mark[t] = SeenMarker
    BY <1>4, <2>1, <2>2, SameFiles DEF PassOf
  <2>4. SeenMarker # NoMarker => markerCache'[ProcOf[t]] = [mark |-> SeenMarker, files |-> disk]
    BY <1>11, <2>3, ConstantsAssumption DEF EndScan, TypeOK
  <2>5. QED
    BY <1>7, <2>1, <2>3, <2>4
<1>12. CASE /\ pc[t] \in {"comparing", "loading"} /\ UNCHANGED <<markerCache, files>>
  BY <1>5, <1>7, <1>12
<1>13. QED
  <2>1. CASE FallBackToFiles(t)
    BY <1>8, <2>1 DEF FallBackToFiles, TypeOK
  <2>2. CASE ReadMarker(t)
    <3>1. pc'[t] \in {"comparing", "scanning"}
      BY <2>2 DEF ReadMarker, TypeOK
    <3>2. QED
      BY <1>8, <1>9, <2>2, <3>1
  <2>3. CASE StartLoad(t)
    BY <1>12, <2>3 DEF StartLoad, server
  <2>4. ASSUME NEW f \in Files, CheckFile(t, f) PROVE pc'[t] \notin {"comparing", "loading"}
    <3>1. CASE SameState(scanCache[ProcOf[t]][f], disk[f])
      BY <2>4, <3>1, Zenon DEF CheckFile
    <3>2. CASE ~SameState(scanCache[ProcOf[t]][f], disk[f])
      <4>1. pc' = [pc EXCEPT ![t] = "scanning"]
        BY <2>4, <3>2, Zenon DEF CheckFile
      <4>2. QED
        BY <4>1 DEF TypeOK
    <3>3. QED
      BY <3>1, <3>2
  <2>5. ASSUME NEW f \in Files, ScanFile(t, f) PROVE pc'[t] \notin {"comparing", "loading"}
    BY <2>5 DEF ScanFile
  <2>6. ASSUME NEW f \in Files, LoadFile(t, f)
        PROVE  pc[t] \in {"comparing", "loading"} /\ UNCHANGED <<markerCache, files>>
    BY <2>6 DEF LoadFile, server
  <2>7. QED
    BY <1>8, <1>10, <1>11, <1>12, <2>1, <2>2, <2>3, <2>4, <2>5, <2>6 DEF Mid

\* Once a fast-forward is recorded as served, the published index shows it until the next edit.
LEMMA MovesStep ==
    ASSUME TypeOK, CheckingOK, LockOK, CountersOK, Calm, PassOK, MovesOK, [Next]_vars
    PROVE  MovesOK'
<1> USE ConstantsAssumption, NothingAssumption
\* A process and its threads, when a step leaves what they depend on alone
<1>a. ASSUME NEW p \in Procs, UNCHANGED <<disk, marker, edits, generation[p], movedAt[p],
                 gitSeen[p], published[p], markerCache[p]>>
      PROVE  Settled(p)' /\ gitSeen'[p] = generation'[p] => MoveServed(p)'
  BY <1>a DEF MovesOK, Settled, MoveServed, SeenMarker, DigestOf
<1>b. ASSUME NEW u \in Threads, Inside(u)' => Inside(u),
             UNCHANGED <<disk, marker, edits, generation[ProcOf[u]], movedAt[ProcOf[u]],
                 published[ProcOf[u]], markerCache[ProcOf[u]], gen[u], forced[u]>>,
             Inside(u)' => pc'[u] = pc[u] /\ files'[u] = files[u]
      PROVE  MoveTaken(u)'
  BY <1>b DEF MovesOK, MoveTaken, Settled, MoveServed, SeenMarker, DigestOf
<1>1. ASSUME NEW t \in Threads, NEW r \in BOOLEAN, Start(t, r) PROVE MovesOK'
  <2>1. /\ UNCHANGED <<disk, marker, edits, generation, movedAt, gitSeen, published, markerCache,
                       gen, files>>
        /\ pc'[t] = "waiting"
        /\ \A u \in Threads \ {t} : pc'[u] = pc[u] /\ forced'[u] = forced[u]
    BY <1>1 DEF Start, TypeOK, source, server, pass, history
  <2>2. MoveTaken(t)'
    BY <2>1 DEF MoveTaken, Inside
  <2>3. \A u \in Threads \ {t} : MoveTaken(u)'
    BY <2>1, <1>b DEF Inside
  <2>4. QED
    BY <2>1, <2>2, <2>3, <1>a DEF MovesOK
<1>2. ASSUME NEW t \in Threads, ReuseCachedIndex(t) PROVE MovesOK'
  <2>1. /\ UNCHANGED <<disk, marker, edits, generation, movedAt, published, markerCache,
                       gen, files>>
        /\ pc'[t] = "idle"
        /\ \A u \in Threads \ {t} : pc'[u] = pc[u] /\ forced'[u] = forced[u]
    BY <1>2 DEF ReuseCachedIndex, TypeOK, source, pass, history
  <2>2. UNCHANGED gitSeen
    BY <1>2 DEF ReuseCachedIndex, CanReuseCachedIndex, Forced, TypeOK
  <2>3. MoveTaken(t)'
    BY <2>1 DEF MoveTaken, Inside
  <2>4. \A u \in Threads \ {t} : MoveTaken(u)'
    BY <2>1, <1>b DEF Inside
  <2>5. QED
    BY <2>1, <2>2, <2>3, <2>4, <1>a DEF MovesOK
<1>3. ASSUME NEW t \in Threads, Acquire(t) PROVE MovesOK'
  <2>1. /\ UNCHANGED <<disk, marker, edits, generation, movedAt, gitSeen, published, markerCache,
                       files>>
        /\ pc'[t] = "marking" /\ gen'[t] = generation[ProcOf[t]] /\ forced'[t] = Forced(t)
        /\ \A u \in Threads \ {t} : pc'[u] = pc[u] /\ forced'[u] = forced[u] /\ gen'[u] = gen[u]
    BY <1>3 DEF Acquire, TypeOK, source, server, pass, history
  <2>2. Settled(ProcOf[t]) /\ ~Forced(t) => MoveServed(ProcOf[t])
    BY DEF Forced, MovesOK
  <2>3. /\ Settled(ProcOf[t])' = Settled(ProcOf[t])
        /\ MoveServed(ProcOf[t])' = MoveServed(ProcOf[t])
    BY <2>1 DEF Settled, MoveServed, SeenMarker, DigestOf
  <2>4. MoveTaken(t)'
    BY <2>1, <2>2, <2>3 DEF MoveTaken
  <2>5. \A u \in Threads \ {t} : MoveTaken(u)'
    BY <2>1, <1>b DEF Inside
  <2>6. QED
    BY <2>1, <2>4, <2>5, <1>a DEF MovesOK
<1>4. ASSUME NEW t \in Threads, Mid(t) PROVE MovesOK'
  <2>1. /\ UNCHANGED <<disk, marker, edits, generation, movedAt, gitSeen, published, gen, forced>>
        /\ Inside(t) /\ Inside(t)'
        /\ \A u \in Threads \ {t} : pc'[u] = pc[u] /\ files'[u] = files[u]
    BY <1>4, MidFrame DEF Inside
  <2>2. \A p \in Procs \ {ProcOf[t]} : markerCache'[p] = markerCache[p]
    <3>1. CASE FallBackToFiles(t)
      BY <3>1 DEF FallBackToFiles, TypeOK
    <3>2. CASE EndScan(t)
      BY <3>2 DEF EndScan, TypeOK
    <3>3. CASE ~FallBackToFiles(t) /\ ~EndScan(t)
      BY <1>4, <3>3 DEF Mid, ReadMarker, EndCheck, StartLoad, CheckFile, ScanFile, LoadFile, server
    <3>4. QED
      BY <3>1, <3>2, <3>3
  <2>3. \A p \in Procs \ {ProcOf[t]} : Settled(p)' /\ gitSeen'[p] = generation'[p] => MoveServed(p)'
    BY <2>1, <2>2, <1>a
  <2>4. MoveTaken(t)'
    BY <1>4, MidMoveTaken
  <2>5. Settled(ProcOf[t])' /\ gitSeen'[ProcOf[t]] = generation'[ProcOf[t]] => MoveServed(ProcOf[t])'
    <3>0. Settled(ProcOf[t])' = Settled(ProcOf[t])
      BY <2>1 DEF Settled
    <3>1. SUFFICES ASSUME Settled(ProcOf[t]), gitSeen[ProcOf[t]] = generation[ProcOf[t]]
                   PROVE  MoveServed(ProcOf[t])'
      BY <2>1, <3>0
    <3>2. gitSeen[ProcOf[t]] <= gen[t] /\ gen[t] <= generation[ProcOf[t]]
      BY <2>1 DEF Calm, CountersOK
    <3>a. gen[t] \in Nat /\ generation[ProcOf[t]] \in Nat
      BY ConstantsAssumption DEF TypeOK
    <3>3. gen[t] = generation[ProcOf[t]]
      BY <3>1, <3>2, <3>a
    <3>4. MoveServed(ProcOf[t])
      BY <3>1 DEF MovesOK
    <3>5. \/ markerCache'[ProcOf[t]] = markerCache[ProcOf[t]]
          \/ SeenMarker = NoMarker
          \/ markerCache'[ProcOf[t]] = [mark |-> SeenMarker, files |-> disk]
      BY <1>4, <3>1, <3>3, MidMarkerCache
    <3>6. QED
      BY <2>1, <3>4, <3>5 DEF MoveServed, SeenMarker, DigestOf
  <2>6. ASSUME NEW u \in Threads, u # t PROVE MoveTaken(u)'
    <3>1. CASE ProcOf[u] = ProcOf[t]
      BY <2>1, <2>6, <3>1 DEF LockOK, Inside, MoveTaken
    <3>2. CASE ProcOf[u] # ProcOf[t]
      BY <2>1, <2>2, <2>6, <3>2, <1>b DEF Inside
    <3>3. QED
      BY <3>1, <3>2
  <2>7. QED
    BY <2>3, <2>4, <2>5, <2>6 DEF MovesOK
<1>5. ASSUME NEW t \in Threads, Ends(t) PROVE MovesOK'
  <2>1. /\ UNCHANGED <<disk, marker, edits, generation, movedAt, gen, forced, markerCache>>
        /\ Inside(t) /\ ~Inside(t)'
        /\ \A u \in Threads \ {t} : /\ pc'[u] = pc[u] /\ files'[u] = files[u]
                                    /\ ProcOf[u] = ProcOf[t] => ~Inside(u)
        /\ \A p \in Procs \ {ProcOf[t]} : published'[p] = published[p] /\ gitSeen'[p] = gitSeen[p]
    BY <1>5, EndsFrame DEF Inside
  <2>2. ASSUME NEW u \in Threads PROVE MoveTaken(u)'
    <3>1. CASE u = t \/ ProcOf[u] = ProcOf[t]
      BY <2>1, <3>1 DEF MoveTaken, Inside
    <3>2. CASE u # t /\ ProcOf[u] # ProcOf[t]
      BY <2>1, <3>2, <1>b DEF Inside
    <3>3. QED
      BY <3>1, <3>2
  <2>3. \A p \in Procs \ {ProcOf[t]} : Settled(p)' /\ gitSeen'[p] = generation'[p] => MoveServed(p)'
    BY <2>1, <1>a
  <2>4. Settled(ProcOf[t])' /\ gitSeen'[ProcOf[t]] = generation'[ProcOf[t]] => MoveServed(ProcOf[t])'
    <3>1. CASE answer'[t] = Nothing
      <4>1. UNCHANGED <<published, gitSeen>>
        BY <1>5, <3>1, EndsAnswer
      <4>2. QED
        BY <2>1, <4>1, <1>a
    <3>2. CASE answer'[t] # Nothing
      <4>1. SUFFICES ASSUME Settled(ProcOf[t]), gen[t] = generation[ProcOf[t]]
                     PROVE  MoveServed(ProcOf[t])'
        BY <1>5, <2>1, <3>2, EndsAnswer DEF Settled
      <4>2. Undisturbed(t)
        BY <2>1, <4>1 DEF Calm
      <4>3. /\ pc[t] \in {"comparing", "loading"}
            /\ files[t] = disk /\ mark[t] = SeenMarker
            /\ SeenMarker # NoMarker => markerCache[ProcOf[t]] = [mark |-> SeenMarker, files |-> disk]
            /\ forced[t] \/ MoveServed(ProcOf[t])
        <5>1. pc[t] \in {"comparing", "loading"}
          BY <1>5 DEF Ends, KeepPublished, TakeStored, Install, BuildFails
        <5>2. QED
          BY <2>1, <4>1, <4>2, <5>1 DEF MovesOK, MoveTaken, MoveServed, PassOK, PassOf
      <4>4. answer'[t].index = DigestOf(disk)
        <5>1. CASE pc[t] = "loading" /\ todo[t] = {}
          BY <1>5, <3>2, <4>2, <5>1, LoadedDisk, EndsAnswer
        <5>2. CASE ~(pc[t] = "loading" /\ todo[t] = {})
          <6>1. ~forced[t] /\ (answer'[t] = published[ProcOf[t]] \/ ~SameAsPublished(t))
            BY <1>5, <3>2, <5>2, EndsAnswer
          <6>2. SameAsPublished(t)
            BY <4>3, <6>1 DEF MoveServed, SameAsPublished
          <6>3. QED
            BY <4>3, <6>1, <6>2 DEF MoveServed
        <5>3. QED
          BY <5>1, <5>2
      <4>5. /\ answer'[t] \in Published /\ answer'[t].files = disk /\ answer'[t].mark = SeenMarker
            /\ published'[ProcOf[t]] = answer'[t]
        BY <1>5, <3>2, <4>3, EndsAnswer
      <4>6. published'[ProcOf[t]] = [mark |-> SeenMarker, files |-> disk, index |-> DigestOf(disk)]
        BY <4>4, <4>5 DEF Published
      <4>7. QED
        BY <2>1, <4>3, <4>5, <4>6 DEF MoveServed, SeenMarker, DigestOf
    <3>3. QED
      BY <3>1, <3>2
  <2>5. QED
    BY <2>2, <2>3, <2>4 DEF MovesOK
<1>6. ASSUME NEW f \in Files, NEW d \in Data, NEW keepStat \in BOOLEAN, Edit(f, d, keepStat)
      PROVE MovesOK'
  <2>1. edits' = edits + 1 /\ UNCHANGED movedAt
    BY <1>6 DEF Edit, Remember
  <2>2. QED
    BY <2>1 DEF MovesOK, MoveTaken, Settled, CountersOK, TypeOK
<1>7. ASSUME NEW m \in {NoMarker, NewMarker}, WriteMarker(m) PROVE MovesOK'
  <2>1. edits' = edits + 1 /\ UNCHANGED movedAt
    BY <1>7 DEF WriteMarker, Remember
  <2>2. QED
    BY <2>1 DEF MovesOK, MoveTaken, Settled, CountersOK, TypeOK
<1>8. ASSUME NEW p \in Procs, CountFastForward(p) PROVE MovesOK'
  <2>1. /\ generation'[p] = generation[p] + 1
        /\ \A q \in Procs \ {p} : generation'[q] = generation[q] /\ movedAt'[q] = movedAt[q]
        /\ UNCHANGED <<disk, marker, edits, gitSeen, published, markerCache, gen, forced, pc, files>>
    BY <1>8 DEF CountFastForward, TypeOK, source, server, pass, call
  <2>2. gitSeen'[p] # generation'[p] /\ \A u \in Threads : ProcOf[u] = p => gen'[u] # generation'[p]
    BY <2>1 DEF CountersOK, TypeOK
  <2>3. \A u \in Threads : MoveTaken(u)'
    <3>1. ASSUME NEW u \in Threads, ProcOf[u] = p PROVE MoveTaken(u)'
      BY <2>2, <3>1 DEF MoveTaken
    <3>2. ASSUME NEW u \in Threads, ProcOf[u] # p PROVE MoveTaken(u)'
      BY <2>1, <3>2, <1>b DEF Inside
    <3>3. QED
      BY <3>1, <3>2
  <2>4. QED
    BY <2>1, <2>2, <2>3, <1>a DEF MovesOK
<1>9. ASSUME NEW p \in Procs, Restart(p) PROVE MovesOK'
  <2>1. /\ generation'[p] = 0
        /\ UNCHANGED <<disk, marker, edits, movedAt>>
        /\ \A q \in Procs \ {p} : /\ generation'[q] = generation[q] /\ gitSeen'[q] = gitSeen[q]
                                  /\ published'[q] = published[q]
                                  /\ markerCache'[q] = markerCache[q]
        /\ \A u \in Threads : ProcOf[u] # p => UNCHANGED <<gen[u], forced[u], pc[u], files[u]>>
    BY <1>9 DEF Restart, ResetCalls, TypeOK, source, history
  <2>2. ~Settled(p)'
    BY <2>1 DEF Settled
  <2>3. \A u \in Threads : MoveTaken(u)'
    <3>1. ASSUME NEW u \in Threads, ProcOf[u] = p PROVE MoveTaken(u)'
      BY <2>2, <3>1 DEF MoveTaken
    <3>2. ASSUME NEW u \in Threads, ProcOf[u] # p PROVE MoveTaken(u)'
      BY <2>1, <3>2, <1>b DEF Inside
    <3>3. QED
      BY <3>1, <3>2
  <2>4. QED
    BY <2>1, <2>2, <2>3, <1>a DEF MovesOK
<1>10. ASSUME Tick \/ UNCHANGED vars PROVE MovesOK'
  <2>1. UNCHANGED <<disk, marker, edits, generation, movedAt, gitSeen, published, markerCache, gen,
                    forced, pc, files>>
    BY <1>10 DEF Tick, vars, source, server, pass, call, history
  <2>2. QED
    BY <2>1, <1>a, <1>b DEF MovesOK, Inside
<1>11. QED
  BY NextCases, <1>1, <1>2, <1>3, <1>4, <1>5, <1>6, <1>7, <1>8, <1>9, <1>10

\* A call that began after a settled fast-forward answers from the files it left.
LEMMA FastForwardStep ==
    ASSUME TypeOK, LockOK, CountersOK, Calm, MovesOK, MovesOK', FastForwardServed, [Next]_vars
    PROVE  FastForwardServed'
<1> SUFFICES ASSUME NEW t \in Threads, Served(t)', beganGen'[t] > 0,
                    beganGen'[t] = generation'[ProcOf[t]], movedAt'[ProcOf[t]] = edits'
             PROVE  answer'[t].index = DigestOf(disk)'
  BY DEF FastForwardServed
<1> USE ConstantsAssumption
<1>1. CASE Ends(t)
  <2>1. Inside(t) /\ UNCHANGED <<edits, disk, beganGen, gen, generation, movedAt>>
    BY <1>1, EndsFrame
  <2>2. beganGen[t] <= gen[t] /\ gen[t] <= generation[ProcOf[t]]
    BY <2>1 DEF Calm, CountersOK
  <2>a. gen[t] \in Nat /\ generation[ProcOf[t]] \in Nat
    BY DEF TypeOK
  <2>b. beganGen[t] = generation[ProcOf[t]] /\ beganGen[t] \in Nat
    BY <2>1 DEF TypeOK
  <2>3. gen[t] = generation[ProcOf[t]]
    BY <2>2, <2>a, <2>b
  <2>4. gitSeen'[ProcOf[t]] = generation'[ProcOf[t]] /\ published'[ProcOf[t]] = answer'[t]
    BY <1>1, <2>1, <2>3, EndsAnswer DEF Served
  <2>5. MoveServed(ProcOf[t])'
    BY <2>1, <2>4 DEF MovesOK, Settled
  <2>6. QED
    BY <2>1, <2>4, <2>5 DEF MoveServed, DigestOf
<1>2. CASE ReuseCachedIndex(t)
  <2>1. /\ UNCHANGED <<edits, disk, beganGen, generation, movedAt>>
        /\ answer'[t] = published[ProcOf[t]] /\ gitSeen[ProcOf[t]] = generation[ProcOf[t]]
    BY <1>2 DEF ReuseCachedIndex, CanReuseCachedIndex, Forced, TypeOK, source, asked, history
  <2>2. MoveServed(ProcOf[t])
    BY <2>1 DEF MovesOK, Settled
  <2>3. QED
    BY <2>1, <2>2 DEF MoveServed, DigestOf
<1>3. CASE /\ Served(t)
           /\ UNCHANGED <<answer[t], beganGen[t], disk, edits>>
           /\ UNCHANGED <<generation[ProcOf[t]], movedAt[ProcOf[t]]>>
  BY <1>3 DEF FastForwardServed, DigestOf
<1>4. ~(generation'[ProcOf[t]] > beganGen[t] /\ UNCHANGED beganGen[t])
  <2>1. ASSUME UNCHANGED beganGen[t] PROVE generation'[ProcOf[t]] = beganGen[t] /\ beganGen[t] \in Nat
    BY <2>1 DEF TypeOK
  <2>2. QED
    BY <2>1
<1>5. QED
  BY <1>1, <1>2, <1>3, <1>4, AnswerCases

-----------------------------------------------------------------------------
(* The theorems *)

\* The invariant holds of a service that has just started.
LEMMA InitInv == Init => IInv
<1> SUFFICES ASSUME Init PROVE IInv
  OBVIOUS
<1> USE NothingAssumption DEF Init
<1>1. TypeOK
  BY InitType
<1>2. \A t \in Threads : pc[t] = "idle" /\ answer[t] = Nothing
  OBVIOUS
<1>3. CheckingOK /\ LockOK /\ Calm /\ PassOK
  BY <1>2 DEF CheckingOK, LockOK, Calm, PassOK, PassOf, Inside
<1>4. CountersOK
  BY ConstantsAssumption DEF CountersOK
<1>5. MarkerCacheOK /\ HonestOK /\ CheckedOK
  BY DEF MarkerCacheOK, HonestOK, CheckedOK
<1>6. MovesOK
  BY <1>2 DEF MovesOK, MoveTaken, Settled, Inside
<1>7. /\ FreshSignature /\ ForcedReadsDisk /\ FastForwardServed
      /\ IntervalVisibility /\ StrictFreshnessUnlessRaced
  BY <1>2 DEF FreshSignature, ForcedReadsDisk, FastForwardServed, IntervalVisibility,
              StrictFreshnessUnlessRaced, Served
<1>8. QED
  BY <1>1, <1>3, <1>4, <1>5, <1>6, <1>7 DEF IInv

\* Every step preserves the invariant.
LEMMA NextInv == IInv /\ [Next]_vars => IInv'
<1> SUFFICES ASSUME IInv, [Next]_vars PROVE IInv'
  OBVIOUS
<1> USE DEF IInv
<1>1. TypeOK' /\ CheckingOK' /\ LockOK' /\ CountersOK' /\ Calm'
  BY TypeStep, CheckingStep, LockStep, CountersStep, CalmStep
<1>2. PassOK' /\ MarkerCacheOK' /\ MovesOK' /\ HonestOK' /\ CheckedOK'
  BY PassStep, MarkerCacheStep, MovesStep, HonestStep, CheckedStep
<1>3. FreshSignature' /\ ForcedReadsDisk' /\ IntervalVisibility'
  BY FreshStep, ForcedStep, IntervalStep
<1>4. FastForwardServed' /\ StrictFreshnessUnlessRaced'
  BY <1>2, FastForwardStep, UnlessRacedStep
<1>5. QED
  BY <1>1, <1>2, <1>3, <1>4

\* The invariant is inductive, so it holds of every reachable state.
THEOREM Invariance == Spec => []IInv
  BY InitInv, NextInv, PTL DEF Spec

\* Type correctness of the service, its caches, stores and calls.
THEOREM TypeCorrectness == Spec => []TypeOK
<1>1. IInv => TypeOK
  BY DEF IInv
<1>2. QED
  BY Invariance, <1>1, PTL

\* A request no edit overlaps answers with the signature of the files on disk, in strict mode
\* and in producer mode after the marker was written last, whatever raced before it.
THEOREM SignatureIsFresh == Spec => []FreshSignature
<1>1. IInv => FreshSignature
  BY DEF IInv
<1>2. QED
  BY Invariance, <1>1, PTL

\* An explicit refresh, or the rebuild a fast-forward forces, answers with the contents on disk.
THEOREM RefreshReadsDisk == Spec => []ForcedReadsDisk
<1>1. IInv => ForcedReadsDisk
  BY DEF IInv
<1>2. QED
  BY Invariance, <1>1, PTL

\* No counted fast-forward is lost to a racing or failed build, a cache or the interval.
THEOREM FastForwardIsServed == Spec => []FastForwardServed
<1>1. IInv => FastForwardServed
  BY DEF IInv
<1>2. QED
  BY Invariance, <1>1, PTL

\* With a refresh interval, an edit is visible one interval after it was made.
THEOREM EditsBecomeVisible == Spec => []IntervalVisibility
<1>1. IInv => IntervalVisibility
  BY DEF IInv
<1>2. QED
  BY Invariance, <1>1, PTL

\* Contents are as fresh as signatures until an edit lands inside a check or build.
THEOREM ContentIsFreshUnlessRaced == Spec => []StrictFreshnessUnlessRaced
<1>1. IInv => StrictFreshnessUnlessRaced
  BY DEF IInv
<1>2. QED
  BY Invariance, <1>1, PTL

=============================================================================
