--------------------------- MODULE ProjectionCache ---------------------------
(***************************************************************************)
(* How LlmWikiService (service.py) keeps its in-memory projection of the   *)
(* served root fresh: every request takes the service's index lock, checks *)
(* or rescans the signature of the source files, and reuses the published  *)
(* index, takes one from the projection store, or reads the files again.   *)
(*                                                                         *)
(* A file is read at one instant, but a pass over the files (checking,     *)
(* scanning, loading) is not atomic: producers edit the root between any   *)
(* two reads.  Contents are values of Data.  A stamp stands for the        *)
(* device, inode and mtime of a file; an edit may preserve it.             *)
(***************************************************************************)
EXTENDS Integers, FiniteSets

CONSTANTS
    Procs,          \* service processes over one root
    Threads,        \* request threads
    ProcOf,         \* the process a thread runs in
    Stores,         \* projection stores
    StoreOf,        \* the store of a process
    Durable,        \* the stores that outlive a process (Redis); the others are in memory
    Files, Data,    \* the files in the signature, and what they may hold
    InitData,       \* what every file holds at first
    Interval,       \* refresh_interval_seconds, 0 for a check on every request
    HasManifest,    \* whether --producer-manifest is configured
    MaxEdits,       \* bound: changes of the source made during a behaviour
    MaxClock,       \* bound: the monotonic clock
    MaxMoves,       \* bound: fast-forwards counted by each git syncer
    Nothing         \* Python's None

ASSUME ConstantsAssumption ==
    /\ ProcOf \in [Threads -> Procs]
    /\ StoreOf \in [Procs -> Stores]
    /\ Durable \subseteq Stores
    /\ InitData \in Data
    /\ Interval \in Nat
    /\ HasManifest \in BOOLEAN

ASSUME BoundsAssumption == MaxEdits \in Nat /\ MaxClock \in Nat /\ MaxMoves \in Nat

NoMarker == 0
\* The marker a root may have when the service starts
OldMarker == 1

FileState == [data : Data, stamp : Nat]
\* WikiIndex, abstracted to the contents it was projected from
Index == [Files -> Data]
\* projection_signature_digest: device, inode and mtime are left out of the digest
DigestOf(states) == [f \in Files |-> states[f].data]
\* What _ProducerManifestSignatureCache keeps: the marker, and the files scanned under it
Marked == [mark : Nat, files : [Files -> FileState]]
\* What the service publishes together: signature, freshness signature and index
Published == [mark : Nat, files : [Files -> FileState], index : Index]

ASSUME NothingAssumption ==
    /\ Nothing \notin Published
    /\ Nothing \notin Marked
    /\ Nothing \notin [Files -> FileState]
    /\ Nothing \notin Index
    /\ Nothing \notin Threads
    /\ Nothing \notin Nat

VARIABLES
    \* the source and the environment
    disk,         \* the files of the served root
    marker,       \* the producer manifest: its stamp, or NoMarker when missing or unsafe
    edits,        \* changes made to the root so far
    clock,        \* the service's monotonic clock
    generation,   \* GitSyncer.generation, per process
    \* the projection stores: records by the digest in their key
    store,
    \* the state of each process
    published,    \* _index, _signature, ... and _retrieval_snapshot
    scanCache,    \* _SourceSignatureCache._snapshot
    markerCache,  \* _ProducerManifestSignatureCache._snapshot
    lastCheck,    \* _last_refresh_check
    gitSeen,      \* _git_generation_seen
    lock,         \* the holder of _index_lock
    \* the state of each call
    pc,
    forced,       \* refresh, later refresh or git_moved
    gen,          \* the generation read under the lock
    mark,         \* the marker read, or NoMarker
    todo,         \* the files still to read in the current pass
    files,        \* the signature read so far
    load,         \* the contents load_wiki has read so far
    answer,       \* the snapshot the last call returned, Nothing if it raised
    \* history, which the properties use and no step reads
    began,        \* per call: edits, generation and clock when it started
    beganGen,
    beganAt,
    entered,      \* per call: edits when it took the lock
    editedAt,     \* the clock at the last edit
    hit,          \* the processes that were checking or building when it landed
    raced,        \* whether any edit ever landed during a check or build
    unmarked,     \* whether a file changed after the marker was last written
    movedAt       \* per process: edits when its syncer last counted a fast-forward

source == <<disk, marker, edits>>
server == <<published, scanCache, markerCache, lastCheck, gitSeen>>
pass == <<mark, todo, files, load>>
asked == <<began, beganGen, beganAt>>
call == <<pc, forced, gen, pass, answer, asked, entered>>
history == <<editedAt, hit, raced, unmarked, movedAt>>
vars == <<source, clock, generation, store, server, lock, call, history>>

Phases == {"idle", "waiting", "marking", "checking", "scanning", "comparing", "loading"}

InitFiles == [f \in Files |-> [data |-> InitData, stamp |-> 0]]

Init ==
    /\ disk = InitFiles
    /\ marker \in IF HasManifest THEN {NoMarker, OldMarker} ELSE {NoMarker}
    /\ edits = 0
    /\ clock = 0
    /\ generation = [p \in Procs |-> 0]
    /\ store = [s \in Stores |-> [k \in Index |-> Nothing]]
    /\ published = [p \in Procs |-> Nothing]
    /\ scanCache = [p \in Procs |-> Nothing]
    /\ markerCache = [p \in Procs |-> Nothing]
    /\ lastCheck = [p \in Procs |-> Nothing]
    /\ gitSeen = [p \in Procs |-> 0]
    /\ lock = [p \in Procs |-> Nothing]
    /\ pc = [t \in Threads |-> "idle"]
    /\ forced = [t \in Threads |-> FALSE]
    /\ gen = [t \in Threads |-> 0]
    /\ mark = [t \in Threads |-> NoMarker]
    /\ todo = [t \in Threads |-> {}]
    /\ files = [t \in Threads |-> InitFiles]
    /\ load = [t \in Threads |-> DigestOf(InitFiles)]
    /\ answer = [t \in Threads |-> Nothing]
    /\ began = [t \in Threads |-> 0]
    /\ beganGen = [t \in Threads |-> 0]
    /\ beganAt = [t \in Threads |-> 0]
    /\ entered = [t \in Threads |-> 0]
    /\ editedAt = 0
    /\ hit = {}
    /\ raced = FALSE
    /\ unmarked = FALSE
    /\ movedAt = [p \in Procs |-> 0]

-----------------------------------------------------------------------------
(* The request path *)

KeyOfSourceOnly(t) == DigestOf(InitFiles)

KeyOf(t) == DigestOf(files[t])

\* index() is called
Start(t, r) ==
    /\ pc[t] = "idle"
    /\ pc' = [pc EXCEPT ![t] = "waiting"]
    /\ forced' = [forced EXCEPT ![t] = r]
    /\ answer' = [answer EXCEPT ![t] = Nothing]
    /\ began' = [began EXCEPT ![t] = edits]
    /\ beganGen' = [beganGen EXCEPT ![t] = generation[ProcOf[t]]]
    /\ beganAt' = [beganAt EXCEPT ![t] = clock]
    /\ UNCHANGED <<source, clock, generation, store, server, lock, gen, pass, entered, history>>

ForcedIgnoringGit(t) == forced[t]

\* refresh or git_moved, decided under the lock
Forced(t) == forced[t] \/ generation[ProcOf[t]] # gitSeen[ProcOf[t]]

ReusableOneTickLonger(t) ==
    LET p == ProcOf[t] IN
    /\ ~Forced(t)
    /\ published[p] # Nothing
    /\ Interval > 0
    /\ lastCheck[p] # Nothing
    /\ clock - lastCheck[p] <= Interval

\* _can_reuse_cached_index
CanReuseCachedIndex(t) ==
    LET p == ProcOf[t] IN
    /\ ~Forced(t)
    /\ published[p] # Nothing
    /\ Interval > 0
    /\ lastCheck[p] # Nothing
    /\ clock - lastCheck[p] < Interval

\* Within the refresh interval the published index answers with no look at the files
ReuseCachedIndex(t) ==
    LET p == ProcOf[t] IN
    /\ pc[t] = "waiting"
    /\ lock[p] = Nothing
    /\ CanReuseCachedIndex(t)
    /\ pc' = [pc EXCEPT ![t] = "idle"]
    /\ forced' = [forced EXCEPT ![t] = Forced(t)]
    /\ answer' = [answer EXCEPT ![t] = published[p]]
    /\ gitSeen' = [gitSeen EXCEPT ![p] = generation[p]]
    /\ UNCHANGED <<source, clock, generation, store, published, scanCache, markerCache,
                   lastCheck, lock, gen, pass, asked, entered, history>>

\* The generation is read under the lock, before any file is
Acquire(t) ==
    LET p == ProcOf[t] IN
    /\ pc[t] = "waiting"
    /\ lock[p] = Nothing
    /\ ~CanReuseCachedIndex(t)
    /\ lock' = [lock EXCEPT ![p] = t]
    /\ pc' = [pc EXCEPT ![t] = "marking"]
    /\ forced' = [forced EXCEPT ![t] = Forced(t)]
    /\ gen' = [gen EXCEPT ![t] = generation[p]]
    /\ entered' = [entered EXCEPT ![t] = edits]
    /\ UNCHANGED <<source, clock, generation, store, server, pass, answer, asked, history>>

-----------------------------------------------------------------------------
(* The signature of the source *)

\* No usable marker: the strict scan takes over and the marker's snapshot is dropped
FallBackToFiles(t) ==
    LET p == ProcOf[t]
        recheck == scanCache[p] # Nothing /\ ~forced[t]
    IN
    /\ pc[t] = "marking"
    /\ ~HasManifest \/ marker = NoMarker
    /\ markerCache' = [markerCache EXCEPT ![p] = Nothing]
    /\ pc' = [pc EXCEPT ![t] = IF recheck THEN "checking" ELSE "scanning"]
    /\ mark' = [mark EXCEPT ![t] = NoMarker]
    /\ todo' = [todo EXCEPT ![t] = Files]
    /\ UNCHANGED <<source, clock, generation, store, published, scanCache, lastCheck, gitSeen,
                   lock, forced, gen, files, load, answer, asked, entered, history>>

\* _marker_matches: the cached snapshot was scanned under the marker that is there now
MarkerMatches(t) ==
    LET p == ProcOf[t] IN
    /\ ~forced[t]
    /\ markerCache[p] # Nothing
    /\ markerCache[p].mark = marker

ReadMarker(t) ==
    LET p == ProcOf[t] IN
    /\ pc[t] = "marking"
    /\ HasManifest /\ marker # NoMarker
    /\ IF MarkerMatches(t)
       THEN /\ pc' = [pc EXCEPT ![t] = "comparing"]
            /\ mark' = [mark EXCEPT ![t] = markerCache[p].mark]
            /\ files' = [files EXCEPT ![t] = markerCache[p].files]
            /\ UNCHANGED todo
       ELSE /\ pc' = [pc EXCEPT ![t] = "scanning"]
            /\ mark' = [mark EXCEPT ![t] = marker]
            /\ todo' = [todo EXCEPT ![t] = Files]
            /\ UNCHANGED files
    /\ UNCHANGED <<source, clock, generation, store, server, lock, forced, gen, load, answer,
                   asked, entered, history>>

\* _is_current compares device, inode, mtime, size and digest
SameState(old, new) == old = new

\* _is_current: a difference ends the pass and a scan starts from the first file
CheckFile(t, f) ==
    /\ pc[t] = "checking"
    /\ f \in todo[t]
    /\ IF SameState(scanCache[ProcOf[t]][f], disk[f])
       THEN todo' = [todo EXCEPT ![t] = @ \ {f}] /\ UNCHANGED pc
       ELSE todo' = [todo EXCEPT ![t] = Files] /\ pc' = [pc EXCEPT ![t] = "scanning"]
    /\ UNCHANGED <<source, clock, generation, store, server, lock, forced, gen, mark, files,
                   load, answer, asked, entered, history>>

EndCheck(t) ==
    /\ pc[t] = "checking"
    /\ todo[t] = {}
    /\ pc' = [pc EXCEPT ![t] = "comparing"]
    /\ files' = [files EXCEPT ![t] = scanCache[ProcOf[t]]]
    /\ UNCHANGED <<source, clock, generation, store, server, lock, forced, gen, mark, todo,
                   load, answer, asked, entered, history>>

\* _source_signature_snapshot
ScanFile(t, f) ==
    /\ pc[t] = "scanning"
    /\ f \in todo[t]
    /\ files' = [files EXCEPT ![t] = [@ EXCEPT ![f] = disk[f]]]
    /\ todo' = [todo EXCEPT ![t] = @ \ {f}]
    /\ UNCHANGED <<source, clock, generation, store, server, lock, pc, forced, gen, mark, load,
                   answer, asked, entered, history>>

EndScan(t) ==
    LET p == ProcOf[t] IN
    /\ pc[t] = "scanning"
    /\ todo[t] = {}
    /\ IF mark[t] = NoMarker
       THEN /\ scanCache' = [scanCache EXCEPT ![p] = files[t]]
            /\ UNCHANGED markerCache
       ELSE /\ markerCache' = [markerCache EXCEPT ![p] = [mark |-> mark[t], files |-> files[t]]]
            /\ UNCHANGED scanCache
    /\ pc' = [pc EXCEPT ![t] = "comparing"]
    /\ UNCHANGED <<source, clock, generation, store, published, lastCheck, gitSeen, lock,
                   forced, gen, pass, answer, asked, entered, history>>

-----------------------------------------------------------------------------
(* Publishing an index *)

\* The generation recorded as served is the one read before the files were
GenerationServed(t) == gen[t]

\* The call is over: what its pass read is dropped
Leave(t, result) ==
    /\ pc' = [pc EXCEPT ![t] = "idle"]
    /\ answer' = [answer EXCEPT ![t] = result]
    /\ mark' = [mark EXCEPT ![t] = NoMarker]
    /\ todo' = [todo EXCEPT ![t] = {}]
    /\ files' = [files EXCEPT ![t] = InitFiles]
    /\ load' = [load EXCEPT ![t] = DigestOf(InitFiles)]
    /\ entered' = [entered EXCEPT ![t] = 0]
    /\ UNCHANGED <<forced, gen, asked>>

\* Publish a snapshot, record the check and the generation, answer with the snapshot
Finish(t, snapshot) ==
    LET p == ProcOf[t] IN
    /\ published' = [published EXCEPT ![p] = snapshot]
    /\ lastCheck' = [lastCheck EXCEPT ![p] = IF Interval > 0 THEN clock ELSE Nothing]
    /\ gitSeen' = [gitSeen EXCEPT ![p] = GenerationServed(t)]
    /\ lock' = [lock EXCEPT ![p] = Nothing]
    /\ Leave(t, snapshot)

SameAsPublished(t) ==
    /\ published[ProcOf[t]] # Nothing
    /\ published[ProcOf[t]].mark = mark[t]
    /\ published[ProcOf[t]].files = files[t]

\* Nothing the service compares differs from what it published
Unchanged(t) == ~forced[t] /\ SameAsPublished(t)

KeepPublished(t) ==
    /\ pc[t] = "comparing"
    /\ Unchanged(t)
    /\ Finish(t, published[ProcOf[t]])
    /\ UNCHANGED <<source, clock, generation, store, scanCache, markerCache, history>>

\* A refresh never looks in the store
StoredIndex(t) ==
    IF forced[t] THEN Nothing ELSE store[StoreOf[ProcOf[t]]][KeyOf(t)]

\* projection_store.get finds a record under the digest of the signature
TakeStored(t) ==
    /\ pc[t] = "comparing"
    /\ ~Unchanged(t)
    /\ StoredIndex(t) # Nothing
    /\ Finish(t, [mark |-> mark[t], files |-> files[t], index |-> StoredIndex(t)])
    /\ UNCHANGED <<source, clock, generation, store, scanCache, markerCache, history>>

\* No record, or a durable store that cannot give one: load_wiki starts
StartLoad(t) ==
    /\ pc[t] = "comparing"
    /\ ~Unchanged(t)
    /\ StoredIndex(t) = Nothing \/ StoreOf[ProcOf[t]] \in Durable
    /\ pc' = [pc EXCEPT ![t] = "loading"]
    /\ todo' = [todo EXCEPT ![t] = Files]
    /\ UNCHANGED <<source, clock, generation, store, server, lock, forced, gen, mark, files,
                   load, answer, asked, entered, history>>

\* load_wiki reads the files again, after the signature was taken
LoadFile(t, f) ==
    /\ pc[t] = "loading"
    /\ f \in todo[t]
    /\ load' = [load EXCEPT ![t] = [@ EXCEPT ![f] = disk[f].data]]
    /\ todo' = [todo EXCEPT ![t] = @ \ {f}]
    /\ UNCHANGED <<source, clock, generation, store, server, lock, pc, forced, gen, mark, files,
                   answer, asked, entered, history>>

\* The new index is stored under the key of the earlier signature and published
Install(t) ==
    LET s == StoreOf[ProcOf[t]] IN
    /\ pc[t] = "loading"
    /\ todo[t] = {}
    /\ store' = [store EXCEPT ![s] = [@ EXCEPT ![KeyOf(t)] = load[t]]]
    /\ Finish(t, [mark |-> mark[t], files |-> files[t], index |-> load[t]])
    /\ UNCHANGED <<source, clock, generation, scanCache, markerCache, history>>

BuildFailsHoldingLock(t) ==
    /\ pc[t] = "loading"
    /\ Leave(t, Nothing)
    /\ UNCHANGED <<source, clock, generation, store, server, lock, history>>

\* load_wiki, project_wiki or a fail-fast store raises: the signature caches keep what the
\* scan found, but nothing is published and the generation is not recorded as served
BuildFails(t) ==
    /\ pc[t] = "loading"
    /\ Leave(t, Nothing)
    /\ lock' = [lock EXCEPT ![ProcOf[t]] = Nothing]
    /\ UNCHANGED <<source, clock, generation, store, server, history>>

-----------------------------------------------------------------------------
(* The environment: producers, the git syncer, time, restarts *)

\* What the properties remember of a change to the root
Remember ==
    /\ edits' = edits + 1
    /\ editedAt' = clock
    /\ hit' = {p \in Procs : lock[p] # Nothing}
    /\ raced' = (raced \/ \E p \in Procs : lock[p] # Nothing)
    /\ UNCHANGED movedAt

\* A producer (or the syncer's merge) rewrites a file, perhaps preserving its stat
Edit(f, d, keepStat) ==
    /\ edits < MaxEdits
    /\ d # disk[f].data \/ ~keepStat
    /\ disk' = [disk EXCEPT ![f] = [data |-> d, stamp |-> IF keepStat THEN @.stamp ELSE edits + 1]]
    /\ unmarked' = TRUE
    /\ Remember
    /\ UNCHANGED <<marker, clock, generation, store, server, lock, call>>

\* The stamp of a marker written now
NewMarker == OldMarker + edits + 1

\* The producer publishes: a new marker, or none
WriteMarker(m) ==
    /\ HasManifest
    /\ edits < MaxEdits
    /\ m \in {NoMarker, NewMarker} /\ m # marker
    /\ marker' = m
    /\ unmarked' = (m = NoMarker)
    /\ Remember
    /\ UNCHANGED <<disk, clock, generation, store, server, lock, call>>

\* A syncer thread counts the fast-forward that moved HEAD (see GitSync)
CountFastForward(p) ==
    /\ generation[p] < MaxMoves
    /\ generation' = [generation EXCEPT ![p] = @ + 1]
    /\ movedAt' = [movedAt EXCEPT ![p] = edits]
    /\ UNCHANGED <<source, clock, store, server, lock, call, editedAt, hit, raced, unmarked>>

Tick ==
    /\ Interval > 0
    /\ clock < MaxClock
    /\ clock' = clock + 1
    /\ UNCHANGED <<source, generation, store, server, lock, call, history>>

ResetCalls(p, v, default) == [t \in Threads |-> IF ProcOf[t] = p THEN default ELSE v[t]]

\* The process ends and starts again: only a durable store remembers
Restart(p) ==
    /\ generation' = [generation EXCEPT ![p] = 0]
    /\ published' = [published EXCEPT ![p] = Nothing]
    /\ scanCache' = [scanCache EXCEPT ![p] = Nothing]
    /\ markerCache' = [markerCache EXCEPT ![p] = Nothing]
    /\ lastCheck' = [lastCheck EXCEPT ![p] = Nothing]
    /\ gitSeen' = [gitSeen EXCEPT ![p] = 0]
    /\ lock' = [lock EXCEPT ![p] = Nothing]
    /\ pc' = ResetCalls(p, pc, "idle")
    /\ forced' = ResetCalls(p, forced, FALSE)
    /\ gen' = ResetCalls(p, gen, 0)
    /\ mark' = ResetCalls(p, mark, NoMarker)
    /\ todo' = ResetCalls(p, todo, {})
    /\ files' = ResetCalls(p, files, InitFiles)
    /\ load' = ResetCalls(p, load, DigestOf(InitFiles))
    /\ answer' = ResetCalls(p, answer, Nothing)
    /\ began' = ResetCalls(p, began, 0)
    /\ beganGen' = ResetCalls(p, beganGen, 0)
    /\ beganAt' = ResetCalls(p, beganAt, 0)
    /\ entered' = ResetCalls(p, entered, 0)
    /\ store' = IF StoreOf[p] \in Durable THEN store
                ELSE [store EXCEPT ![StoreOf[p]] = [k \in Index |-> Nothing]]
    /\ UNCHANGED <<source, clock, history>>

Step(t) ==
    \/ ReuseCachedIndex(t) \/ Acquire(t) \/ FallBackToFiles(t) \/ ReadMarker(t)
    \/ \E f \in Files : CheckFile(t, f) \/ ScanFile(t, f) \/ LoadFile(t, f)
    \/ EndCheck(t) \/ EndScan(t)
    \/ KeepPublished(t) \/ TakeStored(t) \/ StartLoad(t) \/ Install(t)

Environment ==
    \/ \E f \in Files, d \in Data, keepStat \in BOOLEAN : Edit(f, d, keepStat)
    \/ \E m \in {NoMarker, NewMarker} : WriteMarker(m)
    \/ \E p \in Procs : CountFastForward(p) \/ Restart(p)
    \/ Tick

Next ==
    \/ \E t \in Threads, r \in BOOLEAN : Start(t, r)
    \/ \E t \in Threads : Step(t) \/ BuildFails(t)
    \/ Environment

Spec == Init /\ [][Next]_vars

\* A thread that holds the lock keeps running; nothing is assumed of who gets the lock,
\* of producers, or of time
LiveSpec == Spec /\ \A t \in Threads : WF_vars(lock[ProcOf[t]] = t /\ Step(t))

-----------------------------------------------------------------------------
(* Properties *)

Served(t) == pc[t] = "idle" /\ answer[t] # Nothing
Quiet(t) == began[t] = edits

\* The variables keep the types declared above.
TypeOK ==
    /\ disk \in [Files -> FileState]
    /\ marker \in Nat /\ edits \in Nat /\ clock \in Nat
    /\ generation \in [Procs -> Nat]
    /\ store \in [Stores -> [Index -> Index \cup {Nothing}]]
    /\ published \in [Procs -> Published \cup {Nothing}]
    /\ scanCache \in [Procs -> [Files -> FileState] \cup {Nothing}]
    /\ markerCache \in [Procs -> Marked \cup {Nothing}]
    /\ lastCheck \in [Procs -> Nat \cup {Nothing}]
    /\ gitSeen \in [Procs -> Nat]
    /\ lock \in [Procs -> Threads \cup {Nothing}]
    /\ pc \in [Threads -> Phases]
    /\ forced \in [Threads -> BOOLEAN]
    /\ gen \in [Threads -> Nat]
    /\ mark \in [Threads -> Nat]
    /\ todo \in [Threads -> SUBSET Files]
    /\ files \in [Threads -> [Files -> FileState]]
    /\ load \in [Threads -> Index]
    /\ answer \in [Threads -> Published \cup {Nothing}]
    /\ began \in [Threads -> Nat]
    /\ beganGen \in [Threads -> Nat]
    /\ beganAt \in [Threads -> Nat]
    /\ entered \in [Threads -> Nat]
    /\ editedAt \in Nat
    /\ hit \subseteq Procs
    /\ raced \in BOOLEAN
    /\ unmarked \in BOOLEAN
    /\ movedAt \in [Procs -> Nat]

\* Freshness of the signature (FS-STRICT and FS-PRODUCER): when nothing was edited during a
\* call, and a present marker was written after the last content edit, the answer carries
\* the signature of the files that are on disk, whatever raced earlier calls.
FreshSignature ==
    \A t \in Threads :
        Served(t) /\ Quiet(t) /\ Interval = 0
            /\ (~HasManifest \/ marker = NoMarker \/ ~unmarked)
        => answer[t].files = disk

\* Explicit refresh (FL-070) and fast-forwards: a forced call during which nothing was edited
\* answers with the contents on disk, in every mode and whatever the stores hold.
ForcedReadsDisk ==
    \A t \in Threads :
        Served(t) /\ Quiet(t) /\ forced[t] => answer[t].index = DigestOf(disk)

\* No fast-forward is lost to a racing build, a failed build or a cached lookup: a call that
\* started after the syncer counted it, with no edit since the count, answers from the files
\* the fast-forward left, in every freshness mode.
FastForwardServed ==
    \A t \in Threads :
        LET p == ProcOf[t] IN
        Served(t) /\ beganGen[t] > 0 /\ beganGen[t] = generation[p]
            /\ movedAt[p] = edits
        => answer[t].index = DigestOf(disk)

\* Visibility delay: Interval ticks after an edit that no check of the process overlapped, a
\* call answers with the current signature, whether it reused the cached index or not, unless
\* a marker written before the last content edit hides that edit.
IntervalVisibility ==
    \A t \in Threads :
        Served(t) /\ Quiet(t)
            /\ (~HasManifest \/ marker = NoMarker \/ ~unmarked)
            /\ beganAt[t] >= editedAt + Interval
            /\ ProcOf[t] \notin hit
        => answer[t].files = disk

\* Content freshness holds as long as no edit has ever landed inside a check or build: a call
\* during which nothing was edited then answers with the contents on disk, also from a store
\* that other processes filled or that outlived a restart.
StrictFreshnessUnlessRaced ==
    \A t \in Threads :
        Served(t) /\ Quiet(t) /\ Interval = 0 /\ ~HasManifest /\ ~raced
        => answer[t].index = DigestOf(disk)

\* The requirement of the freshness test matrix (FL-020, FS-STRICT and FS-REDIS): an edit that
\* is over before a request starts is visible to that request.
StrictFreshness ==
    \A t \in Threads :
        Served(t) /\ Quiet(t) /\ Interval = 0 /\ ~HasManifest
        => answer[t].index = DigestOf(disk)

\* A build ends however often producers edit the root while it runs: the index lock is
\* always released.
LockReleased == \A p \in Procs : lock[p] # Nothing ~> lock[p] = Nothing

=============================================================================
