----------------------------- MODULE VectorCache -----------------------------
(***************************************************************************)
(* The vector indexes of semantic search: VectorIndexCache (vector.py)     *)
(* keeps them on disk, where the processes that serve one root share them, *)
(* and LlmWikiService._loaded_vector_index keeps those a process loaded in *)
(* memory, under the address (Python's id) of the WikiIndex they are for.  *)
(*                                                                         *)
(* A cold lookup takes the service's lock, reads or makes the salt, reads  *)
(* the record of its identity, and builds it under a lock file it creates  *)
(* exclusively.  A lock file whose owner no longer runs is judged stale    *)
(* and removed, in two steps; a process may end between any two.  The      *)
(* visibility scope and the provider are part of Contents.                 *)
(***************************************************************************)
EXTENDS Naturals, FiniteSets

CONSTANTS
    Procs,        \* the processes that share the cache directory
    Requests,     \* request threads, which search one time after another
    ProcOf,       \* the process of a thread
    Addresses,    \* where an index object may be allocated
    Digests,      \* projection signature digests
    Contents,     \* what the pages of an index may hold
    FirstIndex,   \* the index every process starts with
    MaxSalts,     \* bound: salts made
    MaxFaults,    \* bound: crashes, failed reads, writes, embeddings and unlinks
    MaxRefreshes, \* bound: indexes published, per process
    SaltLock,     \* the file salt.lock
    None          \* Python's None, a file that is not there

\* A WikiIndex: its id, the digest of its projection signature, and its pages.  A build raced
\* by an edit may carry a digest that is not of its pages.
IndexObject == [addr : Addresses, digest : Digests, pages : Contents]
Salts == 1..MaxSalts
\* VectorIndexCache.identity, which names the record directory
Identity == [salt : Salts, digest : Digests, pages : Contents]
LockFiles == {SaltLock} \cup Identity
\* The owner of a lock file that no longer runs, or that the file does not name
Gone == "gone"
LockFile == [owner : Requests \cup {Gone}, aged : BOOLEAN]
Parts == {"vectors", "metadata", "manifest"}
\* An entry of _loaded_vector_indexes: its key, and the pages its vectors are of
Entry == [addr : Addresses, digest : Digests, pages : Contents]

ASSUME VectorAssumption ==
    /\ ProcOf \in [Requests -> Procs]
    /\ FirstIndex \in IndexObject
    /\ MaxSalts \in Nat
    /\ MaxRefreshes \in [Procs -> Nat]
    /\ Gone \notin Requests
    /\ SaltLock \notin Identity
    /\ None \notin Requests
    /\ None \notin Salts
    /\ None \notin LockFiles
    /\ None \notin Contents
    /\ None \notin IndexObject
    /\ None \notin LockFile

VARIABLES
    \* each process: LlmWikiService
    current,   \* the published index
    incoming,  \* the index a refresh is publishing under _index_lock
    loaded,    \* _loaded_vector_indexes
    holder,    \* the request that holds _loaded_vector_indexes_lock
    \* the cache directory
    salt,      \* salt.json
    lock,      \* salt.lock and the build.lock of each record
    written,   \* the files of each record
    \* each request
    at,
    index,     \* the index of its snapshot
    mine,      \* the salt it read or made
    file,      \* the lock file it wants or holds
    got,       \* the pages its vectors are of
    \* bounds
    made, faults, refreshes,
    \* history, which the properties use and no step reads
    robbed,    \* whether the lock file of a running request was ever removed by another
    blind      \* whether a read ever failed on a file that was there

service == <<current, incoming, loaded, holder>>
disk == <<salt, lock, written>>
request == <<at, index, mine, file, got>>
bounds == <<made, faults, refreshes>>
vars == <<service, disk, request, bounds, robbed, blind>>

Ended == {"served", "failed", "dead"}
Building == {"embed", "vectors", "metadata", "manifest"}
Inside == {"reread", "mint", "release"} \cup Building
Phases == {"idle", "asked", "salt", "lookup", "try", "clear", "store", "busy"}
          \cup Inside \cup Ended

Init ==
    /\ current = [p \in Procs |-> FirstIndex]
    /\ incoming = [p \in Procs |-> None]
    /\ loaded = [p \in Procs |-> {}]
    /\ holder = [p \in Procs |-> None]
    /\ salt = None
    /\ lock = [f \in LockFiles |-> None]
    /\ written = {}
    /\ at = [r \in Requests |-> "idle"]
    /\ index = [r \in Requests |-> None]
    /\ mine = [r \in Requests |-> None]
    /\ file = [r \in Requests |-> None]
    /\ got = [r \in Requests |-> None]
    /\ made = 0 /\ faults = 0 /\ refreshes = [p \in Procs |-> 0]
    /\ robbed = FALSE /\ blind = FALSE

RecordOf(r) == [salt |-> mine[r], digest |-> index[r].digest, pages |-> index[r].pages]
Published(id) == <<id, "manifest">> \in written
\* A failed read, write or embedding
Fault == faults < MaxFaults /\ faults' = faults + 1
NoFault == UNCHANGED faults
Goes(r, phase) == at' = [at EXCEPT ![r] = phase]
\* Leaving `with self._loaded_vector_indexes_lock`, by return or by an exception
Leaves(r, phase) == Goes(r, phase) /\ holder' = [holder EXCEPT ![ProcOf[r]] = None]
\* lock_path.unlink(), whoever created the file that is there
Unlink(f, r) ==
    /\ lock' = [lock EXCEPT ![f] = None]
    /\ robbed' = (robbed \/ (lock[f] # None /\ lock[f].owner \notin {r, Gone}))
\* An unlink may fail, as on a file that another process has open or in a directory that was
\* made read-only
UnlinkFails(f) == lock[f] # None /\ Fault /\ UNCHANGED <<lock, robbed>>
\* How reading a file ends that is `there` or not: a read may also fail
Found(there) == there /\ NoFault /\ UNCHANGED blind
Missed(there) ==
    \/ ~there /\ NoFault /\ UNCHANGED blind
    \/ there /\ Fault /\ blind' = TRUE

(***************************************************************************)
(* A search in its process.                                                *)
(***************************************************************************)

\* _index_snapshot: under _index_lock, which a refresh holds while it publishes
Ask(r) ==
    /\ at[r] = "idle" /\ incoming[ProcOf[r]] = None
    /\ index' = [index EXCEPT ![r] = current[ProcOf[r]]]
    /\ Goes(r, "asked")
    /\ UNCHANGED <<service, disk, mine, file, got, bounds, robbed, blind>>

Hits(r) == {e \in loaded[ProcOf[r]] : e.addr = index[r].addr /\ e.digest = index[r].digest}

TakeLoaded(r) ==
    /\ at[r] = "asked" /\ holder[ProcOf[r]] = None
    /\ \E e \in Hits(r) : got' = [got EXCEPT ![r] = e.pages]
    /\ Goes(r, "served")
    /\ UNCHANGED <<service, disk, index, mine, file, bounds, robbed, blind>>

MissLoaded(r) ==
    /\ at[r] = "asked" /\ holder[ProcOf[r]] = None /\ Hits(r) = {}
    /\ holder' = [holder EXCEPT ![ProcOf[r]] = r]
    /\ Goes(r, "salt")
    /\ UNCHANGED <<current, incoming, loaded, disk, index, mine, file, got, bounds, robbed, blind>>

Store(r) ==
    /\ at[r] = "store"
    /\ loaded' = [loaded EXCEPT ![ProcOf[r]] = @ \cup
                    {[addr |-> index[r].addr, digest |-> index[r].digest, pages |-> got[r]]}]
    /\ Leaves(r, "served")
    /\ UNCHANGED <<current, incoming, disk, index, mine, file, got, bounds, robbed, blind>>

\* The thread serves its next search, or repeats one the cache was too busy for
Again(r) ==
    /\ at[r] \in Ended \cup {"busy"}
    /\ Goes(r, "idle")
    /\ index' = [index EXCEPT ![r] = None]
    /\ mine' = [mine EXCEPT ![r] = None]
    /\ file' = [file EXCEPT ![r] = None]
    /\ got' = [got EXCEPT ![r] = None]
    /\ UNCHANGED <<service, disk, bounds, robbed, blind>>

(***************************************************************************)
(* load_or_build: the salt, then the record of the identity.               *)
(***************************************************************************)

ReadSalt(r) ==
    /\ at[r] = "salt"
    /\ \/ /\ Found(salt # None)
          /\ mine' = [mine EXCEPT ![r] = salt]
          /\ Goes(r, "lookup")
          /\ UNCHANGED file
       \/ /\ Missed(salt # None)
          /\ file' = [file EXCEPT ![r] = SaltLock]
          /\ Goes(r, "try")
          /\ UNCHANGED mine
    /\ UNCHANGED <<service, disk, index, got, made, refreshes, robbed>>

Lookup(r) ==
    /\ at[r] = "lookup"
    /\ \/ /\ Found(Published(RecordOf(r)))
          /\ got' = [got EXCEPT ![r] = index[r].pages]
          /\ Goes(r, "store")
          /\ UNCHANGED file
       \/ /\ Missed(Published(RecordOf(r)))
          /\ file' = [file EXCEPT ![r] = RecordOf(r)]
          /\ Goes(r, "try")
          /\ UNCHANGED got
    /\ UNCHANGED <<service, disk, index, mine, made, refreshes, robbed>>

(***************************************************************************)
(* vector_cache_lock.                                                      *)
(***************************************************************************)

\* os.open(O_CREAT | O_EXCL), and the pid written into the file.  When that write fails the
\* file stays, and names nobody.
Create(r) ==
    /\ at[r] = "try" /\ lock[file[r]] = None
    /\ \/ /\ lock' = [lock EXCEPT ![file[r]] = [owner |-> r, aged |-> FALSE]]
          /\ Goes(r, "reread")
          /\ NoFault /\ UNCHANGED holder
       \/ /\ lock' = [lock EXCEPT ![file[r]] = [owner |-> Gone, aged |-> FALSE]]
          /\ Leaves(r, "failed")
          /\ Fault
    /\ UNCHANGED <<current, incoming, loaded, salt, written, index, mine, file, got, made,
                   refreshes, robbed, blind>>

\* Until the deadline it sleeps and tries again; then it raises "vector cache is busy"
Waits(r) ==
    \/ Goes(r, "try") /\ UNCHANGED holder
    \/ Leaves(r, "busy")

\* Mutant: a file that names no running owner is taken for one being written
StaleNamed(l) == l # None /\ l.aged /\ l.owner \in Requests

Stale(l) == l # None /\ l.aged /\ l.owner = Gone

\* remove_stale_lock, up to its verdict: lock_owner_is_running takes a file it cannot read for
\* one that names nobody
JudgeStale(r) ==
    /\ at[r] = "try"
    /\ \/ Stale(lock[file[r]]) /\ NoFault
       \/ lock[file[r]] # None /\ lock[file[r]].aged /\ Fault
    /\ Goes(r, "clear")
    /\ UNCHANGED <<service, disk, index, mine, file, got, made, refreshes, robbed, blind>>

\* A file whose age it cannot read is left alone
JudgeLive(r) ==
    /\ at[r] = "try" /\ lock[file[r]] # None
    /\ \/ ~Stale(lock[file[r]]) /\ NoFault
       \/ Stale(lock[file[r]]) /\ Fault
    /\ Waits(r)
    /\ UNCHANGED <<current, incoming, loaded, disk, index, mine, file, got, made, refreshes,
                   robbed, blind>>

\* remove_stale_lock unlinks the path it judged, whatever is there now, and gives up when that
\* fails
ClearStale(r) ==
    /\ at[r] = "clear"
    /\ \/ Unlink(file[r], r) /\ NoFault
       \/ UnlinkFails(file[r])
    /\ Waits(r)
    /\ UNCHANGED <<current, incoming, loaded, salt, written, index, mine, file, got, made,
                   refreshes, blind>>

\* Where a request goes on that left the lock
GoesOn(r) ==
    \/ got[r] # None /\ Goes(r, "store") /\ UNCHANGED holder
    \/ /\ got[r] = None /\ file[r] = SaltLock /\ mine[r] # None
       /\ Goes(r, "lookup") /\ UNCHANGED holder
    \/ /\ got[r] = None /\ (file[r] = SaltLock => mine[r] = None)
       /\ Leaves(r, "failed")

\* The `finally` of the lock, which only a file that is gone does not stop: any other failure
\* ends the search, and the file stays with the name of a process that runs
Release(r) ==
    /\ at[r] = "release"
    /\ \/ Unlink(file[r], r) /\ NoFault /\ GoesOn(r)
       \/ UnlinkFails(file[r]) /\ Leaves(r, "failed")
    /\ file' = [file EXCEPT ![r] = None]
    /\ UNCHANGED <<current, incoming, loaded, salt, written, index, mine, got, made, refreshes,
                   blind>>

(***************************************************************************)
(* Under the lock.                                                         *)
(***************************************************************************)

RereadSalt(r) ==
    /\ at[r] = "reread" /\ file[r] = SaltLock
    /\ \/ /\ Found(salt # None)
          /\ mine' = [mine EXCEPT ![r] = salt]
          /\ Goes(r, "release")
       \/ /\ Missed(salt # None)
          /\ Goes(r, "mint")
          /\ UNCHANGED mine
    /\ UNCHANGED <<service, disk, index, file, got, made, refreshes, robbed>>

\* secrets.token_hex, and atomic_json_write of salt.json
Mint(r) ==
    /\ at[r] = "mint"
    /\ \/ /\ made < MaxSalts
          /\ made' = made + 1
          /\ salt' = made + 1
          /\ mine' = [mine EXCEPT ![r] = made + 1]
          /\ NoFault
       \/ Fault /\ UNCHANGED <<salt, mine, made>>
    /\ Goes(r, "release")
    /\ UNCHANGED <<service, lock, written, index, file, got, refreshes, robbed, blind>>

RereadRecord(r) ==
    /\ at[r] = "reread" /\ file[r] # SaltLock
    /\ \/ /\ Found(Published(RecordOf(r)))
          /\ got' = [got EXCEPT ![r] = index[r].pages]
          /\ Goes(r, "release")
       \/ /\ Missed(Published(RecordOf(r)))
          /\ Goes(r, "embed")
          /\ UNCHANGED got
    /\ UNCHANGED <<service, disk, index, mine, file, made, refreshes, robbed>>

Embed(r) ==
    /\ at[r] = "embed"
    /\ \/ NoFault /\ Goes(r, "vectors")
       \/ Fault /\ Goes(r, "release")
    /\ UNCHANGED <<service, disk, index, mine, file, got, made, refreshes, robbed, blind>>

\* _publish replaces one file at a time, the manifest last
After == [vectors |-> "metadata", metadata |-> "manifest", manifest |-> "release"]

Publish(r) ==
    /\ at[r] \in Parts
    /\ \/ /\ written' = written \cup {<<RecordOf(r), at[r]>>}
          /\ Goes(r, After[at[r]])
          /\ got' = IF at[r] = "manifest" THEN [got EXCEPT ![r] = index[r].pages] ELSE got
          /\ NoFault
       \/ Fault /\ Goes(r, "release") /\ UNCHANGED <<written, got>>
    /\ UNCHANGED <<service, salt, lock, index, mine, file, made, refreshes, robbed, blind>>

(***************************************************************************)
(* A refresh publishes an index: _publish_index_snapshot, under            *)
(* _index_lock, waits for the lock of the loaded vectors to clear them.    *)
(***************************************************************************)

Running(r) == at[r] \notin Ended \cup {"idle", "busy"}

Live(p) == {current[p]} \cup {index[r] : r \in {q \in Requests : ProcOf[q] = p /\ Running(q)}}

\* An object keeps its address while the service or a running request refers to it; the
\* projection store may return one that is in use
Build(p) ==
    /\ incoming[p] = None /\ refreshes[p] < MaxRefreshes[p]
    /\ refreshes' = [refreshes EXCEPT ![p] = @ + 1]
    /\ \E i \in IndexObject :
          /\ \A o \in Live(p) : o.addr = i.addr => o = i
          /\ incoming' = [incoming EXCEPT ![p] = i]
    /\ UNCHANGED <<current, loaded, holder, disk, request, made, faults, robbed, blind>>

\* Mutant: the loaded vectors are not cleared
PublishOverLoaded(p) ==
    /\ incoming[p] # None /\ holder[p] = None
    /\ current' = [current EXCEPT ![p] = incoming[p]]
    /\ incoming' = [incoming EXCEPT ![p] = None]
    /\ UNCHANGED <<loaded, holder, disk, request, bounds, robbed, blind>>

PublishIndex(p) ==
    /\ incoming[p] # None /\ holder[p] = None
    /\ current' = [current EXCEPT ![p] = incoming[p]]
    /\ incoming' = [incoming EXCEPT ![p] = None]
    /\ loaded' = [loaded EXCEPT ![p] = {}]
    /\ UNCHANGED <<holder, disk, request, bounds, robbed, blind>>

(***************************************************************************)
(* The environment.                                                        *)
(***************************************************************************)

Orphan(l, p) == l # None /\ l.owner # Gone /\ ProcOf[l.owner] = p

\* A process ends and is started again; its lock files stay
Crash(p) ==
    /\ Fault
    /\ incoming' = [incoming EXCEPT ![p] = None]
    /\ loaded' = [loaded EXCEPT ![p] = {}]
    /\ holder' = [holder EXCEPT ![p] = None]
    /\ lock' = [f \in LockFiles |->
                  IF Orphan(lock[f], p) THEN [lock[f] EXCEPT !.owner = Gone] ELSE lock[f]]
    /\ at' = [r \in Requests |->
                IF ProcOf[r] = p /\ Running(r) THEN "dead" ELSE at[r]]
    /\ UNCHANGED <<current, salt, written, index, mine, file, got, made, refreshes, robbed, blind>>

\* VECTOR_LOCK_STALE_SECONDS go by
Age(f) ==
    /\ lock[f] # None /\ ~lock[f].aged
    /\ lock' = [lock EXCEPT ![f].aged = TRUE]
    /\ UNCHANGED <<service, salt, written, request, bounds, robbed, blind>>

Search(r) ==
    \/ Ask(r) \/ TakeLoaded(r) \/ MissLoaded(r) \/ Store(r) \/ Again(r)
    \/ ReadSalt(r) \/ Lookup(r)
    \/ Create(r) \/ JudgeStale(r) \/ JudgeLive(r) \/ ClearStale(r) \/ Release(r)
    \/ RereadSalt(r) \/ Mint(r) \/ RereadRecord(r) \/ Embed(r) \/ Publish(r)

Next ==
    \/ \E r \in Requests : Search(r)
    \/ \E p \in Procs : Build(p) \/ PublishIndex(p) \/ Crash(p)
    \/ \E f \in LockFiles : Age(f)

Spec == Init /\ [][Next]_vars

\* A thread runs on, time passes, and a client retries
Fairness ==
    /\ \A r \in Requests : WF_vars(Search(r))
    /\ \A p \in Procs : WF_vars(PublishIndex(p))
    /\ \A f \in LockFiles : WF_vars(Age(f))

LiveSpec == Spec /\ Fairness

(***************************************************************************)
(* Properties.                                                             *)
(***************************************************************************)

\* The processes, the cache directory and the requests are well formed.
TypeOK ==
    /\ current \in [Procs -> IndexObject]
    /\ incoming \in [Procs -> IndexObject \cup {None}]
    /\ loaded \in [Procs -> SUBSET Entry]
    /\ holder \in [Procs -> Requests \cup {None}]
    /\ salt \in Salts \cup {None}
    /\ lock \in [LockFiles -> LockFile \cup {None}]
    /\ written \subseteq Identity \X Parts
    /\ at \in [Requests -> Phases]
    /\ index \in [Requests -> IndexObject \cup {None}]
    /\ mine \in [Requests -> Salts \cup {None}]
    /\ file \in [Requests -> LockFiles \cup {None}]
    /\ got \in [Requests -> Contents \cup {None}]
    /\ made \in Nat /\ faults \in Nat /\ refreshes \in [Procs -> Nat]
    /\ robbed \in BOOLEAN /\ blind \in BOOLEAN

\* A search answers with the vectors of the pages of its snapshot: the loaded vectors are
\* found by the address of the index object, which a later index may be given, and by a
\* digest that two indexes may share.
VectorsOfSnapshot == \A r \in Requests : at[r] = "served" => got[r] = index[r].pages

\* Two searches, of any processes, are never inside the same lock: one builds a record at a
\* time, and one makes the salt.
OneBuilder ==
    \A r, q \in Requests : r # q /\ at[r] \in Inside /\ at[q] \in Inside => file[r] # file[q]

\* The lock file of a running search is never taken from it, which judging a lock stale and
\* removing it in two steps does not promise; until then a lock has one holder.
OneBuilderUnlessRobbed == robbed \/ OneBuilder

\* No record is embedded again while it is published, and once the salt is made it stays, so
\* that the records made under it are found: unless a read failed or a lock was robbed.
NoRebuild ==
    robbed \/ blind \/
        \A r \in Requests : at[r] \in Building => ~Published(RecordOf(r))

SaltStays == salt # None => salt' = salt \/ robbed \/ blind
SaltKept == [][SaltStays]_vars

\* A manifest is never there before the sidecars it names: whatever ends between two files
\* leaves a record that is not published.
PublishedIsWhole ==
    \A id \in Identity : Published(id) => \A part \in Parts : <<id, part>> \in written

\* A lock file that names a running process of which no request is inside the lock: its removal
\* failed, and it is never stale
Abandoned(f) ==
    /\ f # None /\ lock[f] # None /\ lock[f].owner # Gone
    /\ ~(at[lock[f].owner] \in Inside /\ file[lock[f].owner] = f)

\* A search the cache was too busy for is served when its client keeps trying, whatever
\* process ended while it held the lock, and whatever lock file could not be judged or removed;
\* unless the search itself fails, its process ends, or what it waits for is the file a
\* running process could not remove.
BusyIsRetryable ==
    \A r \in Requests : at[r] = "busy" ~> (at[r] \in Ended \/ Abandoned(file[r]))

=============================================================================
