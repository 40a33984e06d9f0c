---------------------------- MODULE ManagedSidecar ----------------------------
(***************************************************************************)
(* The managed-context sidecar (managed_context.py): searches of several   *)
(* threads and processes read a record of page hits to rank results, then  *)
(* count what they returned.  The secret for page keys and the record are  *)
(* files replaced as a whole, each under an in-process lock and a lock     *)
(* directory, which a process that crashes leaves behind for ever.         *)
(*                                                                         *)
(* One namespace and one scope: searches of other projections have records *)
(* of their own and share only the secret.                                 *)
(***************************************************************************)
EXTENDS HitRecord

CONSTANTS
    Procs, Threads,  \* service processes and the request threads in them
    Pages,           \* pages of the projection
    Salts,           \* what secrets.token_hex may return
    KeyOf,           \* opaque_page_key: secret and page to key
    NoSalt,          \* Python's None
    Nothing,
    MaxSearches,     \* bound: searches made during a behaviour
    MaxFaults,       \* bound: file operations that fail
    MaxBlind,        \* bound: reads that fail under a lock
    MaxCrashes       \* bound: processes killed

ASSUME SidecarAssumption ==
    /\ KeyOf \in [Salts -> [Pages -> Keys]]
    /\ \A s1, s2 \in Salts, q1, q2 \in Pages :
        KeyOf[s1][q1] = KeyOf[s2][q2] => s1 = s2 /\ q1 = q2
    /\ NoSalt \notin Salts
    /\ Nothing \notin Threads
    /\ {MaxSearches, MaxFaults, MaxBlind, MaxCrashes} \subseteq Nat

Paths == {"salt", "record"}

VARIABLES
    \* the state directory
    salt,        \* salt.json
    record,      \* the record file of the scope
    lockDir,     \* path -> whether its lock directory exists
    stale,       \* path -> whether that directory is SIDECAR_LOCK_STALE_SECONDS old
    clock,       \* time.time
    \* the processes
    procOf,      \* the process of each thread
    mutex,       \* the holder of path_lock, per process and path
    \* the searches
    pc,
    path,        \* the file the search locks, or last locked
    now,         \* managed_now, read when the search started
    pages,       \* the pages it returned
    secret,      \* the secret it found or made
    current,     \* the record update_hits has read
    boosted,     \* the pages managed context raised in its ranking
    \* history, which the properties use and no step reads
    used,        \* salts generated so far
    returned,    \* the pages any search has returned
    blind,       \* whether a read under a lock ever missed the file that was there
    \* how much of each bound is used up
    searches, faults, blinds, crashes

files == <<salt, record>>
locks == <<lockDir, stale, mutex>>
held == <<now, pages>>
search == <<path, held, secret, current, boosted>>
bounds == <<searches, faults, blinds, crashes>>
history == <<used, returned, blind>>
vars == <<files, locks, clock, procOf, pc, search, history, bounds>>

Inside == {"read", "make", "write", "release"}
Phases == {"idle", "ranking", "prior", "hits", "secret", "queue", "mkdir"} \cup Inside

Init ==
    /\ salt = NoSalt
    /\ record = NoRecord
    /\ lockDir = [f \in Paths |-> FALSE]
    /\ stale = [f \in Paths |-> FALSE]
    /\ clock = 0
    /\ procOf \in [Threads -> Procs]
    /\ mutex = [p \in Procs |-> [f \in Paths |-> Nothing]]
    /\ pc = [t \in Threads |-> "idle"]
    /\ path = [t \in Threads |-> "record"]
    /\ now = [t \in Threads |-> 0]
    /\ pages = [t \in Threads |-> {}]
    /\ secret = [t \in Threads |-> NoSalt]
    /\ current = [t \in Threads |-> NoRecord]
    /\ boosted = [t \in Threads |-> {}]
    /\ used = {}
    /\ returned = {}
    /\ blind = FALSE
    /\ searches = 0
    /\ faults = 0
    /\ blinds = 0
    /\ crashes = 0

-----------------------------------------------------------------------------
(* Reading the prior *)

\* What is left of a search once it has answered
Forgets(t) ==
    /\ pc' = [pc EXCEPT ![t] = "idle"]
    /\ path' = [path EXCEPT ![t] = "record"]
    /\ now' = [now EXCEPT ![t] = 0]
    /\ pages' = [pages EXCEPT ![t] = {}]
    /\ secret' = [secret EXCEPT ![t] = NoSalt]
    /\ current' = [current EXCEPT ![t] = NoRecord]
    /\ boosted' = [boosted EXCEPT ![t] = {}]

\* A read of a file that may fail, which reads as a file that is not there
Reads(value, none, result) ==
    \/ result = value /\ UNCHANGED faults
    \/ result = none /\ faults < MaxFaults /\ faults' = faults + 1

StartSearch(t, found) ==
    /\ pc[t] = "idle"
    /\ searches < MaxSearches
    /\ searches' = searches + 1
    /\ pc' = [pc EXCEPT ![t] = "ranking"]
    /\ now' = [now EXCEPT ![t] = clock]
    /\ pages' = [pages EXCEPT ![t] = found]
    /\ UNCHANGED <<files, locks, clock, procOf, path, secret, current, boosted, history,
                   faults, blinds, crashes>>

\* prior: without a secret nothing is boosted
ReadSalt(t) ==
    /\ pc[t] = "ranking"
    /\ \E found \in Salts \cup {NoSalt} :
        /\ Reads(salt, NoSalt, found)
        /\ secret' = [secret EXCEPT ![t] = found]
        /\ pc' = [pc EXCEPT ![t] = IF found = NoSalt THEN "hits" ELSE "prior"]
        /\ returned' = IF found = NoSalt THEN returned \cup pages[t] ELSE returned
    /\ UNCHANGED <<files, locks, clock, procOf, path, held, current, boosted, used, blind,
                   searches, blinds, crashes>>

\* A record that is locked or cannot be read boosts nothing
ReadPrior(t) ==
    /\ pc[t] = "prior"
    /\ \E found \in {record, NoRecord} :
        /\ IF lockDir["record"] THEN found = NoRecord /\ UNCHANGED faults
           ELSE Reads(record, NoRecord, found)
        /\ boosted' = [boosted EXCEPT ![t] =
                        {p \in Pages : Boosts(found, KeyOf[secret[t]][p], now[t])}]
    /\ pc' = [pc EXCEPT ![t] = "hits"]
    /\ returned' = returned \cup pages[t]
    /\ UNCHANGED <<files, locks, clock, procOf, path, held, secret, current, used, blind,
                   searches, blinds, crashes>>

-----------------------------------------------------------------------------
(* Counting hits *)

\* record_hits gives up on a stale lock at once, before it looks for the secret
SkipHits(t) ==
    /\ pc[t] = "hits"
    /\ (pages[t] # {}) => stale["record"]
    /\ Forgets(t)
    /\ UNCHANGED <<files, locks, clock, procOf, history, bounds>>

RecordHits(t) ==
    /\ pc[t] = "hits"
    /\ pages[t] # {}
    /\ ~stale["record"]
    /\ pc' = [pc EXCEPT ![t] = "secret"]
    /\ UNCHANGED <<files, locks, clock, procOf, search, history, bounds>>

\* secret(create=True), without the lock
FindSecret(t) ==
    /\ pc[t] = "secret"
    /\ \E found \in Salts \cup {NoSalt} :
        /\ Reads(salt, NoSalt, found)
        /\ secret' = [secret EXCEPT ![t] = found]
        /\ path' = [path EXCEPT ![t] = IF found = NoSalt THEN "salt" ELSE "record"]
    /\ pc' = [pc EXCEPT ![t] = "queue"]
    /\ UNCHANGED <<files, locks, clock, procOf, held, current, boosted, history, searches,
                   blinds, crashes>>

-----------------------------------------------------------------------------
(* sidecar_file_lock *)

TakeMutex(t) ==
    /\ pc[t] = "queue"
    /\ mutex[procOf[t]][path[t]] = Nothing
    /\ mutex' = [mutex EXCEPT ![procOf[t]][path[t]] = t]
    /\ pc' = [pc EXCEPT ![t] = "mkdir"]
    /\ UNCHANGED <<files, lockDir, stale, clock, procOf, search, history, bounds>>

MakeLockDir(t) ==
    /\ pc[t] = "mkdir"
    /\ ~lockDir[path[t]]
    /\ lockDir' = [lockDir EXCEPT ![path[t]] = TRUE]
    /\ stale' = [stale EXCEPT ![path[t]] = FALSE]
    /\ pc' = [pc EXCEPT ![t] = "read"]
    /\ UNCHANGED <<files, mutex, clock, procOf, search, history, bounds>>

\* Waiting for a lock directory however old it is
GiveUpOnErrors(t) ==
    /\ pc[t] = "mkdir"
    /\ ~lockDir[path[t]]
    /\ faults < MaxFaults /\ faults' = faults + 1
    /\ mutex' = [mutex EXCEPT ![procOf[t]][path[t]] = Nothing]
    /\ Forgets(t)
    /\ UNCHANGED <<files, lockDir, stale, clock, procOf, history, searches, blinds, crashes>>

Unlock(t) == mutex' = [mutex EXCEPT ![procOf[t]][path[t]] = Nothing]

\* A lock directory that exists and is stale, or still exists after
\* SIDECAR_LOCK_TIMEOUT_SECONDS; or mkdir fails in another way until then
GiveUp(t) ==
    /\ pc[t] = "mkdir"
    /\ IF lockDir[path[t]] THEN UNCHANGED faults
       ELSE faults < MaxFaults /\ faults' = faults + 1
    /\ Unlock(t)
    /\ Forgets(t)
    /\ UNCHANGED <<files, lockDir, stale, clock, procOf, history, searches, blinds, crashes>>

\* After the salt comes the record; after the record, or without a secret, the search ends
Proceeds(t) ==
    IF path[t] = "salt" /\ secret[t] # NoSalt
    THEN /\ pc' = [pc EXCEPT ![t] = "queue"]
         /\ path' = [path EXCEPT ![t] = "record"]
         /\ UNCHANGED <<held, secret, current, boosted>>
    ELSE Forgets(t)

Release(t) ==
    /\ pc[t] = "release"
    /\ lockDir' = [lockDir EXCEPT ![path[t]] = FALSE]
    /\ stale' = [stale EXCEPT ![path[t]] = FALSE]
    /\ Unlock(t)
    /\ Proceeds(t)
    /\ UNCHANGED <<files, clock, procOf, history, bounds>>

\* rmdir fails: the directory stays, and the error ends record_hits
ReleaseFails(t) ==
    /\ pc[t] = "release"
    /\ faults < MaxFaults
    /\ faults' = faults + 1
    /\ Unlock(t)
    /\ Forgets(t)
    /\ UNCHANGED <<files, lockDir, stale, clock, procOf, history, searches, blinds, crashes>>

-----------------------------------------------------------------------------
(* Under the lock *)

\* A read that misses a file that is there, which its caller takes for no file
Missed(value, result) ==
    /\ blind' = (blind \/ result # value)
    /\ blinds' = IF result # value THEN blinds + 1 ELSE blinds
    /\ blinds' <= MaxBlind

\* secret, once more
FindSecretAgain(t) ==
    /\ pc[t] = "read"
    /\ path[t] = "salt"
    /\ \E found \in {salt, NoSalt} :
        /\ Missed(salt, found)
        /\ secret' = [secret EXCEPT ![t] = found]
        /\ pc' = [pc EXCEPT ![t] = IF found = NoSalt THEN "make" ELSE "release"]
    /\ UNCHANGED <<files, locks, clock, procOf, path, held, current, boosted, used, returned,
                   searches, faults, crashes>>

MakeSalt(t, new) ==
    /\ pc[t] = "make"
    /\ new \notin used
    /\ salt' = new
    /\ used' = used \cup {new}
    /\ secret' = [secret EXCEPT ![t] = new]
    /\ pc' = [pc EXCEPT ![t] = "release"]
    /\ UNCHANGED <<record, locks, clock, procOf, path, held, current, boosted, returned, blind,
                   bounds>>

ReadRecord(t) ==
    /\ pc[t] = "read"
    /\ path[t] = "record"
    /\ \E found \in {record, NoRecord} :
        /\ Missed(record, found)
        /\ current' = [current EXCEPT ![t] = found]
    /\ pc' = [pc EXCEPT ![t] = "write"]
    /\ UNCHANGED <<files, locks, clock, procOf, path, held, secret, boosted, used, returned,
                   searches, faults, crashes>>

PageKeys(t) == {KeyOf[secret[t]][p] : p \in pages[t]}

WriteRecord(t) ==
    /\ pc[t] = "write"
    /\ record' = Updated(current[t], PageKeys(t), now[t])
    /\ pc' = [pc EXCEPT ![t] = "release"]
    /\ UNCHANGED <<salt, locks, clock, procOf, search, history, bounds>>

\* The temporary file cannot be written or put in place
WriteFails(t) ==
    /\ pc[t] \in {"make", "write"}
    /\ faults < MaxFaults
    /\ faults' = faults + 1
    /\ pc' = [pc EXCEPT ![t] = "release"]
    /\ UNCHANGED <<files, locks, clock, procOf, search, history, searches, blinds, crashes>>

-----------------------------------------------------------------------------
(* The environment *)

\* SIDECAR_LOCK_STALE_SECONDS pass
Age(f) ==
    /\ lockDir[f]
    /\ ~stale[f]
    /\ stale' = [stale EXCEPT ![f] = TRUE]
    /\ UNCHANGED <<files, lockDir, mutex, clock, procOf, pc, search, history, bounds>>

\* The wall clock moves, or is set back
SetClock ==
    /\ clock' \in 0..MaxClock
    /\ UNCHANGED <<files, locks, procOf, pc, search, history, bounds>>

\* A process is killed, and another one started
Crash(p) ==
    /\ crashes < MaxCrashes
    /\ crashes' = crashes + 1
    /\ LET dead == {t \in Threads : procOf[t] = p}
           Reset(f, none) == [t \in Threads |-> IF t \in dead THEN none ELSE f[t]]
       IN  /\ pc' = Reset(pc, "idle")
           /\ path' = Reset(path, "record")
           /\ now' = Reset(now, 0)
           /\ pages' = Reset(pages, {})
           /\ secret' = Reset(secret, NoSalt)
           /\ current' = Reset(current, NoRecord)
           /\ boosted' = Reset(boosted, {})
    /\ mutex' = [mutex EXCEPT ![p] = [f \in Paths |-> Nothing]]
    /\ UNCHANGED <<files, lockDir, stale, clock, procOf, history, searches, faults, blinds>>

-----------------------------------------------------------------------------

Step(t) ==
    \/ ReadSalt(t) \/ ReadPrior(t)
    \/ SkipHits(t) \/ RecordHits(t) \/ FindSecret(t)
    \/ TakeMutex(t) \/ MakeLockDir(t) \/ GiveUp(t) \/ Release(t) \/ ReleaseFails(t)
    \/ FindSecretAgain(t) \/ \E new \in Salts : MakeSalt(t, new)
    \/ ReadRecord(t) \/ WriteRecord(t) \/ WriteFails(t)

Next ==
    \/ \E t \in Threads, found \in SUBSET Pages : StartSearch(t, found)
    \/ \E t \in Threads : Step(t)
    \/ \E f \in Paths : Age(f)
    \/ SetClock
    \/ \E p \in Procs : Crash(p)

Spec == Init /\ [][Next]_vars

\* A running thread goes on: it retries mkdir every SIDECAR_LOCK_RETRY_SECONDS, and its deadline
\* passes
ThreadsRunOn == \A t \in Threads : WF_vars(Step(t))

LiveSpec == Spec /\ ThreadsRunOn

-----------------------------------------------------------------------------
(* Properties *)

TypeOK ==
    /\ salt \in Salts \cup {NoSalt}
    /\ record \in Record \cup {NoRecord}
    /\ lockDir \in [Paths -> BOOLEAN]
    /\ stale \in [Paths -> BOOLEAN]
    /\ clock \in 0..MaxClock
    /\ procOf \in [Threads -> Procs]
    /\ mutex \in [Procs -> [Paths -> Threads \cup {Nothing}]]
    /\ pc \in [Threads -> Phases]
    /\ path \in [Threads -> Paths]
    /\ now \in [Threads -> 0..MaxClock]
    /\ pages \in [Threads -> SUBSET Pages]
    /\ secret \in [Threads -> Salts \cup {NoSalt}]
    /\ current \in [Threads -> Record \cup {NoRecord}]
    /\ boosted \in [Threads -> SUBSET Pages]
    /\ used \subseteq Salts
    /\ returned \subseteq Pages
    /\ blind \in BOOLEAN
    /\ {searches, faults, blinds, crashes} \subseteq Nat

\* Two searches are never between a lock and its release on the same file, however slow the
\* holder is and however often processes crash: sidecar_file_lock keeps read-modify-write whole.
OneHolder ==
    \A t, u \in Threads :
        pc[t] \in Inside /\ pc[u] \in Inside /\ path[t] = path[u] => t = u

\* Unless a read under the lock failed, the record changes only by a whole update of the record
\* as it was: no search undoes the hits another one counted (REQ-MGMC-014).
NoLostUpdate ==
    [][\/ blind'
       \/ \E t \in Threads :
            pc[t] = "write" /\ record' = Updated(record, PageKeys(t), now[t])]_record

\* Unless a read under the lock failed, the secret is made once, so that every page is counted
\* under one key for ever (secret(create=True)).
OneSecret == [][blind' \/ salt = NoSalt]_salt

\* Unless a read under the lock failed, the sidecar does what HitLedger says of it.
Ledger == INSTANCE HitLedger WITH salt <- salt, record <- record
KeepsLedger == Ledger!Init /\ [][blind' \/ Ledger!Next]_files

\* Managed context only ever raises pages that some search returned before.
BoostsWereReturned == \A t \in Threads : boosted[t] \subseteq returned

\* Every search answers, although a killed process leaves its lock directory for ever.
EverySearchEnds == \A t \in Threads : pc[t] # "idle" ~> pc[t] = "idle"

=============================================================================
