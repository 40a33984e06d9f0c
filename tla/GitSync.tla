-------------------------------- MODULE GitSync --------------------------------
(***************************************************************************)
(* GitSyncer (git_sync.py): requests start or join a sync of the served    *)
(* checkout and wait for it up to a bound; the sync thread fetches the     *)
(* remote and fast-forwards the checked-out branch.  Each git command is a *)
(* step: users of the checkout and the remote act between any two.         *)
(*                                                                         *)
(* A sync is named by its Event.  A wait may time out at any moment.       *)
(***************************************************************************)
EXTENDS Integers

CONSTANTS
    Requests,       \* request threads
    Syncs,          \* the Events of syncs; one is used again when nobody waits on it
    Branches, Commits, Ancestors, First,    \* see Checkout
    ConfigBranch,   \* --git-sync-branch, or Nothing
    Cooldown,       \* cooldown_seconds
    StartMayFail,   \* whether Thread.start may raise
    MaxPushes,      \* bound: pushes to the remote
    MaxUserActs,    \* bound: what users do to the checkout
    MaxFailures,    \* bound: git commands that fail or time out
    MaxClock,       \* bound: the monotonic clock
    Nothing         \* Python's None

ASSUME CommitsAssumption ==
    /\ First \in Commits
    /\ Ancestors \in [Commits -> SUBSET Commits]
    /\ \A c \in Commits : c \in Ancestors[c]
    /\ ConfigBranch \in Branches \cup {Nothing}
    /\ StartMayFail \in BOOLEAN
    /\ Cooldown \in Nat

\* No commit is its own ancestor by way of another
ASSUME HistoryIsAcyclic ==
    \A c, d \in Commits : c \in Ancestors[d] /\ d \in Ancestors[c] => c = d

ASSUME GitBoundsAssumption ==
    MaxPushes \in Nat /\ MaxUserActs \in Nat /\ MaxFailures \in Nat /\ MaxClock \in Nat

ASSUME NothingIsNone ==
    Nothing \notin Syncs /\ Nothing \notin Branches /\ Nothing \notin Commits /\ Nothing \notin Nat

VARIABLES
    \* the checkout and its remote, see Checkout
    remote, published, heads, current, dirty,
    tracking,       \* refs/remotes/<remote>/<branch>
    \* the environment
    pushes, userActs, failures, clock,
    \* GitSyncer
    inFlight,       \* _in_flight
    lastAttempt,    \* _last_attempt
    lastError,      \* whether _last_error is set
    generation,
    \* sync threads
    spc,
    branch,         \* current_branch
    target,         \* remote_sha
    base,           \* head_sha
    eventSet,       \* whether the Event is set
    succeeded,      \* whether the sync ended without an error, once it ended
    \* requests
    rpc,
    joined,         \* the sync the request waits on
    late,           \* whether the wait timed out
    \* history
    uncounted       \* whether a merge moved HEAD in a sync that then failed

checkout == <<remote, published, heads, current, dirty, tracking>>
limits == <<pushes, userActs, failures, clock>>
syncer == <<inFlight, lastAttempt, lastError, generation>>
thread == <<spc, branch, target, base, eventSet, succeeded>>
request == <<rpc, joined, late>>
vars == <<checkout, limits, syncer, thread, request, uncounted>>

Init ==
    /\ remote = [b \in Branches |-> First]
    /\ published = {First}
    /\ heads = [b \in Branches |-> First]
    /\ current \in Branches
    /\ dirty = FALSE
    /\ tracking = [b \in Branches |-> First]
    /\ pushes = 0 /\ userActs = 0 /\ failures = 0 /\ clock = 0
    /\ inFlight = Nothing
    /\ lastAttempt = Nothing
    /\ lastError = FALSE
    /\ generation = 0
    /\ spc = [s \in Syncs |-> "free"]
    /\ branch = [s \in Syncs |-> Nothing]
    /\ target = [s \in Syncs |-> Nothing]
    /\ base = [s \in Syncs |-> Nothing]
    /\ eventSet = [s \in Syncs |-> FALSE]
    /\ succeeded = [s \in Syncs |-> FALSE]
    /\ rpc = [r \in Requests |-> "idle"]
    /\ joined = [r \in Requests |-> Nothing]
    /\ late = [r \in Requests |-> FALSE]
    /\ uncounted = FALSE

-----------------------------------------------------------------------------
(* ensure_fresh, in a request thread *)

IsDue == lastAttempt # Nothing => clock - lastAttempt >= Cooldown

\* Under the syncer's lock: nothing is in flight and the cooldown has passed
Starts == inFlight = Nothing /\ IsDue

\* Nobody holds this Event any more
Unused(s) ==
    /\ spc[s] = "free"
    /\ inFlight # s
    /\ \A r \in Requests : joined[r] # s

StartSync(r, s) ==
    /\ rpc[r] = "idle"
    /\ Starts
    /\ Unused(s)
    /\ inFlight' = s
    /\ lastAttempt' = clock
    /\ spc' = [spc EXCEPT ![s] = "branch"]
    /\ eventSet' = [eventSet EXCEPT ![s] = FALSE]
    /\ succeeded' = [succeeded EXCEPT ![s] = FALSE]
    /\ rpc' = [rpc EXCEPT ![r] = "waiting"]
    /\ joined' = [joined EXCEPT ![r] = s]
    /\ UNCHANGED <<checkout, limits, lastError, generation, branch, target, base, late, uncounted>>

\* Thread.start raises: the request fails, and _in_flight keeps an Event nobody will set
StartFails(r, s) ==
    /\ StartMayFail
    /\ rpc[r] = "idle"
    /\ Starts
    /\ Unused(s)
    /\ inFlight' = s
    /\ lastAttempt' = clock
    /\ eventSet' = [eventSet EXCEPT ![s] = FALSE]
    /\ UNCHANGED <<checkout, limits, lastError, generation, spc, branch, target, base, succeeded,
                   request, uncounted>>

JoinSync(r) ==
    /\ rpc[r] = "idle"
    /\ inFlight # Nothing
    /\ rpc' = [rpc EXCEPT ![r] = "waiting"]
    /\ joined' = [joined EXCEPT ![r] = inFlight]
    /\ UNCHANGED <<checkout, limits, syncer, thread, late, uncounted>>

\* Within the cooldown the request goes on at once
SkipSync(r) ==
    /\ rpc[r] = "idle"
    /\ inFlight = Nothing /\ ~IsDue
    /\ rpc' = [rpc EXCEPT ![r] = "ensured"]
    /\ UNCHANGED <<checkout, limits, syncer, thread, joined, late, uncounted>>

SyncSeen(r) ==
    /\ rpc[r] = "waiting"
    /\ eventSet[joined[r]]
    /\ rpc' = [rpc EXCEPT ![r] = "ensured"]
    /\ UNCHANGED <<checkout, limits, syncer, thread, joined, late, uncounted>>

\* wait_seconds pass first: the request is answered from the current files
WaitTimesOut(r) ==
    /\ rpc[r] = "waiting"
    /\ ~eventSet[joined[r]]
    /\ rpc' = [rpc EXCEPT ![r] = "ensured"]
    /\ late' = [late EXCEPT ![r] = TRUE]
    /\ UNCHANGED <<checkout, limits, syncer, thread, joined, uncounted>>

-----------------------------------------------------------------------------
(* _sync_once, in the sync thread *)

\* The sync ends in _record_failure
FailsWith(s) ==
    /\ lastError' = TRUE
    /\ spc' = [spc EXCEPT ![s] = "recorded"]

ReadBranch(s) ==
    /\ spc[s] = "branch"
    /\ IF ConfigBranch \notin {Nothing, current}
       THEN FailsWith(s) /\ UNCHANGED branch
       ELSE /\ branch' = [branch EXCEPT ![s] = current]
            /\ spc' = [spc EXCEPT ![s] = "fetch"]
            /\ UNCHANGED lastError
    /\ UNCHANGED <<checkout, limits, inFlight, lastAttempt, generation, target, base, eventSet,
                   succeeded, request, uncounted>>

Fetch(s) ==
    /\ spc[s] = "fetch"
    /\ tracking' = [tracking EXCEPT ![branch[s]] = remote[branch[s]]]
    /\ spc' = [spc EXCEPT ![s] = "remote"]
    /\ UNCHANGED <<remote, published, heads, current, dirty, limits, syncer, branch, target, base,
                   eventSet, succeeded, request, uncounted>>

ReadRemote(s) ==
    /\ spc[s] = "remote"
    /\ target' = [target EXCEPT ![s] = tracking[branch[s]]]
    /\ spc' = [spc EXCEPT ![s] = "head"]
    /\ UNCHANGED <<checkout, limits, syncer, branch, base, eventSet, succeeded, request, uncounted>>

Succeeds(s) ==
    /\ lastError' = FALSE
    /\ spc' = [spc EXCEPT ![s] = "recorded"]
    /\ succeeded' = [succeeded EXCEPT ![s] = TRUE]

\* Equal heads end the sync with no change
ReadHead(s) ==
    /\ spc[s] = "head"
    /\ base' = [base EXCEPT ![s] = heads[current]]
    /\ IF heads[current] = target[s]
       THEN Succeeds(s)
       ELSE spc' = [spc EXCEPT ![s] = "status"] /\ UNCHANGED <<lastError, succeeded>>
    /\ UNCHANGED <<checkout, limits, inFlight, lastAttempt, generation, branch, target, eventSet,
                   request, uncounted>>

\* Tracked changes, or a head that is not an ancestor of the remote commit, block the sync
CheckLocalWork(s) ==
    /\ spc[s] = "status"
    /\ IF dirty \/ base[s] \notin Ancestors[target[s]]
       THEN FailsWith(s)
       ELSE spc' = [spc EXCEPT ![s] = "merge"] /\ UNCHANGED lastError
    /\ UNCHANGED <<checkout, limits, inFlight, lastAttempt, generation, branch, target, base,
                   eventSet, succeeded, request, uncounted>>

\* A merge without --ff-only that resets the branch when it cannot be fast-forwarded
MergeByReset(s) ==
    /\ spc[s] = "merge"
    /\ heads' = [heads EXCEPT ![current] = target[s]]
    /\ spc' = [spc EXCEPT ![s] = "confirm"]
    /\ UNCHANGED <<remote, published, current, dirty, tracking, limits, syncer, branch, target,
                   base, eventSet, succeeded, request, uncounted>>

\* git merge --ff-only on whatever is checked out by now; a head that already contains the
\* commit stays; edits made since the check may be in the way
Merge(s) ==
    /\ spc[s] = "merge"
    /\ \/ /\ heads[current] \in Ancestors[target[s]]
          /\ heads' = [heads EXCEPT ![current] = target[s]]
          /\ spc' = [spc EXCEPT ![s] = "confirm"]
          /\ UNCHANGED lastError
       \/ /\ target[s] \in Ancestors[heads[current]]
          /\ spc' = [spc EXCEPT ![s] = "confirm"]
          /\ UNCHANGED <<heads, lastError>>
       \/ /\ dirty \/ heads[current] \notin Ancestors[target[s]]
          /\ FailsWith(s)
          /\ UNCHANGED heads
    /\ UNCHANGED <<remote, published, current, dirty, tracking, limits, inFlight, lastAttempt,
                   generation, branch, target, base, eventSet, succeeded, request, uncounted>>

\* The second rev-parse HEAD, and the count that makes the service rebuild
Confirm(s) ==
    /\ spc[s] = "confirm"
    /\ generation' = generation + 1
    /\ Succeeds(s)
    /\ UNCHANGED <<checkout, limits, inFlight, lastAttempt, branch, target, base, eventSet,
                   request, uncounted>>

Commands == {"branch", "fetch", "remote", "head", "status", "merge", "confirm"}

\* A git command fails or is killed at its timeout; a merge that is killed may have moved HEAD
CommandFails(s) ==
    /\ failures < MaxFailures
    /\ spc[s] \in Commands
    /\ failures' = failures + 1
    /\ FailsWith(s)
    /\ \/ UNCHANGED heads /\ uncounted' = (uncounted \/ spc[s] = "confirm")
       \/ /\ spc[s] = "merge" /\ heads[current] \in Ancestors[target[s]]
          /\ heads' = [heads EXCEPT ![current] = target[s]]
          /\ uncounted' = TRUE
    /\ UNCHANGED <<remote, published, current, dirty, tracking, pushes, userActs, clock, inFlight,
                   lastAttempt, generation, branch, target, base, eventSet, succeeded, request>>

ClearOnSuccess(s) ==
    /\ spc[s] = "recorded"
    /\ inFlight' = IF succeeded[s] THEN Nothing ELSE inFlight
    /\ spc' = [spc EXCEPT ![s] = "cleared"]
    /\ UNCHANGED <<checkout, limits, lastAttempt, lastError, generation, branch, target, base,
                   eventSet, succeeded, request, uncounted>>

\* The finally clause: first _in_flight, under the lock, then the Event
ClearInFlight(s) ==
    /\ spc[s] = "recorded"
    /\ inFlight' = Nothing
    /\ spc' = [spc EXCEPT ![s] = "cleared"]
    /\ UNCHANGED <<checkout, limits, lastAttempt, lastError, generation, branch, target, base,
                   eventSet, succeeded, request, uncounted>>

\* The thread is over, and its locals with it
SetEvent(s) ==
    /\ spc[s] = "cleared"
    /\ eventSet' = [eventSet EXCEPT ![s] = TRUE]
    /\ spc' = [spc EXCEPT ![s] = "free"]
    /\ branch' = [branch EXCEPT ![s] = Nothing]
    /\ target' = [target EXCEPT ![s] = Nothing]
    /\ base' = [base EXCEPT ![s] = Nothing]
    /\ UNCHANGED <<checkout, limits, syncer, succeeded, request, uncounted>>

-----------------------------------------------------------------------------
(* The environment *)

Push(b, c) ==
    /\ pushes < MaxPushes
    /\ c # remote[b]
    /\ pushes' = pushes + 1
    /\ remote' = [remote EXCEPT ![b] = c]
    /\ published' = published \cup {c}
    /\ UNCHANGED <<heads, current, dirty, tracking, userActs, failures, clock, syncer, thread,
                   request, uncounted>>

\* Users commit, pull or reset (leaving a clean tree), edit, or check out another branch
UserActs ==
    /\ userActs < MaxUserActs
    /\ userActs' = userActs + 1
    /\ \/ /\ \E c \in Commits \ {heads[current]} : heads' = [heads EXCEPT ![current] = c]
          /\ dirty' = FALSE
          /\ UNCHANGED current
       \/ dirty' = ~dirty /\ UNCHANGED <<heads, current>>
       \/ ~dirty /\ current' \in Branches \ {current} /\ UNCHANGED <<heads, dirty>>
    /\ UNCHANGED <<remote, published, tracking, pushes, failures, clock, syncer, thread, request,
                   uncounted>>

Tick ==
    /\ clock < MaxClock
    /\ clock' = clock + 1
    /\ UNCHANGED <<checkout, pushes, userActs, failures, syncer, thread, request, uncounted>>

\* The caller of ensure_fresh has its answer
Leave(r) ==
    /\ rpc[r] = "ensured"
    /\ rpc' = [rpc EXCEPT ![r] = "idle"]
    /\ joined' = [joined EXCEPT ![r] = Nothing]
    /\ late' = [late EXCEPT ![r] = FALSE]
    /\ UNCHANGED <<checkout, limits, syncer, thread, uncounted>>

EnsureFresh(r) ==
    \/ \E s \in Syncs : StartSync(r, s) \/ StartFails(r, s)
    \/ JoinSync(r) \/ SkipSync(r) \/ SyncSeen(r) \/ WaitTimesOut(r)

RunSync(s) ==
    \/ ReadBranch(s) \/ Fetch(s) \/ ReadRemote(s) \/ ReadHead(s)
    \/ CheckLocalWork(s) \/ Merge(s) \/ Confirm(s) \/ CommandFails(s)
    \/ ClearInFlight(s) \/ SetEvent(s)

Environment == (\E b \in Branches, c \in Commits : Push(b, c)) \/ UserActs \/ Tick

Next ==
    \/ \E r \in Requests : EnsureFresh(r) \/ Leave(r)
    \/ \E s \in Syncs : RunSync(s)
    \/ Environment

Spec == Init /\ [][Next]_vars

\* Sync threads run: every git command ends or is killed at its timeout.  Nothing is assumed
\* of requests, users or the remote.
LiveSpec == Spec /\ \A s \in Syncs : WF_vars(RunSync(s))

-----------------------------------------------------------------------------
(* Properties *)

\* The variables keep their types.
TypeOK ==
    /\ remote \in [Branches -> Commits] /\ heads \in [Branches -> Commits]
    /\ tracking \in [Branches -> Commits]
    /\ published \subseteq Commits
    /\ current \in Branches /\ dirty \in BOOLEAN
    /\ pushes \in Nat /\ userActs \in Nat /\ failures \in Nat /\ clock \in Nat
    /\ inFlight \in Syncs \cup {Nothing}
    /\ lastAttempt \in Nat \cup {Nothing}
    /\ lastError \in BOOLEAN
    /\ generation \in Nat
    /\ spc \in [Syncs -> Commands \cup {"free", "recorded", "cleared"}]
    /\ branch \in [Syncs -> Branches \cup {Nothing}]
    /\ target \in [Syncs -> Commits \cup {Nothing}]
    /\ base \in [Syncs -> Commits \cup {Nothing}]
    /\ eventSet \in [Syncs -> BOOLEAN]
    /\ succeeded \in [Syncs -> BOOLEAN]
    /\ rpc \in [Requests -> {"idle", "waiting", "ensured"}]
    /\ joined \in [Requests -> Syncs \cup {Nothing}]
    /\ late \in [Requests -> BOOLEAN]
    /\ uncounted \in BOOLEAN

Running(s) == spc[s] \in Commands \cup {"recorded"}

\* Concurrent requests share one in-flight sync: git commands of two syncs never interleave.
SingleFlight == \A s, u \in Syncs : Running(s) /\ Running(u) => s = u

\* Whatever users and the remote do between two git commands, all the service does to the
\* checkout is to fast-forward its branch to a published commit: local commits and edits stay.
Promise == INSTANCE Checkout WITH
    remote <- remote, published <- published, heads <- heads, current <- current,
    dirty <- dirty, userActs <- userActs
KeepsLocalWork == Promise!Spec

\* A sync whose thread has started does not stay in flight, whatever command of it fails, so
\* that later requests can start another.
StartedSyncsEnd == \A s \in Syncs : spc[s] = "branch" ~> inFlight # s

=============================================================================
