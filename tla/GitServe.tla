-------------------------------- MODULE GitServe --------------------------------
(***************************************************************************)
(* The service over a git checkout: a request first ensures that the       *)
(* checkout is fresh (GitSync), then takes the index lock and reuses or    *)
(* rebuilds the index (service.py, see ProjectionCache for that part in    *)
(* full), then reads the status of the syncer into its response (api.py).  *)
(***************************************************************************)
EXTENDS GitSync

VARIABLES
    lock,        \* the holder of _index_lock
    gitSeen,     \* _git_generation_seen
    index,       \* the commit the published index was built from, Nothing before the first
    ipc,         \* where the request is in its index call and after it
    gen,         \* the generation read under the lock
    answer,      \* the commit the request is answered from
    own,         \* whether the request started the sync it waits on
    began        \* pushes when the request began

serving == <<lock, gitSeen, index, ipc, gen, answer>>
asked == <<own, began>>
serveVars == <<vars, serving, asked>>

ServeInit ==
    /\ Init
    /\ lock = Nothing
    /\ gitSeen = 0
    /\ index = Nothing
    /\ ipc = [r \in Requests |-> "outside"]
    /\ gen = [r \in Requests |-> 0]
    /\ answer = [r \in Requests |-> Nothing]
    /\ own = [r \in Requests |-> FALSE]
    /\ began = [r \in Requests |-> 0]

\* ensure_fresh comes before the index lock
Ensure(r) ==
    /\ EnsureFresh(r)
    /\ IF rpc[r] = "idle"
       THEN /\ began' = [began EXCEPT ![r] = pushes]
            /\ own' = [own EXCEPT ![r] = inFlight = Nothing /\ inFlight' # Nothing]
       ELSE UNCHANGED asked
    /\ UNCHANGED serving

\* Within a long refresh interval only a fast-forward makes the service look at the files
Reusable(r) == index # Nothing /\ generation = gitSeen

ReuseIndex(r) ==
    /\ rpc[r] = "ensured" /\ ipc[r] = "outside"
    /\ lock = Nothing
    /\ Reusable(r)
    /\ answer' = [answer EXCEPT ![r] = index]
    /\ ipc' = [ipc EXCEPT ![r] = "answered"]
    /\ UNCHANGED <<vars, lock, gitSeen, index, gen, asked>>

TakeLock(r) ==
    /\ rpc[r] = "ensured" /\ ipc[r] = "outside"
    /\ lock = Nothing
    /\ ~Reusable(r)
    /\ lock' = r
    /\ gen' = [gen EXCEPT ![r] = generation]
    /\ ipc' = [ipc EXCEPT ![r] = "building"]
    /\ UNCHANGED <<vars, gitSeen, index, answer, asked>>

\* The files are read while the sync thread may be merging
ReadFiles(r) ==
    /\ ipc[r] = "building"
    /\ answer' = [answer EXCEPT ![r] = heads[current]]
    /\ ipc' = [ipc EXCEPT ![r] = "publishing"]
    /\ UNCHANGED <<vars, lock, gitSeen, index, gen, asked>>

PublishSeeingLatest(r) ==
    /\ ipc[r] = "publishing"
    /\ index' = answer[r]
    /\ gitSeen' = generation
    /\ lock' = Nothing
    /\ ipc' = [ipc EXCEPT ![r] = "answered"]
    /\ UNCHANGED <<vars, gen, answer, asked>>

Publish(r) ==
    /\ ipc[r] = "publishing"
    /\ index' = answer[r]
    /\ gitSeen' = gen[r]
    /\ lock' = Nothing
    /\ ipc' = [ipc EXCEPT ![r] = "answered"]
    /\ UNCHANGED <<vars, gen, answer, asked>>

\* Mutant: only a failed sync makes the files stale
StaleWhenFailed == lastError

\* git_sync_status, which the response carries: in progress, or the last sync failed
Stale == inFlight # Nothing \/ lastError

Report(r) ==
    /\ ipc[r] = "answered"
    /\ ipc' = [ipc EXCEPT ![r] = IF Stale THEN "stale" ELSE "fresh"]
    /\ UNCHANGED <<vars, lock, gitSeen, index, gen, answer, asked>>

Respond(r) ==
    /\ ipc[r] \in {"stale", "fresh"}
    /\ Leave(r)
    /\ ipc' = [ipc EXCEPT ![r] = "outside"]
    /\ answer' = [answer EXCEPT ![r] = Nothing]
    /\ own' = [own EXCEPT ![r] = FALSE]
    /\ UNCHANGED <<lock, gitSeen, index, gen, began>>

ServeNext ==
    \/ \E r \in Requests :
        \/ Ensure(r) \/ ReuseIndex(r) \/ TakeLock(r) \/ ReadFiles(r) \/ Publish(r)
        \/ Report(r) \/ Respond(r)
    \/ (\E s \in Syncs : RunSync(s)) /\ UNCHANGED <<serving, asked>>
    \/ Environment /\ UNCHANGED <<serving, asked>>

ServeSpec == ServeInit /\ [][ServeNext]_serveVars

-----------------------------------------------------------------------------
(* Properties *)

Answered(r) == ipc[r] \in {"answered", "stale", "fresh"}

\* The request started a sync, saw it succeed, and nobody pushed or touched the checkout
Synced(r) ==
    /\ Answered(r)
    /\ own[r] /\ ~late[r] /\ succeeded[joined[r]]
    /\ began[r] = pushes
    /\ userActs = 0

\* "When HEAD moves, the next request rebuilds the projection regardless of
\* --refresh-interval-seconds": a request whose own sync succeeded is answered from the
\* remote's commit.
SyncedAnswer == \A r \in Requests : Synced(r) => answer[r] = remote[current]

\* The same, as long as no sync has failed after its merge.
SyncedAnswerUnlessUncounted == ~uncounted => SyncedAnswer

\* "Past that it is answered from the current files, reported as stale": a request whose wait
\* timed out is reported fresh only when its sync came to an end before the report, however
\* long after the files were read.
LateIsStaleUnlessEnded ==
    \A r \in Requests : late[r] /\ ipc[r] = "fresh" => spc[joined[r]] \in {"cleared", "free"}

=============================================================================
