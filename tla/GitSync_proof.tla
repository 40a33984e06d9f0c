----------------------------- MODULE GitSync_proof -----------------------------
(***************************************************************************)
(* Proofs about GitSync and about the service over it (GitServe), for      *)
(* every number of requests, syncs, branches and commits, and every        *)
(* history of the remote and of the checkout's users; then about a service *)
(* over a directory (SourceTree), for every tree.                          *)
(***************************************************************************)
EXTENDS GitServe, SourceTree, FiniteSetTheorems, SequenceTheorems, WellFoundedInduction, TLAPS

\* A sync that has not ended yet is the one in flight
InFlightOK == \A s \in Syncs : Running(s) => inFlight = s

\* What a sync compares and merges is a commit of the remote
TargetsOK ==
    /\ \A b \in Branches : remote[b] \in published /\ tracking[b] \in published
    /\ \A s \in Syncs :
        /\ spc[s] \in {"fetch", "remote"} => branch[s] \in Branches
        /\ spc[s] \in {"head", "status", "merge"} => target[s] \in published

GInv == TypeOK /\ InFlightOK /\ TargetsOK

USE DEF Commands

\* A syncer that has just been made satisfies the invariant.
LEMMA GInvInit == Init => GInv
<1> SUFFICES ASSUME Init PROVE GInv
  OBVIOUS
<1> USE CommitsAssumption DEF Init
<1>1. /\ remote \in [Branches -> Commits] /\ heads \in [Branches -> Commits]
      /\ tracking \in [Branches -> Commits]
  OBVIOUS
<1>2. TypeOK
  BY <1>1 DEF TypeOK
<1>3. InFlightOK /\ TargetsOK
  BY DEF InFlightOK, TargetsOK, Running
<1>4. QED
  BY <1>2, <1>3 DEF GInv

\* Every step keeps the types.
LEMMA GTypeStep == GInv /\ [Next]_vars => TypeOK'
<1> SUFFICES ASSUME GInv, [Next]_vars PROVE TypeOK'
  OBVIOUS
<1> USE CommitsAssumption DEF GInv, TypeOK, TargetsOK, checkout, limits, syncer, thread, request
<1>1. ASSUME NEW r \in Requests, EnsureFresh(r) \/ Leave(r) PROVE TypeOK'
  <2>1. ASSUME NEW s \in Syncs, StartSync(r, s) PROVE TypeOK'
    BY <2>1 DEF StartSync
  <2>2. ASSUME NEW s \in Syncs, StartFails(r, s) PROVE TypeOK'
    BY <2>2 DEF StartFails
  <2>3. CASE JoinSync(r)
    BY <2>3 DEF JoinSync
  <2>4. CASE SkipSync(r)
    BY <2>4 DEF SkipSync
  <2>5. CASE SyncSeen(r)
    BY <2>5 DEF SyncSeen
  <2>6. CASE WaitTimesOut(r)
    BY <2>6 DEF WaitTimesOut
  <2>7. CASE Leave(r)
    BY <2>7 DEF Leave
  <2>8. QED
    BY <1>1, <2>1, <2>2, <2>3, <2>4, <2>5, <2>6, <2>7 DEF EnsureFresh
<1>2. ASSUME NEW s \in Syncs, RunSync(s) PROVE TypeOK'
  <2>1. CASE ReadBranch(s)
    BY <2>1 DEF ReadBranch, FailsWith
  <2>2. CASE Fetch(s)
    BY <2>2 DEF Fetch
  <2>3. CASE ReadRemote(s)
    BY <2>3 DEF ReadRemote
  <2>4. CASE ReadHead(s)
    BY <2>4 DEF ReadHead, Succeeds
  <2>5. CASE CheckLocalWork(s)
    BY <2>5 DEF CheckLocalWork, FailsWith
  <2>6. CASE Merge(s)
    <3>1. target[s] \in Commits
      BY <2>6 DEF Merge
    <3>2. heads' \in [Branches -> Commits] /\ spc' \in [Syncs -> Commands \cup {"free", "recorded", "cleared"}]
          /\ lastError' \in BOOLEAN
      BY <2>6, <3>1 DEF Merge, FailsWith
    <3>3. QED
      BY <2>6, <3>2 DEF Merge
  <2>7. CASE Confirm(s)
    <3>1. generation' \in Nat
      BY <2>7 DEF Confirm
    <3>2. /\ spc' \in [Syncs -> Commands \cup {"free", "recorded", "cleared"}]
          /\ succeeded' \in [Syncs -> BOOLEAN] /\ lastError' \in BOOLEAN
      BY <2>7 DEF Confirm, Succeeds
    <3>3. QED
      BY <2>7, <3>1, <3>2 DEF Confirm
  <2>8. CASE CommandFails(s)
    <3>1. spc[s] = "merge" => target[s] \in Commits
      OBVIOUS
    <3>2. heads' \in [Branches -> Commits]
      BY <2>8, <3>1 DEF CommandFails
    <3>3. failures' \in Nat
      BY <2>8 DEF CommandFails
    <3>4. /\ spc' \in [Syncs -> Commands \cup {"free", "recorded", "cleared"}]
          /\ lastError' \in BOOLEAN
      BY <2>8 DEF CommandFails, FailsWith
    <3>5. uncounted' \in BOOLEAN
      BY <2>8, Zenon DEF CommandFails
    <3>6. QED
      BY <2>8, <3>2, <3>3, <3>4, <3>5 DEF CommandFails
  <2>9. CASE ClearInFlight(s)
    BY <2>9 DEF ClearInFlight
  <2>10. CASE SetEvent(s)
    BY <2>10 DEF SetEvent
  <2>11. QED
    BY <1>2, <2>1, <2>2, <2>3, <2>4, <2>5, <2>6, <2>7, <2>8, <2>9, <2>10 DEF RunSync
<1>3. ASSUME NEW b \in Branches, NEW c \in Commits, Push(b, c) PROVE TypeOK'
  BY <1>3 DEF Push
<1>4. CASE UserActs
  <2>1. heads' \in [Branches -> Commits] /\ current' \in Branches /\ dirty' \in BOOLEAN
    BY <1>4 DEF UserActs
  <2>2. QED
    BY <1>4, <2>1 DEF UserActs
<1>5. CASE Tick
  BY <1>5 DEF Tick
<1>6. CASE UNCHANGED vars
  BY <1>6 DEF vars
<1>7. QED
  BY <1>1, <1>2, <1>3, <1>4, <1>5, <1>6 DEF Next, Environment

\* A sync starts only when none is in flight, and is in flight until it has ended.
LEMMA InFlightStep == GInv /\ [Next]_vars => InFlightOK'
<1> SUFFICES ASSUME GInv, [Next]_vars PROVE InFlightOK'
  OBVIOUS
<1> USE NothingIsNone DEF GInv, TypeOK, InFlightOK, Running, checkout, limits, syncer, thread, request
<1>1. ASSUME NEW r \in Requests, EnsureFresh(r) \/ Leave(r) PROVE InFlightOK'
  <2>1. ASSUME NEW s \in Syncs, StartSync(r, s) PROVE InFlightOK'
    BY <2>1 DEF StartSync, Starts
  <2>2. ASSUME NEW s \in Syncs, StartFails(r, s) PROVE InFlightOK'
    BY <2>2 DEF StartFails, Starts
  <2>3. CASE JoinSync(r) \/ SkipSync(r) \/ SyncSeen(r) \/ WaitTimesOut(r) \/ Leave(r)
    BY <2>3 DEF JoinSync, SkipSync, SyncSeen, WaitTimesOut, Leave
  <2>4. QED
    BY <1>1, <2>1, <2>2, <2>3 DEF EnsureFresh
<1>2. ASSUME NEW s \in Syncs, RunSync(s) PROVE InFlightOK'
  <2>1. CASE ClearInFlight(s)
    BY <2>1 DEF ClearInFlight
  <2>2. CASE SetEvent(s)
    BY <2>2 DEF SetEvent
  <2>3. CASE ~ClearInFlight(s) /\ ~SetEvent(s)
    <3>1. /\ UNCHANGED inFlight
          /\ Running(s)
          /\ \A u \in Syncs \ {s} : spc'[u] = spc[u]
      BY <1>2, <2>3 DEF RunSync, ReadBranch, Fetch, ReadRemote, ReadHead, CheckLocalWork, Merge,
                        Confirm, CommandFails, FailsWith, Succeeds
    <3>2. QED
      BY <3>1
  <2>4. QED
    BY <2>1, <2>2, <2>3
<1>3. CASE Environment
  BY <1>3 DEF Environment, Push, UserActs, Tick
<1>4. CASE UNCHANGED vars
  BY <1>4 DEF vars
<1>5. QED
  BY <1>1, <1>2, <1>3, <1>4 DEF Next

\* The commits a sync fetches, reads and merges were published by the remote.
LEMMA TargetsStep == GInv /\ [Next]_vars => TargetsOK'
<1> SUFFICES ASSUME GInv, [Next]_vars PROVE TargetsOK'
  OBVIOUS
<1> USE CommitsAssumption DEF GInv, TypeOK, TargetsOK, checkout, limits, syncer, thread, request
<1>1. ASSUME NEW r \in Requests, EnsureFresh(r) \/ Leave(r) PROVE TargetsOK'
  <2>1. /\ UNCHANGED <<remote, tracking, published, branch, target>>
        /\ \A s \in Syncs : spc'[s] = spc[s] \/ spc'[s] = "branch"
    BY <1>1 DEF EnsureFresh, Leave, StartSync, StartFails, JoinSync, SkipSync, SyncSeen, WaitTimesOut
  <2>2. QED
    BY <2>1
<1>2. ASSUME NEW s \in Syncs, RunSync(s) PROVE TargetsOK'
  <2>1. CASE ReadBranch(s)
    BY <2>1 DEF ReadBranch, FailsWith
  <2>2. CASE Fetch(s)
    BY <2>2 DEF Fetch
  <2>3. CASE ReadRemote(s)
    BY <2>3 DEF ReadRemote
  <2>4. CASE ReadHead(s)
    BY <2>4 DEF ReadHead, Succeeds
  <2>5. CASE CheckLocalWork(s)
    BY <2>5 DEF CheckLocalWork, FailsWith
  <2>6. CASE Merge(s)
    BY <2>6 DEF Merge, FailsWith
  <2>7. CASE Confirm(s)
    BY <2>7 DEF Confirm, Succeeds
  <2>8. CASE CommandFails(s)
    BY <2>8 DEF CommandFails, FailsWith
  <2>9. CASE ClearInFlight(s)
    BY <2>9 DEF ClearInFlight
  <2>10. CASE SetEvent(s)
    BY <2>10 DEF SetEvent
  <2>11. QED
    BY <1>2, <2>1, <2>2, <2>3, <2>4, <2>5, <2>6, <2>7, <2>8, <2>9, <2>10 DEF RunSync
<1>3. ASSUME NEW b \in Branches, NEW c \in Commits, Push(b, c) PROVE TargetsOK'
  BY <1>3 DEF Push
<1>4. CASE UserActs
  BY <1>4 DEF UserActs
<1>5. CASE Tick \/ UNCHANGED vars
  BY <1>5 DEF Tick, vars
<1>6. QED
  BY <1>1, <1>2, <1>3, <1>4, <1>5 DEF Next, Environment

\* The invariant holds of every reachable state.
THEOREM GitInvariance == Spec => []GInv
<1>1. GInv /\ [Next]_vars => GInv'
  BY GTypeStep, InFlightStep, TargetsStep DEF GInv
<1>2. QED
  BY GInvInit, <1>1, PTL DEF Spec

\* Type correctness of the syncer, its threads and its requests.
THEOREM GitTypes == Spec => []TypeOK
<1>1. GInv => TypeOK
  BY DEF GInv
<1>2. QED
  BY GitInvariance, <1>1, PTL

\* The git commands of two syncs never interleave.
THEOREM OneSyncAtATime == Spec => []SingleFlight
<1>1. GInv => SingleFlight
  BY DEF GInv, InFlightOK, SingleFlight
<1>2. QED
  BY GitInvariance, <1>1, PTL

\* Every step of the syncer is a fast-forward of the checked-out branch, or leaves the
\* checkout alone.
LEMMA StepKeepsPromise == GInv /\ [Next]_vars => [Promise!Next]_Promise!vars
<1> SUFFICES ASSUME GInv, [Next]_vars PROVE Promise!Next \/ UNCHANGED Promise!vars
  OBVIOUS
<1> USE DEF Promise!vars, checkout, limits, syncer, thread, request
<1>1. ASSUME NEW r \in Requests, EnsureFresh(r) \/ Leave(r) PROVE UNCHANGED Promise!vars
  BY <1>1 DEF EnsureFresh, Leave, StartSync, StartFails, JoinSync, SkipSync, SyncSeen, WaitTimesOut
<1>2. ASSUME NEW s \in Syncs, Merge(s) \/ CommandFails(s)
      PROVE  Promise!Next \/ UNCHANGED Promise!vars
  <2>1. CASE UNCHANGED heads
    BY <1>2, <2>1 DEF Merge, CommandFails
  <2>2. CASE ~UNCHANGED heads
    <3>1. Promise!FastForward(target[s]) /\ target[s] \in published
      BY <1>2, <2>2 DEF Merge, CommandFails, Promise!FastForward, GInv, TargetsOK
    <3>2. QED
      BY <3>1 DEF Promise!Next, GInv, TypeOK
  <2>3. QED
    BY <2>1, <2>2
<1>3. ASSUME NEW s \in Syncs, RunSync(s), ~Merge(s), ~CommandFails(s) PROVE UNCHANGED Promise!vars
  BY <1>3 DEF RunSync, ReadBranch, Fetch, ReadRemote, ReadHead, CheckLocalWork, Confirm,
              ClearInFlight, SetEvent
<1>4. ASSUME NEW b \in Branches, NEW c \in Commits, Push(b, c) PROVE Promise!Next
  BY <1>4 DEF Push, Promise!Next, Promise!Push
<1>5. CASE UserActs
  <2>1. Promise!UserActs
    BY <1>5 DEF UserActs, Promise!UserActs, GInv, TypeOK
  <2>2. QED
    BY <2>1 DEF Promise!Next
<1>6. CASE Tick \/ UNCHANGED vars
  BY <1>6 DEF Tick, vars
<1>7. QED
  BY <1>1, <1>2, <1>3, <1>4, <1>5, <1>6 DEF Next, Environment, RunSync

\* Git sync implements the promise about the checkout: users' commits and edits stay, whatever
\* is done between two git commands.
THEOREM LocalWorkIsKept == Spec => KeepsLocalWork
<1>1. Init => Promise!Init
  BY DEF Init, Promise!Init
<1>2. QED
  BY <1>1, StepKeepsPromise, GitInvariance, PTL DEF Spec, KeepsLocalWork, Promise!Spec

-----------------------------------------------------------------------------
(* The service over the checkout *)

ServeTypes ==
    /\ gitSeen \in Nat /\ gen \in [Requests -> Nat]
    /\ index \in Commits \cup {Nothing}
    /\ answer \in [Requests -> Commits \cup {Nothing}]
    /\ ipc \in [Requests -> {"outside", "building", "publishing", "answered", "stale", "fresh"}]
    /\ own \in [Requests -> BOOLEAN] /\ began \in [Requests -> Nat]

\* A request that has started or joined a sync holds its Event, which is not used for another
\* sync meanwhile, and goes on when it is set or the wait has timed out
Waits ==
    /\ \A s \in Syncs : eventSet[s] => spc[s] = "free"
    /\ \A r \in Requests :
        /\ rpc[r] = "idle" => joined[r] = Nothing /\ ~late[r]
        /\ rpc[r] = "waiting" => joined[r] # Nothing /\ ~late[r]
        /\ late[r] => joined[r] # Nothing
        /\ rpc[r] # "idle" /\ own[r] => joined[r] # Nothing
        /\ rpc[r] = "ensured" /\ joined[r] # Nothing /\ ~late[r] => spc[joined[r]] = "free"
        /\ ipc[r] # "outside" => rpc[r] = "ensured"
        /\ began[r] <= pushes

\* The request has started its sync, and nobody has pushed since
Since(r) == own[r] /\ rpc[r] # "idle" /\ began[r] = pushes

\* Unless users act, a sync works on one branch and compares with the head that is there
Undisturbed ==
    userActs = 0 => \A s \in Syncs :
        /\ spc[s] \in {"fetch", "remote"} => branch[s] = current
        /\ spc[s] \in {"status", "merge"} => base[s] = heads[current]
        /\ spc[s] = "merge" => base[s] \in Ancestors[target[s]]

\* What any sync has fetched since then is the remote's commit
Fetched ==
    userActs = 0 => \A r \in Requests, s \in Syncs : Since(r) =>
        /\ spc[s] = "remote" => tracking[current] = remote[current]
        /\ spc[s] \in {"head", "status", "merge"} => target[s] = remote[current]
        /\ spc[s] = "confirm" => heads[current] = remote[current]

\* Once the request's sync has succeeded, the head is the remote's commit and no sync moves it
Settled ==
    userActs = 0 => \A r \in Requests : Since(r) /\ succeeded[joined[r]] =>
        /\ heads[current] = remote[current]
        /\ \A s \in Syncs : spc[s] \notin {"status", "merge", "confirm"}

\* Unless a sync has failed after its merge, a move that is not counted yet is about to be
Counted == ~uncounted /\ userActs = 0 /\ \A s \in Syncs : spc[s] # "confirm"

Seen ==
    /\ gitSeen <= generation
    /\ Counted /\ gitSeen = generation => index \in {Nothing, heads[current]}
    /\ \A r \in Requests :
        /\ gen[r] <= generation
        /\ Counted /\ ipc[r] = "publishing" /\ gen[r] = generation => answer[r] = heads[current]

\* The answer, once there is one, is the remote's commit
AnswersOK ==
    ~uncounted /\ userActs = 0 => \A r \in Requests :
        Since(r) /\ ipc[r] \notin {"outside", "building"} /\ ~late[r] /\ succeeded[joined[r]]
        => answer[r] = remote[current]

ServeInv ==
    /\ GInv /\ ServeTypes /\ Waits /\ Undisturbed /\ Fetched /\ Settled /\ Seen /\ AnswersOK
    /\ LateIsStaleUnlessEnded

\* Before the first request all of it holds.
LEMMA ServeInvInit == ServeInit => ServeInv
<1> SUFFICES ASSUME ServeInit PROVE ServeInv
  OBVIOUS
<1>1. GInv
  BY GInvInit DEF ServeInit
<1>2. ServeTypes
  BY NothingIsNone DEF ServeInit, ServeTypes
<1>3. Waits
  BY DEF ServeInit, Init, Waits
<1>4. Undisturbed /\ Fetched /\ Settled
  BY DEF ServeInit, Init, Undisturbed, Fetched, Settled, Since
<1>5. Seen /\ AnswersOK /\ LateIsStaleUnlessEnded
  BY DEF ServeInit, Init, Seen, Counted, AnswersOK, Since, LateIsStaleUnlessEnded
<1>6. QED
  BY <1>1, <1>2, <1>3, <1>4, <1>5 DEF ServeInv

Indexes(r) == ReuseIndex(r) \/ TakeLock(r) \/ ReadFiles(r) \/ Publish(r) \/ Report(r)

\* What requests do with the index leaves git sync alone.
LEMMA IndexFrame ==
  ASSUME NEW r \in Requests, Indexes(r)
  PROVE  UNCHANGED <<vars, asked>>
BY DEF Indexes, ReuseIndex, TakeLock, ReadFiles, Publish, Report

\* What the steps of the service are, for the proofs by cases below.
LEMMA ServeCases ==
  ASSUME [ServeNext]_serveVars, NEW G,
         \A r \in Requests : Ensure(r) => G,
         \A r \in Requests : Indexes(r) => G,
         \A r \in Requests : Respond(r) => G,
         \A s \in Syncs : RunSync(s) /\ UNCHANGED <<serving, asked>> => G,
         Environment /\ UNCHANGED <<serving, asked>> => G,
         UNCHANGED serveVars => G
  PROVE  G
BY DEF ServeNext, Indexes

\* Git sync does in the service what it does alone.
LEMMA ServeSteps == [ServeNext]_serveVars => [Next]_vars
<1> SUFFICES ASSUME [ServeNext]_serveVars PROVE [Next]_vars
  OBVIOUS
<1>1. ASSUME NEW r \in Requests, Ensure(r) PROVE [Next]_vars
  BY <1>1 DEF Ensure, Next
<1>2. ASSUME NEW r \in Requests, Indexes(r) PROVE [Next]_vars
  BY <1>2, IndexFrame
<1>3. ASSUME NEW r \in Requests, Respond(r) PROVE [Next]_vars
  BY <1>3 DEF Respond, Next
<1>4. QED
  BY <1>1, <1>2, <1>3 DEF ServeNext, Indexes, Next, serveVars

\* What the sync threads do not touch, and which requests they concern.
LEMMA SyncFrame ==
  ASSUME NEW s \in Syncs, RunSync(s)
  PROVE  /\ UNCHANGED <<request, remote, published, current, dirty, pushes, userActs, clock, lastAttempt>>
         /\ uncounted => uncounted'
<1> USE DEF checkout, limits, syncer, thread, request
<1>1. CASE ReadBranch(s) \/ Fetch(s) \/ ReadRemote(s)
  BY <1>1 DEF ReadBranch, Fetch, ReadRemote
<1>2. CASE ReadHead(s) \/ CheckLocalWork(s)
  BY <1>2 DEF ReadHead, CheckLocalWork
<1>3. CASE Merge(s) \/ Confirm(s)
  BY <1>3 DEF Merge, Confirm
<1>4. CASE CommandFails(s)
  BY <1>4 DEF CommandFails
<1>5. CASE ClearInFlight(s) \/ SetEvent(s)
  BY <1>5 DEF ClearInFlight, SetEvent
<1>6. QED
  BY <1>1, <1>2, <1>3, <1>4, <1>5 DEF RunSync

\* What a request changes when it ensures that the checkout is fresh: it may start a sync when
\* none is in flight, whose Event nobody else holds.
EnsureChanges(r) ==
    /\ UNCHANGED <<checkout, limits, generation, branch, target, base, uncounted, serving>>
    /\ \A s \in Syncs : spc'[s] # spc[s] => spc'[s] = "branch" /\ inFlight = Nothing
    /\ \A q \in Requests :
         Since(q)' => \/ /\ Since(q) /\ joined'[q] = joined[q]
                         /\ succeeded'[joined[q]] = succeeded[joined[q]]
                      \/ inFlight = Nothing /\ ~succeeded'[joined'[q]]
    /\ ipc[r] = "outside"
    /\ \A q \in Requests \ {r} :
         /\ rpc'[q] = rpc[q] /\ joined'[q] = joined[q] /\ late'[q] = late[q]
         /\ own'[q] = own[q] /\ began'[q] = began[q]
         /\ joined[q] # Nothing => spc'[joined[q]] = spc[joined[q]]
                                   /\ succeeded'[joined[q]] = succeeded[joined[q]]

LEMMA EnsureEffect ==
  ASSUME GInv, ServeTypes, Waits, NEW r \in Requests, Ensure(r)
  PROVE  EnsureChanges(r)
<1> USE NothingIsNone DEF EnsureChanges, GInv, TypeOK, ServeTypes, Waits, Since, serving, asked,
                          checkout, limits, syncer, thread, request
<1>1. ASSUME NEW s \in Syncs, StartSync(r, s) PROVE EnsureChanges(r)
  <2>1. /\ rpc[r] = "idle" /\ rpc' = [rpc EXCEPT ![r] = "waiting"]
        /\ joined' = [joined EXCEPT ![r] = s] /\ UNCHANGED late
        /\ spc' = [spc EXCEPT ![s] = "branch"] /\ succeeded' = [succeeded EXCEPT ![s] = FALSE]
        /\ inFlight = Nothing /\ \A q \in Requests : joined[q] # s
    BY <1>1 DEF StartSync, Unused, Starts
  <2>2. own' = [own EXCEPT ![r] = inFlight = Nothing /\ inFlight' # Nothing]
        /\ began' = [began EXCEPT ![r] = pushes] /\ UNCHANGED serving
    BY <2>1 DEF Ensure
  <2>3. UNCHANGED <<checkout, limits, generation, branch, target, base, uncounted>>
    BY <1>1 DEF StartSync
  <2>4. ipc[r] = "outside"
    BY <2>1
  <2>5. \A t \in Syncs : spc'[t] # spc[t] => spc'[t] = "branch" /\ inFlight = Nothing
    BY <2>1
  <2>6. ASSUME NEW q \in Requests
        PROVE  Since(q)' => \/ /\ Since(q) /\ joined'[q] = joined[q]
                               /\ succeeded'[joined[q]] = succeeded[joined[q]]
                            \/ inFlight = Nothing /\ ~succeeded'[joined'[q]]
    <3>1. CASE q = r
      BY <2>1, <3>1
    <3>2. CASE q # r
      <4>1. /\ own'[q] = own[q] /\ rpc'[q] = rpc[q] /\ began'[q] = began[q]
            /\ joined'[q] = joined[q] /\ pushes' = pushes
        BY <2>1, <2>2, <2>3, <3>2
      <4>2. joined[q] \in Syncs => succeeded'[joined[q]] = succeeded[joined[q]]
        BY <2>1
      <4>3. own[q] /\ rpc[q] # "idle" => joined[q] \in Syncs
        OBVIOUS
      <4>4. Since(q)' => Since(q)
        BY <4>1
      <4> QED BY <4>1, <4>2, <4>3, <4>4
    <3> QED BY <3>1, <3>2
  <2>7. ASSUME NEW q \in Requests \ {r}
        PROVE  /\ rpc'[q] = rpc[q] /\ joined'[q] = joined[q] /\ late'[q] = late[q]
               /\ own'[q] = own[q] /\ began'[q] = began[q]
               /\ joined[q] # Nothing => spc'[joined[q]] = spc[joined[q]]
                                         /\ succeeded'[joined[q]] = succeeded[joined[q]]
    BY <2>1, <2>2
  <2> HIDE DEF GInv, TypeOK, ServeTypes, Waits, Since
  <2>8. QED
    BY <2>2, <2>3, <2>4, <2>5, <2>6, <2>7
<1>2. ASSUME NEW s \in Syncs, StartFails(r, s) PROVE EnsureChanges(r)
  <2>1. rpc[r] = "idle" /\ UNCHANGED <<rpc, joined, late, spc, succeeded>>
    BY <1>2 DEF StartFails
  <2>2. own' = [own EXCEPT ![r] = inFlight = Nothing /\ inFlight' # Nothing]
        /\ began' = [began EXCEPT ![r] = pushes] /\ UNCHANGED serving
    BY <2>1 DEF Ensure
  <2>3. UNCHANGED <<checkout, limits, generation, branch, target, base, uncounted>>
    BY <1>2 DEF StartFails
  <2>4. QED
    BY <2>1, <2>2, <2>3
<1>3. CASE JoinSync(r) \/ SkipSync(r)
  <2>1. /\ rpc[r] = "idle" /\ UNCHANGED <<inFlight, late, spc, succeeded>>
        /\ \A q \in Requests \ {r} : rpc'[q] = rpc[q] /\ joined'[q] = joined[q]
    BY <1>3 DEF JoinSync, SkipSync
  <2>2. own' = [own EXCEPT ![r] = inFlight = Nothing /\ inFlight' # Nothing]
        /\ began' = [began EXCEPT ![r] = pushes] /\ UNCHANGED serving
    BY <2>1 DEF Ensure
  <2>3. UNCHANGED <<checkout, limits, generation, branch, target, base, uncounted>>
    BY <1>3 DEF JoinSync, SkipSync
  <2>4. QED
    BY <2>1, <2>2, <2>3
<1>4. CASE SyncSeen(r) \/ WaitTimesOut(r)
  <2>1. /\ rpc[r] = "waiting" /\ UNCHANGED <<inFlight, joined, spc, succeeded>>
        /\ \A q \in Requests \ {r} : rpc'[q] = rpc[q] /\ late'[q] = late[q]
    BY <1>4 DEF SyncSeen, WaitTimesOut
  <2>2. UNCHANGED <<asked, serving>>
    BY <2>1, <1>4 DEF Ensure
  <2>3. UNCHANGED <<checkout, limits, generation, branch, target, base, uncounted>>
    BY <1>4 DEF SyncSeen, WaitTimesOut
  <2>4. QED
    BY <2>1, <2>2, <2>3
<1>5. QED
  BY <1>1, <1>2, <1>3, <1>4 DEF Ensure, EnsureFresh

\* Every step of the service keeps the types.
LEMMA ServeTypesStep == ServeInv /\ [ServeNext]_serveVars => ServeTypes'
<1> SUFFICES ASSUME ServeInv, [ServeNext]_serveVars PROVE ServeTypes'
  OBVIOUS
<1> USE DEF ServeInv, GInv, TypeOK, ServeTypes, serving, asked, vars, syncer, checkout, limits
<1>1. ASSUME NEW r \in Requests, Ensure(r) PROVE ServeTypes'
  BY <1>1 DEF Ensure
<1>2. ASSUME NEW r \in Requests, Indexes(r) PROVE ServeTypes'
  <2>1. CASE ReuseIndex(r)
    BY <2>1 DEF ReuseIndex
  <2>2. CASE TakeLock(r)
    BY <2>2 DEF TakeLock
  <2>3. CASE ReadFiles(r)
    BY <2>3 DEF ReadFiles
  <2>4. CASE Publish(r)
    BY <2>4 DEF Publish
  <2>5. CASE Report(r)
    BY <2>5 DEF Report
  <2>6. QED
    BY <1>2, <2>1, <2>2, <2>3, <2>4, <2>5 DEF Indexes
<1>3. ASSUME NEW r \in Requests, Respond(r) PROVE ServeTypes'
  BY <1>3 DEF Respond
<1>4. CASE UNCHANGED <<serving, asked>>
  BY <1>4
<1>5. QED
  BY <1>1, <1>2, <1>3, <1>4 DEF ServeNext, Indexes, serveVars

\* An Event is set by the sync it stands for, at its end.
LEMMA WaitsStep == ServeInv /\ [ServeNext]_serveVars => Waits'
<1> SUFFICES ASSUME ServeInv, [ServeNext]_serveVars PROVE Waits'
  OBVIOUS
<1> USE NothingIsNone DEF ServeInv, GInv, TypeOK, ServeTypes, Waits, serving, asked, vars, checkout,
                          limits, syncer, thread, request
<1>1. ASSUME NEW r \in Requests, Ensure(r) PROVE Waits'
  <2>0. ipc[r] = "outside" /\ UNCHANGED <<ipc, pushes>> /\ began' \in [Requests -> Nat]
        /\ \A q \in Requests : began'[q] \in {began[q], pushes}
    BY <1>1, EnsureEffect, ServeTypesStep DEF EnsureChanges, Ensure
  <2>1. ASSUME NEW s \in Syncs, StartSync(r, s) PROVE Waits'
    <3>1. \A u \in Syncs : eventSet'[u] => spc'[u] = "free"
      BY <2>1 DEF StartSync
    <3>2. /\ rpc' = [rpc EXCEPT ![r] = "waiting"] /\ joined' = [joined EXCEPT ![r] = s]
          /\ UNCHANGED late /\ rpc[r] = "idle"
          /\ \A q \in Requests : joined[q] # s
          /\ \A u \in Syncs \ {s} : spc'[u] = spc[u]
      BY <2>1 DEF StartSync, Unused
    <3>3. \A q \in Requests \ {r} : own'[q] = own[q]
      BY <1>1 DEF Ensure
    <3>4. QED
      BY <2>0, <3>1, <3>2, <3>3
  <2>2. ASSUME NEW s \in Syncs, StartFails(r, s) PROVE Waits'
    <3>1. \A q \in Requests : own'[q] = own[q] \/ rpc[q] = "idle"
      BY <1>1, <2>2 DEF Ensure, StartFails
    <3>2. QED
      BY <2>0, <2>2, <3>1 DEF StartFails, Unused
  <2>3. CASE JoinSync(r)
    <3>1. \A q \in Requests : own'[q] = own[q] \/ joined'[q] # Nothing
      BY <1>1, <2>3 DEF Ensure, JoinSync
    <3>2. QED
      BY <2>0, <2>3, <3>1 DEF JoinSync
  <2>4. CASE SkipSync(r)
    <3>1. ~own'[r] /\ \A q \in Requests \ {r} : own'[q] = own[q]
      BY <1>1, <2>4 DEF Ensure, SkipSync
    <3>2. QED
      BY <2>0, <2>4, <3>1 DEF SkipSync
  <2>5. CASE SyncSeen(r) \/ WaitTimesOut(r)
    <3>1. UNCHANGED own
      BY <1>1, <2>5 DEF Ensure, SyncSeen, WaitTimesOut
    <3>2. QED
      BY <2>0, <2>5, <3>1 DEF SyncSeen, WaitTimesOut
  <2>6. QED
    BY <1>1, <2>1, <2>2, <2>3, <2>4, <2>5 DEF Ensure, EnsureFresh
<1>2. ASSUME NEW r \in Requests, Indexes(r) PROVE Waits'
  <2>1. UNCHANGED <<vars, asked>> /\ \A q \in Requests : ipc'[q] = ipc[q] \/ rpc[q] = "ensured"
    BY <1>2, IndexFrame DEF Indexes, ReuseIndex, TakeLock, ReadFiles, Publish, Report
  <2>2. QED
    BY <2>1
<1>3. ASSUME NEW r \in Requests, Respond(r) PROVE Waits'
  BY <1>3 DEF Respond, Leave
<1>4. ASSUME NEW s \in Syncs, RunSync(s), UNCHANGED <<serving, asked>> PROVE Waits'
  <2>1. /\ \A u \in Syncs : spc'[u] # spc[u] => spc[u] # "free"
        /\ \A u \in Syncs : eventSet'[u] # eventSet[u] => spc'[u] = "free"
    BY <1>4 DEF RunSync, ReadBranch, Fetch, ReadRemote, ReadHead, CheckLocalWork, Merge, Confirm,
                CommandFails, FailsWith, Succeeds, ClearInFlight, SetEvent
  <2>2. QED
    BY <1>4, <2>1, SyncFrame
<1>5. CASE Environment /\ UNCHANGED <<serving, asked>>
  <2>1. UNCHANGED <<thread, request>> /\ pushes <= pushes'
    BY <1>5 DEF Environment, Push, UserActs, Tick
  <2>2. pushes' \in Nat
    BY ServeSteps, GTypeStep
  <2>3. \A q \in Requests : began[q] <= pushes'
    BY <2>1, <2>2
  <2>4. QED
    BY <1>5, <2>1, <2>3
<1>6. CASE UNCHANGED serveVars
  BY <1>6 DEF serveVars
<1>7. QED
  BY <1>1, <1>2, <1>3, <1>4, <1>5, <1>6 DEF ServeNext, Indexes

\* While one sync runs git commands, another only ends, without touching the checkout.
LEMMA OtherSyncs ==
  ASSUME GInv, NEW s \in Syncs, RunSync(s), NEW u \in Syncs, u # s
  PROVE  /\ spc'[u] = spc[u] /\ branch'[u] = branch[u] /\ target'[u] = target[u]
         /\ base'[u] = base[u] /\ succeeded'[u] = succeeded[u]
         /\ Running(u) => UNCHANGED <<checkout, generation, succeeded>>
<1> USE DEF GInv, TypeOK, checkout, syncer, thread
<1>1. CASE ReadBranch(s) \/ Fetch(s) \/ ReadRemote(s) \/ ReadHead(s) \/ CheckLocalWork(s)
  <2>1. Running(s)
    BY <1>1 DEF Running, ReadBranch, Fetch, ReadRemote, ReadHead, CheckLocalWork
  <2>2. ~Running(u)
    BY <2>1 DEF InFlightOK
  <2>3. QED
    BY <1>1, <2>2 DEF ReadBranch, Fetch, ReadRemote, ReadHead, CheckLocalWork, FailsWith, Succeeds
<1>2. CASE Merge(s) \/ Confirm(s) \/ CommandFails(s) \/ ClearInFlight(s)
  <2>1. Running(s)
    BY <1>2 DEF Running, Merge, Confirm, CommandFails, ClearInFlight
  <2>2. ~Running(u)
    BY <2>1 DEF InFlightOK
  <2>3. QED
    BY <1>2, <2>2 DEF Merge, Confirm, CommandFails, ClearInFlight, FailsWith, Succeeds
<1>3. CASE SetEvent(s)
  BY <1>3 DEF SetEvent
<1>4. QED
  BY <1>1, <1>2, <1>3 DEF RunSync

\* What a request leaves behind that has its answer.
LEMMA RespondEffect ==
  ASSUME GInv, ServeTypes, NEW r \in Requests, Respond(r)
  PROVE  /\ UNCHANGED <<checkout, limits, syncer, thread, uncounted, gitSeen, index, gen>>
         /\ rpc'[r] = "idle" /\ ipc'[r] = "outside" /\ ~late'[r]
         /\ \A q \in Requests \ {r} :
              /\ rpc'[q] = rpc[q] /\ joined'[q] = joined[q] /\ late'[q] = late[q]
              /\ own'[q] = own[q] /\ began'[q] = began[q]
              /\ ipc'[q] = ipc[q] /\ answer'[q] = answer[q]
BY DEF GInv, TypeOK, ServeTypes, Respond, Leave

\* A push, a user and the clock, as far as they matter to a request.
EnvironmentLeaves ==
    /\ UNCHANGED <<syncer, thread, request, uncounted, tracking>>
    /\ userActs' # 0 \/ UNCHANGED <<userActs, heads, current>>
    /\ pushes' > pushes \/ UNCHANGED <<remote, pushes>>

LEMMA EnvironmentEffect == GInv /\ Environment => EnvironmentLeaves
<1> SUFFICES ASSUME GInv, Environment PROVE EnvironmentLeaves
  OBVIOUS
<1> USE DEF GInv, TypeOK, checkout, limits, syncer, thread, request
<1>1. ASSUME NEW b \in Branches, NEW c \in Commits, Push(b, c) PROVE EnvironmentLeaves
  BY <1>1 DEF Push, EnvironmentLeaves
<1>2. CASE UserActs
  BY <1>2 DEF UserActs, EnvironmentLeaves
<1>3. CASE Tick
  BY <1>3 DEF Tick, EnvironmentLeaves
<1>4. QED
  BY <1>1, <1>2, <1>3 DEF Environment

LEMMA UndisturbedStep == ServeInv /\ [ServeNext]_serveVars => Undisturbed'
<1> SUFFICES ASSUME ServeInv, [ServeNext]_serveVars PROVE Undisturbed'
  OBVIOUS
<1> USE DEF ServeInv, GInv, TypeOK, Undisturbed, checkout, limits, syncer, thread
<1>1. ASSUME NEW r \in Requests, Ensure(r) PROVE Undisturbed'
  BY <1>1, EnsureEffect DEF EnsureChanges
<1>2. ASSUME NEW r \in Requests, Indexes(r) PROVE Undisturbed'
  BY <1>2, IndexFrame DEF vars
<1>3. ASSUME NEW r \in Requests, Respond(r) PROVE Undisturbed'
  BY <1>3, RespondEffect
<1>4. ASSUME NEW s \in Syncs, RunSync(s) PROVE Undisturbed'
  <2>1. ASSUME userActs = 0
        PROVE  /\ spc'[s] \in {"fetch", "remote"} => branch'[s] = current
               /\ spc'[s] \in {"status", "merge"} => base'[s] = heads'[current]
               /\ spc'[s] = "merge" => base'[s] \in Ancestors[target'[s]]
    <3>1. CASE ReadBranch(s) \/ Fetch(s) \/ ReadRemote(s)
      BY <2>1, <3>1 DEF ReadBranch, Fetch, ReadRemote, FailsWith
    <3>2. CASE ReadHead(s) \/ CheckLocalWork(s)
      BY <2>1, <3>2 DEF ReadHead, CheckLocalWork, FailsWith, Succeeds
    <3>3. CASE Merge(s) \/ Confirm(s) \/ CommandFails(s)
      BY <2>1, <3>3 DEF Merge, Confirm, CommandFails, FailsWith, Succeeds
    <3>4. CASE ClearInFlight(s) \/ SetEvent(s)
      BY <2>1, <3>4 DEF ClearInFlight, SetEvent
    <3>5. QED
      BY <1>4, <3>1, <3>2, <3>3, <3>4 DEF RunSync
  <2>2. UNCHANGED <<userActs, current>>
    BY <1>4, SyncFrame
  <2>3. ASSUME userActs = 0, NEW u \in Syncs, u # s
        PROVE  /\ spc'[u] \in {"fetch", "remote"} => branch'[u] = current
               /\ spc'[u] \in {"status", "merge"} => base'[u] = heads'[current]
               /\ spc'[u] = "merge" => base'[u] \in Ancestors[target'[u]]
    BY <1>4, <2>3, OtherSyncs DEF Running
  <2>4. QED
    BY <2>1, <2>2, <2>3
<1>5. CASE Environment
  BY <1>5, EnvironmentEffect DEF EnvironmentLeaves
<1>6. CASE UNCHANGED serveVars
  BY <1>6 DEF serveVars, vars
<1>7. QED
  BY <1>1, <1>2, <1>3, <1>4, <1>5, <1>6 DEF ServeNext, Indexes

\* A sync that was started since the last push has the remote's commit, whoever started it.
LEMMA FetchedStep == ServeInv /\ [ServeNext]_serveVars => Fetched'
<1> SUFFICES ASSUME ServeInv, [ServeNext]_serveVars PROVE Fetched'
  OBVIOUS
<1> USE DEF ServeInv, GInv, TypeOK, Fetched, checkout, limits, syncer, thread
<1> DEFINE Got(s) ==
        /\ spc[s] = "remote" => tracking[current] = remote[current]
        /\ spc[s] \in {"head", "status", "merge"} => target[s] = remote[current]
        /\ spc[s] = "confirm" => heads[current] = remote[current]
<1>1. ASSUME NEW r \in Requests, Ensure(r) PROVE Fetched'
  <2>1. EnsureChanges(r)
    BY <1>1, EnsureEffect
  <2>2. ASSUME inFlight = Nothing, NEW s \in Syncs PROVE Got(s)'
    <3>1. ~Running(s)
      BY <2>2, NothingIsNone DEF InFlightOK
    <3>2. QED
      BY <2>1, <3>1 DEF EnsureChanges, Running
  <2>3. ASSUME userActs = 0, NEW q \in Requests, Since(q), NEW s \in Syncs PROVE Got(s)'
    <3>1. Got(s)
      BY <2>3
    <3>2. QED
      BY <2>1, <3>1 DEF EnsureChanges
  <2>4. QED
    BY <2>1, <2>2, <2>3 DEF EnsureChanges
<1>2. ASSUME NEW r \in Requests, Indexes(r) PROVE Fetched'
  BY <1>2, IndexFrame DEF vars, asked, request, Since
<1>3. ASSUME NEW r \in Requests, Respond(r) PROVE Fetched'
  <2>1. \A q \in Requests : Since(q)' => Since(q)
    BY <1>3, RespondEffect DEF Since
  <2>2. QED
    BY <1>3, <2>1, RespondEffect
<1>4. ASSUME NEW s \in Syncs, RunSync(s), UNCHANGED <<serving, asked>> PROVE Fetched'
  <2>1. /\ UNCHANGED <<userActs, current, remote>>
        /\ \A q \in Requests : Since(q)' => Since(q)
    BY <1>4, SyncFrame DEF Since, request, asked
  <2>2. SUFFICES ASSUME userActs = 0, NEW q \in Requests, Since(q), NEW u \in Syncs
                 PROVE  Got(u)'
    BY <2>1
  <2>3. \A v \in Syncs : Got(v)
    BY <2>2
  <2>4. CASE u # s
    BY <1>4, <2>1, <2>3, <2>4, OtherSyncs DEF Running
  <2>5. CASE u = s
    <3>1. CASE ReadBranch(s) \/ CheckLocalWork(s)
      BY <2>1, <2>3, <2>5, <3>1 DEF ReadBranch, CheckLocalWork, FailsWith
    <3>2. CASE Fetch(s)
      BY <2>1, <2>2, <2>5, <3>2 DEF Fetch, Undisturbed
    <3>3. CASE ReadRemote(s)
      BY <2>1, <2>2, <2>3, <2>5, <3>3 DEF ReadRemote, Undisturbed
    <3>4. CASE ReadHead(s)
      BY <2>1, <2>3, <2>5, <3>4 DEF ReadHead, Succeeds
    <3>5. CASE Merge(s)
      <4>1. /\ target[s] = remote[current] /\ target[s] \in Commits
            /\ heads[current] \in Ancestors[target[s]]
        BY <2>2, <2>3, <3>5, CommitsAssumption DEF Merge, Undisturbed
      <4>2. spc'[s] = "confirm" => heads'[current] = target[s]
        BY <3>5, <4>1, HistoryIsAcyclic DEF Merge, FailsWith
      <4>3. QED
        BY <2>1, <2>5, <3>5, <4>1, <4>2 DEF Merge, FailsWith
    <3>6. CASE Confirm(s) \/ CommandFails(s) \/ ClearInFlight(s) \/ SetEvent(s)
      BY <2>5, <3>6 DEF Confirm, CommandFails, ClearInFlight, SetEvent, FailsWith, Succeeds
    <3>7. QED
      BY <1>4, <3>1, <3>2, <3>3, <3>4, <3>5, <3>6 DEF RunSync
  <2>6. QED
    BY <2>4, <2>5
<1>5. CASE Environment /\ UNCHANGED <<serving, asked>>
  <2>1. \A q \in Requests : Since(q)' /\ userActs' = 0 =>
            Since(q) /\ UNCHANGED <<userActs, heads, current, remote, tracking>>
    BY <1>5, EnvironmentEffect DEF EnvironmentLeaves, Since, Waits, ServeTypes, request, asked
  <2>2. QED
    BY <1>5, <2>1, EnvironmentEffect DEF EnvironmentLeaves
<1>6. CASE UNCHANGED serveVars
  BY <1>6 DEF serveVars, vars, asked, request, Since
<1>7. QED
  BY <1>1, <1>2, <1>3, <1>4, <1>5, <1>6 DEF ServeNext, Indexes

\* Once a request's own sync has succeeded the checkout stays where it is.
LEMMA SettledStep == ServeInv /\ [ServeNext]_serveVars => Settled'
<1> SUFFICES ASSUME ServeInv, [ServeNext]_serveVars PROVE Settled'
  OBVIOUS
<1> USE DEF ServeInv, GInv, TypeOK, checkout, limits, syncer, thread
<1> DEFINE AtRest == /\ heads[current] = remote[current]
                     /\ \A s \in Syncs : spc[s] \notin {"status", "merge", "confirm"}
<1>1. ASSUME NEW r \in Requests, Ensure(r) PROVE Settled'
  <2>1. EnsureChanges(r)
    BY <1>1, EnsureEffect
  <2>2. SUFFICES ASSUME userActs = 0, NEW q \in Requests, Since(q)', succeeded'[joined'[q]]
                 PROVE  AtRest'
    BY <2>1 DEF Settled, EnsureChanges
  <2>3. AtRest
    BY <2>1, <2>2 DEF EnsureChanges, Settled
  <2>4. QED
    BY <2>1, <2>3 DEF EnsureChanges
<1>2. ASSUME NEW r \in Requests, Indexes(r) PROVE Settled'
  BY <1>2, IndexFrame DEF vars, asked, request, Since, Settled
<1>3. ASSUME NEW r \in Requests, Respond(r) PROVE Settled'
  <2>1. \A q \in Requests : Since(q)' => Since(q) /\ joined'[q] = joined[q]
    BY <1>3, RespondEffect DEF Since
  <2>2. QED
    BY <1>3, <2>1, RespondEffect DEF Settled
<1>4. ASSUME NEW s \in Syncs, RunSync(s), UNCHANGED <<serving, asked>> PROVE Settled'
  <2>1. /\ UNCHANGED <<userActs, current, remote, joined>>
        /\ \A q \in Requests : Since(q)' => Since(q)
    BY <1>4, SyncFrame DEF Since, request, asked
  <2>2. SUFFICES ASSUME userActs = 0, NEW q \in Requests, Since(q), succeeded'[joined[q]]
                 PROVE  AtRest'
    BY <2>1 DEF Settled
  <2>3. joined[q] \in Syncs
    BY <2>2 DEF Waits, Since
  <2>4. \A u \in Syncs \ {s} : spc'[u] = spc[u]
    BY <1>4, OtherSyncs
  <2>5. CASE succeeded[joined[q]]
    <3>1. AtRest
      BY <2>2, <2>5 DEF Settled
    <3>2. CASE ReadHead(s)
      BY <2>1, <2>2, <2>4, <3>1, <3>2 DEF ReadHead, Succeeds, Fetched
    <3>3. CASE ~ReadHead(s)
      BY <1>4, <2>1, <2>4, <3>1, <3>3 DEF RunSync, ReadBranch, Fetch, ReadRemote, CheckLocalWork,
                Merge, Confirm, CommandFails, ClearInFlight, SetEvent, FailsWith
    <3>4. QED
      BY <3>2, <3>3
  <2>6. CASE ~succeeded[joined[q]]
    <3>1. joined[q] = s /\ (ReadHead(s) \/ Confirm(s))
      BY <1>4, <2>2, <2>3, <2>6, OtherSyncs DEF RunSync, ReadBranch, Fetch, ReadRemote, CheckLocalWork,
                Merge, CommandFails, ClearInFlight, SetEvent
    <3>2. Running(s)
      BY <3>1 DEF Running, ReadHead, Confirm
    <3>3. \A u \in Syncs \ {s} : spc'[u] \notin {"status", "merge", "confirm"}
      BY <2>4, <3>2 DEF InFlightOK, Running
    <3>4. CASE ReadHead(s)
      BY <2>1, <2>2, <2>6, <3>1, <3>3, <3>4 DEF ReadHead, Succeeds, Fetched
    <3>5. CASE Confirm(s)
      BY <2>1, <2>2, <3>3, <3>5 DEF Confirm, Succeeds, Fetched
    <3>6. QED
      BY <3>1, <3>4, <3>5
  <2>7. QED
    BY <2>5, <2>6
<1>5. CASE Environment /\ UNCHANGED <<serving, asked>>
  <2>1. \A q \in Requests : Since(q)' /\ userActs' = 0 =>
            Since(q) /\ UNCHANGED <<userActs, heads, current, remote>>
    BY <1>5, EnvironmentEffect DEF EnvironmentLeaves, Since, Waits, ServeTypes, request, asked
  <2>2. QED
    BY <1>5, <2>1, EnvironmentEffect DEF EnvironmentLeaves, Settled, request
<1>6. CASE UNCHANGED serveVars
  BY <1>6 DEF serveVars, vars, asked, request, Since, Settled
<1>7. QED
  BY <1>1, <1>2, <1>3, <1>4, <1>5, <1>6 DEF ServeNext, Indexes

\* An index whose generation is the last one is of the head, unless a merge is not counted yet.
LEMMA SeenStep == ServeInv /\ [ServeNext]_serveVars => Seen'
<1> SUFFICES ASSUME ServeInv, [ServeNext]_serveVars PROVE Seen'
  OBVIOUS
<1> USE DEF ServeInv, GInv, TypeOK, ServeTypes, Seen, checkout, limits, syncer, thread, serving
<1>1. ASSUME NEW r \in Requests, Ensure(r) PROVE Seen'
  <2>1. EnsureChanges(r)
    BY <1>1, EnsureEffect
  <2>2. Counted' => Counted
    BY <2>1, NothingIsNone DEF EnsureChanges, Counted, InFlightOK, Running
  <2>3. QED
    BY <2>1, <2>2 DEF EnsureChanges
<1>2. ASSUME NEW r \in Requests, Indexes(r) PROVE Seen'
  <2>1. UNCHANGED vars /\ Counted' = Counted
    BY <1>2, IndexFrame DEF vars, Counted
  <2>2. CASE ReuseIndex(r)
    BY <2>1, <2>2 DEF ReuseIndex, vars
  <2>3. CASE TakeLock(r)
    BY <2>1, <2>3 DEF TakeLock, vars
  <2>4. CASE ReadFiles(r)
    BY <2>1, <2>4 DEF ReadFiles, vars
  <2>5. CASE Publish(r)
    BY <2>1, <2>5 DEF Publish, vars
  <2>6. CASE Report(r)
    BY <2>1, <2>6 DEF Report, vars
  <2>7. QED
    BY <1>2, <2>2, <2>3, <2>4, <2>5, <2>6 DEF Indexes
<1>3. ASSUME NEW r \in Requests, Respond(r) PROVE Seen'
  BY <1>3, RespondEffect DEF Counted
<1>4. ASSUME NEW s \in Syncs, RunSync(s), UNCHANGED <<serving, asked>> PROVE Seen'
  <2>1. UNCHANGED <<userActs, current>> /\ (uncounted => uncounted')
    BY <1>4, SyncFrame
  <2>2. CASE Confirm(s)
    <3>1. generation' = generation + 1
      BY <2>2 DEF Confirm
    <3>2. \A g \in Nat : g <= generation => g <= generation' /\ g # generation'
      BY <3>1
    <3>3. QED
      BY <1>4, <3>2
  <2>3. CASE Merge(s)
    <3>1. Counted' => Counted /\ UNCHANGED heads
      BY <2>1, <2>3 DEF Merge, Counted, FailsWith
    <3>2. QED
      BY <1>4, <2>1, <2>3, <3>1 DEF Merge
  <2>4. CASE CommandFails(s)
    <3>1. Counted' => Counted /\ UNCHANGED heads
      BY <2>1, <2>4 DEF CommandFails, Counted, FailsWith
    <3>2. QED
      BY <1>4, <2>1, <2>4, <3>1 DEF CommandFails
  <2>5. CASE ~Confirm(s) /\ ~Merge(s) /\ ~CommandFails(s)
    <3>1. UNCHANGED <<heads, generation, uncounted>> /\ (Counted' => Counted)
      BY <1>4, <2>1, <2>5 DEF RunSync, ReadBranch, Fetch, ReadRemote, ReadHead, CheckLocalWork,
                ClearInFlight, SetEvent, FailsWith, Succeeds, Counted
    <3>2. QED
      BY <1>4, <2>1, <3>1
  <2>6. QED
    BY <2>2, <2>3, <2>4, <2>5
<1>5. CASE Environment /\ UNCHANGED <<serving, asked>>
  <2>1. Counted' => Counted /\ UNCHANGED <<heads, current>>
    BY <1>5, EnvironmentEffect DEF EnvironmentLeaves, Counted
  <2>2. QED
    BY <1>5, <2>1, EnvironmentEffect DEF EnvironmentLeaves
<1>6. CASE UNCHANGED serveVars
  BY <1>6 DEF serveVars, vars, Counted
<1>7. QED
  BY <1>1, <1>2, <1>3, <1>4, <1>5, <1>6 DEF ServeNext, Indexes

\* A request that is answered after its sync is answered from the remote's commit.
LEMMA AnswersStep == ServeInv /\ [ServeNext]_serveVars => AnswersOK'
<1> SUFFICES ASSUME ServeInv, [ServeNext]_serveVars PROVE AnswersOK'
  OBVIOUS
<1> USE DEF ServeInv, GInv, TypeOK, ServeTypes
<1> DEFINE Settles(q) == Since(q) /\ ~late[q] /\ succeeded[joined[q]]
           Has(q) == ipc[q] \notin {"outside", "building"} /\ Settles(q)
<1>1. ASSUME NEW r \in Requests, Ensure(r) PROVE AnswersOK'
  <2>1. EnsureChanges(r)
    BY <1>1, EnsureEffect
  <2>2. \A q \in Requests : Has(q)' => q # r
    BY <2>1 DEF EnsureChanges, serving
  <2>3. \A q \in Requests : Has(q)' => Has(q)
    BY <2>1, <2>2 DEF EnsureChanges, serving, Since, Waits, limits
  <2>4. QED
    BY <2>1, <2>3 DEF EnsureChanges, serving, AnswersOK, checkout, limits
<1>2. ASSUME NEW r \in Requests, Indexes(r) PROVE AnswersOK'
  <2>1. UNCHANGED <<vars, asked>>
    BY <1>2, IndexFrame
  <2>2. UNCHANGED <<remote, heads, current, userActs, uncounted>>
        /\ \A q \in Requests : Settles(q)' <=> Settles(q)
    BY <2>1 DEF vars, checkout, limits, thread, request, asked, Since
  <2>3. ASSUME ~uncounted, userActs = 0, Settles(r), rpc[r] = "ensured"
        PROVE  Counted /\ heads[current] = remote[current]
    BY <2>3 DEF Settled, Counted
  <2>4. CASE ReuseIndex(r)
    <3>1. /\ rpc[r] = "ensured" /\ answer' = [answer EXCEPT ![r] = index]
          /\ index # Nothing /\ gitSeen = generation
          /\ \A q \in Requests \ {r} : ipc'[q] = ipc[q]
      BY <2>4 DEF ReuseIndex, Reusable
    <3>2. ~uncounted /\ userActs = 0 /\ Settles(r) => index = remote[current]
      BY <2>3, <3>1 DEF Seen
    <3>3. QED
      BY <2>2, <3>1, <3>2 DEF AnswersOK
  <2>5. CASE TakeLock(r)
    BY <2>2, <2>5 DEF TakeLock, AnswersOK
  <2>6. CASE ReadFiles(r)
    <3>1. /\ rpc[r] = "ensured" /\ answer' = [answer EXCEPT ![r] = heads[current]]
          /\ \A q \in Requests \ {r} : ipc'[q] = ipc[q]
      BY <2>6 DEF ReadFiles, Waits
    <3>2. ~uncounted /\ userActs = 0 /\ Settles(r) => heads[current] = remote[current]
      BY <2>3, <3>1
    <3>3. QED
      BY <2>2, <3>1, <3>2 DEF AnswersOK
  <2>7. CASE Publish(r) \/ Report(r)
    <3>1. UNCHANGED answer /\ \A q \in Requests : Has(q)' => Has(q)
      BY <2>2, <2>7 DEF Publish, Report
    <3>2. QED
      BY <2>2, <3>1 DEF AnswersOK
  <2>8. QED
    BY <1>2, <2>4, <2>5, <2>6, <2>7 DEF Indexes
<1>3. ASSUME NEW r \in Requests, Respond(r) PROVE AnswersOK'
  <2>1. \A q \in Requests : Has(q)' => q # r /\ Has(q) /\ answer'[q] = answer[q]
    BY <1>3, RespondEffect DEF Since, limits, thread
  <2>2. QED
    BY <1>3, <2>1, RespondEffect DEF AnswersOK, checkout, limits
<1>4. ASSUME NEW s \in Syncs, RunSync(s), UNCHANGED <<serving, asked>> PROVE AnswersOK'
  <2>1. /\ UNCHANGED <<userActs, current, remote, request, pushes>>
        /\ uncounted => uncounted'
    BY <1>4, SyncFrame
  <2>2. spc[s] # "free"
    BY <1>4 DEF RunSync, ReadBranch, Fetch, ReadRemote, ReadHead, CheckLocalWork, Merge, Confirm,
                CommandFails, Commands, ClearInFlight, SetEvent
  <2>3. \A q \in Requests : Has(q)' => Since(q) /\ ~late[q] /\ ipc[q] \notin {"outside", "building"}
    BY <1>4, <2>1 DEF Since, request, asked, serving
  <2>4. \A q \in Requests : Has(q)' => joined[q] \in Syncs /\ joined[q] # s
    BY <2>2, <2>3 DEF Waits, Since
  <2>5. \A q \in Requests : Has(q)' => Has(q)
    BY <1>4, <2>1, <2>3, <2>4, OtherSyncs DEF request
  <2>6. QED
    BY <1>4, <2>1, <2>5 DEF AnswersOK, serving
<1>5. CASE Environment /\ UNCHANGED <<serving, asked>>
  <2>1. \A q \in Requests : Has(q)' /\ userActs' = 0 =>
            Has(q) /\ UNCHANGED <<userActs, current, remote>>
    BY <1>5, EnvironmentEffect DEF EnvironmentLeaves, Since, Waits, request, asked, thread, serving
  <2>2. QED
    BY <1>5, <2>1, EnvironmentEffect DEF EnvironmentLeaves, AnswersOK, serving
<1>6. CASE UNCHANGED serveVars
  BY <1>6 DEF serveVars, vars, checkout, limits, asked, request, thread, Since, AnswersOK, serving
<1>7. QED
  BY <1>1, <1>2, <1>3, <1>4, <1>5, <1>6 DEF ServeNext, Indexes

\* A request that gave up waiting reports fresh files only when no sync runs.
LEMMA LateStep == ServeInv /\ [ServeNext]_serveVars => LateIsStaleUnlessEnded'
<1> SUFFICES ASSUME ServeInv, [ServeNext]_serveVars PROVE LateIsStaleUnlessEnded'
  OBVIOUS
<1> USE DEF ServeInv, GInv, TypeOK, ServeTypes, LateIsStaleUnlessEnded
<1>1. ASSUME NEW r \in Requests, Ensure(r) PROVE LateIsStaleUnlessEnded'
  BY <1>1, EnsureEffect DEF EnsureChanges, serving, Waits
<1>2. ASSUME NEW r \in Requests, Indexes(r) PROVE LateIsStaleUnlessEnded'
  <2>1. UNCHANGED <<spc, late, joined>>
    BY <1>2, IndexFrame DEF vars, thread, request
  <2>2. CASE Report(r)
    <3>1. ipc'[r] = "fresh" => inFlight = Nothing
      BY <2>2 DEF Report, Stale
    <3>2. late[r] => joined[r] \in Syncs
      BY DEF Waits
    <3>3. ipc'[r] = "fresh" /\ late[r] => spc[joined[r]] \in {"cleared", "free"}
      BY <3>1, <3>2, NothingIsNone DEF InFlightOK, Running
    <3>4. QED
      BY <2>1, <2>2, <3>3 DEF Report
  <2>3. CASE ~Report(r)
    BY <1>2, <2>1, <2>3 DEF Indexes, ReuseIndex, TakeLock, ReadFiles, Publish
  <2>4. QED
    BY <2>2, <2>3
<1>3. ASSUME NEW r \in Requests, Respond(r) PROVE LateIsStaleUnlessEnded'
  BY <1>3, RespondEffect DEF thread
<1>4. ASSUME NEW s \in Syncs, RunSync(s), UNCHANGED <<serving, asked>> PROVE LateIsStaleUnlessEnded'
  <2>1. UNCHANGED <<late, joined, ipc>>
    BY <1>4, SyncFrame DEF request, serving
  <2>2. \A u \in Syncs : spc[u] \in {"cleared", "free"} => spc'[u] \in {"cleared", "free"}
    BY <1>4 DEF RunSync, ReadBranch, Fetch, ReadRemote, ReadHead, CheckLocalWork, Merge, Confirm,
                CommandFails, Commands, FailsWith, Succeeds, ClearInFlight, SetEvent
  <2>3. QED
    BY <2>1, <2>2 DEF Waits
<1>5. CASE Environment /\ UNCHANGED <<serving, asked>>
  BY <1>5, EnvironmentEffect DEF EnvironmentLeaves, thread, request, serving
<1>6. CASE UNCHANGED serveVars
  BY <1>6 DEF serveVars, vars, thread, request, serving
<1>7. QED
  BY <1>1, <1>2, <1>3, <1>4, <1>5, <1>6 DEF ServeNext, Indexes

\* The invariant of the service over the checkout holds of every reachable state.
THEOREM ServeInvariance == ServeSpec => []ServeInv
<1>1. ServeInv /\ [ServeNext]_serveVars => GInv'
  BY ServeSteps, GTypeStep, InFlightStep, TargetsStep DEF ServeInv, GInv
<1>2. ServeInv /\ [ServeNext]_serveVars => ServeInv'
  BY <1>1, ServeTypesStep, WaitsStep, UndisturbedStep, FetchedStep, SettledStep, SeenStep,
     AnswersStep, LateStep DEF ServeInv
<1>3. QED
  BY ServeInvInit, <1>2, PTL DEF ServeSpec

\* A request whose own sync succeeded is answered from the remote's commit, unless somebody
\* pushed or touched the checkout meanwhile, or a sync failed after its merge.
THEOREM SyncedAnswersAreCurrent == ServeSpec => []SyncedAnswerUnlessUncounted
<1>1. ServeInv => SyncedAnswerUnlessUncounted
  <2> SUFFICES ASSUME ServeInv, ~uncounted, NEW r \in Requests, Synced(r)
               PROVE  answer[r] = remote[current]
    BY DEF SyncedAnswerUnlessUncounted, SyncedAnswer
  <2>1. Since(r) /\ ipc[r] \notin {"outside", "building"}
    BY DEF Synced, Answered, Since, ServeInv, Waits
  <2>2. QED
    BY <2>1 DEF Synced, ServeInv, AnswersOK
<1>2. QED
  BY ServeInvariance, <1>1, PTL

\* A request that gave up waiting is never reported fresh while its sync runs.
THEOREM LateAnswersAreStale == ServeSpec => []LateIsStaleUnlessEnded
<1>1. ServeInv => LateIsStaleUnlessEnded
  BY DEF ServeInv
<1>2. QED
  BY ServeInvariance, <1>1, PTL

-----------------------------------------------------------------------------
(* The service over a directory that users change (SourceTree).  For every *)
(* tree, every change of it and every content of its files: what the scan  *)
(* of the watcher and the loads of the adapters have to do with each other.*)

\* Names and the paths that they make

LEMMA PathParts ==
    ASSUME NEW x \in Paths
    PROVE  /\ Len(x) \in Nat \ {0} /\ x \in [1..Len(x) -> Names]
           /\ Front(x) \in Seq(Names) /\ Len(Front(x)) = Len(x) - 1
           /\ \A i \in 1..(Len(x) - 1) : Front(x)[i] = x[i]
           /\ Last(x) = x[Len(x)]
<1>1. x \in Seq(Names) /\ Len(x) \in Nat /\ x \in [1..Len(x) -> Names]
  BY DEF Paths
<1>2. Len(x) # 0
  BY EmptySeq DEF Paths
<1>3. \A i \in 1..(Len(x) - 1) : x[i] \in Names
  BY <1>1
<1>4. /\ Front(x) \in Seq(Names) /\ Len(Front(x)) = Len(x) - 1
      /\ \A i \in 1..(Len(x) - 1) : Front(x)[i] = x[i]
  BY <1>1, <1>2, <1>3 DEF Front
<1>5. QED
  BY <1>1, <1>2, <1>4 DEF Last

LEMMA FrontNames ==
    ASSUME NEW x \in Paths
    PROVE  ToSet(x) = ToSet(Front(x)) \cup {Last(x)}
<1>1. ToSet(x) = {x[i] : i \in 1..Len(x)}
  BY PathParts DEF ToSet, Paths
<1>2. ToSet(Front(x)) = {x[i] : i \in 1..(Len(x) - 1)}
  BY PathParts DEF ToSet
<1>3. 1..Len(x) = 1..(Len(x) - 1) \cup {Len(x)}
  BY PathParts
<1>4. QED
  BY <1>1, <1>2, <1>3, PathParts

LEMMA BelowParts ==
    ASSUME NEW dir \in Seq(Names), NEW x \in Seq(Names), Below(dir, x)
    PROVE  /\ Len(dir) \in Nat /\ Len(x) \in Nat /\ Len(dir) < Len(x)
           /\ dir = SubSeq(x, 1, Len(dir))
           /\ \A i \in 1..Len(dir) : x[i] = dir[i]
<1>1. Len(dir) \in Nat /\ Len(x) \in Nat /\ Len(dir) <= Len(x)
  BY DEF Below, IsStrictPrefix, IsPrefix
<1>2. SubSeq(dir, 1, Len(dir)) = dir /\ SubSeq(x, 1, Len(x)) = x
  BY SubSeqFull
<1>3. dir = SubSeq(x, 1, Len(dir)) /\ dir # x
  BY <1>2 DEF Below, IsStrictPrefix, IsPrefix
<1>4. Len(dir) # Len(x)
  BY <1>2, <1>3
<1>5. \A i \in 1..Len(dir) : SubSeq(x, 1, Len(dir))[i] = x[i]
  BY <1>1
<1>6. QED
  BY <1>1, <1>3, <1>4, <1>5

LEMMA RelativeParts ==
    ASSUME NEW dir \in Seq(Names), NEW x \in Seq(Names), Below(dir, x)
    PROVE  /\ Relative(dir, x) \in Paths /\ x \in Paths
           /\ Len(Relative(dir, x)) = Len(x) - Len(dir)
           /\ \A i \in 1..(Len(x) - Len(dir)) : Relative(dir, x)[i] = x[Len(dir) + i]
<1>1. Len(dir) \in Nat /\ Len(x) \in Nat /\ Len(dir) < Len(x)
  BY BelowParts
<1>2. \A i \in Len(dir) + 1..Len(x) : x[i] \in Names
  BY <1>1
<1>3. /\ Relative(dir, x) \in Seq(Names)
      /\ Len(Relative(dir, x)) = Len(x) - Len(dir)
      /\ \A i \in 1..(Len(x) - Len(dir)) : Relative(dir, x)[i] = x[Len(dir) + i]
  BY <1>1, <1>2 DEF Relative
<1>4. QED
  BY <1>1, <1>3 DEF Paths

LEMMA BelowNames ==
    ASSUME NEW dir \in Seq(Names), NEW x \in Seq(Names), Below(dir, x)
    PROVE  /\ ToSet(x) = ToSet(dir) \cup ToSet(Relative(dir, x))
           /\ Last(Relative(dir, x)) = Last(x)
           /\ dir \o Relative(dir, x) = x
<1> DEFINE r == Relative(dir, x)
<1>1. /\ Len(dir) \in Nat /\ Len(x) \in Nat /\ Len(dir) < Len(x)
      /\ \A i \in 1..Len(dir) : x[i] = dir[i]
  BY BelowParts
<1>2. /\ r \in Seq(Names) /\ Len(r) = Len(x) - Len(dir)
      /\ \A i \in 1..Len(r) : r[i] = x[Len(dir) + i]
  BY RelativeParts, <1>1 DEF Paths
<1> HIDE DEF r
<1>3. Last(r) = Last(x)
  BY <1>1, <1>2 DEF Last
<1>4. ToSet(dir) = {dir[i] : i \in 1..Len(dir)}
  BY DEF ToSet
<1>5. ToSet(r) = {r[i] : i \in 1..Len(r)}
  BY <1>2 DEF ToSet
<1>6. ToSet(x) = {x[i] : i \in 1..Len(x)}
  BY DEF ToSet
<1>7. \A i \in 1..Len(x) : \/ i \in 1..Len(dir)
                           \/ i - Len(dir) \in 1..Len(r) /\ x[i] = r[i - Len(dir)]
  BY <1>1, <1>2
<1>8. \A i \in 1..Len(r) : Len(dir) + i \in 1..Len(x)
  BY <1>1, <1>2
<1>9. ToSet(x) = ToSet(dir) \cup ToSet(r)
  <2>1. ToSet(x) \subseteq ToSet(dir) \cup ToSet(r)
    BY <1>1, <1>4, <1>5, <1>6, <1>7
  <2>2. ToSet(dir) \subseteq ToSet(x)
    BY <1>1, <1>4, <1>6
  <2>3. ToSet(r) \subseteq ToSet(x)
    BY <1>2, <1>8, <1>5, <1>6
  <2>4. QED
    BY <2>1, <2>2, <2>3
<1>10. dir \o r = x
  <2>1. dir \o r \in Seq(Names) /\ Len(dir \o r) = Len(x)
    BY <1>1, <1>2
  <2>2. \A i \in 1..Len(x) : (dir \o r)[i] = x[i]
    BY <1>1, <1>2
  <2>3. QED
    BY <2>1, <2>2, SeqEqual
<1>11. QED
  BY <1>3, <1>9, <1>10 DEF r

LEMMA RootBelow ==
    ASSUME NEW x \in Paths
    PROVE  Below(<<>>, x) /\ Relative(<<>>, x) = x
<1>1. <<>> \in Seq(Names) /\ Len(<<>>) = 0
  OBVIOUS
<1>2. SubSeq(<<>>, 1, 0) = <<>> /\ SubSeq(x, 1, 0) = <<>>
  BY <1>1, SubSeqEmpty
<1>3. SubSeq(x, 1, Len(x)) = x
  BY SubSeqFull DEF Paths
<1>4. QED
  BY <1>1, <1>2, <1>3, PathParts DEF Below, IsStrictPrefix, IsPrefix, Relative, Paths

LEMMA BelowIsParent ==
    ASSUME NEW dir \in Seq(Names), NEW x \in Seq(Names), Below(dir, x)
    PROVE  dir = <<>> \/ dir \in Parents(x)
<1>1. Len(dir) \in Nat /\ Len(x) \in Nat /\ Len(dir) < Len(x) /\ dir = SubSeq(x, 1, Len(dir))
  BY BelowParts
<1>2. CASE Len(dir) = 0
  BY <1>2, EmptySeq
<1>3. CASE Len(dir) # 0
  <2>1. Len(dir) \in 1..(Len(x) - 1)
    BY <1>1, <1>3
  <2>2. QED
    BY <1>1, <2>1 DEF Parents
<1>4. QED
  BY <1>2, <1>3

LEMMA ParentIsBelow ==
    ASSUME NEW x \in Paths, NEW dir \in Parents(x)
    PROVE  dir \in Paths /\ Below(dir, x) /\ Parents(dir) \subseteq Parents(x)
<1>1. PICK k \in 1..(Len(x) - 1) : dir = SubSeq(x, 1, k)
  BY DEF Parents
<1>2. Len(x) \in Nat /\ k \in Nat /\ k < Len(x) /\ 1 <= k
  BY PathParts
<1>3. dir \in Seq(Names) /\ Len(dir) = k /\ \A i \in 1..k : dir[i] = x[i]
  BY <1>1, <1>2 DEF Paths
<1>4. SubSeq(dir, 1, k) = dir
  BY <1>3, SubSeqFull
<1>5. dir \in Paths /\ Below(dir, x)
  BY <1>1, <1>2, <1>3, <1>4 DEF Paths, Below, IsStrictPrefix, IsPrefix
<1>6. ASSUME NEW d \in Parents(dir) PROVE d \in Parents(x)
  <2>1. PICK l \in 1..(k - 1) : d = SubSeq(dir, 1, l)
    BY <1>3, <1>6 DEF Parents
  <2>2. l \in 1..(Len(x) - 1)
    BY <1>2
  <2>3. SubSeq(dir, 1, l) = SubSeq(x, 1, l)
    <3>1. /\ SubSeq(dir, 1, l) \in Seq(Names) /\ Len(SubSeq(dir, 1, l)) = l
          /\ \A i \in 1..l : SubSeq(dir, 1, l)[i] = dir[i]
      BY <1>2, <1>3
    <3>2. /\ SubSeq(x, 1, l) \in Seq(Names) /\ Len(SubSeq(x, 1, l)) = l
          /\ \A i \in 1..l : SubSeq(x, 1, l)[i] = x[i]
      BY <1>2 DEF Paths
    <3>3. QED
      BY <1>2, <1>3, <3>1, <3>2, SeqEqual
  <2>4. QED
    BY <2>1, <2>2, <2>3 DEF Parents
<1>7. QED
  BY <1>5, <1>6

LEMMA FrontIsParent ==
    ASSUME NEW x \in Paths
    PROVE  Front(x) = <<>> \/ Front(x) \in Parents(x)
<1>1. PICK n \in Nat \ {0} : n = Len(x)
  BY PathParts
<1>2. CASE n = 1
  <2>1. Len(x) = 1
    BY <1>1, <1>2
  <2>2. QED
    BY <2>1, PathParts, EmptySeq
<1>3. CASE n # 1
  <2>1. n - 1 \in 1..(n - 1)
    BY <1>3
  <2>2. QED
    BY <1>1, <2>1 DEF Front, Parents
<1>4. QED
  BY <1>2, <1>3

LEMMA FrontIsAbove ==
    ASSUME NEW x \in Paths
    PROVE  Child(Front(x), x)
<1>1. Len(x) \in Nat /\ Len(Front(x)) = Len(x) - 1
  BY PathParts
<1>2. Below(Front(x), x)
  BY FrontIsParent, ParentIsBelow, RootBelow
<1>3. QED
  BY <1>1, <1>2 DEF Child

-----------------------------------------------------------------------------
\* What a current scan says of the tree

\* The directories of a tree lie in directories
LEMMA FrontIsDir ==
    ASSUME NEW t, IsTree(t), NEW x \in t.dirs \cup Files(t)
    PROVE  x \in Paths /\ Front(x) \in Dirs(t)
<1>1. x \in Paths /\ Parents(x) \subseteq t.dirs
  BY DEF IsTree
<1>2. QED
  BY <1>1, FrontIsParent DEF Dirs

\* A scan's directories, compared with those of the tree as it is: by their lengths
LEMMA WalkIsCurrent ==
    ASSUME NEW t, IsTree(t), NEW u, IsTree(u), IsCurrent(t, Scan(u))
    PROVE  WalkedDirs(t) = WalkedDirs(u)
<1>1. \A dir \in WalkedDirs(u) : dir \in Dirs(t) /\ Children(t, dir) = Children(u, dir)
  <2> TAKE dir \in WalkedDirs(u)
  <2>1. <<dir, Children(u, dir)>> \in Scan(u).children
    BY DEF Scan
  <2>2. QED
    BY <2>1 DEF IsCurrent
<1>2. WalkedDirs(u) \subseteq WalkedDirs(t)
  BY <1>1 DEF WalkedDirs
<1>3. ASSUME NEW dir \in WalkedDirs(t), dir # <<>>
      PROVE  /\ Front(dir) \in WalkedDirs(t) /\ Len(Front(dir)) < Len(dir)
             /\ Front(dir) \in WalkedDirs(u) => dir \in WalkedDirs(u)
  <2>1. dir \in t.dirs
    BY <1>3 DEF WalkedDirs, Dirs
  <2>2. dir \in Paths /\ Front(dir) \in Dirs(t)
    BY <2>1, FrontIsDir
  <2>3. /\ ToSet(dir) = ToSet(Front(dir)) \cup {Last(dir)}
        /\ Len(Front(dir)) = Len(dir) - 1 /\ Len(dir) \in Nat /\ Front(dir) \in Seq(Names)
    BY <2>2, FrontNames, PathParts
  <2>4. ToSet(dir) \cap (Unwatched \cup MarkerNames) = {}
    BY DEF WalkedDirs
  <2>5. Front(dir) \in WalkedDirs(t)
    BY <2>2, <2>3, <2>4 DEF WalkedDirs
  <2>6. SUFFICES ASSUME Front(dir) \in WalkedDirs(u) PROVE dir \in WalkedDirs(u)
    BY <2>3, <2>5
  <2>7. Child(Front(dir), dir)
    BY <2>2, FrontIsAbove
  <2>8. Last(dir) \notin Unwatched
    BY <2>3, <2>4
  <2>9. dir \in u.dirs
    <3>1. <<"dir", dir>> \in Children(u, Front(dir))
      BY <1>1, <2>1, <2>6, <2>7, <2>8 DEF Children
    <3>2. PICK d \in u.dirs : <<"dir", dir>> = <<"dir", d>>
      BY <3>1 DEF Children
    <3>3. QED
      BY <3>2
  <2>10. QED
    BY <2>4, <2>9 DEF WalkedDirs, Dirs
<1>4. ASSUME NEW dir \in WalkedDirs(t), dir \notin WalkedDirs(u) PROVE FALSE
  <2> DEFINE R == {ss \in Nat \X Nat : ss[1] < ss[2]}
             T == {Len(d) : d \in WalkedDirs(t) \ WalkedDirs(u)}
  <2>1. IsWellFoundedOn(R, Nat)
    BY NatLessThanWellFounded DEF OpToRel
  <2>2. \A d \in WalkedDirs(t) : Len(d) \in Nat
    BY EmptySeq DEF WalkedDirs, Dirs, IsTree, Paths
  <2>3. T \subseteq Nat /\ T # {}
    BY <1>4, <2>2
  <2>4. PICK n \in T : \A m \in T : <<m, n>> \notin R
    BY <2>1, <2>3, WFMin
  <2>5. PICK d \in WalkedDirs(t) \ WalkedDirs(u) : Len(d) = n
    BY <2>4
  <2>6. <<>> \in WalkedDirs(u)
    BY DEF WalkedDirs, Dirs, ToSet
  <2>7. Front(d) \in WalkedDirs(t) \ WalkedDirs(u) /\ Len(Front(d)) < n
    BY <1>3, <2>5, <2>6
  <2>8. Len(Front(d)) \in T /\ <<Len(Front(d)), n>> \in R
    BY <2>2, <2>4, <2>3, <2>7
  <2>9. QED
    BY <2>4, <2>8
<1>5. QED
  BY <1>2, <1>4

\* A scan that is current signs the tree as it is
LEMMA CurrentScanSigns ==
    ASSUME NEW t, IsTree(t), NEW u, IsTree(u), IsCurrent(t, Scan(u))
    PROVE  Signature(Scan(u)) = Signature(Scan(t))
<1>1. WalkedDirs(t) = WalkedDirs(u)
  BY WalkIsCurrent
<1>2. \A dir \in WalkedDirs(t) : Children(t, dir) = Children(u, dir)
  <2> TAKE dir \in WalkedDirs(t)
  <2>1. <<dir, Children(u, dir)>> \in Scan(u).children
    BY <1>1 DEF Scan
  <2>2. QED
    BY <2>1 DEF IsCurrent
<1>3. \A entry \in Entries(u) : entry[1] \in Files(t) /\ t.files[entry[1]] = entry[2]
  BY DEF IsCurrent, Scan
<1>4. \A f \in Files(u) : <<f, u.files[f]>> \in Entries(u) => f \in Files(t) /\ t.files[f] = u.files[f]
  BY <1>3
<1>5. \A f : IsSignatureFile(f) /\ Front(f) \in WalkedDirs(t) => (f \in Files(t) <=> f \in Files(u))
  <2> SUFFICES ASSUME NEW f, IsSignatureFile(f), Front(f) \in WalkedDirs(t)
               PROVE  f \in Files(t) <=> f \in Files(u)
    OBVIOUS
  <2>1. ASSUME f \in Files(u) PROVE f \in Files(t)
    BY <1>1, <1>4, <2>1 DEF Entries
  <2>2. ASSUME f \in Files(t) PROVE f \in Files(u)
    <3>1. Child(Front(f), f)
      BY <2>2, FrontIsAbove DEF IsTree
    <3>2. <<"file", f>> \in Children(t, Front(f))
      BY <2>2, <3>1 DEF Children
    <3>3. <<"file", f>> \in Children(u, Front(f))
      BY <1>2, <3>2
    <3>4. PICK g \in Files(u) : <<"file", f>> = <<"file", g>>
      BY <3>3 DEF Children
    <3>5. QED
      BY <3>4
  <2>3. QED
    BY <2>1, <2>2
<1>6. Entries(t) = Entries(u)
  <2> DEFINE Noted(v) == {f \in Files(v) : IsSignatureFile(f) /\ Front(f) \in WalkedDirs(v)}
  <2>1. Noted(t) = Noted(u)
    BY <1>1, <1>5
  <2>2. \A f \in Noted(u) : t.files[f] = u.files[f]
    BY <1>4 DEF Entries
  <2>3. Entries(t) = {<<f, t.files[f]>> : f \in Noted(t)} /\ Entries(u) = {<<f, u.files[f]>> : f \in Noted(u)}
    BY DEF Entries
  <2> HIDE DEF Noted
  <2>4. QED
    BY <2>1, <2>2, <2>3
<1>7. MarkerDirs(t) = MarkerDirs(u)
  <2>1. MarkerDirs(u) \subseteq MarkerDirs(t)
    BY DEF IsCurrent, Scan, MarkerDirs
  <2>2. ASSUME NEW name \in MarkerNames, <<name>> \in Dirs(t) PROVE <<name>> \in Dirs(u)
    <3>1. <<name>> \in t.dirs
      BY <2>2 DEF Dirs
    <3>2. <<name>> \in Paths /\ Len(<<name>>) = 1 /\ Last(<<name>>) = name
      BY <3>1 DEF IsTree, Last
    <3>3. Front(<<name>>) = <<>>
      BY <3>2, PathParts, EmptySeq
    <3>4. Child(<<>>, <<name>>) /\ <<>> \in WalkedDirs(t)
      BY <3>2, <3>3, FrontIsAbove DEF WalkedDirs, Dirs, ToSet
    <3>5. name \notin Unwatched
      BY DEF MarkerNames, Unwatched
    <3>6. <<"dir", <<name>>>> \in Children(t, <<>>)
      BY <3>1, <3>2, <3>4, <3>5 DEF Children
    <3>7. <<"dir", <<name>>>> \in Children(u, <<>>)
      BY <1>2, <3>4, <3>6
    <3>8. PICK d \in u.dirs : <<"dir", <<name>>>> = <<"dir", d>>
      BY <3>7 DEF Children
    <3>9. QED
      BY <3>8 DEF Dirs
  <2>3. QED
    BY <2>1, <2>2 DEF MarkerDirs
<1>8. QED
  BY <1>6, <1>7 DEF Signature, Scan

-----------------------------------------------------------------------------
\* What the loader reads of two trees that the watcher takes for one

AsOne(t, u) ==
    /\ IsTree(t) /\ IsTree(u)
    /\ Signature(Scan(t)) = Signature(Scan(u))
    /\ Unseen(t) = Unseen(u)

LEMMA AsOneBoth ==
    ASSUME NEW t, NEW u, AsOne(t, u)
    PROVE  AsOne(u, t)
BY DEF AsOne

\* The directories that adapters look into by themselves
Plain(dir) == dir \in Seq(Names) /\ ToSet(dir) \cap (Ignored \cup {".vscode"}) = {}

\* The files that they look for
Read(x) ==
    \/ Last(x) \in Markdown \cup Org \cup {".wiki-compiler.json"}
    \/ Len(x) > 1 /\ SubSeq(x, Len(x) - 1, Len(x)) = <<"graph", "graph.json">>
    \/ x \in WatchedPaths \cup {<<"dendron.yml">>, <<"quartz.config.ts">>}

LEMMA ShortPaths ==
    ASSUME NEW a, NEW b
    PROVE  /\ ToSet(<<a>>) = {a} /\ ToSet(<<a, b>>) = {a, b} /\ ToSet(<<>>) = {}
           /\ Last(<<a>>) = a /\ Last(<<a, b>>) = b
<1>1. DOMAIN <<a>> = {1} /\ DOMAIN <<a, b>> = {1, 2} /\ DOMAIN <<>> = {}
  OBVIOUS
<1>2. QED
  BY <1>1 DEF ToSet, Last

\* What the signature has of one tree is in the other
LEMMA SignedIsKept ==
    ASSUME NEW t, NEW u, AsOne(t, u), NEW x \in Files(t), IsSignatureFile(x),
           ToSet(x) \cap (Unwatched \cup MarkerNames) = {} \/ Front(x) = <<>>
    PROVE  x \in Files(u) /\ u.files[x] = t.files[x]
<1>1. x \in Paths /\ Front(x) \in Dirs(t)
  BY FrontIsDir DEF AsOne
<1>2. ToSet(x) = ToSet(Front(x)) \cup {Last(x)}
  BY <1>1, FrontNames
<1>3. Front(x) \in WalkedDirs(t)
  BY <1>1, <1>2, ShortPaths DEF WalkedDirs
<1>4. <<x, t.files[x]>> \in Entries(t)
  BY <1>3 DEF Entries
<1>5. Entries(t) = Entries(u)
  BY DEF AsOne, Signature, Scan
<1>6. PICK f \in Files(u) : <<x, t.files[x]>> = <<f, u.files[f]>>
  BY <1>4, <1>5 DEF Entries
<1>7. QED
  BY <1>6

\* What nothing watches is the same in both
LEMMA UnseenIsKept ==
    ASSUME NEW t, NEW u, AsOne(t, u), NEW x \in Files(t),
           \/ ".runtime-logs" \in ToSet(x) /\ Last(x) \in Markdown \cup Org \cup {".wiki-compiler.json", "graph.json"}
           \/ \E dir \in Configured(t) :
                 /\ Cardinality(Configured(t)) = 1 /\ Below(dir, x)
                 /\ ToSet(dir) \cap (Unwatched \cup MarkerNames \cup {".vscode"}) # {}
    PROVE  x \in Files(u) /\ u.files[x] = t.files[x]
<1>1. <<x, t.files[x]>> \in Unseen(t)[1]
  BY DEF Unseen
<1>2. <<x, t.files[x]>> \in Unseen(u)[1]
  BY <1>1 DEF AsOne
<1>3. PICK f \in Files(u) : <<x, t.files[x]>> = <<f, u.files[f]>>
  BY <1>2 DEF Unseen
<1>4. QED
  BY <1>3

\* What an adapter looks for in a plain directory of one tree, it finds in the other
LEMMA IncludedIsKept ==
    ASSUME NEW t, NEW u, AsOne(t, u), NEW root, Plain(root), NEW x, Read(x), IncludeFile(t, x, root)
    PROVE  IncludeFile(u, x, root) /\ u.files[x] = t.files[x]
<1>1. x \in Files(t) /\ x \in Paths /\ x \in Seq(Names) /\ Below(root, x)
  BY DEF IncludeFile, AsOne, IsTree, Paths
<1>2. ToSet(x) = ToSet(root) \cup ToSet(Relative(root, x)) /\ Last(Relative(root, x)) = Last(x)
  BY <1>1, BelowNames DEF Plain
<1>3. SUFFICES x \in Files(u) /\ u.files[x] = t.files[x]
  BY DEF IncludeFile
<1>4. CASE ".runtime-logs" \in ToSet(x)
  <2>1. x \notin WatchedPaths \cup {<<"dendron.yml">>, <<"quartz.config.ts">>}
    <3>1. /\ ToSet(<<".vscode", "extensions.json">>) = {".vscode", "extensions.json"}
          /\ ToSet(<<"logseq", "config.edn">>) = {"logseq", "config.edn"}
          /\ ToSet(<<"dendron.yml">>) = {"dendron.yml"}
          /\ ToSet(<<"quartz.config.ts">>) = {"quartz.config.ts"}
      BY ShortPaths
    <3>2. QED
      BY <1>4, <3>1 DEF WatchedPaths
  <2>2. ASSUME Len(x) > 1, SubSeq(x, Len(x) - 1, Len(x)) = <<"graph", "graph.json">>
        PROVE  Last(x) = "graph.json"
    <3>1. Len(x) \in Nat
      BY <1>1
    <3>2. SubSeq(x, Len(x) - 1, Len(x))[2] = x[Len(x)]
      BY <3>1, <2>2, <1>1
    <3>3. <<"graph", "graph.json">>[2] = "graph.json"
      OBVIOUS
    <3>4. x[Len(x)] = "graph.json"
      BY <2>2, <3>2, <3>3
    <3>5. QED
      BY <3>4 DEF Last
  <2>3. QED
    BY <1>1, <1>4, <2>1, <2>2, UnseenIsKept DEF Read
<1>5. CASE ".runtime-logs" \notin ToSet(x)
  <2>1. ToSet(x) \cap (Unwatched \cup MarkerNames) = {}
    BY <1>2, <1>5 DEF Plain, IncludeFile, Ignored, Unwatched, MarkerNames
  <2>2. ~EditorNote(x)
    BY <1>2 DEF IncludeFile, EditorNote, Plain
  <2>3. IsSignatureFile(x)
    BY <2>1, <2>2, ShortPaths DEF IsSignatureFile, Read, WatchedNames
  <2>4. QED
    BY <1>1, <2>1, <2>3, SignedIsKept
<1>6. QED
  BY <1>4, <1>5

LEMMA IncludesAgree ==
    ASSUME NEW t, NEW u, AsOne(t, u), NEW root, Plain(root), NEW x, Read(x)
    PROVE  IncludeFile(t, x, root) <=> IncludeFile(u, x, root)
BY AsOneBoth, IncludedIsKept

LEMMA PagesAgree ==
    ASSUME NEW t, NEW u, AsOne(t, u), NEW root, Plain(root), NEW dir
    PROVE  /\ MarkdownUnder(t, dir, root) = MarkdownUnder(u, dir, root)
           /\ \A f \in MarkdownUnder(t, dir, root) : t.files[f] = u.files[f]
<1>1. \A f : Page(f) => Read(f)
  BY DEF Page, Read
<1>2. \A f \in MarkdownUnder(t, dir, root) : f \in MarkdownUnder(u, dir, root) /\ u.files[f] = t.files[f]
  BY <1>1, IncludedIsKept DEF MarkdownUnder, IncludeFile
<1>3. \A f \in MarkdownUnder(u, dir, root) : f \in MarkdownUnder(t, dir, root)
  BY <1>1, IncludedIsKept, AsOneBoth DEF MarkdownUnder, IncludeFile
<1>4. QED
  BY <1>2, <1>3

\* The signs of a plain directory are the same
LEMMA SignsAgree ==
    ASSUME NEW t, NEW u, AsOne(t, u), NEW dir, Plain(dir)
    PROVE  /\ Compiled(t, dir) <=> Compiled(u, dir)
           /\ MarkdownNames(t, dir) = MarkdownNames(u, dir)
           /\ HasTypedPages(t, dir) => HasTypedPages(u, dir)
<1>1. Compiled(t, dir) <=> Compiled(u, dir)
  <2>1. Last(Append(dir, ".wiki-compiler.json")) = ".wiki-compiler.json"
    BY DEF Plain, Last
  <2>2. Read(Append(dir, ".wiki-compiler.json"))
    BY <2>1 DEF Read
  <2>3. QED
    BY <2>2, IncludesAgree DEF Compiled
<1>2. MarkdownNames(t, dir) = MarkdownNames(u, dir)
  BY PagesAgree DEF MarkdownNames
<1>3. ASSUME NEW name \in TypedDirs, IncludeDir(t, Append(dir, name)),
             MarkdownUnder(t, Append(dir, name), dir) # {}
      PROVE  IncludeDir(u, Append(dir, name)) /\ MarkdownUnder(u, Append(dir, name), dir) # {}
  <2>1. MarkdownUnder(u, Append(dir, name), dir) # {}
    BY <1>3, PagesAgree
  <2>2. PICK f \in Files(u) : Below(Append(dir, name), f)
    BY <2>1 DEF MarkdownUnder
  <2>3. Append(dir, name) \in Seq(Names) /\ f \in Seq(Names) /\ Parents(f) \subseteq u.dirs
    BY <1>3, EmptySeq DEF IncludeDir, Dirs, AsOne, IsTree, Paths
  <2>4. Append(dir, name) \in Dirs(u)
    BY <2>2, <2>3, BelowIsParent DEF Dirs
  <2>5. QED
    BY <2>1, <2>4 DEF IncludeDir
<1>4. QED
  BY <1>1, <1>2, <1>3 DEF HasTypedPages

\* A directory with signs is one
LEMMA SignsShowDir ==
    ASSUME NEW u, IsTree(u), NEW dir \in Seq(Names),
           Compiled(u, dir) \/ MarkdownNames(u, dir) # {} \/ HasTypedPages(u, dir)
    PROVE  dir \in Dirs(u)
<1>1. PICK f \in Files(u) : Below(dir, f)
  BY DEF Compiled, MarkdownNames, HasTypedPages, MarkdownUnder, IncludeFile
<1>2. f \in Seq(Names) /\ Parents(f) \subseteq u.dirs
  BY DEF IsTree, Paths
<1>3. QED
  BY <1>1, <1>2, BelowIsParent DEF Dirs

LEMMA RootIsKept ==
    ASSUME NEW t, NEW u, AsOne(t, u), NEW dir, Plain(dir), NEW nested \in BOOLEAN,
           IsLlmwikiRoot(t, dir, nested)
    PROVE  IsLlmwikiRoot(u, dir, nested)
<1>1. /\ Compiled(t, dir) <=> Compiled(u, dir)
      /\ MarkdownNames(t, dir) = MarkdownNames(u, dir)
      /\ HasTypedPages(t, dir) <=> HasTypedPages(u, dir)
  BY SignsAgree, AsOneBoth
<1>2. Compiled(t, dir) \/ MarkdownNames(t, dir) # {} \/ HasTypedPages(t, dir)
  BY DEF IsLlmwikiRoot, NamedSourceRoot
<1>3. dir \in Dirs(u)
  BY <1>1, <1>2, SignsShowDir DEF AsOne, Plain
<1>4. QED
  BY <1>1, <1>3 DEF IsLlmwikiRoot, NamedSourceRoot

LEMMA RootsAgree ==
    ASSUME NEW t, NEW u, AsOne(t, u), NEW dir, Plain(dir), NEW nested \in BOOLEAN
    PROVE  IsLlmwikiRoot(t, dir, nested) <=> IsLlmwikiRoot(u, dir, nested)
BY RootIsKept, AsOneBoth

LEMMA PlainOnes ==
    /\ Plain(<<>>) /\ Plain(<<"wiki">>) /\ Plain(<<"openwiki">>) /\ Plain(<<"content">>)
<1>1. /\ ToSet(<<>>) = {} /\ ToSet(<<"wiki">>) = {"wiki"}
      /\ ToSet(<<"openwiki">>) = {"openwiki"} /\ ToSet(<<"content">>) = {"content"}
  BY ShortPaths
<1>2. /\ <<>> \in Seq(Names) /\ <<"wiki">> \in Seq(Names)
      /\ <<"openwiki">> \in Seq(Names) /\ <<"content">> \in Seq(Names)
  <2>1. <<>> \in Seq(Names)
    BY EmptySeq
  <2>2. \A name \in Names : <<name>> \in Seq(Names)
    OBVIOUS
  <2>3. "wiki" \in Names /\ "openwiki" \in Names /\ "content" \in Names
    BY TreeAssumption
  <2>4. QED
    BY <2>1, <2>2, <2>3
<1>3. /\ "wiki" \notin Ignored \cup {".vscode"} /\ "openwiki" \notin Ignored \cup {".vscode"}
      /\ "content" \notin Ignored \cup {".vscode"}
  BY DEF Ignored
<1>4. QED
  BY <1>1, <1>2, <1>3 DEF Plain

LEMMA SourceRootsAgree ==
    ASSUME NEW t, NEW u, AsOne(t, u)
    PROVE  LlmwikiSourceRoots(t) = LlmwikiSourceRoots(u)
<1> DEFINE nested(v) == {dir \in {<<"wiki">>, <<"openwiki">>} : IsLlmwikiRoot(v, dir, TRUE)}
<1>1. nested(t) = nested(u)
  BY RootsAgree, PlainOnes
<1>2. {dir \in {<<>>} : IsLlmwikiRoot(t, dir, FALSE)} = {dir \in {<<>>} : IsLlmwikiRoot(u, dir, FALSE)}
  BY RootsAgree, PlainOnes
<1>3. QED
  BY <1>1, <1>2 DEF LlmwikiSourceRoots

\* A directory that may hold a wiki of its own is plain
LEMMA HubRootsArePlain ==
    ASSUME NEW t, IsTree(t), NEW root, Plain(root), NEW dir \in Dirs(t), Child(root, dir),
           Last(dir) \in ToSet(PreferredRoots) \/ Last(dir) \notin Ignored \cup {".vscode"}
    PROVE  Plain(dir) /\ dir \in Paths
<1>1. dir \in Seq(Names) /\ root \in Seq(Names)
  BY EmptySeq DEF Dirs, IsTree, Paths, Plain
<1>2. /\ ToSet(dir) = ToSet(root) \cup ToSet(Relative(root, dir))
      /\ Last(Relative(root, dir)) = Last(dir)
      /\ Relative(root, dir) \in Paths /\ dir \in Paths /\ Len(Relative(root, dir)) = 1
  <2>1. Below(root, dir) /\ Len(dir) = Len(root) + 1
    BY DEF Child
  <2>2. Len(Relative(root, dir)) = Len(dir) - Len(root) /\ Len(root) \in Nat
    BY <1>1, <2>1, RelativeParts, BelowParts
  <2>3. Len(Relative(root, dir)) = 1
    BY <2>1, <2>2
  <2>4. QED
    BY <1>1, <2>1, <2>3, BelowNames, RelativeParts
<1>3. ToSet(Relative(root, dir)) = {Last(dir)}
  <2> DEFINE r == Relative(root, dir)
  <2>1. r \in Paths /\ Len(r) = 1 /\ Last(r) = Last(dir)
    BY <1>2
  <2> HIDE DEF r
  <2>2. Front(r) = <<>>
    BY <2>1, PathParts, EmptySeq
  <2>3. ToSet(r) = {Last(r)}
    <3>1. ToSet(r) = ToSet(<<>>) \cup {Last(r)}
      BY <2>1, <2>2, FrontNames
    <3>2. ToSet(<<>>) = {}
      BY ShortPaths
    <3>3. QED
      BY <3>1, <3>2
  <2>4. QED
    BY <2>1, <2>3 DEF r
<1>4. Last(dir) \notin Ignored \cup {".vscode"}
  <2>1. ToSet(PreferredRoots) = {"wiki", "openwiki"}
    BY ShortPaths DEF PreferredRoots
  <2>2. QED
    BY <2>1 DEF Ignored
<1>5. QED
  BY <1>1, <1>2, <1>3, <1>4 DEF Plain

LEMMA HubRootIsKept ==
    ASSUME NEW t, NEW u, AsOne(t, u), NEW root, Plain(root), NEW dir \in HubRoots(t, root)
    PROVE  dir \in HubRoots(u, root)
<1>1. dir \in Dirs(t) /\ Child(root, dir)
  BY DEF HubRoots
<1>2. Plain(dir)
  BY <1>1, HubRootsArePlain DEF AsOne, HubRoots
<1>3. /\ Compiled(t, dir) <=> Compiled(u, dir)
      /\ MarkdownNames(t, dir) = MarkdownNames(u, dir)
      /\ HasTypedPages(t, dir) <=> HasTypedPages(u, dir)
      /\ IsLlmwikiRoot(t, dir, TRUE) <=> IsLlmwikiRoot(u, dir, TRUE)
  BY <1>2, SignsAgree, RootsAgree, AsOneBoth
<1>4. ProbableNestedRoot(t, dir) <=> ProbableNestedRoot(u, dir)
  BY <1>3 DEF ProbableNestedRoot, NamedSourceRoot
<1>5. IF Last(dir) \in ToSet(PreferredRoots) THEN IsLlmwikiRoot(t, dir, TRUE)
      ELSE Last(dir) \notin Ignored \cup {".vscode"} /\ ProbableNestedRoot(t, dir)
  BY DEF HubRoots
<1>6. CASE Last(dir) \in ToSet(PreferredRoots)
  <2>1. IsLlmwikiRoot(u, dir, TRUE)
    BY <1>3, <1>5, <1>6
  <2>2. dir \in Dirs(u)
    BY <2>1 DEF IsLlmwikiRoot
  <2>3. QED
    BY <1>1, <1>6, <2>1, <2>2 DEF HubRoots
<1>7. CASE Last(dir) \notin ToSet(PreferredRoots)
  <2>1. ProbableNestedRoot(u, dir) /\ Last(dir) \notin Ignored \cup {".vscode"}
    BY <1>4, <1>5, <1>7
  <2>2. Compiled(u, dir) \/ MarkdownNames(u, dir) # {} \/ HasTypedPages(u, dir)
    <3>1. MarkdownNames(u, dir) = {} => MarkdownNames(u, dir) \cap HubFiles = {}
      OBVIOUS
    <3>2. Cardinality({}) = 0
      BY FS_EmptySet
    <3>3. QED
      BY <2>1, <3>1, <3>2 DEF ProbableNestedRoot, NamedSourceRoot
  <2>3. dir \in Dirs(u)
    BY <1>2, <2>2, SignsShowDir DEF AsOne, Plain
  <2>4. QED
    BY <1>1, <1>7, <2>1, <2>3 DEF HubRoots
<1>8. QED
  BY <1>6, <1>7

LEMMA HubRootsAgree ==
    ASSUME NEW t, NEW u, AsOne(t, u), NEW root, Plain(root)
    PROVE  HubRoots(t, root) = HubRoots(u, root)
BY HubRootIsKept, AsOneBoth

-----------------------------------------------------------------------------
\* The adapters load the same from both

LEMMA ParsesAgree ==
    ASSUME NEW t, NEW u, AsOne(t, u), NEW root, Plain(root), NEW dir, NEW hubs
    PROVE  ParsePages(t, dir, root, hubs) = ParsePages(u, dir, root, hubs)
<1>1. /\ MarkdownUnder(t, dir, root) = MarkdownUnder(u, dir, root)
      /\ \A f \in MarkdownUnder(t, dir, root) : t.files[f] = u.files[f]
  BY PagesAgree
<1>2. \A f \in MarkdownUnder(t, dir, root) :
          ParsePage(t, f, root, dir, hubs) = ParsePage(u, f, root, dir, hubs)
  BY <1>1 DEF ParsePage
<1>3. QED
  BY <1>1, <1>2 DEF ParsePages

LEMMA GraphsAgree ==
    ASSUME NEW t, NEW u, AsOne(t, u), NEW scans \in SUBSET Seq(Names), NEW adapter, NEW root, NEW pages
    PROVE  LoadedWiki(t, adapter, root, pages, scans) = LoadedWiki(u, adapter, root, pages, scans)
<1>1. ASSUME NEW dir \in scans, NEW f \in {<<"graph", "graph.json">>, dir \o <<"graph", "graph.json">>}
      PROVE  Read(f)
  <2>1. <<"graph", "graph.json">> \in Seq(Names) /\ Len(<<"graph", "graph.json">>) = 2
    <3>1. "graph" \in Names /\ "graph.json" \in Names
      BY TreeAssumption
    <3>2. QED
      BY <3>1
  <2>2. PICK d \in Seq(Names) : f = d \o <<"graph", "graph.json">>
    <3>1. <<>> \in Seq(Names) /\ <<>> \o <<"graph", "graph.json">> = <<"graph", "graph.json">>
      BY <2>1, EmptySeq, ConcatEmptySeq
    <3>2. QED
      BY <1>1, <3>1
  <2>3. /\ f \in Seq(Names) /\ Len(f) = Len(d) + 2 /\ Len(d) \in Nat
        /\ f[Len(d) + 1] = "graph" /\ f[Len(d) + 2] = "graph.json"
    BY <2>1, <2>2
  <2> DEFINE g == SubSeq(f, Len(d) + 1, Len(d) + 2)
  <2>4. g \in Seq(Names) /\ Len(g) = 2 /\ g[1] = f[Len(d) + 1] /\ g[2] = f[Len(d) + 2]
    BY <2>3
  <2>5. g = <<"graph", "graph.json">>
    <3> HIDE DEF g
    <3>1. /\ <<"graph", "graph.json">>[1] = "graph" /\ <<"graph", "graph.json">>[2] = "graph.json"
          /\ 1..2 = {1, 2}
      OBVIOUS
    <3>2. \A i \in 1..Len(g) : g[i] = <<"graph", "graph.json">>[i]
      BY <2>3, <2>4, <3>1
    <3>3. QED
      BY <2>1, <2>4, <3>2, SeqEqual
  <2>6. Len(f) - 1 = Len(d) + 1 /\ Len(f) > 1
    BY <2>3
  <2>7. QED
    BY <2>3, <2>5, <2>6 DEF Read
<1>2. ASSUME NEW dir \in scans
      PROVE  /\ GraphFiles(t, dir) = GraphFiles(u, dir)
             /\ \A f \in GraphFiles(t, dir) : t.files[f] = u.files[f]
  <2> DEFINE F == {<<"graph", "graph.json">>, dir \o <<"graph", "graph.json">>}
  <2>1. \A f \in F : Read(f)
    BY <1>1
  <2>2. /\ GraphFiles(t, dir) = {f \in F : IncludeFile(t, f, <<>>)}
        /\ GraphFiles(u, dir) = {f \in F : IncludeFile(u, f, <<>>)}
    BY DEF GraphFiles
  <2> HIDE DEF F
  <2>3. \A f \in F : IncludeFile(t, f, <<>>) <=> IncludeFile(u, f, <<>>)
    BY <2>1, IncludesAgree, PlainOnes
  <2>4. \A f \in F : IncludeFile(t, f, <<>>) => t.files[f] = u.files[f]
    BY <2>1, IncludedIsKept, PlainOnes
  <2>5. QED
    BY <2>2, <2>3, <2>4
<1> DEFINE G(v) == UNION {GraphFiles(v, dir) : dir \in scans}
<1>3. G(t) = G(u) /\ \A f \in G(t) : t.files[f] = u.files[f]
  BY <1>2
<1>4. {<<f, t.files[f]>> : f \in G(t)} = {<<f, u.files[f]>> : f \in G(u)}
  <2> HIDE DEF G
  <2>1. QED
    BY <1>3
<1>5. QED
  BY <1>4 DEF LoadedWiki

LEMMA RootGraphsAgree ==
    ASSUME NEW t, NEW u, AsOne(t, u), NEW adapter, NEW root, NEW pages
    PROVE  LoadedWiki(t, adapter, root, pages, {<<>>}) = LoadedWiki(u, adapter, root, pages, {<<>>})
<1>1. PICK scans \in SUBSET Seq(Names) : scans = {<<>>}
  BY EmptySeq
<1>2. LoadedWiki(t, adapter, root, pages, scans) = LoadedWiki(u, adapter, root, pages, scans)
  BY GraphsAgree
<1>3. QED
  BY <1>1, <1>2

LEMMA MarkdownLoadsAgree ==
    ASSUME NEW t, NEW u, AsOne(t, u), NEW root, Plain(root), NEW adapter
    PROVE  MarkdownLoad(t, adapter, root) = MarkdownLoad(u, adapter, root)
<1>1. HubRoots(t, root) = HubRoots(u, root)
  BY HubRootsAgree
<1>2. ParsePages(t, root, root, HubRoots(t, root)) = ParsePages(u, root, root, HubRoots(u, root))
  BY <1>1, ParsesAgree
<1>3. {root} \in SUBSET Seq(Names)
  BY DEF Plain
<1>4. QED
  BY <1>2, <1>3, GraphsAgree DEF MarkdownLoad

LEMMA LlmwikiLoadsAgree ==
    ASSUME NEW t, NEW u, AsOne(t, u), LlmwikiSourceRoots(t) # {}
    PROVE  LlmwikiLoad(t) = LlmwikiLoad(u)
<1> DEFINE root == CHOOSE dir \in LlmwikiSourceRoots(t) : TRUE
<1>1. LlmwikiSourceRoots(t) = LlmwikiSourceRoots(u)
  BY SourceRootsAgree
<1>2. root \in LlmwikiSourceRoots(t)
  OBVIOUS
<1>3. root \in {<<>>, <<"wiki">>, <<"openwiki">>}
  BY <1>2 DEF LlmwikiSourceRoots
<1>4. Plain(root)
  BY <1>3, PlainOnes
<1>5. root = CHOOSE dir \in LlmwikiSourceRoots(u) : TRUE
  BY <1>1
<1>6. /\ LlmwikiLoad(t) = LoadedWiki(t, "llmwiki", root, ParsePages(t, root, root, {}), {root})
      /\ LlmwikiLoad(u) = LoadedWiki(u, "llmwiki", root, ParsePages(u, root, root, {}), {root})
  BY <1>5 DEF LlmwikiLoad
<1> HIDE DEF root
<1>7. {root} \in SUBSET Seq(Names) /\ ParsePages(t, root, root, {}) = ParsePages(u, root, root, {})
  BY <1>4, ParsesAgree DEF Plain
<1>8. QED
  BY <1>6, <1>7, GraphsAgree

\* A file of the root that the watcher counts is in both
LEMMA RootFilesAgree ==
    ASSUME NEW t, NEW u, AsOne(t, u), NEW name,
           name \in {"index.md", "dendron.yml", "quartz.config.ts"}
    PROVE  /\ <<name>> \in Files(t) <=> <<name>> \in Files(u)
           /\ <<name>> \in Files(t) => t.files[<<name>>] = u.files[<<name>>]
<1>1. Read(<<name>>)
  <2>1. CASE name = "index.md"
    <3>1. Last(<<name>>) \in Markdown
      BY <2>1, TreeAssumption, ShortPaths
    <3>2. QED
      BY <3>1 DEF Read
  <2>2. CASE name # "index.md"
    <3>1. <<name>> \in {<<"dendron.yml">>, <<"quartz.config.ts">>}
      BY <2>2
    <3>2. QED
      BY <3>1 DEF Read
  <2>3. QED
    BY <2>1, <2>2
<1>2. ASSUME NEW v, IsTree(v), <<name>> \in Files(v) PROVE IncludeFile(v, <<name>>, <<>>)
  <2>1. <<name>> \in Paths
    BY <1>2 DEF IsTree
  <2>2. Below(<<>>, <<name>>) /\ Relative(<<>>, <<name>>) = <<name>>
    BY <2>1, RootBelow
  <2>3. ToSet(<<name>>) = {name} /\ name \notin Ignored /\ name # ".vscode"
    BY ShortPaths DEF Ignored
  <2>4. QED
    BY <1>2, <2>2, <2>3 DEF IncludeFile, EditorNote
<1>3. <<name>> \in Files(t) => <<name>> \in Files(u) /\ t.files[<<name>>] = u.files[<<name>>]
  BY <1>1, <1>2, IncludedIsKept, PlainOnes DEF IncludeFile, AsOne
<1>4. <<name>> \in Files(u) => <<name>> \in Files(t)
  BY <1>1, <1>2, IncludedIsKept, PlainOnes, AsOneBoth DEF IncludeFile, AsOne
<1>5. QED
  BY <1>3, <1>4

LEMMA ConfiguredAgree ==
    ASSUME NEW t, NEW u, AsOne(t, u)
    PROVE  /\ Configured(t) = Configured(u) /\ IsFiniteSet(Configured(t))
           /\ IsDendron(t) <=> IsDendron(u)
<1> DEFINE x == <<"dendron.yml">>
<1>1. Read(x)
  BY DEF Read
<1>2. IncludeFile(t, x, <<>>) <=> IncludeFile(u, x, <<>>)
  BY <1>1, IncludesAgree, PlainOnes
<1>3. IncludeFile(t, x, <<>>) => t.files[x] = u.files[x] /\ t.files[x] \in Contents
  BY <1>1, IncludedIsKept, PlainOnes DEF IncludeFile, AsOne, IsTree
<1>4. ASSUME NEW s \in Seq(Seq(Names)) PROVE IsFiniteSet(ToSet(s))
  <2>1. s \in [1..Len(s) -> ToSet(s)] /\ \A v \in ToSet(s) : \E i \in 1..Len(s) : s[i] = v
    BY DEF ToSet
  <2>2. s \in Surjection(1..Len(s), ToSet(s))
    BY <2>1 DEF Surjection
  <2>3. IsFiniteSet(1..Len(s))
    BY FS_Interval
  <2>4. QED
    BY <2>2, <2>3, FS_Surjection
<1>5. IsFiniteSet(Configured(t))
  BY <1>3, <1>4, TreeAssumption, FS_EmptySet DEF Configured
<1>6. QED
  BY <1>2, <1>3, <1>5 DEF Configured, IsDendron

\* Directories that count when nothing is in them
LEMMA CountedDirsAgree ==
    ASSUME NEW t, NEW u, AsOne(t, u),
           NEW dir \in {<<>>, <<"pages">>, <<"journals">>, <<"content">>} \cup Configured(t)
    PROVE  dir \in Dirs(t) <=> dir \in Dirs(u)
<1>1. Configured(t) = Configured(u)
  BY ConfiguredAgree
<1>2. Unseen(t)[2] = Unseen(u)[2]
  BY DEF AsOne
<1>3. /\ Unseen(t)[2] = t.dirs \cap ({<<"pages">>, <<"journals">>, <<"content">>} \cup Configured(t))
      /\ Unseen(u)[2] = u.dirs \cap ({<<"pages">>, <<"journals">>, <<"content">>} \cup Configured(u))
  BY DEF Unseen
<1>4. dir = <<>> \/ (dir \in t.dirs <=> dir \in u.dirs)
  BY <1>1, <1>2, <1>3
<1>5. QED
  BY <1>4 DEF Dirs

\* A vault that is the only one is read from its own root, wherever it is
LEMMA VaultsAgree ==
    ASSUME NEW t, NEW u, AsOne(t, u), NEW dir \in Seq(Names), Configured(t) = {dir}
    PROVE  ParsePages(t, dir, dir, {}) = ParsePages(u, dir, dir, {})
<1>1. CASE Plain(dir)
  BY <1>1, ParsesAgree
<1>2. CASE ~Plain(dir)
  <2>1. ToSet(dir) \cap (Unwatched \cup MarkerNames \cup {".vscode"}) # {}
    BY <1>2 DEF Plain, Unwatched, MarkerNames, Ignored
  <2>2. Configured(u) = {dir} /\ Cardinality({dir}) = 1
    BY ConfiguredAgree, FS_Singleton
  <2>3. ASSUME NEW f \in Files(t), Below(dir, f) PROVE f \in Files(u) /\ u.files[f] = t.files[f]
    <3>1. dir \in Configured(t) /\ Cardinality(Configured(t)) = 1
      BY <2>2
    <3>2. QED
      BY <2>1, <2>3, <3>1, UnseenIsKept
  <2>4. \A f \in Files(u) : Below(dir, f) => f \in Files(t)
    BY <2>1, <2>2, UnseenIsKept, AsOneBoth
  <2>5. /\ MarkdownUnder(t, dir, dir) = MarkdownUnder(u, dir, dir)
        /\ \A f \in MarkdownUnder(t, dir, dir) : t.files[f] = u.files[f]
    BY <2>3, <2>4 DEF MarkdownUnder, IncludeFile
  <2>6. \A f \in MarkdownUnder(t, dir, dir) :
            ParsePage(t, f, dir, dir, {}) = ParsePage(u, f, dir, dir, {})
    BY <2>5 DEF ParsePage
  <2>7. QED
    BY <2>5, <2>6 DEF ParsePages
<1>3. QED
  BY <1>1, <1>2

LEMMA DendronLoadsAgree ==
    ASSUME NEW t, NEW u, AsOne(t, u)
    PROVE  DendronLoad(t) = DendronLoad(u)
<1> DEFINE Alone(c, vs) == Cardinality(vs) = 1 /\ ~(Cardinality(c) > 1)
           Root(c, vs) == IF Alone(c, vs) THEN CHOOSE dir \in vs : TRUE ELSE <<>>
           Scans(c, vs) == IF vs = {} /\ c = {} THEN {<<>>} ELSE vs
           Pages(v, root, scans) == UNION {ParsePages(v, dir, root, {}) : dir \in scans}
           Dendron(v, c, vs) ==
               LoadedWiki(v, "dendron", Root(c, vs), Pages(v, Root(c, vs), Scans(c, vs)), Scans(c, vs))
<1>1. /\ DendronLoad(t) = Dendron(t, Configured(t), Configured(t) \cap Dirs(t))
      /\ DendronLoad(u) = Dendron(u, Configured(u), Configured(u) \cap Dirs(u))
  BY DEF DendronLoad
<1>2. PICK c : c = Configured(t) /\ c = Configured(u) /\ IsFiniteSet(c)
  BY ConfiguredAgree
<1>3. PICK vs : vs = c \cap Dirs(t) /\ vs = c \cap Dirs(u)
  BY <1>2, CountedDirsAgree
<1>4. PICK root, scans : root = Root(c, vs) /\ scans = Scans(c, vs)
  <2> HIDE DEF Root, Scans
  <2>1. QED
    OBVIOUS
<1>5. scans \in SUBSET Seq(Names)
  BY <1>3, <1>4, EmptySeq DEF Dirs, AsOne, IsTree, Paths
<1>6. ASSUME NEW dir \in scans PROVE ParsePages(t, dir, root, {}) = ParsePages(u, dir, root, {})
  <2>1. CASE Alone(c, vs)
    <3>1. IsFiniteSet(vs) /\ vs \subseteq c
      BY <1>2, <1>3, FS_Subset
    <3>2. Cardinality(c) \in Nat /\ Cardinality(vs) <= Cardinality(c)
      BY <1>2, <3>1, FS_Subset, FS_CardinalityType
    <3>3. Cardinality(c) = 1
      BY <2>1, <3>2
    <3>4. PICK d : c = {d}
      BY <1>2, <3>3, FS_Singleton
    <3>5. vs = {d}
      BY <2>1, <3>1, <3>4, FS_EmptySet
    <3>6. root = d /\ scans = {d}
      BY <1>4, <2>1, <3>4, <3>5
    <3>7. d \in Seq(Names) /\ dir = d /\ Configured(t) = {d}
      BY <1>2, <1>5, <3>4, <3>6
    <3>8. ParsePages(t, d, d, {}) = ParsePages(u, d, d, {})
      BY <3>7, VaultsAgree
    <3>9. QED
      BY <3>6, <3>7, <3>8
  <2>2. CASE ~Alone(c, vs)
    <3>1. root = <<>>
      BY <1>4, <2>2
    <3>2. QED
      BY <3>1, ParsesAgree, PlainOnes
  <2>3. QED
    BY <2>1, <2>2
<1>7. Pages(t, root, scans) = Pages(u, root, scans)
  BY <1>6
<1>8. /\ DendronLoad(t) = LoadedWiki(t, "dendron", root, Pages(t, root, scans), scans)
      /\ DendronLoad(u) = LoadedWiki(u, "dendron", root, Pages(u, root, scans), scans)
  <2> HIDE DEF Root, Scans, Pages
  <2>1. QED
    BY <1>1, <1>2, <1>3, <1>4
<1> HIDE DEF Pages
<1>9. QED
  BY <1>5, <1>7, <1>8, GraphsAgree

LEMMA LogseqLoadsAgree ==
    ASSUME NEW t, NEW u, AsOne(t, u)
    PROVE  LogseqLoad(t) = LogseqLoad(u)
<1> DEFINE Notes(v, dir) == {f \in Files(v) : /\ Below(dir, f) /\ Last(f) \in Markdown \cup Org
                                              /\ IncludeFile(v, f, <<>>)}
           Parsed(v, dir) == {ParsePage(v, f, <<>>, dir, {}) : f \in Notes(v, dir)}
           Scans(v) == {<<"pages">>, <<"journals">>} \cap Dirs(v)
           Pages(v, scans) == UNION {Parsed(v, dir) : dir \in scans}
<1>1. PICK scans : scans = Scans(t) /\ scans = Scans(u)
  BY CountedDirsAgree
<1>2. ASSUME NEW dir PROVE Parsed(t, dir) = Parsed(u, dir)
  <2>1. \A f : Last(f) \in Markdown \cup Org => Read(f)
    BY DEF Read
  <2>2. \A f \in Notes(t, dir) : f \in Notes(u, dir) /\ u.files[f] = t.files[f]
    BY <2>1, IncludedIsKept, PlainOnes DEF IncludeFile
  <2>3. \A f \in Notes(u, dir) : f \in Notes(t, dir)
    BY <2>1, IncludedIsKept, PlainOnes, AsOneBoth DEF IncludeFile
  <2>4. Notes(t, dir) = Notes(u, dir)
    BY <2>2, <2>3
  <2> HIDE DEF Notes
  <2>5. \A f \in Notes(t, dir) : ParsePage(t, f, <<>>, dir, {}) = ParsePage(u, f, <<>>, dir, {})
    BY <2>2 DEF ParsePage
  <2>6. QED
    BY <2>4, <2>5
<1>3. /\ LogseqLoad(t) = LoadedWiki(t, "logseq", <<>>, Pages(t, Scans(t)), {<<>>})
      /\ LogseqLoad(u) = LoadedWiki(u, "logseq", <<>>, Pages(u, Scans(u)), {<<>>})
  BY DEF LogseqLoad
<1> HIDE DEF Parsed, Scans
<1>4. Pages(t, scans) = Pages(u, scans)
  BY <1>2
<1> HIDE DEF Pages
<1>5. /\ LogseqLoad(t) = LoadedWiki(t, "logseq", <<>>, Pages(t, scans), {<<>>})
      /\ LogseqLoad(u) = LoadedWiki(u, "logseq", <<>>, Pages(t, scans), {<<>>})
  BY <1>1, <1>3, <1>4
<1>6. QED
  BY <1>5, RootGraphsAgree

LEMMA OkfLoadsAgree ==
    ASSUME NEW t, NEW u, AsOne(t, u)
    PROVE  OkfLoad(t) = OkfLoad(u) /\ (IsOkfRoot(t) <=> IsOkfRoot(u))
<1>1. /\ <<"index.md">> \in Files(t) <=> <<"index.md">> \in Files(u)
      /\ <<"index.md">> \in Files(t) => t.files[<<"index.md">>] = u.files[<<"index.md">>]
  BY RootFilesAgree
<1>2. OkfVersion(t) = OkfVersion(u)
  BY <1>1 DEF OkfVersion
<1>3. IsOkfRoot(t) <=> IsOkfRoot(u)
  <2>1. ASSUME NEW v, OkfVersion(v) = "0.2" PROVE <<"index.md">> \in Files(v)
    BY <2>1 DEF OkfVersion
  <2>2. QED
    BY <1>1, <1>2, <2>1 DEF IsOkfRoot
<1>4. /\ OkfDocuments(t) = OkfDocuments(u)
      /\ \A f \in OkfDocuments(t) : t.files[f] = u.files[f]
  BY PagesAgree, PlainOnes DEF OkfDocuments
<1>5. \A f \in OkfDocuments(t) : OkfPage(t, f) = OkfPage(u, f)
  BY <1>4 DEF OkfPage
<1>6. {OkfPage(t, f) : f \in OkfDocuments(t)} = {OkfPage(u, f) : f \in OkfDocuments(u)}
  BY <1>4, <1>5
<1> DEFINE Bad(v) == \/ OkfDocuments(v) = {} \/ OkfVersion(v) \notin {"", "0.2"}
                     \/ \E f \in OkfDocuments(v) : \/ OkfRefuses(v.files[f])
                                                   \/ Last(f) # "index.md" /\ v.files[f] \notin Typed
           Good(v) == LoadedWiki(v, "okf", <<>>, {OkfPage(v, f) : f \in OkfDocuments(v)}, {<<>>})
<1>7. Bad(t) <=> Bad(u)
  BY <1>2, <1>4
<1>8. Good(t) = Good(u)
  <2>1. PICK pages : /\ pages = {OkfPage(t, f) : f \in OkfDocuments(t)}
                     /\ pages = {OkfPage(u, f) : f \in OkfDocuments(u)}
    BY <1>6
  <2>2. LoadedWiki(t, "okf", <<>>, pages, {<<>>}) = LoadedWiki(u, "okf", <<>>, pages, {<<>>})
    BY RootGraphsAgree
  <2>3. QED
    BY <2>1, <2>2
<1>9. /\ OkfLoad(t) = IF Bad(t) THEN Refusal("invalid") ELSE Good(t)
      /\ OkfLoad(u) = IF Bad(u) THEN Refusal("invalid") ELSE Good(u)
  BY DEF OkfLoad
<1> HIDE DEF Bad, Good
<1>10. QED
  BY <1>3, <1>7, <1>8, <1>9

LEMMA DetectionsAgree ==
    ASSUME NEW t, NEW u, AsOne(t, u)
    PROVE  /\ IsObsidian(t) <=> IsObsidian(u)
           /\ IsLogseq(t) <=> IsLogseq(u)
           /\ IsFoam(t) <=> IsFoam(u)
           /\ IsQuartz(t) <=> IsQuartz(u)
<1>1. \A name \in MarkerNames : IncludeDir(t, <<name>>) <=> IncludeDir(u, <<name>>)
  <2>1. MarkerDirs(t) = MarkerDirs(u)
    BY DEF AsOne, Signature, Scan
  <2>2. QED
    BY <2>1 DEF MarkerDirs, IncludeDir
<1>2. IsObsidian(t) <=> IsObsidian(u)
  BY <1>1, PagesAgree, PlainOnes DEF IsObsidian, MarkerNames
<1>3. \A x \in WatchedPaths \cup {<<"quartz.config.ts">>} :
          /\ IncludeFile(t, x, <<>>) <=> IncludeFile(u, x, <<>>)
          /\ IncludeFile(t, x, <<>>) => t.files[x] = u.files[x]
  BY IncludesAgree, IncludedIsKept, PlainOnes DEF Read
<1>4. IsLogseq(t) <=> IsLogseq(u)
  BY <1>3, CountedDirsAgree DEF IsLogseq, IncludeDir, WatchedPaths
<1>5. IsQuartz(t) <=> IsQuartz(u)
  BY <1>3 DEF IsQuartz
<1>6. RecommendsFoam(t) <=> RecommendsFoam(u)
  BY <1>3 DEF RecommendsFoam, WatchedPaths
<1>7. ASSUME NEW v, NEW w, AsOne(v, w), <<".foam">> \in Files(v) PROVE <<".foam">> \in Files(w)
  <2>1. <<".foam">> \in Paths /\ ToSet(<<".foam">>) = {".foam"}
    BY <1>7, ShortPaths DEF AsOne, IsTree
  <2>2. Front(<<".foam">>) = <<>>
    <3>1. Len(<<".foam">>) = 1
      OBVIOUS
    <3>2. QED
      BY <2>1, <3>1, PathParts, EmptySeq
  <2>3. IsSignatureFile(<<".foam">>)
    BY <2>1 DEF IsSignatureFile, EditorNote, Unwatched, MarkerNames
  <2>4. QED
    BY <1>7, <2>2, <2>3, SignedIsKept
<1>8. IsFoam(t) <=> IsFoam(u)
  BY <1>1, <1>6, <1>7, AsOneBoth DEF IsFoam, IncludePath, IncludeDir, MarkerNames
<1>9. QED
  BY <1>2, <1>4, <1>5, <1>8

LEMMA QuartzLoadsAgree ==
    ASSUME NEW t, NEW u, AsOne(t, u)
    PROVE  QuartzLoad(t) = QuartzLoad(u)
<1>1. IncludeDir(t, <<"content">>) <=> IncludeDir(u, <<"content">>)
  BY CountedDirsAgree DEF IncludeDir
<1>2. QED
  BY <1>1, MarkdownLoadsAgree, PlainOnes DEF QuartzLoad

\* What the watcher takes for one tree the loader loads as one, but for what nothing watches
LEMMA LoadsAgree ==
    ASSUME NEW t, NEW u, AsOne(t, u), NEW p
    PROVE  Load(t, p) = Load(u, p)
<1>1. /\ IsOkfRoot(t) <=> IsOkfRoot(u)
      /\ IsObsidian(t) <=> IsObsidian(u)
      /\ IsLogseq(t) <=> IsLogseq(u)
      /\ IsDendron(t) <=> IsDendron(u)
      /\ IsFoam(t) <=> IsFoam(u)
      /\ IsQuartz(t) <=> IsQuartz(u)
      /\ LlmwikiSourceRoots(t) = LlmwikiSourceRoots(u)
      /\ MarkdownUnder(t, <<>>, <<>>) = MarkdownUnder(u, <<>>, <<>>)
  BY OkfLoadsAgree, DetectionsAgree, ConfiguredAgree, SourceRootsAgree, PagesAgree, PlainOnes
<1>2. /\ OkfLoad(t) = OkfLoad(u)
      /\ \A adapter : MarkdownLoad(t, adapter, <<>>) = MarkdownLoad(u, adapter, <<>>)
      /\ LogseqLoad(t) = LogseqLoad(u)
      /\ DendronLoad(t) = DendronLoad(u)
      /\ QuartzLoad(t) = QuartzLoad(u)
      /\ LlmwikiSourceRoots(t) # {} => LlmwikiLoad(t) = LlmwikiLoad(u)
  BY OkfLoadsAgree, MarkdownLoadsAgree, LogseqLoadsAgree, DendronLoadsAgree, QuartzLoadsAgree,
     LlmwikiLoadsAgree, PlainOnes
<1>3. QED
  BY <1>1, <1>2 DEF Load

-----------------------------------------------------------------------------
\* The service

\* What is published is what its signature says, and the last scan is one of a tree
TreeInv ==
    /\ IsTree(tree)
    /\ snapshot # Absent => \E t : IsTree(t) /\ snapshot = Scan(t)
    /\ served # Absent => /\ IsTree(loaded) /\ signed = Signature(Scan(loaded))
                          /\ served = Load(loaded, profile)
    /\ AnswersAsStarted

\* A file system stays one
LEMMA TreeStep ==
    ASSUME IsTree(tree), TreeNext \/ UNCHANGED treeVars
    PROVE  IsTree(tree')
<1>1. /\ tree = [dirs |-> tree.dirs, files |-> tree.files]
      /\ tree.dirs \subseteq Paths /\ DOMAIN tree.files \subseteq Paths
      /\ \A path \in DOMAIN tree.files : tree.files[path] \in Contents
      /\ \A path \in tree.dirs \cup DOMAIN tree.files : Parents(path) \subseteq tree.dirs
  BY DEF IsTree, Files
<1>2. CASE WriteFile
  <2>1. PICK file \in Writable :
            tree' = [dirs |-> tree.dirs \cup Parents(file[1]), files |-> With(tree.files, file[1], file[2])]
    BY <1>2 DEF WriteFile, ChangeTree
  <2>2. file[1] \in Paths /\ file[2] \in Contents
    BY TreeAssumption
  <2>3. /\ DOMAIN With(tree.files, file[1], file[2]) = DOMAIN tree.files \cup {file[1]}
        /\ \A x \in DOMAIN tree.files \cup {file[1]} : With(tree.files, file[1], file[2])[x] \in Contents
    BY <1>1, <2>2 DEF With
  <2>4. Parents(file[1]) \subseteq Paths /\ \A p \in Parents(file[1]) : Parents(p) \subseteq Parents(file[1])
    BY <2>2, ParentIsBelow
  <2>5. QED
    BY <1>1, <2>1, <2>2, <2>3, <2>4 DEF IsTree, Files
<1>3. CASE RemoveFile
  <2>1. PICK path \in Files(tree) : tree' = [tree EXCEPT !.files = Without(@, path)]
    BY <1>3 DEF RemoveFile, ChangeTree
  <2>2. /\ DOMAIN Without(tree.files, path) \subseteq DOMAIN tree.files
        /\ \A x \in DOMAIN Without(tree.files, path) : Without(tree.files, path)[x] = tree.files[x]
    BY DEF Without
  <2>3. tree' = [dirs |-> tree.dirs, files |-> Without(tree.files, path)]
    BY <1>1, <2>1
  <2>4. QED
    BY <1>1, <2>2, <2>3 DEF IsTree, Files
<1>4. CASE CreateDir
  <2>1. PICK dir \in Creatable : tree' = [tree EXCEPT !.dirs = @ \cup {dir} \cup Parents(dir)]
    BY <1>4 DEF CreateDir, ChangeTree
  <2>2. dir \in Paths
    BY TreeAssumption
  <2>3. Parents(dir) \subseteq Paths /\ \A p \in Parents(dir) : Parents(p) \subseteq Parents(dir)
    BY <2>2, ParentIsBelow
  <2>4. tree' = [dirs |-> tree.dirs \cup {dir} \cup Parents(dir), files |-> tree.files]
    BY <1>1, <2>1
  <2>5. QED
    BY <1>1, <2>2, <2>3, <2>4 DEF IsTree, Files
<1>5. CASE RemoveDir
  <2>1. PICK dir \in tree.dirs : /\ \A path \in tree.dirs \cup Files(tree) : ~Below(dir, path)
                                 /\ tree' = [tree EXCEPT !.dirs = @ \ {dir}]
    BY <1>5 DEF RemoveDir, ChangeTree
  <2>2. tree' = [dirs |-> tree.dirs \ {dir}, files |-> tree.files]
    BY <1>1, <2>1
  <2>3. \A path \in tree.dirs \cup DOMAIN tree.files : dir \notin Parents(path)
    BY <1>1, <2>1, ParentIsBelow DEF Files
  <2>4. QED
    BY <1>1, <2>2, <2>3 DEF IsTree, Files
<1>6. CASE AskService \/ UNCHANGED treeVars
  BY <1>6 DEF AskService, treeVars
<1>7. QED
  BY <1>2, <1>3, <1>4, <1>5, <1>6 DEF TreeNext

LEMMA ChangeStep ==
    ASSUME TreeInv, IsTree(tree'), NEW to, ChangeTree(to)
    PROVE  TreeInv'
BY DEF TreeInv, ChangeTree, AnswersAsStarted

LEMMA AskStep ==
    ASSUME TreeInv, AskService
    PROVE  TreeInv'
<1> DEFINE scan == IF snapshot # Absent /\ IsCurrent(tree, snapshot) THEN snapshot ELSE Scan(tree)
<1>1. /\ snapshot' = scan /\ (Reuse(scan) \/ Rebuild(scan))
      /\ profile' = profile /\ tree' = tree
  BY DEF AskService
<1>2. Signature(scan) = Signature(Scan(tree)) /\ \E t : IsTree(t) /\ scan = Scan(t)
  BY CurrentScanSigns DEF TreeInv
<1> HIDE DEF scan
<1>3. IsTree(tree') /\ \E t : IsTree(t) /\ snapshot' = Scan(t)
  BY <1>1, <1>2 DEF TreeInv
<1>4. CASE Reuse(scan)
  <2>1. /\ reply' = served /\ signed' = signed /\ served' = served /\ loaded' = loaded
        /\ served # Absent /\ Signature(scan) = signed
    BY <1>4 DEF Reuse
  <2>2. /\ IsTree(loaded) /\ signed = Signature(Scan(loaded)) /\ served = Load(loaded, profile)
    BY <2>1 DEF TreeInv
  <2>3. Unseen(tree) = Unseen(loaded) => AsOne(tree, loaded)
    BY <1>2, <2>1, <2>2 DEF AsOne, TreeInv
  <2>4. Unseen(tree) = Unseen(loaded) => served = Load(tree, profile)
    BY <2>2, <2>3, LoadsAgree
  <2>5. AnswersAsStarted'
    BY <1>1, <2>1, <2>4 DEF AnswersAsStarted
  <2>6. (served # Absent => /\ IsTree(loaded) /\ signed = Signature(Scan(loaded))
                            /\ served = Load(loaded, profile))'
    BY <1>1, <2>1, <2>2
  <2>7. QED
    BY <1>3, <2>5, <2>6 DEF TreeInv
<1>5. CASE Rebuild(scan)
  <2> DEFINE wiki == Load(tree, profile)
  <2>1. reply' = wiki
    BY <1>5 DEF Rebuild
  <2>2. AnswersAsStarted'
    BY <1>1, <2>1 DEF AnswersAsStarted
  <2>3. CASE wiki.pages = {}
    <3>1. signed' = signed /\ served' = served /\ loaded' = loaded
      BY <1>5, <2>3 DEF Rebuild
    <3>2. (served # Absent => /\ IsTree(loaded) /\ signed = Signature(Scan(loaded))
                              /\ served = Load(loaded, profile))'
      BY <1>1, <3>1 DEF TreeInv
    <3>3. QED
      BY <1>3, <2>2, <3>2 DEF TreeInv
  <2>4. CASE wiki.pages # {}
    <3>1. signed' = Signature(scan) /\ served' = wiki /\ loaded' = tree
      BY <1>5, <2>4 DEF Rebuild
    <3>2. (served # Absent => /\ IsTree(loaded) /\ signed = Signature(Scan(loaded))
                              /\ served = Load(loaded, profile))'
      BY <1>1, <1>2, <3>1 DEF TreeInv
    <3>3. QED
      BY <1>3, <2>2, <3>2 DEF TreeInv
  <2>5. QED
    BY <2>3, <2>4
<1>6. QED
  BY <1>1, <1>4, <1>5

\* A service that watches its tree by its own rules answers what one started now would, unless
\* only what nothing watches has changed (AnswersAsStarted).
THEOREM WatchedAnswersAreCurrent == TreeSpec => []AnswersAsStarted
<1>1. TreeInit => TreeInv
  BY TreeAssumption DEF TreeInit, TreeInv, AnswersAsStarted
<1>2. TreeInv /\ [TreeNext]_treeVars => TreeInv'
  <2> SUFFICES ASSUME TreeInv, [TreeNext]_treeVars PROVE TreeInv'
    OBVIOUS
  <2>1. IsTree(tree')
    BY TreeStep DEF TreeInv
  <2>2. CASE WriteFile \/ RemoveFile \/ CreateDir \/ RemoveDir
    BY <2>1, <2>2, ChangeStep DEF WriteFile, RemoveFile, CreateDir, RemoveDir
  <2>3. CASE AskService
    BY <2>3, AskStep
  <2>4. CASE UNCHANGED treeVars
    BY <2>4 DEF treeVars, TreeInv, AnswersAsStarted
  <2>5. QED
    BY <2>2, <2>3, <2>4 DEF TreeNext
<1>3. TreeInv => AnswersAsStarted
  BY DEF TreeInv
<1>4. QED
  BY <1>1, <1>2, <1>3, PTL DEF TreeSpec

-----------------------------------------------------------------------------
\* Hubs

\* The pages of a wiki are pages of what holds it, and its hubs are hubs there
LEMMA HubsAreKept ==
    ASSUME NEW t, IsTree(t), NEW root \in LlmwikiSourceRoots(t), NEW f \in MarkdownUnder(t, root, root)
    PROVE  /\ f \in MarkdownUnder(t, <<>>, <<>>) /\ Relative(<<>>, f) = root \o Relative(root, f)
           /\ PageRole(root, f, {}) # PageRole(<<>>, f, HubRoots(t, <<>>)) =>
                  root = <<>> /\ PageRole(root, f, {}) = "topic"
<1>1. root \in {<<>>, <<"wiki">>, <<"openwiki">>}
  BY DEF LlmwikiSourceRoots
<1>2. Plain(root) /\ root \in Seq(Names) /\ ToSet(root) \cap (Ignored \cup {".vscode"}) = {}
  BY <1>1, PlainOnes DEF Plain
<1>3. /\ f \in Files(t) /\ Below(root, f) /\ Page(f) /\ IncludeFile(t, f, root)
      /\ f \in Paths /\ f \in Seq(Names)
  BY DEF MarkdownUnder, IsTree, Paths
<1>4. /\ ToSet(f) = ToSet(root) \cup ToSet(Relative(root, f)) /\ Last(Relative(root, f)) = Last(f)
      /\ root \o Relative(root, f) = f
  BY <1>2, <1>3, BelowNames
<1>5. Below(<<>>, f) /\ Relative(<<>>, f) = f
  BY <1>3, RootBelow
<1>6. IncludeFile(t, f, <<>>)
  BY <1>2, <1>3, <1>4, <1>5 DEF IncludeFile, EditorNote
<1>7. CASE root = <<>>
  <2>1. PageRole(root, f, {}) = "topic" \/ PageRole(root, f, {}) = PageRole(<<>>, f, HubRoots(t, <<>>))
    BY <1>7 DEF PageRole
  <2>2. QED
    BY <1>3, <1>4, <1>5, <1>6, <1>7, <2>1 DEF MarkdownUnder
<1>8. CASE root # <<>>
  <2>1. IsLlmwikiRoot(t, root, TRUE) /\ root \in Dirs(t)
    BY <1>8 DEF LlmwikiSourceRoots, IsLlmwikiRoot
  <2>2. PICK name \in {"wiki", "openwiki"} : root = <<name>>
    BY <1>1, <1>8
  <2>3. Len(root) = 1 /\ Last(root) = name /\ root \in Paths
    BY <1>2, <1>8, <2>2 DEF Last, Paths
  <2>4. Child(<<>>, root)
    BY <2>3, RootBelow DEF Child
  <2>5. ToSet(PreferredRoots) = {"wiki", "openwiki"}
    BY ShortPaths DEF PreferredRoots
  <2>6. root \in HubRoots(t, <<>>)
    BY <2>1, <2>2, <2>3, <2>4, <2>5 DEF HubRoots
  <2>7. ASSUME Front(f) = <<>> \/ Front(f) \in HubRoots(t, <<>>) PROVE Front(f) = root
    <3>1. Len(root) < Len(f) /\ Len(f) \in Nat /\ f[1] = root[1]
      <4>1. Len(root) < Len(f) /\ Len(f) \in Nat /\ \A i \in 1..Len(root) : f[i] = root[i]
        BY <1>2, <1>3, BelowParts
      <4>2. 1 \in 1..Len(root)
        BY <2>3
      <4>3. QED
        BY <4>1, <4>2
    <3>2. Front(f) \in Seq(Names) /\ Len(Front(f)) = Len(f) - 1 /\ \A i \in 1..(Len(f) - 1) : Front(f)[i] = f[i]
      BY <1>3, PathParts
    <3>3. Len(Front(f)) = 0 \/ Len(Front(f)) = 1
      <4>1. Len(<<>>) = 0
        OBVIOUS
      <4>2. \A dir \in HubRoots(t, <<>>) : Len(dir) = Len(<<>>) + 1
        BY DEF HubRoots, Child
      <4>3. QED
        BY <2>7, <4>1, <4>2
    <3>4. Len(Front(f)) = 1
      BY <2>3, <3>1, <3>2, <3>3
    <3>5. Len(f) = 2
      <4>1. Len(f) - 1 = 1
        BY <3>2, <3>4
      <4>2. QED
        BY <3>1, <4>1
    <3>6. Front(f)[1] = root[1]
      BY <3>1, <3>2, <3>5
    <3>7. QED
      BY <1>2, <2>3, <3>2, <3>4, <3>6, SeqEqual
  <2>8. PageRole(root, f, {}) = PageRole(<<>>, f, HubRoots(t, <<>>))
    BY <2>6, <2>7 DEF PageRole
  <2>9. QED
    BY <1>3, <1>4, <1>5, <1>6, <2>8 DEF MarkdownUnder
<1>9. QED
  BY <1>7, <1>8

\* In a load of the whole directory, by whichever adapter
LEMMA HubsInTheWhole ==
    ASSUME NEW t, IsTree(t), NEW root \in LlmwikiSourceRoots(t), NEW page \in LlmwikiLoad(t).pages, NEW adapter
    PROVE  Keeps(MarkdownLoad(t, adapter, <<>>), root, page)
<1>1. \A dir \in LlmwikiSourceRoots(t) : dir = root
  BY DEF LlmwikiSourceRoots
<1>2. root = CHOOSE dir \in LlmwikiSourceRoots(t) : TRUE
  BY <1>1
<1>3. page \in ParsePages(t, root, root, {})
  BY <1>2 DEF LlmwikiLoad, LoadedWiki
<1>4. PICK f \in MarkdownUnder(t, root, root) : page = ParsePage(t, f, root, root, {})
  BY <1>3 DEF ParsePages
<1> DEFINE other == ParsePage(t, f, <<>>, <<>>, HubRoots(t, <<>>))
<1>5. /\ f \in MarkdownUnder(t, <<>>, <<>>) /\ Relative(<<>>, f) = root \o Relative(root, f)
      /\ PageRole(root, f, {}) # PageRole(<<>>, f, HubRoots(t, <<>>)) =>
             root = <<>> /\ PageRole(root, f, {}) = "topic"
  BY HubsAreKept
<1>6. MarkdownLoad(t, adapter, <<>>).root = <<>> /\ other \in MarkdownLoad(t, adapter, <<>>).pages
  BY <1>5 DEF MarkdownLoad, LoadedWiki, ParsePages
<1>7. /\ page.path = Relative(root, f) /\ page.role = PageRole(root, f, {})
      /\ other.path = Relative(<<>>, f) /\ other.role = PageRole(<<>>, f, HubRoots(t, <<>>))
  BY <1>4 DEF ParsePage
<1>8. f \in Seq(Names)
  BY DEF MarkdownUnder, IncludeFile, IsTree, Files, Paths
<1>9. <<>> \o other.path = other.path
  BY <1>7, <1>8, RootBelow
<1> HIDE DEF other
<1>10. QED
  BY <1>5, <1>6, <1>7, <1>9 DEF Keeps

\* In a workspace whose one directory is the wiki
LEMMA HubsInTheVault ==
    ASSUME NEW t, IsTree(t), NEW root \in LlmwikiSourceRoots(t),
           Configured(t) = {root} \/ (Configured(t) = {} /\ root = <<>>)
    PROVE  DendronLoad(t).root = root /\ DendronLoad(t).pages = LlmwikiLoad(t).pages
<1>1. \A dir \in LlmwikiSourceRoots(t) : dir = root
  BY DEF LlmwikiSourceRoots
<1>2. root = CHOOSE dir \in LlmwikiSourceRoots(t) : TRUE
  BY <1>1
<1>3. root \in Dirs(t)
  BY DEF LlmwikiSourceRoots, IsLlmwikiRoot
<1> DEFINE vaults == Configured(t) \cap Dirs(t)
           several == Cardinality(Configured(t)) > 1
           top == IF Cardinality(vaults) = 1 /\ ~several THEN CHOOSE dir \in vaults : TRUE ELSE <<>>
           scans == IF vaults = {} /\ Configured(t) = {} THEN {<<>>} ELSE vaults
<1>4. top = root /\ scans = {root}
  <2>1. CASE Configured(t) = {root}
    <3>1. vaults = {root} /\ Cardinality(vaults) = 1 /\ Cardinality(Configured(t)) = 1
      BY <1>3, <2>1, FS_Singleton
    <3>2. (CHOOSE dir \in {root} : TRUE) = root
      OBVIOUS
    <3>3. QED
      BY <3>1, <3>2
  <2>2. CASE Configured(t) = {} /\ root = <<>>
    <3>1. vaults = {} /\ Cardinality(vaults) = 0
      BY <2>2, FS_EmptySet
    <3>2. QED
      BY <2>2, <3>1
  <2>3. QED
    BY <2>1, <2>2
<1>5. DendronLoad(t) = LoadedWiki(t, "dendron", top, UNION {ParsePages(t, dir, top, {}) : dir \in scans}, scans)
  BY DEF DendronLoad
<1> HIDE DEF top, scans
<1>6. UNION {ParsePages(t, dir, top, {}) : dir \in scans} = ParsePages(t, root, root, {})
  BY <1>4
<1>7. QED
  BY <1>2, <1>4, <1>5, <1>6 DEF LlmwikiLoad, LoadedWiki

\* A wiki keeps its pages and its hubs when markers call for another adapter, unless that one
\* goes by rules of its own (HubsWhateverMarkers).
THEOREM HubsAreKeptWhateverMarkers == TreeSpec => []HubsWhateverMarkers
<1>1. IsTree(tree) => HubsWhateverMarkers
  <2> SUFFICES ASSUME IsTree(tree), NEW root \in LlmwikiSourceRoots(tree), ~OwnRules(tree, profile, root),
                      NEW page \in LlmwikiLoad(tree).pages
               PROVE  Keeps(Load(tree, profile), root, page)
    BY DEF HubsWhateverMarkers
  <2>1. \A wiki : Keeps(wiki, root, page) => wiki.pages # {}
    BY DEF Keeps
  <2>2. \A adapter : Keeps(MarkdownLoad(tree, adapter, <<>>), root, page)
    BY HubsInTheWhole
  <2>3. profile # "okf" /\ ~IsOkfRoot(tree)
    BY DEF OwnRules
  <2>4. CASE IsObsidian(tree)
    BY <2>1, <2>2, <2>3, <2>4 DEF Load
  <2>5. CASE ~IsObsidian(tree) /\ IsDendron(tree)
    <3>1. ~IsLogseq(tree) /\ (Configured(tree) = {root} \/ (Configured(tree) = {} /\ root = <<>>))
      BY <2>5 DEF OwnRules
    <3>2. DendronLoad(tree).root = root /\ DendronLoad(tree).pages = LlmwikiLoad(tree).pages
      BY <3>1, HubsInTheVault
    <3>3. Keeps(DendronLoad(tree), root, page)
      BY <3>2 DEF Keeps
    <3>4. QED
      BY <2>1, <2>3, <2>5, <3>1, <3>3 DEF Load
  <2>6. CASE ~IsObsidian(tree) /\ ~IsDendron(tree) /\ IsFoam(tree)
    <3>1. ~IsLogseq(tree)
      BY <2>6 DEF OwnRules
    <3>2. QED
      BY <2>1, <2>2, <2>3, <2>6, <3>1 DEF Load
  <2>7. CASE ~IsObsidian(tree) /\ ~IsDendron(tree) /\ ~IsFoam(tree) /\ IsQuartz(tree)
    <3>1. ~IsLogseq(tree) /\ ~IncludeDir(tree, <<"content">>)
      BY <2>7 DEF OwnRules
    <3>2. QuartzLoad(tree) = MarkdownLoad(tree, "quartz", <<>>)
      BY <3>1 DEF QuartzLoad
    <3>3. QED
      BY <2>1, <2>2, <2>3, <2>7, <3>1, <3>2 DEF Load
  <2>8. CASE ~IsObsidian(tree) /\ ~IsDendron(tree) /\ ~IsFoam(tree) /\ ~IsQuartz(tree)
    <3>1. ~IsLogseq(tree) /\ LlmwikiSourceRoots(tree) # {}
      BY <2>8 DEF OwnRules
    <3>2. \A dir \in LlmwikiSourceRoots(tree) : dir = root
      BY DEF LlmwikiSourceRoots
    <3>3. LlmwikiLoad(tree).root = root
      BY <3>2 DEF LlmwikiLoad, LoadedWiki
    <3>4. Keeps(LlmwikiLoad(tree), root, page)
      BY <3>3 DEF Keeps
    <3>5. QED
      BY <2>1, <2>3, <2>8, <3>1, <3>4 DEF Load
  <2>9. QED
    BY <2>4, <2>5, <2>6, <2>7, <2>8
<1>2. TreeInit => IsTree(tree)
  BY TreeAssumption DEF TreeInit
<1>3. IsTree(tree) /\ [TreeNext]_treeVars => IsTree(tree)'
  BY TreeStep DEF IsTree, Files
<1>4. QED
  BY <1>1, <1>2, <1>3, PTL DEF TreeSpec
=============================================================================
