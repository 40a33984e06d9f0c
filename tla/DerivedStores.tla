---------------------------- MODULE DerivedStores ----------------------------
(***************************************************************************)
(* The two derived stores behind graph requests.  The projection store     *)
(* (projection_store.py: Redis, with a memory fallback in each process)    *)
(* keeps indexes under the signature of the source; the graph store        *)
(* (graph_store.py: SQLite) keeps the nodes and edges of an index under    *)
(* that signature and a visibility scope.  Processes share both.           *)
(*                                                                         *)
(* A build takes the signature first and reads the files later; how it     *)
(* reads them is in ProjectionCache.  Here Contents stand both for what    *)
(* the source holds and for its signature.  A graph is read by three       *)
(* queries, each of what is committed by then.  Namespace, source,         *)
(* profile, format and schema version are one; digests do not collide.     *)
(***************************************************************************)
EXTENDS Naturals

CONSTANTS
    Procs,          \* the service processes
    Requests,       \* request threads
    Contents,       \* what the source may hold
    FirstContents,
    NodesOf,        \* contents -> scope -> the nodes of the graph view
    EdgesOf,        \* contents -> scope -> its edges
    FailFast,       \* process -> --redis-failure-policy is fail-fast
    GraphFailFast,  \* process -> --graph-store-failure-policy is fail-fast
    None,           \* Python's None
    Bad,            \* a payload or rows that cannot be hydrated
    MaxAsks,        \* bound: requests
    MaxEdits,       \* bound: changes of the source
    MaxFaults       \* bound: failed calls of a store, restarts, damaged records

Scopes == {"approved", "all"}
\* GraphStoreKey, and what its digest is of
Key == Contents \X Scopes
Rows == {NodesOf[c][s] : c \in Contents, s \in Scopes}
        \cup {EdgesOf[c][s] : c \in Contents, s \in Scopes} \cup {Bad}
Graph == [nodes : Rows, edges : Rows]
\* What the service publishes: the signature and the contents the index was projected from
Snapshot == [digest : Contents, pages : Contents]

ASSUME StoresAssumption ==
    /\ FirstContents \in Contents
    /\ FailFast \in [Procs -> BOOLEAN] /\ GraphFailFast \in [Procs -> BOOLEAN]
    /\ \A c \in Contents, s \in Scopes : NodesOf[c][s] # Bad
    /\ Bad \notin Contents
    /\ None \notin Contents /\ None # Bad
    /\ None \notin Requests
    /\ None \notin Snapshot
    /\ None \notin Graph
    /\ {MaxAsks, MaxEdits, MaxFaults} \subseteq Nat

VARIABLES
    source,     \* what the source holds
    \* the stores
    redis,      \* signature -> the contents its record was projected from
    snapshots,  \* key -> the row of graph_snapshots: what its payload digest is of
    nodes,      \* key -> the rows of graph_nodes
    edges,      \* key -> the rows of graph_edges
    \* each process
    procOf,     \* the process of a request thread
    lock,       \* the holder of _index_lock
    published,  \* _retrieval_snapshot
    available,  \* RedisProjectionStore._available
    fallback,   \* _memory_fallback: signature -> contents
    \* each request
    at,
    sign,       \* the signature it read, or its snapshot has
    pages,      \* the contents of its index, once it has one
    scope,
    row,        \* the row of graph_snapshots it read
    read,       \* the rows of graph_nodes it read
    got,        \* the graph it answers from
    \* bounds
    asks, edits, faults,
    \* history, which the properties use and no step reads
    built,      \* signature -> the contents of the indexes built under it
    raced       \* whether the source ever changed between the two reads of a build

tables == <<snapshots, nodes, edges>>
service == <<lock, published, available, fallback>>
request == <<at, sign, pages, scope, row, read, got>>
vars == <<source, redis, tables, procOf, service, request, asks, edits, faults, built, raced>>

Ended == {"served", "failed"}
Locked == {"get", "load", "put"}
Phases == {"idle", "snapshot", "nodes", "edges", "view", "save"} \cup Locked \cup Ended

\* Mutant: the scope is not in the key
KeyWithoutScope(r) == <<sign[r], "approved">>

View(c, s) == [nodes |-> NodesOf[c][s], edges |-> EdgesOf[c][s]]
KeyOf(r) == <<sign[r], scope[r]>>

Init ==
    /\ source = FirstContents
    /\ redis = [d \in Contents |-> None]
    /\ snapshots = [k \in Key |-> None]
    /\ nodes = [k \in Key |-> Bad]
    /\ edges = [k \in Key |-> Bad]
    /\ procOf \in [Requests -> Procs]
    /\ lock = [p \in Procs |-> None]
    /\ published = [p \in Procs |-> None]
    /\ available = [p \in Procs |-> TRUE]
    /\ fallback = [p \in Procs |-> [d \in Contents |-> None]]
    /\ at = [r \in Requests |-> "idle"]
    /\ sign = [r \in Requests |-> FirstContents]
    /\ pages = [r \in Requests |-> FirstContents]
    /\ scope = [r \in Requests |-> "approved"]
    /\ row = [r \in Requests |-> None]
    /\ read = [r \in Requests |-> Bad]
    /\ got = [r \in Requests |-> None]
    /\ asks = 0 /\ edits = 0 /\ faults = 0
    /\ built = [d \in Contents |-> {}]
    /\ raced = FALSE

Goes(r, phase) == at' = [at EXCEPT ![r] = phase]
Fault == faults < MaxFaults /\ faults' = faults + 1
Unlocks(r) == lock' = [lock EXCEPT ![procOf[r]] = None]

(***************************************************************************)
(* The index of a request.                                                 *)
(***************************************************************************)

\* The lock is taken and the signature read. The published index is taken if it is of it, unless
\* files were touched since (SourceSignature is of their mtimes).
Ask(r, refresh, touched, drafts) ==
    LET p == procOf[r] IN
    /\ at[r] \in {"idle"} \cup Ended
    /\ asks < MaxAsks /\ asks' = asks + 1
    /\ lock[p] = None
    /\ sign' = [sign EXCEPT ![r] = source]
    /\ scope' = [scope EXCEPT ![r] = IF drafts THEN "all" ELSE "approved"]
    /\ got' = [got EXCEPT ![r] = None]
    /\ IF ~refresh /\ ~touched /\ published[p] # None /\ published[p].digest = source
       THEN /\ pages' = [pages EXCEPT ![r] = published[p].pages]
            /\ Goes(r, "snapshot")
            /\ UNCHANGED lock
       ELSE /\ Goes(r, IF refresh THEN "load" ELSE "get")
            /\ lock' = [lock EXCEPT ![p] = r]
            /\ UNCHANGED pages
    /\ UNCHANGED <<source, redis, tables, procOf, published, available, fallback, row, read,
                   edits, faults, built, raced>>

\* _publish_index_snapshot, at the end of which the lock is left
Publishes(r, c) ==
    /\ published' = [published EXCEPT ![procOf[r]] = [digest |-> sign[r], pages |-> c]]
    /\ pages' = [pages EXCEPT ![r] = c]
    /\ Goes(r, "snapshot")
    /\ Unlocks(r)

\* A record that is not there, or cannot be hydrated, is built
TakesOrBuilds(r, record) ==
    IF record \in Contents THEN Publishes(r, record)
    ELSE Goes(r, "load") /\ UNCHANGED <<published, pages, lock>>

\* RedisProjectionStore.get
GetRecord(r) ==
    LET p == procOf[r] IN
    /\ at[r] = "get"
    /\ TakesOrBuilds(r, IF available[p] THEN redis[sign[r]] ELSE fallback[p][sign[r]])
    /\ UNCHANGED <<source, redis, tables, procOf, available, fallback, sign, scope, row, read,
                   got, asks, edits, faults, built, raced>>

\* Mutant: the failure policy is not looked at
GetRaises(r) ==
    /\ at[r] = "get" /\ available[procOf[r]] /\ Fault
    /\ Goes(r, "failed") /\ Unlocks(r)
    /\ UNCHANGED <<source, redis, tables, procOf, available, published, pages, fallback, sign,
                   scope, row, read, got, asks, edits, built, raced>>

\* _handle_failure: fail-fast raises out of the request, fallback-local turns Redis off for ever
GetFails(r) ==
    LET p == procOf[r] IN
    /\ at[r] = "get" /\ available[p] /\ Fault
    /\ IF FailFast[p]
       THEN Goes(r, "failed") /\ Unlocks(r) /\ UNCHANGED <<available, published, pages>>
       ELSE /\ available' = [available EXCEPT ![p] = FALSE]
            /\ TakesOrBuilds(r, fallback[p][sign[r]])
    /\ UNCHANGED <<source, redis, tables, procOf, fallback, sign, scope, row, read, got, asks,
                   edits, built, raced>>

\* load_wiki, which reads the source as it is by now
Load(r) ==
    /\ at[r] = "load"
    /\ pages' = [pages EXCEPT ![r] = source]
    /\ built' = [built EXCEPT ![sign[r]] = @ \cup {source}]
    /\ raced' = (raced \/ source # sign[r])
    /\ Goes(r, "put")
    /\ UNCHANGED <<source, redis, tables, procOf, service, sign, scope, row, read, got, asks,
                   edits, faults>>

\* RedisProjectionStore.put keeps a copy in memory, whether Redis is used or not
PutRecord(r) ==
    LET p == procOf[r] IN
    /\ at[r] = "put"
    /\ fallback' = [fallback EXCEPT ![p][sign[r]] = pages[r]]
    /\ redis' = IF available[p] THEN [redis EXCEPT ![sign[r]] = pages[r]] ELSE redis
    /\ Publishes(r, pages[r])
    /\ UNCHANGED <<source, tables, procOf, available, sign, scope, row, read, got, asks, edits,
                   faults, built, raced>>

\* The record is set, or not; the latest key, which nothing reads, is not
PutFails(r) ==
    LET p == procOf[r] IN
    /\ at[r] = "put" /\ available[p] /\ Fault
    /\ fallback' = [fallback EXCEPT ![p][sign[r]] = pages[r]]
    /\ redis' \in {redis, [redis EXCEPT ![sign[r]] = pages[r]]}
    /\ IF FailFast[p]
       THEN Goes(r, "failed") /\ Unlocks(r) /\ UNCHANGED <<available, published, pages>>
       ELSE Publishes(r, pages[r]) /\ available' = [available EXCEPT ![p] = FALSE]
    /\ UNCHANGED <<source, tables, procOf, sign, scope, row, read, got, asks, edits, built, raced>>

(***************************************************************************)
(* The graph view of its index.                                            *)
(***************************************************************************)

\* What get has read is gone when it is over
DropsRows(r) == row' = [row EXCEPT ![r] = None] /\ read' = [read EXCEPT ![r] = Bad]

\* SqliteGraphStore.get: each query sees what is committed by then
ReadSnapshot(r) ==
    /\ at[r] = "snapshot"
    /\ row' = [row EXCEPT ![r] = snapshots[KeyOf(r)]]
    /\ Goes(r, IF snapshots[KeyOf(r)] = None THEN "view" ELSE "nodes")
    /\ UNCHANGED <<source, redis, tables, procOf, service, sign, pages, scope, read, got, asks,
                   edits, faults, built, raced>>

ReadNodes(r) ==
    /\ at[r] = "nodes"
    /\ read' = [read EXCEPT ![r] = nodes[KeyOf(r)]]
    /\ Goes(r, "edges")
    /\ UNCHANGED <<source, redis, tables, procOf, service, sign, pages, scope, row, got, asks,
                   edits, faults, built, raced>>

\* Mutant: the digest is not compared
ReadEdgesUnchecked(r) ==
    LET graph == [nodes |-> read[r], edges |-> edges[KeyOf(r)]] IN
    /\ at[r] = "edges"
    /\ IF Bad \notin {graph.nodes, graph.edges}
       THEN got' = [got EXCEPT ![r] = graph] /\ Goes(r, "served")
       ELSE Goes(r, "view") /\ UNCHANGED got
    /\ DropsRows(r)
    /\ UNCHANGED <<source, redis, tables, procOf, service, sign, pages, scope, asks, edits,
                   faults, built, raced>>

\* The rows are of the digest in the snapshot (and so are their counts), or they are a miss
ReadEdges(r) ==
    LET graph == [nodes |-> read[r], edges |-> edges[KeyOf(r)]] IN
    /\ at[r] = "edges"
    /\ IF graph = row[r]
       THEN got' = [got EXCEPT ![r] = graph] /\ Goes(r, "served")
       ELSE Goes(r, "view") /\ UNCHANGED got
    /\ DropsRows(r)
    /\ UNCHANGED <<source, redis, tables, procOf, service, sign, pages, scope, asks, edits,
                   faults, built, raced>>

\* The database is locked, or gone
ReadFails(r) ==
    /\ at[r] \in {"snapshot", "nodes", "edges"} /\ Fault
    /\ Goes(r, IF GraphFailFast[procOf[r]] THEN "failed" ELSE "view")
    /\ DropsRows(r)
    /\ UNCHANGED <<source, redis, tables, procOf, service, sign, pages, scope, got, asks, edits,
                   built, raced>>

\* _index_views takes the index lock once more
MakeView(r) ==
    /\ at[r] = "view" /\ lock[procOf[r]] = None
    /\ got' = [got EXCEPT ![r] = View(pages[r], scope[r])]
    /\ Goes(r, "save")
    /\ UNCHANGED <<source, redis, tables, procOf, service, sign, pages, scope, row, read, asks,
                   edits, faults, built, raced>>

\* SqliteGraphStore.put: one transaction replaces the rows of the key in all three tables
SaveGraph(r) ==
    /\ at[r] = "save"
    /\ snapshots' = [snapshots EXCEPT ![KeyOf(r)] = got[r]]
    /\ nodes' = [nodes EXCEPT ![KeyOf(r)] = got[r].nodes]
    /\ edges' = [edges EXCEPT ![KeyOf(r)] = got[r].edges]
    /\ Goes(r, "served")
    /\ UNCHANGED <<source, redis, procOf, service, sign, pages, scope, row, read, got, asks,
                   edits, faults, built, raced>>

\* Rolled back
SaveFails(r) ==
    /\ at[r] = "save" /\ Fault
    /\ Goes(r, IF GraphFailFast[procOf[r]] THEN "failed" ELSE "served")
    /\ UNCHANGED <<source, redis, tables, procOf, service, sign, pages, scope, row, read, got,
                   asks, edits, built, raced>>

(***************************************************************************)
(* The environment.                                                        *)
(***************************************************************************)

Edit(c) ==
    /\ edits < MaxEdits /\ edits' = edits + 1
    /\ c # source /\ source' = c
    /\ UNCHANGED <<redis, tables, procOf, service, request, asks, faults, built, raced>>

\* A process is killed and another started: Redis and the database stay
Restart(p) ==
    /\ Fault
    /\ lock' = [lock EXCEPT ![p] = None]
    /\ published' = [published EXCEPT ![p] = None]
    /\ available' = [available EXCEPT ![p] = TRUE]
    /\ fallback' = [fallback EXCEPT ![p] = [d \in Contents |-> None]]
    /\ at' = [r \in Requests |-> IF procOf[r] = p THEN "idle" ELSE at[r]]
    /\ UNCHANGED <<source, redis, tables, procOf, sign, pages, scope, row, read, got, asks,
                   edits, built, raced>>

\* A record of Redis is overwritten by something that cannot be hydrated
DamageRecord(d) ==
    /\ redis[d] \in Contents /\ Fault
    /\ redis' = [redis EXCEPT ![d] = Bad]
    /\ UNCHANGED <<source, tables, procOf, service, request, asks, edits, built, raced>>

\* Rows of the database are damaged
DamageRows(k) ==
    /\ snapshots[k] # None /\ Fault
    /\ nodes' = [nodes EXCEPT ![k] = Bad]
    /\ UNCHANGED <<source, redis, snapshots, edges, procOf, service, request, asks, edits, built,
                   raced>>

\* A library caller invalidates the source, in one transaction
InvalidateGraphs ==
    /\ Fault
    /\ snapshots' = [k \in Key |-> None]
    /\ nodes' = [k \in Key |-> Bad]
    /\ edges' = [k \in Key |-> Bad]
    /\ UNCHANGED <<source, redis, procOf, service, request, asks, edits, built, raced>>

IndexStep(r) == GetRecord(r) \/ GetFails(r) \/ Load(r) \/ PutRecord(r) \/ PutFails(r)
GraphStep(r) ==
    \/ ReadSnapshot(r) \/ ReadNodes(r) \/ ReadEdges(r) \/ ReadFails(r)
    \/ MakeView(r) \/ SaveGraph(r) \/ SaveFails(r)

Next ==
    \/ \E r \in Requests, refresh, touched, drafts \in BOOLEAN :
        Ask(r, refresh, touched, drafts)
    \/ \E r \in Requests : IndexStep(r) \/ GraphStep(r)
    \/ \E c \in Contents : Edit(c) \/ DamageRecord(c)
    \/ \E p \in Procs : Restart(p)
    \/ \E k \in Key : DamageRows(k)
    \/ InvalidateGraphs

Spec == Init /\ [][Next]_vars

\* A request thread runs on
RequestsRunOn == \A r \in Requests : WF_vars(IndexStep(r) \/ GraphStep(r))

LiveSpec == Spec /\ RequestsRunOn

(***************************************************************************)
(* Properties.                                                             *)
(***************************************************************************)

TypeOK ==
    /\ source \in Contents
    /\ redis \in [Contents -> Contents \cup {None, Bad}]
    /\ snapshots \in [Key -> Graph \cup {None}]
    /\ nodes \in [Key -> Rows] /\ edges \in [Key -> Rows]
    /\ procOf \in [Requests -> Procs]
    /\ lock \in [Procs -> Requests \cup {None}]
    /\ published \in [Procs -> Snapshot \cup {None}]
    /\ available \in [Procs -> BOOLEAN]
    /\ fallback \in [Procs -> [Contents -> Contents \cup {None}]]
    /\ at \in [Requests -> Phases]
    /\ sign \in [Requests -> Contents]
    /\ pages \in [Requests -> Contents]
    /\ scope \in [Requests -> Scopes]
    /\ row \in [Requests -> Graph \cup {None}]
    /\ read \in [Requests -> Rows]
    /\ got \in [Requests -> Graph \cup {None}]
    /\ {asks, edits, faults} \subseteq Nat
    /\ built \in [Contents -> SUBSET Contents]
    /\ raced \in BOOLEAN

\* Whatever was replaced or damaged between the three queries, an answer is the whole graph of one
\* index that was built under the signature of the request, in the scope of the request: graphs
\* of two indexes never mix, and drafts never show in an approved graph.
GraphIsWhole ==
    \A r \in Requests : at[r] = "served" =>
        \E c \in built[sign[r]] : got[r] = View(c, scope[r])

\* Until the source changes in the middle of a build, the stores make no difference: a request is
\* answered with the graph of the source whose signature it read, through either store, through
\* the fallback, and after failures and restarts (REQ-REDIS-015, REQ-GS-008).
AsWithoutStoresUnlessRaced ==
    ~raced => \A r \in Requests : at[r] = "served" => got[r] = View(sign[r], scope[r])

\* With fallback-local for both stores every request is served, whatever fails, unless its process
\* is killed; with fail-fast it ends, and leaves the lock to the next (REQ-REDIS-012, REQ-GS-005).
KeepsServing ==
    \A r \in Requests :
        at[r] \in Phases \ (Ended \cup {"idle"}) ~>
            \/ at[r] \in {"served", "idle"}
            \/ at[r] = "failed" /\ (FailFast[procOf[r]] \/ GraphFailFast[procOf[r]])

=============================================================================
