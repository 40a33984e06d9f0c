------------------------- MODULE DerivedStores_proof -------------------------
(***************************************************************************)
(* Proofs about DerivedStores, for any processes, requests and contents;   *)
(* and then about Retrieval, for any corpus, query, scores and limits.     *)
(*                                                                         *)
(* Whatever the stores, a process or a request holds under a signature is  *)
(* of an index that was built under that signature (Kept, Held), and a     *)
(* graph is that of one such index in the scope it is kept under: the row  *)
(* of the snapshot decides which, and the answer is compared with it.      *)
(* Until a build is raced, there is only one index under a signature       *)
(* (OneIndex), which is that of the contents the signature is of.          *)
(*                                                                         *)
(* Every list of a search is cut from the order of some keys (Cut), and    *)
(* ranks what is ahead in them first; the fusions add up terms of ranks.   *)
(***************************************************************************)
EXTENDS DerivedStores, Retrieval, FiniteSetTheorems, WellFoundedInduction, TLAPS

\* A graph of an index built under signature d, as it shows in scope s
IsGraph(g, d, s) == \E c \in built[d] : g = View(c, s)

\* What outlives a request
Kept ==
    /\ \A d \in Contents : redis[d] \in built[d] \cup {None, Bad}
    /\ \A p \in Procs, d \in Contents : fallback[p][d] \in built[d] \cup {None}
    /\ \A p \in Procs : published[p] # None => published[p].pages \in built[published[p].digest]

KeptGraphs ==
    \A d \in Contents, s \in Scopes :
        snapshots[<<d, s>>] # None => IsGraph(snapshots[<<d, s>>], d, s)

\* What a request has in hand
HasIndex == {"put", "snapshot", "nodes", "edges", "view", "save", "served"}
Held ==
    \A r \in Requests :
        /\ at[r] \in HasIndex => pages[r] \in built[sign[r]]
        /\ at[r] \in {"nodes", "edges"} => row[r] # None /\ IsGraph(row[r], sign[r], scope[r])
        /\ at[r] \in {"save", "served"} => IsGraph(got[r], sign[r], scope[r])

OneIndex == ~raced => \A d \in Contents : built[d] \subseteq {d}

DInv == TypeOK /\ Kept /\ KeptGraphs /\ Held /\ OneIndex

-----------------------------------------------------------------------------
(* Types *)

\* What a scope shows of a content is a graph
LEMMA ViewTypes ==
    ASSUME NEW c \in Contents, NEW s \in Scopes
    PROVE  View(c, s) \in Graph /\ View(c, s) # None
<1>1. NodesOf[c][s] \in Rows /\ EdgesOf[c][s] \in Rows
  BY DEF Rows
<1>2. View(c, s) \in Graph
  BY <1>1 DEF View, Graph
<1> QED BY <1>2, StoresAssumption

\* The stores begin empty and everybody idle
LEMMA InitTypes == Init => TypeOK
<1> SUFFICES ASSUME Init PROVE TypeOK
  OBVIOUS
<1>1. Bad \in Rows
  BY DEF Rows
<1>2. snapshots \in [Key -> Graph \cup {None}] /\ nodes \in [Key -> Rows] /\ edges \in [Key -> Rows]
  BY <1>1 DEF Init
<1>3. row \in [Requests -> Graph \cup {None}] /\ read \in [Requests -> Rows]
          /\ got \in [Requests -> Graph \cup {None}]
  BY <1>1 DEF Init
<1>4. redis \in [Contents -> Contents \cup {None, Bad}]
          /\ fallback \in [Procs -> [Contents -> Contents \cup {None}]]
          /\ published \in [Procs -> Snapshot \cup {None}]
  BY DEF Init
<1>5. source \in Contents /\ sign \in [Requests -> Contents] /\ pages \in [Requests -> Contents]
          /\ built \in [Contents -> SUBSET Contents]
  BY StoresAssumption DEF Init
<1>6. at \in [Requests -> Phases] /\ scope \in [Requests -> Scopes]
          /\ {asks, edits, faults} \subseteq Nat
  BY DEF Init, Phases, Scopes
<1>7. lock \in [Procs -> Requests \cup {None}] /\ available \in [Procs -> BOOLEAN]
          /\ raced \in BOOLEAN /\ procOf \in [Requests -> Procs]
  BY DEF Init
<1> QED BY <1>2, <1>3, <1>4, <1>5, <1>6, <1>7 DEF TypeOK

\* A request keeps the types when it reads the signature of the source
LEMMA AskTypes ==
    ASSUME TypeOK, NEW r \in Requests, NEW refresh \in BOOLEAN, NEW touched \in BOOLEAN,
           NEW drafts \in BOOLEAN,
           Ask(r, refresh, touched, drafts)
    PROVE  TypeOK'
<1> USE DEF TypeOK, Ask
<1>1. at' \in [Requests -> Phases]
  BY DEF Goes, Phases, Locked
<1>2. pages' \in [Requests -> Contents]
  <2>1. CASE UNCHANGED pages
    BY <2>1
  <2>2. CASE published[procOf[r]] # None
             /\ pages' = [pages EXCEPT ![r] = published[procOf[r]].pages]
    BY <2>2 DEF Snapshot
  <2> QED BY <2>1, <2>2
<1>3. lock' \in [Procs -> Requests \cup {None}]
  OBVIOUS
<1>4. scope' \in [Requests -> Scopes]
  BY DEF Scopes
<1> QED BY <1>1, <1>2, <1>3, <1>4 DEF tables

\* What a refresh publishes is a snapshot, and it leaves the lock
LEMMA PublishTypes ==
    ASSUME TypeOK, NEW r \in Requests, NEW c \in Contents, Publishes(r, c)
    PROVE  /\ published' \in [Procs -> Snapshot \cup {None}]
           /\ pages' \in [Requests -> Contents]
           /\ at' \in [Requests -> Phases]
           /\ lock' \in [Procs -> Requests \cup {None}]
<1>1. [digest |-> sign[r], pages |-> c] \in Snapshot
  BY DEF TypeOK, Snapshot
<1> QED BY <1>1 DEF TypeOK, Publishes, Goes, Unlocks, Phases

\* An index taken from a record, or built, is one of the contents
LEMMA TakeTypes ==
    ASSUME TypeOK, NEW r \in Requests, NEW record, TakesOrBuilds(r, record)
    PROVE  /\ published' \in [Procs -> Snapshot \cup {None}]
           /\ pages' \in [Requests -> Contents]
           /\ at' \in [Requests -> Phases]
           /\ lock' \in [Procs -> Requests \cup {None}]
<1>1. CASE record \in Contents
  BY <1>1, PublishTypes DEF TakesOrBuilds
<1>2. CASE record \notin Contents
  BY <1>2 DEF TakesOrBuilds, TypeOK, Goes, Phases, Locked
<1> QED BY <1>1, <1>2

\* The steps of ensure_index keep the types
LEMMA IndexTypes ==
    ASSUME TypeOK, NEW r \in Requests, IndexStep(r)
    PROVE  TypeOK'
<1>1. CASE GetRecord(r)
  BY <1>1, TakeTypes DEF GetRecord, TypeOK, tables
<1>2. CASE GetFails(r)
  <2>1. available' \in [Procs -> BOOLEAN] /\ {asks, edits, faults}' \subseteq Nat
    <3>1. faults' \in Nat /\ asks' \in Nat /\ edits' \in Nat
      BY <1>2 DEF GetFails, TypeOK, Fault
    <3>2. available' \in [Procs -> BOOLEAN]
      BY <1>2 DEF GetFails, TypeOK
    <3> QED BY <3>1, <3>2
  <2>2. CASE FailFast[procOf[r]]
    <3>1. at' \in [Requests -> Phases] /\ lock' \in [Procs -> Requests \cup {None}]
      BY <1>2, <2>2 DEF GetFails, TypeOK, Goes, Unlocks, Phases, Ended
    <3> QED BY <1>2, <2>1, <2>2, <3>1 DEF GetFails, TypeOK, tables
  <2>3. CASE ~FailFast[procOf[r]]
    <3>1. TakesOrBuilds(r, fallback[procOf[r]][sign[r]])
      BY <1>2, <2>3 DEF GetFails
    <3> QED BY <1>2, <2>1, <3>1, TakeTypes DEF GetFails, TypeOK, tables
  <2> QED BY <2>2, <2>3
<1>3. CASE Load(r)
  BY <1>3 DEF Load, TypeOK, tables, service, Goes, Phases, Locked
<1>4. CASE PutRecord(r)
  <2>1. redis' \in [Contents -> Contents \cup {None, Bad}]
    BY <1>4 DEF PutRecord, TypeOK
  <2>2. fallback' \in [Procs -> [Contents -> Contents \cup {None}]]
    BY <1>4 DEF PutRecord, TypeOK
  <2> QED BY <1>4, <2>1, <2>2, PublishTypes DEF PutRecord, TypeOK, tables
<1>5. CASE PutFails(r)
  <2>1. redis' \in [Contents -> Contents \cup {None, Bad}]
    BY <1>5 DEF PutFails, TypeOK
  <2>2. fallback' \in [Procs -> [Contents -> Contents \cup {None}]]
    BY <1>5 DEF PutFails, TypeOK
  <2>3. available' \in [Procs -> BOOLEAN] /\ {asks, edits, faults}' \subseteq Nat
    <3>1. faults' \in Nat /\ asks' \in Nat /\ edits' \in Nat
      BY <1>5 DEF PutFails, TypeOK, Fault
    <3>2. available' \in [Procs -> BOOLEAN]
      BY <1>5 DEF PutFails, TypeOK
    <3> QED BY <3>1, <3>2
  <2>4. CASE FailFast[procOf[r]]
    <3>1. at' \in [Requests -> Phases] /\ lock' \in [Procs -> Requests \cup {None}]
      BY <1>5, <2>4 DEF PutFails, TypeOK, Goes, Unlocks, Phases, Ended
    <3> QED BY <1>5, <2>1, <2>2, <2>3, <2>4, <3>1 DEF PutFails, TypeOK, tables
  <2>5. CASE ~FailFast[procOf[r]]
    <3>1. pages[r] \in Contents /\ Publishes(r, pages[r])
      BY <1>5, <2>5 DEF PutFails, TypeOK
    <3> QED BY <1>5, <2>1, <2>2, <2>3, <3>1, PublishTypes DEF PutFails, TypeOK, tables
  <2> QED BY <2>4, <2>5
<1> QED BY <1>1, <1>2, <1>3, <1>4, <1>5 DEF IndexStep

\* Graphs are stored by signature and scope
LEMMA KeyTypes ==
    ASSUME TypeOK, NEW r \in Requests
    PROVE  KeyOf(r) \in Key
BY DEF TypeOK, KeyOf, Key

\* The steps of _graph_view keep the types
LEMMA GraphTypes ==
    ASSUME TypeOK, Held, NEW r \in Requests, GraphStep(r)
    PROVE  TypeOK'
<1>k. KeyOf(r) \in Key
  BY KeyTypes
<1>b. Bad \in Rows
  BY DEF Rows
<1> USE DEF TypeOK, tables, service, Goes, Phases
<1>1. CASE ReadSnapshot(r)
  BY <1>k, <1>1 DEF ReadSnapshot
<1>2. CASE ReadNodes(r)
  BY <1>k, <1>2 DEF ReadNodes
<1>3. CASE ReadEdges(r)
  <2> DEFINE graph == [nodes |-> read[r], edges |-> edges[KeyOf(r)]]
  <2>1. graph \in Graph
    BY <1>k DEF Graph
  <2>2. got' \in [Requests -> Graph \cup {None}]
    BY <1>3, <2>1 DEF ReadEdges
  <2>3. at' \in [Requests -> Phases]
    BY <1>3 DEF ReadEdges, Ended
  <2>4. row' \in [Requests -> Graph \cup {None}] /\ read' \in [Requests -> Rows]
    BY <1>3, <1>b DEF ReadEdges, DropsRows
  <2> QED BY <1>3, <2>2, <2>3, <2>4 DEF ReadEdges
<1>4. CASE ReadFails(r)
  <2>1. row' \in [Requests -> Graph \cup {None}] /\ read' \in [Requests -> Rows]
    BY <1>4, <1>b DEF ReadFails, DropsRows
  <2>2. at' \in [Requests -> Phases]
    BY <1>4 DEF ReadFails, Ended
  <2> QED BY <1>4, <2>1, <2>2 DEF ReadFails, Fault
<1>5. CASE MakeView(r)
  <2>1. View(pages[r], scope[r]) \in Graph
    BY ViewTypes
  <2> QED BY <1>5, <2>1 DEF MakeView
<1>6. CASE SaveGraph(r)
  <2>1. IsGraph(got[r], sign[r], scope[r])
    BY <1>6 DEF SaveGraph, Held
  <2>2. got[r] \in Graph
    BY <2>1, ViewTypes DEF IsGraph
  <2>3. got[r].nodes \in Rows /\ got[r].edges \in Rows
    BY <2>2 DEF Graph
  <2>4. snapshots' \in [Key -> Graph \cup {None}]
            /\ nodes' \in [Key -> Rows] /\ edges' \in [Key -> Rows]
    BY <1>k, <1>6, <2>2, <2>3 DEF SaveGraph
  <2>5. at' \in [Requests -> Phases]
    BY <1>6 DEF SaveGraph, Ended
  <2> QED BY <1>6, <2>4, <2>5 DEF SaveGraph
<1>7. CASE SaveFails(r)
  BY <1>7 DEF SaveFails, Fault, Ended
<1> QED BY <1>1, <1>2, <1>3, <1>4, <1>5, <1>6, <1>7 DEF GraphStep

\* So do edits, damage, restarts and a client that empties the store
LEMMA EnvironmentTypes ==
    ASSUME TypeOK,
           \/ \E c \in Contents : Edit(c) \/ DamageRecord(c)
           \/ \E p \in Procs : Restart(p)
           \/ \E k \in Key : DamageRows(k)
           \/ InvalidateGraphs
    PROVE  TypeOK'
<1>b. Bad \in Rows
  BY DEF Rows
<1> USE DEF TypeOK, tables, service, request
<1>1. ASSUME NEW c \in Contents, Edit(c)
      PROVE  TypeOK'
  BY <1>1 DEF Edit
<1>2. ASSUME NEW c \in Contents, DamageRecord(c)
      PROVE  TypeOK'
  BY <1>2 DEF DamageRecord, Fault
<1>3. ASSUME NEW p \in Procs, Restart(p)
      PROVE  TypeOK'
  <2>1. at' \in [Requests -> Phases]
    BY <1>3 DEF Restart, Phases
  <2>2. fallback' \in [Procs -> [Contents -> Contents \cup {None}]]
    BY <1>3 DEF Restart
  <2> QED BY <1>3, <2>1, <2>2 DEF Restart, Fault
<1>4. ASSUME NEW k \in Key, DamageRows(k)
      PROVE  TypeOK'
  BY <1>b, <1>4 DEF DamageRows, Fault
<1>5. CASE InvalidateGraphs
  BY <1>b, <1>5 DEF InvalidateGraphs, Fault
<1> QED BY <1>1, <1>2, <1>3, <1>4, <1>5

\* Every step keeps the types
LEMMA NextTypes == TypeOK /\ Held /\ [Next]_vars => TypeOK'
<1> SUFFICES ASSUME TypeOK, Held, [Next]_vars PROVE TypeOK'
  OBVIOUS
<1>1. CASE UNCHANGED vars
  BY <1>1 DEF vars, TypeOK, tables, service, request
<1>2. CASE Next
  BY <1>2, AskTypes, IndexTypes, GraphTypes, EnvironmentTypes DEF Next
<1> QED BY <1>1, <1>2

-----------------------------------------------------------------------------
(* Indexes *)

\* Nothing that was built is forgotten
LEMMA BuiltGrows ==
    ASSUME TypeOK, [Next]_vars
    PROVE  \A d \in Contents : built[d] \subseteq built'[d]
<1>1. CASE UNCHANGED built
  BY <1>1
<1>2. ASSUME NEW r \in Requests, Load(r)
      PROVE  \A d \in Contents : built[d] \subseteq built'[d]
  BY <1>2 DEF Load, TypeOK
<1> QED
  BY <1>1, <1>2 DEF Next, vars, Ask, IndexStep, GetRecord, GetFails, PutRecord, PutFails, GraphStep,
     ReadSnapshot, ReadNodes, ReadEdges, ReadFails, MakeView, SaveGraph, SaveFails, Edit, Restart,
     DamageRecord, DamageRows, InvalidateGraphs

\* Without a race no step adds an index of a signature that is not of its source
LEMMA OneIndexStays == TypeOK /\ OneIndex /\ [Next]_vars => OneIndex'
<1> SUFFICES ASSUME TypeOK, OneIndex, [Next]_vars PROVE OneIndex'
  OBVIOUS
<1>1. CASE UNCHANGED <<built, raced>>
  BY <1>1 DEF OneIndex
<1>2. ASSUME NEW r \in Requests, Load(r)
      PROVE  OneIndex'
  BY <1>2 DEF Load, TypeOK, OneIndex
<1> QED
  BY <1>1, <1>2 DEF Next, vars, Ask, IndexStep, GetRecord, GetFails, PutRecord, PutFails, GraphStep,
     ReadSnapshot, ReadNodes, ReadEdges, ReadFails, MakeView, SaveGraph, SaveFails, Edit, Restart,
     DamageRecord, DamageRows, InvalidateGraphs

\* A put keeps what was built under the signature
LEMMA RedisStays ==
    ASSUME TypeOK, Kept, Held, [Next]_vars
    PROVE  \A d \in Contents : redis'[d] \in built'[d] \cup {None, Bad}
<1>g. \A d \in Contents : built[d] \subseteq built'[d]
  BY BuiltGrows
<1>1. CASE UNCHANGED redis
  BY <1>g, <1>1 DEF Kept
<1>2. ASSUME NEW r \in Requests, PutRecord(r) \/ PutFails(r)
      PROVE  \A d \in Contents : redis'[d] \in built'[d] \cup {None, Bad}
  <2>1. at[r] = "put" /\ pages[r] \in built[sign[r]] /\ built' = built
    BY <1>2 DEF PutRecord, PutFails, Held, HasIndex
  <2>2. redis' = redis \/ redis' = [redis EXCEPT ![sign[r]] = pages[r]]
    BY <1>2 DEF PutRecord, PutFails
  <2> QED BY <2>1, <2>2 DEF TypeOK, Kept
<1>3. ASSUME NEW c \in Contents, DamageRecord(c)
      PROVE  \A d \in Contents : redis'[d] \in built'[d] \cup {None, Bad}
  BY <1>3 DEF DamageRecord, TypeOK, Kept
<1> QED
  BY <1>1, <1>2, <1>3 DEF Next, vars, Ask, IndexStep, GetRecord, GetFails, Load, GraphStep,
     ReadSnapshot, ReadNodes, ReadEdges, ReadFails, MakeView, SaveGraph, SaveFails, Edit, Restart,
     DamageRows, InvalidateGraphs

\* The copies that a process keeps for itself are of indexes that were built
LEMMA FallbackStays ==
    ASSUME TypeOK, Kept, Held, [Next]_vars
    PROVE  \A p \in Procs, d \in Contents : fallback'[p][d] \in built'[d] \cup {None}
<1>g. \A d \in Contents : built[d] \subseteq built'[d]
  BY BuiltGrows
<1>1. CASE UNCHANGED fallback
  BY <1>g, <1>1 DEF Kept
<1>2. ASSUME NEW r \in Requests, PutRecord(r) \/ PutFails(r)
      PROVE  \A p \in Procs, d \in Contents : fallback'[p][d] \in built'[d] \cup {None}
  <2>1. at[r] = "put" /\ pages[r] \in built[sign[r]] /\ built' = built
    BY <1>2 DEF PutRecord, PutFails, Held, HasIndex
  <2>2. fallback' = [fallback EXCEPT ![procOf[r]][sign[r]] = pages[r]]
    BY <1>2 DEF PutRecord, PutFails
  <2> QED BY <2>1, <2>2 DEF TypeOK, Kept
<1>3. ASSUME NEW q \in Procs, Restart(q)
      PROVE  \A p \in Procs, d \in Contents : fallback'[p][d] \in built'[d] \cup {None}
  BY <1>3 DEF Restart, TypeOK, Kept
<1> QED
  BY <1>1, <1>2, <1>3 DEF Next, vars, Ask, IndexStep, GetRecord, GetFails, Load, GraphStep,
     ReadSnapshot, ReadNodes, ReadEdges, ReadFails, MakeView, SaveGraph, SaveFails, Edit,
     DamageRecord, DamageRows, InvalidateGraphs, service

\* What a get finds was built under the signature it is asked for
LEMMA FoundWasBuilt ==
    ASSUME TypeOK, Kept, NEW r \in Requests
    PROVE  /\ redis[sign[r]] \in Contents => redis[sign[r]] \in built[sign[r]]
           /\ \A p \in Procs :
                fallback[p][sign[r]] \in Contents => fallback[p][sign[r]] \in built[sign[r]]
<1>1. sign[r] \in Contents
  BY DEF TypeOK
<1>2. None \notin Contents /\ Bad \notin Contents
  BY StoresAssumption
<1>3. redis[sign[r]] \in built[sign[r]] \cup {None, Bad}
  BY <1>1 DEF Kept
<1>4. \A p \in Procs : fallback[p][sign[r]] \in built[sign[r]] \cup {None}
  BY <1>1 DEF Kept
<1> QED BY <1>2, <1>3, <1>4

\* A request that leaves the lock has an index that was built under its signature, and publishes it
LEMMA TakesWhatWasBuilt ==
    ASSUME TypeOK, Kept, Held, NEW r \in Requests,
           GetRecord(r) \/ GetFails(r) \/ PutRecord(r) \/ PutFails(r)
    PROVE  \/ /\ UNCHANGED <<published, pages>>
              /\ at' \in {[at EXCEPT ![r] = "load"], [at EXCEPT ![r] = "failed"]}
           \/ \E c \in built[sign[r]] : Publishes(r, c)
<1>1. ASSUME NEW record, TakesOrBuilds(r, record),
             record \in Contents => record \in built[sign[r]]
      PROVE  \/ UNCHANGED <<published, pages>> /\ at' = [at EXCEPT ![r] = "load"]
             \/ \E c \in built[sign[r]] : Publishes(r, c)
  BY <1>1 DEF TakesOrBuilds, Goes
<1>2. CASE GetRecord(r)
  <2>1. procOf[r] \in Procs
    BY DEF TypeOK
  <2>2. CASE available[procOf[r]]
    BY <1>1, <1>2, <2>2, FoundWasBuilt DEF GetRecord
  <2>3. CASE ~available[procOf[r]]
    BY <1>1, <1>2, <2>1, <2>3, FoundWasBuilt DEF GetRecord
  <2> QED BY <2>2, <2>3
<1>3. CASE GetFails(r)
  <2>1. procOf[r] \in Procs
    BY DEF TypeOK
  <2>2. CASE FailFast[procOf[r]]
    BY <1>3, <2>2 DEF GetFails, Goes
  <2>3. CASE ~FailFast[procOf[r]]
    BY <1>1, <1>3, <2>1, <2>3, FoundWasBuilt DEF GetFails
  <2> QED BY <2>2, <2>3
<1>4. CASE PutRecord(r) \/ PutFails(r)
  <2>1. pages[r] \in built[sign[r]]
    BY <1>4 DEF PutRecord, PutFails, Held, HasIndex
  <2>2. \/ Publishes(r, pages[r])
        \/ UNCHANGED <<published, pages>> /\ at' = [at EXCEPT ![r] = "failed"]
    BY <1>4 DEF PutRecord, PutFails, Goes
  <2> QED BY <2>1, <2>2
<1> QED BY <1>2, <1>3, <1>4

\* So is the snapshot of a process
LEMMA PublishedStays ==
    ASSUME TypeOK, Kept, Held, [Next]_vars
    PROVE  \A p \in Procs :
             published'[p] # None => published'[p].pages \in built'[published'[p].digest]
<1>g. \A d \in Contents : built[d] \subseteq built'[d]
  BY BuiltGrows
<1>1. CASE UNCHANGED published
  <2>1. \A p \in Procs : published[p] # None => published[p].digest \in Contents
    BY DEF TypeOK, Snapshot
  <2> QED BY <1>g, <1>1, <2>1 DEF Kept
<1>2. ASSUME NEW r \in Requests, GetRecord(r) \/ GetFails(r) \/ PutRecord(r) \/ PutFails(r)
      PROVE  \A p \in Procs :
               published'[p] # None => published'[p].pages \in built'[published'[p].digest]
  <2>1. built' = built
    BY <1>2 DEF GetRecord, GetFails, PutRecord, PutFails
  <2>2. CASE UNCHANGED published
    BY <2>1, <2>2 DEF Kept
  <2>3. ASSUME NEW c \in built[sign[r]], Publishes(r, c)
        PROVE  \A p \in Procs :
                 published'[p] # None => published'[p].pages \in built'[published'[p].digest]
    BY <2>1, <2>3 DEF Publishes, Kept, TypeOK
  <2> QED BY <1>2, <2>2, <2>3, TakesWhatWasBuilt
<1>3. ASSUME NEW q \in Procs, Restart(q)
      PROVE  \A p \in Procs :
               published'[p] # None => published'[p].pages \in built'[published'[p].digest]
  BY <1>3 DEF Restart, TypeOK, Kept
<1> QED
  BY <1>1, <1>2, <1>3 DEF Next, vars, Ask, IndexStep, Load, GraphStep, ReadSnapshot, ReadNodes,
     ReadEdges, ReadFails, MakeView, SaveGraph, SaveFails, Edit, DamageRecord, DamageRows,
     InvalidateGraphs, service

-----------------------------------------------------------------------------
(* Graphs *)

\* A graph that is of an index built under a signature stays one
LEMMA GraphsAreKept ==
    ASSUME TypeOK, [Next]_vars, NEW g, NEW d \in Contents, NEW s \in Scopes,
           \E c \in built[d] : g = View(c, s)
    PROVE  \E c \in built'[d] : g = View(c, s)
BY BuiltGrows

\* What both graph stores hold is of an index built under its signature
LEMMA KeptGraphsStay == TypeOK /\ Held /\ KeptGraphs /\ [Next]_vars => KeptGraphs'
<1> SUFFICES ASSUME TypeOK, Held, KeptGraphs, [Next]_vars,
                    NEW d \in Contents, NEW s \in Scopes, snapshots'[<<d, s>>] # None
             PROVE  \E c \in built'[d] : snapshots'[<<d, s>>] = View(c, s)
  BY DEF KeptGraphs, IsGraph
<1>1. CASE UNCHANGED snapshots
  <2>1. \E c \in built[d] : snapshots[<<d, s>>] = View(c, s)
    BY <1>1 DEF KeptGraphs, IsGraph
  <2> QED BY <1>1, <2>1, GraphsAreKept
<1>2. ASSUME NEW r \in Requests, SaveGraph(r)
      PROVE  \E c \in built'[d] : snapshots'[<<d, s>>] = View(c, s)
  <2>1. built' = built /\ snapshots' = [snapshots EXCEPT ![KeyOf(r)] = got[r]]
    BY <1>2 DEF SaveGraph
  <2>2. \E c \in built[sign[r]] : got[r] = View(c, scope[r])
    BY <1>2 DEF SaveGraph, Held, IsGraph
  <2>3. <<d, s>> \in Key
    BY DEF Key
  <2>4. CASE <<d, s>> = KeyOf(r)
    <3>1. d = sign[r] /\ s = scope[r]
      BY <2>4 DEF KeyOf
    <3> QED BY <2>1, <2>2, <2>3, <2>4, <3>1 DEF TypeOK
  <2>5. CASE <<d, s>> # KeyOf(r)
    BY <2>1, <2>3, <2>5 DEF TypeOK, KeptGraphs, IsGraph
  <2> QED BY <2>4, <2>5
<1>3. CASE InvalidateGraphs
  BY <1>3 DEF InvalidateGraphs, Key
<1> QED
  BY <1>1, <1>2, <1>3 DEF Next, vars, Ask, IndexStep, GetRecord, GetFails, Load, PutRecord,
     PutFails, GraphStep, ReadSnapshot, ReadNodes, ReadEdges, ReadFails, MakeView, SaveFails,
     Edit, Restart, DamageRecord, DamageRows, tables

HeldBy(q) ==
    /\ at[q] \in HasIndex => pages[q] \in built[sign[q]]
    /\ at[q] \in {"nodes", "edges"} => row[q] # None /\ IsGraph(row[q], sign[q], scope[q])
    /\ at[q] \in {"save", "served"} => IsGraph(got[q], sign[q], scope[q])

\* A step leaves alone what the other requests hold
LEMMA OthersHold ==
    ASSUME TypeOK, Held, [Next]_vars, NEW q \in Requests,
           at'[q] = at[q] \/ at'[q] = "idle",
           pages'[q] = pages[q], sign'[q] = sign[q], scope'[q] = scope[q],
           row'[q] = row[q], got'[q] = got[q]
    PROVE  HeldBy(q)'
<1>1. sign[q] \in Contents /\ scope[q] \in Scopes
  BY DEF TypeOK
<1>2. CASE at'[q] = "idle"
  BY <1>2 DEF HeldBy, HasIndex
<1>3. CASE at'[q] = at[q]
  <2>1. at[q] \in HasIndex => pages[q] \in built'[sign[q]]
    BY <1>1, BuiltGrows DEF Held
  <2>2. at[q] \in {"nodes", "edges"} =>
          row[q] # None /\ \E c \in built'[sign[q]] : row[q] = View(c, scope[q])
    BY <1>1, GraphsAreKept DEF Held, IsGraph
  <2>3. at[q] \in {"save", "served"} => \E c \in built'[sign[q]] : got[q] = View(c, scope[q])
    BY <1>1, GraphsAreKept DEF Held, IsGraph
  <2> QED BY <1>3, <2>1, <2>2, <2>3 DEF HeldBy, IsGraph
<1> QED BY <1>2, <1>3

\* A request that publishes, or is served from what is published, holds an index of its signature
LEMMA AskHolds ==
    ASSUME TypeOK, Kept, NEW r \in Requests, NEW refresh \in BOOLEAN, NEW touched \in BOOLEAN,
           NEW drafts \in BOOLEAN,
           Ask(r, refresh, touched, drafts)
    PROVE  HeldBy(r)'
<1>1. built' = built /\ sign'[r] = source
  BY DEF Ask, TypeOK
<1>2. CASE at'[r] = "snapshot"
  <2>1. LET p == procOf[r] IN
          published[p] # None /\ published[p].digest = source /\ pages'[r] = published[p].pages
    BY <1>2 DEF Ask, Goes, TypeOK
  <2>2. pages'[r] \in built'[sign'[r]]
    BY <1>1, <2>1 DEF Kept, TypeOK
  <2> QED BY <1>2, <2>2 DEF HeldBy
<1>3. CASE at'[r] \in {"get", "load"}
  BY <1>3 DEF HeldBy, HasIndex
<1>4. at'[r] \in {"snapshot", "get", "load"}
  BY DEF Ask, Goes, TypeOK
<1> QED BY <1>2, <1>3, <1>4

\* A step of ensure_index leaves its request with an index of its signature
LEMMA IndexHolds ==
    ASSUME TypeOK, Kept, Held, NEW r \in Requests, IndexStep(r)
    PROVE  HeldBy(r)'
<1>1. CASE Load(r)
  BY <1>1 DEF Load, Goes, TypeOK, HeldBy
<1>2. CASE GetRecord(r) \/ GetFails(r) \/ PutRecord(r) \/ PutFails(r)
  <2>1. built' = built /\ sign' = sign
    BY <1>2 DEF GetRecord, GetFails, PutRecord, PutFails
  <2>2. CASE at' \in {[at EXCEPT ![r] = "load"], [at EXCEPT ![r] = "failed"]}
    <3>1. at'[r] \in {"load", "failed"}
      BY <2>2 DEF TypeOK
    <3> QED BY <3>1 DEF HeldBy, HasIndex
  <2>3. ASSUME NEW c \in built[sign[r]], Publishes(r, c)
        PROVE  HeldBy(r)'
    <3>1. at'[r] = "snapshot" /\ pages'[r] = c
      BY <2>3 DEF Publishes, Goes, TypeOK
    <3> QED BY <2>1, <3>1 DEF HeldBy
  <2> QED BY <1>2, <2>2, <2>3, TakesWhatWasBuilt
<1> QED BY <1>1, <1>2 DEF IndexStep

\* The answer is compared with the row of the snapshot, which is of one index
LEMMA GraphHolds ==
    ASSUME TypeOK, KeptGraphs, Held, NEW r \in Requests, GraphStep(r)
    PROVE  HeldBy(r)'
<1>1. built' = built /\ sign' = sign /\ scope' = scope /\ pages' = pages
  BY DEF GraphStep, ReadSnapshot, ReadNodes, ReadEdges, ReadFails, MakeView, SaveGraph, SaveFails
<1>2. HeldBy(r) /\ sign[r] \in Contents /\ scope[r] \in Scopes
  BY DEF Held, HeldBy, TypeOK
<1>3. at[r] \in HasIndex
  BY DEF GraphStep, ReadSnapshot, ReadNodes, ReadEdges, ReadFails, MakeView, SaveGraph, SaveFails,
     HasIndex
<1>4. pages'[r] \in built'[sign'[r]]
  BY <1>1, <1>2, <1>3 DEF HeldBy
<1>5. CASE ReadSnapshot(r)
  <2>1. row'[r] = snapshots[KeyOf(r)]
    BY <1>5 DEF ReadSnapshot, TypeOK
  <2>2. at'[r] = IF snapshots[KeyOf(r)] = None THEN "view" ELSE "nodes"
    BY <1>5 DEF ReadSnapshot, Goes, TypeOK
  <2>3. row'[r] # None => IsGraph(row'[r], sign[r], scope[r])
    BY <1>2, <2>1 DEF KeptGraphs, KeyOf
  <2> QED BY <1>1, <1>4, <2>1, <2>2, <2>3 DEF HeldBy, IsGraph
<1>6. CASE ReadNodes(r)
  BY <1>1, <1>2, <1>4, <1>6 DEF ReadNodes, Goes, TypeOK, HeldBy, IsGraph
<1>7. CASE ReadEdges(r)
  <2>1. IsGraph(row[r], sign[r], scope[r])
    BY <1>2, <1>7 DEF ReadEdges, HeldBy
  <2>2. \/ at'[r] = "served" /\ got'[r] = row[r]
        \/ at'[r] = "view"
    BY <1>7 DEF ReadEdges, Goes, TypeOK
  <2> QED BY <1>1, <1>4, <2>1, <2>2 DEF HeldBy, IsGraph
<1>8. CASE ReadFails(r)
  <2>1. at'[r] \in {"failed", "view"}
    BY <1>8 DEF ReadFails, Goes, TypeOK
  <2> QED BY <1>4, <2>1 DEF HeldBy
<1>9. CASE MakeView(r)
  <2>1. at'[r] = "save" /\ got'[r] = View(pages[r], scope[r])
    BY <1>9 DEF MakeView, Goes, TypeOK
  <2>2. IsGraph(got[r], sign[r], scope[r])'
    BY <1>1, <1>4, <2>1 DEF IsGraph, View
  <2> QED BY <1>4, <2>1, <2>2 DEF HeldBy
<1>10. CASE SaveGraph(r) \/ SaveFails(r)
  <2>1. at[r] = "save" /\ at'[r] \in {"served", "failed"} /\ got' = got
    BY <1>10 DEF SaveGraph, SaveFails, Goes, TypeOK
  <2> QED BY <1>1, <1>2, <1>4, <2>1 DEF HeldBy, IsGraph
<1> QED BY <1>5, <1>6, <1>7, <1>8, <1>9, <1>10 DEF GraphStep

\* Whatever a request holds is of its signature, at every step
LEMMA HeldStays == TypeOK /\ Kept /\ KeptGraphs /\ Held /\ [Next]_vars => Held'
<1> SUFFICES ASSUME TypeOK, Kept, KeptGraphs, Held, [Next]_vars, NEW q \in Requests
             PROVE  HeldBy(q)'
  BY DEF Held, HeldBy
<1>1. CASE UNCHANGED request
  BY <1>1, OthersHold DEF request
<1>2. ASSUME NEW r \in Requests, NEW refresh \in BOOLEAN, NEW touched \in BOOLEAN,
             NEW drafts \in BOOLEAN,
             Ask(r, refresh, touched, drafts)
      PROVE  HeldBy(q)'
  <2>1. CASE q = r
    BY <1>2, <2>1, AskHolds
  <2>2. CASE q # r
    <3>1. at'[q] = at[q] /\ pages'[q] = pages[q] /\ sign'[q] = sign[q] /\ scope'[q] = scope[q]
              /\ row'[q] = row[q] /\ got'[q] = got[q]
      BY <1>2, <2>2 DEF Ask, Goes, TypeOK
    <3> QED BY <3>1, OthersHold
  <2> QED BY <2>1, <2>2
<1>3. ASSUME NEW r \in Requests, IndexStep(r)
      PROVE  HeldBy(q)'
  <2>1. CASE q = r
    BY <1>3, <2>1, IndexHolds
  <2>2. CASE q # r
    <3>1. at'[q] = at[q] /\ pages'[q] = pages[q]
      BY <1>3, <2>2 DEF IndexStep, GetRecord, GetFails, Load, PutRecord, PutFails, TakesOrBuilds,
         Publishes, Goes, TypeOK
    <3>2. UNCHANGED <<sign, scope, row, got>>
      BY <1>3 DEF IndexStep, GetRecord, GetFails, Load, PutRecord, PutFails
    <3> QED BY <3>1, <3>2, OthersHold
  <2> QED BY <2>1, <2>2
<1>4. ASSUME NEW r \in Requests, GraphStep(r)
      PROVE  HeldBy(q)'
  <2>1. CASE q = r
    BY <1>4, <2>1, GraphHolds
  <2>2. CASE q # r
    <3>1. at'[q] = at[q] /\ row'[q] = row[q] /\ got'[q] = got[q]
      BY <1>4, <2>2 DEF GraphStep, ReadSnapshot, ReadNodes, ReadEdges, ReadFails, MakeView,
         SaveGraph, SaveFails, DropsRows, Goes, TypeOK
    <3>2. UNCHANGED <<sign, scope, pages>>
      BY <1>4 DEF GraphStep, ReadSnapshot, ReadNodes, ReadEdges, ReadFails, MakeView, SaveGraph,
         SaveFails
    <3> QED BY <3>1, <3>2, OthersHold
  <2> QED BY <2>1, <2>2
<1>5. ASSUME NEW p \in Procs, Restart(p)
      PROVE  HeldBy(q)'
  <2>1. at'[q] = at[q] \/ at'[q] = "idle"
    BY <1>5 DEF Restart
  <2>2. UNCHANGED <<sign, scope, pages, row, got>>
    BY <1>5 DEF Restart
  <2> QED BY <2>1, <2>2, OthersHold
<1> QED
  BY <1>1, <1>2, <1>3, <1>4, <1>5
  DEF Next, vars, Edit, DamageRecord, DamageRows, InvalidateGraphs

-----------------------------------------------------------------------------
(* Theorems *)

\* The invariant holds of the empty stores
LEMMA InitHolds == Init => DInv
<1> SUFFICES ASSUME Init PROVE DInv
  OBVIOUS
<1>1. Kept /\ KeptGraphs /\ OneIndex
  BY DEF Init, Kept, KeptGraphs, OneIndex, Key
<1>2. Held
  BY DEF Init, Held, HasIndex
<1> QED BY <1>1, <1>2, InitTypes DEF DInv

\* The invariant holds throughout
LEMMA DInvHolds == Spec => []DInv
<1>1. DInv /\ [Next]_vars => DInv'
  <2> SUFFICES ASSUME DInv, [Next]_vars PROVE DInv'
    OBVIOUS
  <2>1. Kept'
    BY RedisStays, FallbackStays, PublishedStays DEF DInv, Kept
  <2> QED BY <2>1, NextTypes, KeptGraphsStay, HeldStays, OneIndexStays DEF DInv
<1> QED BY <1>1, InitHolds, PTL DEF Spec

\* The stores, processes and requests keep their types.
THEOREM StoreTypes == Spec => []TypeOK
<1>1. DInv => TypeOK
  BY DEF DInv
<1> QED BY <1>1, DInvHolds, PTL

\* For any number of processes and requests: what the three queries of get find is answered only
\* as the whole graph of one index that was built under the signature, in the scope, of the
\* request, however writers replace the rows between the queries.
THEOREM GraphsAreWhole == Spec => []GraphIsWhole
<1>1. DInv => GraphIsWhole
  BY DEF DInv, Held, IsGraph, GraphIsWhole
<1> QED BY <1>1, DInvHolds, PTL

\* For any failure policies: until a build is raced by a change of the source, a request answers
\* with the graph of the source whose signature it read, as it would without the stores.
THEOREM StoresMakeNoDifference == Spec => []AsWithoutStoresUnlessRaced
<1>1. DInv => AsWithoutStoresUnlessRaced
  <2> SUFFICES ASSUME DInv, ~raced, NEW r \in Requests, at[r] = "served"
               PROVE  got[r] = View(sign[r], scope[r])
    BY DEF AsWithoutStoresUnlessRaced
  <2>1. PICK c \in built[sign[r]] : got[r] = View(c, scope[r])
    BY DEF DInv, Held, IsGraph
  <2>2. c = sign[r]
    BY <2>1 DEF DInv, OneIndex, TypeOK
  <2> QED BY <2>1, <2>2
<1> QED BY <1>1, DInvHolds, PTL

-----------------------------------------------------------------------------
(* What a search answers with (Retrieval) *)

\* A set of numbers has a least one.
LEMMA LeastOf ==
    ASSUME NEW S \in SUBSET Nat, S # {}
    PROVE  \E n \in S : \A m \in S : n <= m
<1> DEFINE R == {ss \in Nat \X Nat : ss[1] < ss[2]}
<1>1. IsWellFoundedOn(R, Nat)
  BY NatLessThanWellFounded DEF OpToRel
<1>2. PICK n \in S : \A m \in S : <<m, n>> \notin R
  BY <1>1, WFMin
<1>3. ASSUME NEW m \in S PROVE n <= m
  <2>1. <<m, n>> \notin R /\ m \in Nat /\ n \in Nat
    BY <1>2
  <2>2. ~(m < n)
    BY <2>1
  <2>3. QED
    BY <2>1, <2>2
<1>4. QED
  BY <1>3

\* What holds of 0 and is passed on to the next number holds of every number.
LEMMA Naturals ==
    ASSUME NEW S \in SUBSET Nat, 0 \in S, \A n \in S : n + 1 \in S
    PROVE S = Nat
<1>1. SUFFICES ASSUME Nat \ S # {} PROVE FALSE
  OBVIOUS
<1>2. PICK n \in Nat \ S : \A m \in Nat \ S : n <= m
  BY <1>1, LeastOf
<1>3. n # 0 /\ n - 1 \in Nat
  BY <1>2
<1>4. n - 1 \in S
  BY <1>2, <1>3
<1>5. n - 1 + 1 \in S
  BY <1>4
<1>6. QED
  BY <1>2, <1>5

Iterations(X, a, step) ==
    {f \in [Nat -> X] : f[0] = a /\ \A n \in Nat : f[n + 1] = step[f[n]]}

\* A step and a start give a sequence of values.
LEMMA Iterates ==
    ASSUME NEW X, NEW a \in X, NEW step \in [X -> X]
    PROVE Iterations(X, a, step) # {}
<1> SUFFICES \E f \in [Nat -> X] : f[0] = a /\ \A n \in Nat : f[n + 1] = step[f[n]]
  BY DEF Iterations
<1> DEFINE Is(g, n) == g \in [0..n -> X] /\ g[0] = a /\ \A i \in Nat : i < n => g[i + 1] = step[g[i]]
           Has == {n \in Nat : \E g \in [0..n -> X] : Is(g, n)}
<1>1. 0 \in Has
  <2>1. Is([i \in 0..0 |-> a], 0)
    OBVIOUS
  <2>2. QED
    BY <2>1
<1>2. ASSUME NEW n \in Has PROVE n + 1 \in Has
  <2>1. PICK g \in [0..n -> X] : Is(g, n)
    OBVIOUS
  <2> DEFINE h == [i \in 0..(n + 1) |-> IF i = n + 1 THEN step[g[n]] ELSE g[i]]
  <2>2. h \in [0..(n + 1) -> X]
    BY <2>1
  <2>3. \A i \in 0..n : h[i + 1] = step[h[i]]
    BY <2>1
  <2>4. h[0] = a
    BY <2>1
  <2>5. Is(h, n + 1)
    <3>1. \A i \in Nat : i < n + 1 => i \in 0..n
      OBVIOUS
    <3>2. QED
      BY <2>2, <2>3, <2>4, <3>1
  <2>6. n + 1 \in Nat
    OBVIOUS
  <2>7. QED
    BY <2>2, <2>5, <2>6, Zenon
<1>3. Has = Nat
  BY <1>1, <1>2, Naturals
<1> DEFINE upTo == [n \in Nat |-> CHOOSE g \in [0..n -> X] : Is(g, n)]
           f == [n \in Nat |-> upTo[n][n]]
<1>4. ASSUME NEW n \in Nat PROVE Is(upTo[n], n)
  <2>1. \E g \in [0..n -> X] : Is(g, n)
    BY <1>3
  <2>2. QED
    BY <2>1, Zenon
<1> HIDE DEF upTo, Has
<1>5. ASSUME NEW n \in Nat PROVE upTo[n + 1][n] = upTo[n][n]
  <2> DEFINE same == {i \in Nat : i <= n => upTo[n + 1][i] = upTo[n][i]}
  <2>1. 0 \in same
    BY <1>4
  <2>2. ASSUME NEW i \in same PROVE i + 1 \in same
    <3>1. SUFFICES ASSUME i + 1 <= n PROVE upTo[n + 1][i + 1] = upTo[n][i + 1]
      OBVIOUS
    <3>2. i < n /\ i < n + 1 /\ upTo[n + 1][i] = upTo[n][i]
      BY <3>1
    <3>3. Is(upTo[n], n) /\ Is(upTo[n + 1], n + 1)
      BY <1>4
    <3>4. QED
      BY <3>2, <3>3
  <2>3. same = Nat
    BY <2>1, <2>2, Naturals
  <2>4. QED
    BY <2>3
<1>6. f \in [Nat -> X] /\ f[0] = a
  BY <1>4
<1>7. ASSUME NEW n \in Nat PROVE f[n + 1] = step[f[n]]
  <2>1. Is(upTo[n + 1], n + 1) /\ n < n + 1
    BY <1>4
  <2>2. upTo[n + 1][n + 1] = step[upTo[n + 1][n]]
    BY <2>1
  <2>3. QED
    BY <2>2, <1>5
<1>8. QED
  BY <1>6, <1>7

-----------------------------------------------------------------------------
(* Ranked lists *)

\* The order of the keys is a strict total order.
LEMMA LessIsTotal ==
    ASSUME NEW k \in Nat, NEW a \in [1..k -> Int], NEW b \in [1..k -> Int]
    PROVE /\ ~Less(a, a)
          /\ a # b => Less(a, b) \/ Less(b, a)
          /\ \A c \in [1..k -> Int] : Less(a, b) /\ Less(b, c) => Less(a, c)
<1>1. ~Less(a, a)
  BY DEF Less
<1>2. ASSUME a # b PROVE Less(a, b) \/ Less(b, a)
  <2> DEFINE differ == {i \in 1..k : a[i] # b[i]}
  <2>1. differ # {} /\ differ \subseteq Nat
    BY <1>2
  <2>2. PICK i \in differ : \A j \in differ : i <= j
    BY <2>1, LeastOf
  <2>3. \A j \in 1..(i - 1) : a[j] = b[j]
    BY <2>2
  <2>4. QED
    BY <2>2, <2>3 DEF Less
<1>3. ASSUME NEW c \in [1..k -> Int], Less(a, b), Less(b, c) PROVE Less(a, c)
  <2>1. PICK i \in 1..k : a[i] < b[i] /\ \A j \in 1..(i - 1) : a[j] = b[j]
    BY <1>3 DEF Less
  <2>2. PICK j \in 1..k : b[j] < c[j] /\ \A l \in 1..(j - 1) : b[l] = c[l]
    BY <1>3 DEF Less
  <2>3. CASE i <= j
    <3>1. \A l \in 1..(i - 1) : l \in 1..(j - 1) /\ a[l] = b[l] /\ b[l] = c[l]
      BY <2>1, <2>2, <2>3
    <3>2. i = j \/ (i \in 1..(j - 1) /\ b[i] = c[i])
      BY <2>2, <2>3
    <3>3. a[i] < c[i]
      BY <2>1, <2>2, <3>2
    <3>4. \A l \in 1..(i - 1) : a[l] = c[l]
      BY <3>1
    <3>5. QED
      BY <3>3, <3>4 DEF Less
  <2>4. CASE j < i
    <3>1. j \in 1..(i - 1) /\ \A l \in 1..(j - 1) : l \in 1..(i - 1)
      BY <2>1, <2>2, <2>4
    <3>2. a[j] = b[j] /\ \A l \in 1..(j - 1) : a[l] = b[l] /\ b[l] = c[l]
      BY <2>1, <2>2, <3>1
    <3>3. a[j] < c[j] /\ \A l \in 1..(j - 1) : a[l] = c[l]
      BY <2>2, <3>2
    <3>4. QED
      BY <3>3 DEF Less
  <2>5. QED
    BY <2>3, <2>4
<1>4. QED
  BY <1>1, <1>2, <1>3

\* A list: its pages have the ranks from 1 to its length, each one once
Ranking(r) ==
    /\ IsFiniteSet(DOMAIN r)
    /\ r \in [DOMAIN r -> 1..Cardinality(DOMAIN r)]
    /\ \A p, q \in DOMAIN r : r[p] = r[q] => p = q

\* Keys of one length, another one for each page
KeysOf(S, key) ==
    /\ \E k \in Nat : \A p \in S : key[p] \in [1..k -> Int]
    /\ \A p, q \in S : key[p] = key[q] => p = q

\* Ranking by keys makes a list in the order of the keys.
LEMMA RankedIs ==
    ASSUME NEW S, IsFiniteSet(S), NEW key, KeysOf(S, key)
    PROVE /\ DOMAIN Ranked(S, key) = S
          /\ Ranking(Ranked(S, key))
          /\ \A p, q \in S : Ranked(S, key)[p] < Ranked(S, key)[q] <=> Less(key[p], key[q])
<1> DEFINE below(p) == {q \in S : Less(key[q], key[p])}
           r == Ranked(S, key)
<1>1. PICK k \in Nat : \A p \in S : key[p] \in [1..k -> Int]
  BY DEF KeysOf
<1>2. r = [p \in S |-> 1 + Cardinality(below(p))]
  BY DEF Ranked
<1> HIDE DEF r
<1>3. Cardinality(S) \in Nat
  BY FS_CardinalityType
<1>4. ASSUME NEW p \in S
      PROVE /\ IsFiniteSet(below(p)) /\ Cardinality(below(p)) \in Nat
            /\ Cardinality(below(p)) < Cardinality(S)
  <2>1. below(p) \in SUBSET S /\ p \notin below(p)
    BY <1>1, LessIsTotal
  <2>2. IsFiniteSet(below(p)) /\ Cardinality(below(p)) \in Nat
    BY <2>1, FS_Subset, FS_CardinalityType
  <2>3. Cardinality(below(p)) <= Cardinality(S) /\ Cardinality(below(p)) # Cardinality(S)
    BY <2>1, FS_Subset
  <2>4. QED
    BY <1>3, <2>2, <2>3
<1> HIDE DEF below
<1>5. ASSUME NEW p \in S, NEW q \in S, Less(key[p], key[q]) PROVE r[p] < r[q]
  <2>0. \A x, y \in S : x \in below(y) <=> Less(key[x], key[y])
    BY DEF below
  <2>1. below(p) \in SUBSET below(q)
    BY <1>1, <1>5, <2>0, LessIsTotal DEF below
  <2>2. p \in below(q) /\ p \notin below(p)
    BY <1>1, <1>5, <2>0, LessIsTotal
  <2>3. /\ Cardinality(below(p)) <= Cardinality(below(q))
        /\ Cardinality(below(p)) # Cardinality(below(q))
    BY <1>4, <2>1, <2>2, FS_Subset
  <2>4. QED
    BY <1>2, <1>4, <2>3
<1>6. \A p \in S : r[p] \in 1..Cardinality(S)
  BY <1>2, <1>3, <1>4
<1>7. \A p, q \in S : p # q => Less(key[p], key[q]) \/ Less(key[q], key[p])
  BY <1>1, LessIsTotal DEF KeysOf
<1>8. \A p, q \in S : r[p] = r[q] => p = q
  BY <1>5, <1>6, <1>7
<1>9. \A p, q \in S : r[p] < r[q] => Less(key[p], key[q])
  BY <1>5, <1>6, <1>7
<1>10. DOMAIN r = S
  BY <1>2
<1>11. Ranking(r)
  BY <1>2, <1>6, <1>8, <1>10 DEF Ranking
<1>12. QED
  BY <1>5, <1>9, <1>10, <1>11 DEF r

\* There are n numbers from 1 to n.
LEMMA UpToN ==
    ASSUME NEW n \in Nat
    PROVE IsFiniteSet(1..n) /\ Cardinality(1..n) = n
<1>1. 1 \in Int /\ n \in Int
  OBVIOUS
<1>2. /\ IsFiniteSet(1..n)
      /\ Cardinality(1..n) = IF 1 > n THEN 0 ELSE n - 1 + 1
  BY <1>1, FS_Interval, Zenon
<1>3. QED
  BY <1>2

\* Every rank of a list is that of a page.
LEMMA RanksAreTaken ==
    ASSUME NEW r, Ranking(r)
    PROVE /\ Cardinality(DOMAIN r) \in Nat
          /\ \A i \in 1..Cardinality(DOMAIN r) : \E p \in DOMAIN r : r[p] = i
<1> DEFINE n == Cardinality(DOMAIN r)
<1>1. n \in Nat /\ IsFiniteSet(1..n) /\ Cardinality(1..n) = n
  BY FS_CardinalityType, UpToN DEF Ranking
<1>2. r \in Injection(DOMAIN r, 1..n)
  BY Zenon DEF Ranking, Injection, IsInjective
<1>3. r \in Surjection(DOMAIN r, 1..n)
  BY <1>1, <1>2, FS_Injection
<1>4. QED
  BY <1>1, <1>3, Zenon DEF Surjection

\* The top of a list is a list: of its first n pages, or of all when it has fewer.
LEMMA TopIs ==
    ASSUME NEW r, Ranking(r), NEW n \in Nat
    PROVE /\ Ranking(Top(r, n))
          /\ DOMAIN Top(r, n) = {p \in DOMAIN r : r[p] <= n}
          /\ \A p \in DOMAIN Top(r, n) : Top(r, n)[p] = r[p]
          /\ Cardinality(DOMAIN Top(r, n)) =
                IF n <= Cardinality(DOMAIN r) THEN n ELSE Cardinality(DOMAIN r)
          /\ Cardinality(DOMAIN r) <= n => DOMAIN Top(r, n) = DOMAIN r
<1> DEFINE t == Top(r, n)
           D == {p \in DOMAIN r : r[p] <= n}
           size == Cardinality(DOMAIN r)
           m == IF n <= size THEN n ELSE size
<1>1. t = [p \in D |-> r[p]] /\ DOMAIN t = D
  BY DEF Top
<1>2. size \in Nat /\ \A i \in 1..size : \E p \in DOMAIN r : r[p] = i
  BY RanksAreTaken
<1>3. m \in Nat /\ IsFiniteSet(1..m) /\ Cardinality(1..m) = m
  BY <1>2, UpToN
<1>4. \A p \in DOMAIN r : r[p] \in 1..size
  BY DEF Ranking
<1>5. \A p \in D : t[p] \in 1..m
  BY <1>1, <1>2, <1>4
<1>6. \A p, q \in D : t[p] = t[q] => p = q
  BY <1>1 DEF Ranking
<1>7. \A i \in 1..m : \E p \in D : t[p] = i
  <2>1. ASSUME NEW i \in 1..m PROVE \E p \in D : t[p] = i
    <3>1. i \in 1..size /\ i <= n
      BY <1>2
    <3>2. PICK p \in DOMAIN r : r[p] = i
      BY <1>2, <3>1
    <3>3. QED
      BY <1>1, <3>1, <3>2
  <2>2. QED
    BY <2>1
<1> HIDE DEF t, m
<1>8. t \in [D -> 1..m]
  BY <1>1, <1>5
<1>9. t \in Injection(D, 1..m) /\ t \in Surjection(D, 1..m)
  BY <1>6, <1>7, <1>8, Zenon DEF Injection, Surjection, IsInjective
<1>10. IsFiniteSet(D) /\ Cardinality(D) = m
  BY <1>3, <1>9, FS_Injection
<1>11. Ranking(t)
  BY <1>1, <1>6, <1>8, <1>10 DEF Ranking
<1>12. size <= n => D = DOMAIN r
  BY <1>2, <1>4
<1>13. QED
  BY <1>1, <1>10, <1>11, <1>12 DEF t, m

\* What comes before a page of the top is in the top, and before it there.
LEMMA TopKeeps ==
    ASSUME NEW r, Ranking(r), NEW n \in Nat, NEW q \in DOMAIN Top(r, n), NEW p \in DOMAIN r,
           r[p] < r[q]
    PROVE q \in DOMAIN r /\ p \in DOMAIN Top(r, n) /\ Top(r, n)[p] < Top(r, n)[q]
<1>1. r[p] \in 1..Cardinality(DOMAIN r) /\ q \in DOMAIN r /\ r[q] \in 1..Cardinality(DOMAIN r)
  <2>1. q \in DOMAIN r
    BY TopIs
  <2>2. r \in [DOMAIN r -> 1..Cardinality(DOMAIN r)]
    BY DEF Ranking
  <2>3. QED
    BY <2>1, <2>2
<1>2. Cardinality(DOMAIN r) \in Nat
  BY RanksAreTaken
<1>3. DOMAIN Top(r, n) = {x \in DOMAIN r : r[x] <= n}
  BY TopIs
<1>4. r[q] <= n
  BY <1>3
<1>5. r[p] <= n
  BY <1>1, <1>2, <1>4
<1>6. p \in DOMAIN Top(r, n)
  BY <1>3, <1>5
<1>7. QED
  BY <1>1, <1>6, TopIs

\* A list among the pages of S is a list of the pages of both, in the same order.
LEMMA AmongIs ==
    ASSUME NEW r, Ranking(r), NEW S
    PROVE /\ Ranking(Among(r, S))
          /\ DOMAIN Among(r, S) = DOMAIN r \cap S
          /\ \A p, q \in DOMAIN r \cap S : Among(r, S)[p] < Among(r, S)[q] <=> r[p] < r[q]
<1> DEFINE key == [p \in DOMAIN r |-> <<r[p]>>]
           D == DOMAIN r \cap S
<1>1. IsFiniteSet(D)
  BY FS_Subset DEF Ranking
<1>2. \A p \in D : r[p] \in Int
  BY RanksAreTaken DEF Ranking
<1>3. \A p \in D : key[p] \in [1..1 -> Int] /\ key[p][1] = r[p] /\ DOMAIN key[p] = 1..1
  BY <1>2
<1>4. \A p, q \in D : key[p] = key[q] => p = q
  BY <1>3 DEF Ranking
<1>5. KeysOf(D, key)
  BY <1>3, <1>4 DEF KeysOf
<1>6. \A p, q \in D : Less(key[p], key[q]) <=> r[p] < r[q]
  BY <1>3 DEF Less
<1>7. Among(r, S) = Ranked(D, key)
  BY DEF Among
<1> HIDE DEF key, D
<1>8. QED
  BY <1>1, <1>5, <1>6, <1>7, RankedIs DEF D

-----------------------------------------------------------------------------
(* Bands of scores *)

\* A set of numbers up to m has a greatest one.
LEMMA GreatestOf ==
    ASSUME NEW m \in Nat, NEW S \in SUBSET (0..m), S # {}
    PROVE  \E n \in S : \A l \in S : l <= n
<1> DEFINE R == {i \in 0..m : m - i \in S}
<1>1. R \subseteq Nat
  OBVIOUS
<1>2. R # {}
  <2>1. PICK n \in S : TRUE
    OBVIOUS
  <2>2. m - n \in R
    <3>1. n \in 0..m
      BY <2>1
    <3>2. m - n \in 0..m /\ m - (m - n) = n
      BY <3>1
    <3>3. QED
      BY <2>1, <3>2
  <2>3. QED
    BY <2>2
<1>3. PICK i \in R : \A j \in R : i <= j
  BY <1>1, <1>2, LeastOf
<1>4. ASSUME NEW l \in S PROVE l <= m - i
  <2>1. l \in 0..m /\ m - l \in 0..m /\ m - (m - l) = l
    OBVIOUS
  <2>2. m - l \in R
    BY <2>1
  <2>3. i <= m - l /\ i \in 0..m
    BY <1>3, <2>2
  <2>4. QED
    BY <2>1, <2>3
<1>5. QED
  BY <1>3, <1>4

\* The least of numbers
LEMMA MinIs ==
    ASSUME NEW S \in SUBSET Nat, S # {}
    PROVE  Min(S) \in S /\ \A m \in S : Min(S) <= m
  BY LeastOf DEF Min

\* The lesser of two numbers
LEMMA MinOfTwo ==
    ASSUME NEW a \in Nat, NEW b \in Nat
    PROVE Min({a, b}) = IF a <= b THEN a ELSE b
<1>1. {a, b} \in SUBSET Nat /\ {a, b} # {}
  OBVIOUS
<1>2. Min({a, b}) \in {a, b} /\ Min({a, b}) <= a /\ Min({a, b}) <= b
  BY <1>1, MinIs
<1>3. QED
  BY <1>2

\* The bands of the scores of T, as BandTop cuts them off
Above(T, s) == {t \in T : t > s}
Bands(T, top) ==
    [s \in T |-> IF \A t \in T : t <= s THEN s
                 ELSE IF top[Min(Above(T, s))] - s <= TieBand THEN top[Min(Above(T, s))] ELSE s]

\* Scores that are not the greatest have a next one, with one score less above it.
LEMMA NextAbove ==
    ASSUME NEW m \in Nat, NEW T \in SUBSET (0..m), NEW s \in T, ~\A t \in T : t <= s
    PROVE LET next == Min(Above(T, s))
          IN  /\ next \in T /\ next > s
              /\ \A t \in T : t > s => next <= t
              /\ Cardinality(Above(T, next)) \in Nat
              /\ Cardinality(Above(T, s)) = Cardinality(Above(T, next)) + 1
<1> DEFINE next == Min(Above(T, s))
<1>0. /\ \A t \in T : t \in Nat
      /\ \A u \in T : \A t \in Above(T, u) : t \in T /\ t > u
      /\ \A u, t \in T : t > u => t \in Above(T, u)
  BY DEF Above
<1>1. Above(T, s) \in SUBSET Nat /\ Above(T, s) # {}
  <2>1. PICK t \in T : ~(t <= s)
    OBVIOUS
  <2>2. t > s
    BY <1>0, <2>1
  <2>3. QED
    BY <1>0, <2>2
<1>2. next \in Above(T, s) /\ \A t \in Above(T, s) : next <= t
  BY <1>1, MinIs
<1> HIDE DEF next
<1>3. next \in T /\ next > s /\ \A t \in T : t > s => next <= t
  BY <1>2 DEF Above
<1>4. Above(T, s) = Above(T, next) \cup {next} /\ next \notin Above(T, next)
  <2>1. ASSUME NEW t \in T PROVE t > s <=> t > next \/ t = next
    BY <1>0, <1>3
  <2>2. \A t : t \in Above(T, s) <=> t \in Above(T, next) \cup {next}
    BY <1>3, <2>1 DEF Above
  <2>3. ~(next > next)
    BY <1>0, <1>3
  <2>4. QED
    BY <2>2, <2>3 DEF Above
<1>5. IsFiniteSet(Above(T, next)) /\ Cardinality(Above(T, next)) \in Nat
  <2>1. IsFiniteSet(0..m)
    BY FS_Interval
  <2>2. Above(T, next) \in SUBSET (0..m)
    BY DEF Above
  <2>3. QED
    BY <2>1, <2>2, FS_Subset, FS_CardinalityType
<1>6. Cardinality(Above(T, s)) = Cardinality(Above(T, next)) + 1
  BY <1>4, <1>5, FS_AddElement
<1>7. QED
  BY <1>3, <1>5, <1>6 DEF next

\* There are such bands.
LEMMA BandsExist ==
    ASSUME NEW m \in Nat, NEW T \in SUBSET (0..m)
    PROVE \E top : top = Bands(T, top)
<1>0. TieBand \in Nat
  BY RetrievalAssumption
<1> DEFINE X == [T -> Int]
           a == [s \in T |-> 0]
           step == [g \in X |-> Bands(T, g)]
           size(s) == Cardinality(Above(T, s))
<1>1. a \in X
  OBVIOUS
<1>2. ASSUME NEW g \in X PROVE Bands(T, g) \in X
  <2>1. ASSUME NEW s \in T, ~\A t \in T : t <= s PROVE g[Min(Above(T, s))] \in Int
    BY <2>1, NextAbove
  <2>2. \A s \in T : s \in Int
    OBVIOUS
  <2>3. QED
    BY <2>1, <2>2 DEF Bands
<1>3. step \in [X -> X]
  BY <1>2
<1> HIDE DEF X, a, step
<1>4. PICK f \in [Nat -> X] : f[0] = a /\ \A n \in Nat : f[n + 1] = step[f[n]]
  <2>1. Iterations(X, a, step) # {}
    BY <1>1, <1>3, Iterates
  <2>2. QED
    BY <2>1 DEF Iterations
<1>5. \A n \in Nat : f[n + 1] = Bands(T, f[n])
  BY <1>4 DEF step
<1> DEFINE top == [s \in T |-> f[size(s) + 1][s]]
<1>6. ASSUME NEW s \in T
      PROVE top[s] = IF \A t \in T : t <= s THEN s
                     ELSE IF top[Min(Above(T, s))] - s <= TieBand THEN top[Min(Above(T, s))] ELSE s
  <2>1. size(s) \in Nat
    <3>1. Above(T, s) \in SUBSET (0..m)
      BY DEF Above
    <3>2. IsFiniteSet(0..m)
      BY FS_Interval
    <3>3. QED
      BY <3>1, <3>2, FS_Subset, FS_CardinalityType
  <2>2. top[s] = Bands(T, f[size(s)])[s]
    BY <1>5, <2>1
  <2>3. CASE \A t \in T : t <= s
    BY <2>2, <2>3 DEF Bands
  <2>4. CASE ~\A t \in T : t <= s
    <3> DEFINE next == Min(Above(T, s))
    <3>1. next \in T /\ size(s) = size(next) + 1
      BY <2>4, NextAbove
    <3>2. f[size(s)][next] = top[next]
      BY <3>1
    <3>3. QED
      BY <2>2, <2>4, <3>2 DEF Bands
  <2>5. QED
    BY <2>3, <2>4
<1>7. top = Bands(T, top)
  BY <1>6 DEF Bands
<1>8. QED
  BY <1>7

\* The top of a score's band is not below it nor more than the tie band above it, and a higher
\* score has no lower top.
LEMMA BandsHold ==
    ASSUME NEW m \in Nat, NEW T \in SUBSET (0..m), NEW top, top = Bands(T, top)
    PROVE /\ \A s \in T : top[s] \in Int /\ s <= top[s] /\ top[s] <= s + TieBand
          /\ \A s, t \in T : s < t => top[s] <= top[t]
<1>0. TieBand \in Nat /\ \A s \in T : s \in Nat
  BY RetrievalAssumption
<1>1. \A s \in T : top[s] = IF \A t \in T : t <= s THEN s
                            ELSE IF top[Min(Above(T, s))] - s <= TieBand
                                 THEN top[Min(Above(T, s))] ELSE s
  BY DEF Bands
<1> DEFINE holds(s) == top[s] \in Int /\ s <= top[s] /\ top[s] <= s + TieBand
           out == {s \in T : ~holds(s)}
           next(s) == Min(Above(T, s))
<1>2. ASSUME NEW s \in T, \A t \in T : t > s => holds(t) PROVE holds(s)
  <2>1. CASE \A t \in T : t <= s
    <3>1. top[s] = s
      BY <1>1, <2>1
    <3>2. QED
      BY <1>0, <3>1
  <2>2. CASE ~\A t \in T : t <= s
    <3>1. next(s) \in T /\ next(s) > s /\ s \in Nat /\ next(s) \in Nat
      BY <1>0, <2>2, NextAbove
    <3>2. holds(next(s))
      BY <1>2, <3>1
    <3>3. top[s] = IF top[next(s)] - s <= TieBand THEN top[next(s)] ELSE s
      BY <1>1, <2>2
    <3> HIDE DEF next
    <3>4. QED
      BY <1>0, <3>1, <3>2, <3>3
  <2>3. QED
    BY <2>1, <2>2
<1>3. out = {}
  <2>1. SUFFICES ASSUME out # {} PROVE FALSE
    OBVIOUS
  <2>2. out \in SUBSET (0..m)
    OBVIOUS
  <2>3. PICK s \in out : \A l \in out : l <= s
    BY <2>1, <2>2, GreatestOf
  <2>4. \A t \in T : t > s => holds(t)
    BY <1>0, <2>3
  <2>5. QED
    BY <1>2, <2>3, <2>4
<1>4. \A s \in T : holds(s)
  BY <1>3
<1> DEFINE crossed == {s \in T : \E t \in T : s < t /\ ~(top[s] <= top[t])}
<1>5. crossed = {}
  <2>1. SUFFICES ASSUME crossed # {} PROVE FALSE
    OBVIOUS
  <2>2. crossed \in SUBSET (0..m)
    OBVIOUS
  <2>3. PICK s \in crossed : \A l \in crossed : l <= s
    BY <2>1, <2>2, GreatestOf
  <2>4. PICK t \in T : s < t /\ ~(top[s] <= top[t])
    BY <2>3
  <2>5. s \in T /\ ~\A u \in T : u <= s
    BY <1>0, <2>4
  <2>6. next(s) \in T /\ next(s) > s /\ next(s) <= t /\ s \in Nat /\ next(s) \in Nat
    BY <1>0, <2>4, <2>5, NextAbove
  <2>7. top[s] = IF top[next(s)] - s <= TieBand THEN top[next(s)] ELSE s
    BY <1>1, <2>5
  <2> HIDE DEF next
  <2>8. top[s] <= top[next(s)]
    BY <1>4, <2>6, <2>7
  <2>9. next(s) = t \/ top[next(s)] <= top[t]
    BY <1>0, <2>3, <2>6
  <2>10. QED
    BY <1>4, <2>4, <2>5, <2>6, <2>8, <2>9
<1>6. QED
  BY <1>4, <1>5

-----------------------------------------------------------------------------
(* Types, and keys made of numbers *)

SearchTypes ==
    /\ Query /\ Guarded
    /\ score \in [channels -> [Corpus -> 0..MaxScore]] /\ sim \in [Corpus -> 0..MaxScore]
    /\ links \in [Hubs -> SUBSET Corpus]
    /\ visible \in SUBSET Corpus
    /\ limit \in Nat \ {0}

\* Pages and their places are finitely many and different.
LEMMA Pages ==
    /\ IsFiniteSet(Corpus) /\ IsFiniteSet(Variants) /\ Cardinality(Corpus) \in Nat
    /\ \A p \in Corpus : RoleRank(p) \in Int /\ Path[p] \in Int
    /\ \A p, q \in Corpus : Path[p] = Path[q] => p = q
    /\ TieBand \in Nat /\ MaxScore \in Nat
    /\ OrientationLimit \in Nat /\ SeedLimit \in Nat /\ PerSeedLimit \in Nat /\ RelatedLimit \in Nat
<1>1. RetrievalAssumption
  BY RetrievalAssumption
<1>2. IsFiniteSet(Corpus) /\ IsFiniteSet(Variants) /\ Cardinality(Corpus) \in Nat
  BY <1>1, FS_CardinalityType DEF RetrievalAssumption
<1>3. \A p \in Corpus : RoleRank(p) \in Int /\ Path[p] \in Int
  BY <1>1 DEF RetrievalAssumption, RoleRank
<1>4. \A p, q \in Corpus : Path[p] = Path[q] => p = q
  BY <1>1 DEF RetrievalAssumption
<1>5. {TieBand, MaxScore, OrientationLimit, SeedLimit, PerSeedLimit, RelatedLimit} \subseteq Nat
  BY <1>1 DEF RetrievalAssumption
<1>6. QED
  BY <1>2, <1>3, <1>4, <1>5

\* Pages can be counted
LEMMA FinitePages ==
    ASSUME NEW S \in SUBSET Corpus
    PROVE IsFiniteSet(S) /\ Cardinality(S) \in Nat /\ Cardinality(S) <= Cardinality(Corpus)
  BY Pages, FS_Subset, FS_CardinalityType

\* Lists of three to five numbers are functions, as the keys of an order must be
LEMMA Tuples ==
    ASSUME NEW a \in Int, NEW b \in Int, NEW c \in Int, NEW d \in Int, NEW e \in Int
    PROVE /\ <<a, b, c>> \in [1..3 -> Int]
          /\ <<a, b, c, d>> \in [1..4 -> Int]
          /\ <<a, b, c, d, e>> \in [1..5 -> Int]
  OBVIOUS

\* What the first number of the keys decides, or the second when the first does not object.
LEMMA KeysDecide ==
    /\ \A a, b \in [1..3 -> Int] : a[1] < b[1] => Less(a, b)
    /\ \A a, b \in [1..4 -> Int] : a[1] < b[1] => Less(a, b)
    /\ \A a, b \in [1..5 -> Int] :
          a[1] < b[1] \/ (a[1] <= b[1] /\ a[2] < b[2]) => Less(a, b)
<1>1. ASSUME NEW k \in Nat, k >= 1, NEW a \in [1..k -> Int], NEW b \in [1..k -> Int], a[1] < b[1]
      PROVE Less(a, b)
  <2>1. 1 \in 1..k /\ \A j \in 1..(1 - 1) : a[j] = b[j]
    BY <1>1
  <2>2. QED
    BY <1>1, <2>1 DEF Less
<1>2. ASSUME NEW a \in [1..5 -> Int], NEW b \in [1..5 -> Int], a[1] = b[1], a[2] < b[2]
      PROVE Less(a, b)
  <2>1. 2 \in 1..5 /\ \A j \in 1..(2 - 1) : a[j] = b[j]
    BY <1>2
  <2>2. QED
    BY <1>2, <2>1 DEF Less
<1>3. \A a, b \in [1..3 -> Int] : a[1] < b[1] => Less(a, b)
  <2>1. 3 \in Nat /\ 3 >= 1
    OBVIOUS
  <2>2. QED
    BY <1>1, <2>1
<1>4. \A a, b \in [1..4 -> Int] : a[1] < b[1] => Less(a, b)
  <2>1. 4 \in Nat /\ 4 >= 1
    OBVIOUS
  <2>2. QED
    BY <1>1, <2>1
<1>5. \A a, b \in [1..5 -> Int] : a[1] < b[1] => Less(a, b)
  <2>1. 5 \in Nat /\ 5 >= 1
    OBVIOUS
  <2>2. QED
    BY <1>1, <2>1
<1>6. \A a, b \in [1..5 -> Int] : a[1] <= b[1] => a[1] < b[1] \/ a[1] = b[1]
  OBVIOUS
<1>7. QED
  BY <1>2, <1>3, <1>4, <1>5, <1>6

\* A list that was cut at n: pages of C, all of them unless there are more than n
Cut(r, n, C) ==
    /\ Ranking(r) /\ DOMAIN r \subseteq C
    /\ Cardinality(DOMAIN r) = IF n <= Cardinality(C) THEN n ELSE Cardinality(C)
    /\ Cardinality(C) <= n => DOMAIN r = C

\* The first n of a ranking are a cut of it
LEMMA TopCut ==
    ASSUME NEW r, Ranking(r), NEW n \in Nat
    PROVE Cut(Top(r, n), n, DOMAIN r)
<1>1. DOMAIN Top(r, n) = {p \in DOMAIN r : r[p] <= n}
  BY TopIs
<1>2. DOMAIN Top(r, n) \subseteq DOMAIN r
  BY <1>1
<1>3. QED
  BY <1>2, TopIs DEF Cut

\* The page p is in the list, and before q.
First(r, p, q) == p \in DOMAIN r /\ r[p] < r[q]

\* Top of the pages of S by their keys: it is cut, and p comes before q when its key is less.
LEMMA TopRanked ==
    ASSUME NEW S \in SUBSET Corpus, NEW key, KeysOf(S, key), NEW n \in Nat
    PROVE /\ Cut(Top(Ranked(S, key), n), n, S)
          /\ \A q \in DOMAIN Top(Ranked(S, key), n), p \in S :
                Less(key[p], key[q]) => First(Top(Ranked(S, key), n), p, q)
<1> DEFINE r == Ranked(S, key)
<1>1. /\ DOMAIN r = S /\ Ranking(r)
      /\ \A p, q \in S : r[p] < r[q] <=> Less(key[p], key[q])
  BY FinitePages, RankedIs
<1> HIDE DEF r
<1>2. Cut(Top(r, n), n, S)
  BY <1>1, TopCut
<1>3. ASSUME NEW q \in DOMAIN Top(r, n), NEW p \in S, Less(key[p], key[q])
      PROVE First(Top(r, n), p, q)
  <2>1. q \in S
    BY <1>2 DEF Cut
  <2>2. r[p] < r[q]
    BY <1>1, <1>3, <2>1
  <2>3. QED
    BY <1>1, <2>2, TopKeeps DEF First
<1>4. QED
  BY <1>2, <1>3 DEF r

-----------------------------------------------------------------------------
(* search.py *)

\* An overview is a cut of the pages it is of
LEMMA OverviewIs ==
    ASSUME NEW S \in SUBSET Corpus, NEW n \in Nat
    PROVE Cut(Top(OverviewResults(S), n), n, S \ seen)
<1> DEFINE leads(p) == p \in Hubs /\ \A q \in S : Role[q] = Role[p] => Path[p] <= Path[q]
           key == [p \in S |-> <<IF leads(p) THEN 0 ELSE 1, RoleRank(p), Path[p]>>]
<1>1. Overview(S) = Ranked(S, key)
  BY DEF Overview
<1> HIDE DEF leads
<1>2. \A p \in S : key[p] \in [1..3 -> Int] /\ key[p][3] = Path[p]
  <2>1. ASSUME NEW p \in S PROVE key[p] \in [1..3 -> Int] /\ key[p][3] = Path[p]
    <3>1. (IF leads(p) THEN 0 ELSE 1) \in Int
      OBVIOUS
    <3>2. QED
      BY <3>1, Pages, Tuples
  <2>2. QED
    BY <2>1
<1>3. KeysOf(S, key)
  BY <1>2, Pages DEF KeysOf
<1> HIDE DEF key
<1>4. Ranking(Overview(S)) /\ DOMAIN Overview(S) = S
  BY <1>1, <1>3, FinitePages, RankedIs
<1>5. Ranking(OverviewResults(S)) /\ DOMAIN OverviewResults(S) = S \ seen
  BY <1>4, AmongIs DEF OverviewResults, Excluded
<1>6. QED
  BY <1>5, TopCut

\* The pages of S that a search in a channel may answer with
Found(c, S) == {p \in S \ seen : text[c] # "words" \/ score[c][p] > 0}
Ahead(c, boost, p, q) ==
    /\ text[c] = "words"
    /\ \/ score[c][p] > score[c][q] + TieBand
       \/ boost = NoBoost /\ score[c][p] > score[c][q]

\* The top of a band is that of a score in it.
LEMMA BandTopIs ==
    ASSUME SearchTypes, NEW c \in channels, NEW S \in SUBSET Corpus
    PROVE /\ \A p \in S : LET s == score[c][p]
                              top == BandTop(c, S)[s]
                          IN  s \in Nat /\ top \in Int /\ s <= top /\ top <= s + TieBand
          /\ \A p, q \in S : score[c][p] < score[c][q] =>
                BandTop(c, S)[score[c][p]] <= BandTop(c, S)[score[c][q]]
<1> DEFINE T == {score[c][p] : p \in S}
           top == BandTop(c, S)
<1>1. MaxScore \in Nat /\ TieBand \in Nat
  BY Pages
<1>2. \A p \in S : score[c][p] \in 0..MaxScore
  BY DEF SearchTypes
<1>3. T \in SUBSET (0..MaxScore)
  BY <1>2
<1>4. top = CHOOSE f : f = Bands(T, f)
  BY DEF BandTop, Bands, Above
<1> HIDE DEF T, top
<1>5. top = Bands(T, top)
  BY <1>1, <1>3, <1>4, BandsExist
<1>6. /\ \A s \in T : top[s] \in Int /\ s <= top[s] /\ top[s] <= s + TieBand
      /\ \A s, t \in T : s < t => top[s] <= top[t]
  BY <1>1, <1>3, <1>5, BandsHold
<1>7. \A p \in S : score[c][p] \in T
  BY DEF T
<1>8. QED
  BY <1>1, <1>2, <1>6, <1>7 DEF top

\* What a channel ranks is a cut, in the order of its bands
LEMMA RankResultsIs ==
    ASSUME SearchTypes, NEW c \in channels, NEW S \in SUBSET Corpus, NEW boost \in [Corpus -> Nat],
           text[c] = "words", NEW n \in Nat
    PROVE /\ Cut(Top(RankResults(c, S, boost), n), n, S)
          /\ \A q \in DOMAIN Top(RankResults(c, S, boost), n), p \in S :
                Ahead(c, boost, p, q) => First(Top(RankResults(c, S, boost), n), p, q)
<1> DEFINE bounded(p) == Min({boost[p], TieBand})
           top(p) == BandTop(c, S)[score[c][p]]
           key == [p \in S |-> <<-top(p), -(score[c][p] + bounded(p)), -score[c][p], RoleRank(p),
                                 Path[p]>>]
<1>1. RankResults(c, S, boost) = Ranked(S, key)
  BY DEF RankResults
<1>2. ASSUME NEW p \in S
      PROVE /\ top(p) \in Int /\ bounded(p) \in Nat /\ score[c][p] \in Nat
            /\ boost = NoBoost => bounded(p) = 0
            /\ score[c][p] <= top(p) /\ top(p) <= score[c][p] + TieBand
  <2>1. boost[p] \in Nat /\ TieBand \in Nat
    BY Pages
  <2>2. bounded(p) = IF boost[p] <= TieBand THEN boost[p] ELSE TieBand
    BY <2>1, MinOfTwo
  <2>3. boost = NoBoost => boost[p] = 0
    BY DEF NoBoost
  <2>4. QED
    BY <2>1, <2>2, <2>3, BandTopIs
<1> HIDE DEF bounded, top
<1>3. ASSUME NEW p \in S
      PROVE /\ key[p] \in [1..5 -> Int]
            /\ key[p][1] = -top(p) /\ key[p][2] = -(score[c][p] + bounded(p)) /\ key[p][5] = Path[p]
  <2>1. /\ -top(p) \in Int /\ -(score[c][p] + bounded(p)) \in Int /\ -score[c][p] \in Int
        /\ RoleRank(p) \in Int /\ Path[p] \in Int
    BY <1>2, Pages
  <2>2. key[p] = <<-top(p), -(score[c][p] + bounded(p)), -score[c][p], RoleRank(p), Path[p]>>
    OBVIOUS
  <2>3. QED
    BY <2>1, <2>2, Tuples
<1> HIDE DEF key
<1>4. KeysOf(S, key)
  <2>1. \A p \in S : key[p] \in [1..5 -> Int] /\ key[p][5] = Path[p]
    BY <1>3
  <2>2. \A p, q \in S : key[p] = key[q] => p = q
    BY <2>1, Pages
  <2>3. QED
    BY <2>1, <2>2 DEF KeysOf
<1>5. ASSUME NEW p \in S, NEW q \in S, Ahead(c, boost, p, q) PROVE Less(key[p], key[q])
  <2>1. CASE score[c][p] > score[c][q] + TieBand
    <3>1. -top(p) < -top(q)
      BY <1>2, <2>1, Pages
    <3>2. key[p][1] < key[q][1] /\ key[p] \in [1..5 -> Int] /\ key[q] \in [1..5 -> Int]
      BY <1>3, <3>1
    <3>3. QED
      BY <3>2, KeysDecide
  <2>2. CASE boost = NoBoost /\ score[c][p] > score[c][q]
    <3>1. top(q) <= top(p)
      BY <1>2, <2>2, BandTopIs DEF top
    <3>2. -top(p) <= -top(q) /\ -(score[c][p] + bounded(p)) < -(score[c][q] + bounded(q))
      BY <1>2, <2>2, <3>1
    <3>3. /\ key[p][1] <= key[q][1] /\ key[p][2] < key[q][2]
          /\ key[p] \in [1..5 -> Int] /\ key[q] \in [1..5 -> Int]
      BY <1>3, <3>2
    <3>4. QED
      BY <3>3, KeysDecide
  <2>3. QED
    BY <1>5, <2>1, <2>2 DEF Ahead
<1> DEFINE found == Top(RankResults(c, S, boost), n)
<1>6. /\ Cut(found, n, S)
      /\ \A q \in DOMAIN found, p \in S : Less(key[p], key[q]) => First(found, p, q)
  BY <1>1, <1>4, TopRanked
<1>7. QED
  BY <1>5, <1>6 DEF Cut

\* search_corpus: a cut list of what the channel finds, in an order that boosts change within
\* the bands only.
LEMMA SearchIs ==
    ASSUME SearchTypes, NEW c \in channels, NEW S \in SUBSET Corpus, NEW boost \in [Corpus -> Nat],
           NEW n \in Nat
    PROVE /\ Cut(Search(c, S, boost, n), n, Found(c, S))
          /\ \A q \in DOMAIN Search(c, S, boost, n), p \in Found(c, S) :
                Ahead(c, boost, p, q) => First(Search(c, S, boost, n), p, q)
<1>1. CASE text[c] # "words"
  <2>1. Search(c, S, boost, n) = Top(OverviewResults(S), n) /\ Found(c, S) = S \ seen
    BY <1>1 DEF Search, Found
  <2>2. QED
    BY <1>1, <2>1, OverviewIs DEF Ahead
<1>2. CASE text[c] = "words"
  <2>1. /\ Search(c, S, boost, n) = Top(RankResults(c, Found(c, S), boost), n)
        /\ Found(c, S) \in SUBSET Corpus
    BY <1>2 DEF Search, Found, Excluded
  <2>2. QED
    BY <1>2, <2>1, RankResultsIs
<1>3. QED
  BY <1>1, <1>2

-----------------------------------------------------------------------------
(* search_vector_index *)

Sensed(S) == {p \in S \ seen : text[Primary] = "none" \/ sim[p] > 0}

\* Pages by their cosines, whatever they are cut to.
LEMMA VectorsAre ==
    ASSUME SearchTypes, NEW S \in SUBSET Corpus, NEW n \in Nat
    PROVE /\ Cut(Top(Ranked(S, VectorKey), n), n, S)
          /\ \A q \in DOMAIN Top(Ranked(S, VectorKey), n), p \in S :
                sim[p] > sim[q] => First(Top(Ranked(S, VectorKey), n), p, q)
<1> DEFINE found == Top(Ranked(S, VectorKey), n)
<1>1. \A p \in Corpus : sim[p] \in Nat /\ -sim[p] \in Int
  BY Pages DEF SearchTypes
<1>2. ASSUME NEW p \in S
      PROVE /\ VectorKey[p] \in [1..3 -> Int]
            /\ VectorKey[p][1] = -sim[p] /\ VectorKey[p][3] = Path[p]
  <2>1. VectorKey[p] = <<-sim[p], RoleRank(p), Path[p]>>
    BY DEF VectorKey
  <2>2. QED
    BY <1>1, <2>1, Pages, Tuples
<1>3. KeysOf(S, VectorKey)
  <2>1. 3 \in Nat /\ \A p \in S : VectorKey[p] \in [1..3 -> Int]
    BY <1>2
  <2>2. \A p, q \in S : VectorKey[p] = VectorKey[q] => Path[p] = Path[q]
    BY <1>2
  <2>3. QED
    BY <2>1, <2>2, Pages DEF KeysOf
<1>4. /\ Cut(found, n, S)
      /\ \A q \in DOMAIN found, p \in S : Less(VectorKey[p], VectorKey[q]) => First(found, p, q)
  BY <1>3, TopRanked
<1>5. ASSUME NEW p \in S, NEW q \in S, sim[p] > sim[q] PROVE Less(VectorKey[p], VectorKey[q])
  <2>1. -sim[p] < -sim[q]
    BY <1>1, <1>5
  <2>2. /\ VectorKey[p][1] < VectorKey[q][1]
        /\ VectorKey[p] \in [1..3 -> Int] /\ VectorKey[q] \in [1..3 -> Int]
    BY <1>2, <2>1
  <2>3. QED
    BY <2>2, KeysDecide
<1>6. QED
  BY <1>4, <1>5 DEF Cut

\* The vector search is a cut of what it senses, in the order of similarity
LEMMA VectorSearchIs ==
    ASSUME SearchTypes, NEW S \in SUBSET Corpus, NEW n \in Nat
    PROVE /\ Cut(VectorSearch(S, n), n, Sensed(S))
          /\ text[Primary] # "none" =>
                \A q \in DOMAIN VectorSearch(S, n), p \in Sensed(S) :
                    sim[p] > sim[q] => First(VectorSearch(S, n), p, q)
<1>1. CASE text[Primary] = "none"
  <2>1. VectorSearch(S, n) = Top(OverviewResults(S), n) /\ Sensed(S) = S \ seen
    BY <1>1 DEF VectorSearch, Sensed
  <2>2. QED
    BY <1>1, <2>1, OverviewIs
<1>2. CASE text[Primary] # "none"
  <2>1. /\ VectorSearch(S, n) = Top(Ranked(Sensed(S), VectorKey), n)
        /\ Sensed(S) \in SUBSET Corpus
    BY <1>2 DEF VectorSearch, Sensed, Excluded
  <2>2. QED
    BY <2>1, VectorsAre
<1>3. QED
  BY <1>1, <1>2

-----------------------------------------------------------------------------
(* Sums of terms *)

\* A page that is earlier in a list has a greater term, and one that is not there has none.
LEMMA TermIs ==
    ASSUME NEW r, Ranking(r), DOMAIN r \subseteq Corpus, NEW weight \in Nat \ {0}, NEW p, NEW q
    PROVE /\ Term(r, p, weight) \in Nat
          /\ p \notin DOMAIN r => Term(r, p, weight) = 0
          /\ p \in DOMAIN r => Term(r, p, weight) > 0
          /\ q \in DOMAIN r /\ First(r, p, q) => Term(r, p, weight) > Term(r, q, weight)
<1> DEFINE part(i) == Scale \div (60 + i)
           N == Cardinality(Corpus)
<1>1. N \in Nat /\ Scale \in Nat \ {0} /\ \A i \in 1..N : Scale % (60 + i) = 0
  BY Pages, RetrievalAssumption DEF RRF_K
<1>2. ASSUME NEW i \in 1..N PROVE part(i) \in Nat /\ part(i) > 0 /\ Scale = (60 + i) * part(i)
  <2>1. 60 + i \in Nat /\ 60 + i > 0
    BY <1>1
  <2> DEFINE k == 60 + i
  <2>2. Scale % k = 0 /\ k \in Nat /\ k > 0
    BY <1>1, <2>1
  <2> HIDE DEF k
  <2>3. Scale \div k \in Nat /\ Scale = (k * (Scale \div k)) + (Scale % k)
    BY <1>1, <2>2
  <2>4. Scale = k * (Scale \div k)
    BY <1>1, <2>2, <2>3
  <2>5. Scale \div k # 0
    BY <1>1, <2>2, <2>4
  <2>6. QED
    BY <2>3, <2>4, <2>5 DEF k
<1>3. ASSUME NEW i \in 1..N, NEW j \in 1..N, i < j PROVE part(i) > part(j)
  <2>1. PICK x \in Nat : x = part(i) /\ x > 0 /\ Scale = (60 + i) * x
    BY <1>2
  <2>2. PICK y \in Nat : y = part(j) /\ y > 0 /\ Scale = (60 + j) * y
    BY <1>2
  <2>3. PICK d \in Nat : j = i + d /\ d > 0
    BY <1>1, <1>3
  <2>4. i \in Nat /\ (60 + j) * y = (60 + i) * y + d * y
    BY <1>1, <2>2, <2>3
  <2>5. d * y > 0
    BY <2>2, <2>3
  <2>6. ASSUME x <= y PROVE FALSE
    <3>1. (60 + i) * x <= (60 + i) * y
      BY <2>1, <2>2, <2>4, <2>6
    <3>2. QED
      BY <1>1, <2>1, <2>2, <2>4, <2>5, <3>1
  <2>7. QED
    BY <2>1, <2>2, <2>6
<1>4. Cardinality(DOMAIN r) \in Nat /\ Cardinality(DOMAIN r) <= N
  BY FinitePages
<1>5. \A x \in DOMAIN r : r[x] \in 1..N
  BY <1>1, <1>4 DEF Ranking
<1>6. \A x : Term(r, x, weight) = IF x \in DOMAIN r THEN weight * part(r[x]) ELSE 0
  BY DEF Term, RRF_K
<1> HIDE DEF part, N
<1>7. ASSUME NEW x \in DOMAIN r PROVE Term(r, x, weight) \in Nat /\ Term(r, x, weight) > 0
  <2>1. PICK y \in Nat : y = part(r[x]) /\ y > 0
    BY <1>2, <1>5
  <2>2. Term(r, x, weight) = weight * y
    BY <1>6, <2>1
  <2>3. weight * y \in Nat /\ weight * y > 0
    BY <2>1
  <2>4. QED
    BY <2>2, <2>3
<1>8. ASSUME q \in DOMAIN r, First(r, p, q) PROVE Term(r, p, weight) > Term(r, q, weight)
  <2>1. p \in DOMAIN r /\ r[p] < r[q]
    BY <1>8 DEF First
  <2>2. part(r[p]) > part(r[q]) /\ part(r[p]) \in Nat /\ part(r[q]) \in Nat
    BY <1>2, <1>3, <1>5, <1>8, <2>1
  <2>3. weight * part(r[p]) > weight * part(r[q])
    <3>1. PICK x \in Nat, y \in Nat : x = part(r[p]) /\ y = part(r[q]) /\ x > y
      BY <2>2
    <3>2. weight * x > weight * y
      BY <3>1
    <3>3. QED
      BY <3>1, <3>2
  <2>4. QED
    BY <1>6, <1>8, <2>1, <2>3
<1>9. QED
  BY <1>6, <1>7, <1>8

\* The sums of a function over the parts of its domain
Sums(f, it) ==
    [s \in SUBSET DOMAIN f |->
        IF s = {} THEN 0
        ELSE f[CHOOSE x \in s : TRUE] + it[s \ {CHOOSE x \in s : TRUE}]]

\* What the sum of a function is.
LEMMA SumIs ==
    ASSUME NEW f
    PROVE SumFunction(f) = (CHOOSE it : it = Sums(f, it))[DOMAIN f]
  BY DEF SumFunction, SumFunctionOnSet, FoldFunctionOnSet, MapThenFoldSet, Sums

\* The parts of a finite set have sums.
LEMMA SumsIterate ==
    ASSUME NEW D, NEW fun \in [D -> Nat]
    PROVE \E f \in [Nat -> [SUBSET D -> Int]] : \A n \in Nat : f[n + 1] = Sums(fun, f[n])
<1> DEFINE X == [SUBSET D -> Int]
           a == [s \in SUBSET D |-> 0]
           step == [g \in X |-> Sums(fun, g)]
           some(s) == CHOOSE x \in s : TRUE
<1>1. a \in X
  OBVIOUS
<1>2. ASSUME NEW g \in X PROVE Sums(fun, g) \in X
  <2>1. ASSUME NEW s \in SUBSET D, s # {} PROVE fun[some(s)] + g[s \ {some(s)}] \in Int
    <3>1. some(s) \in D /\ s \ {some(s)} \in SUBSET D
      BY <2>1
    <3>2. fun[some(s)] \in Nat /\ g[s \ {some(s)}] \in Int
      BY <3>1
    <3>3. QED
      BY <3>2
  <2>2. QED
    BY <2>1 DEF Sums
<1>3. step \in [X -> X]
  BY <1>2
<1> HIDE DEF X, a, step, some
<1>4. PICK f \in [Nat -> X] : f[0] = a /\ \A n \in Nat : f[n + 1] = step[f[n]]
  <2>1. Iterations(X, a, step) # {}
    BY <1>1, <1>3, Iterates
  <2>2. QED
    BY <2>1 DEF Iterations
<1>5. \A n \in Nat : f[n + 1] = Sums(fun, f[n])
  BY <1>4 DEF step
<1>6. QED
  BY <1>5 DEF X

\* A sum over a finite set is defined: some function satisfies its recursion
LEMMA SumsExist ==
    ASSUME NEW D, IsFiniteSet(D), NEW fun \in [D -> Nat]
    PROVE \E it : it = Sums(fun, it)
<1> DEFINE some(s) == CHOOSE x \in s : TRUE
<1>1. PICK f \in [Nat -> [SUBSET D -> Int]] : \A n \in Nat : f[n + 1] = Sums(fun, f[n])
  BY SumsIterate
<1> DEFINE it == [s \in SUBSET D |-> f[Cardinality(s) + 1][s]]
<1>2. ASSUME NEW s \in SUBSET D
      PROVE it[s] = IF s = {} THEN 0 ELSE fun[some(s)] + it[s \ {some(s)}]
  <2>1. IsFiniteSet(s) /\ Cardinality(s) \in Nat
    BY FS_Subset, FS_CardinalityType
  <2>2. it[s] = Sums(fun, f[Cardinality(s)])[s]
    BY <1>1, <2>1
  <2>3. CASE s = {}
    BY <2>2, <2>3 DEF Sums
  <2>4. CASE s # {}
    <3> DEFINE t == s \ {some(s)}
    <3>1. some(s) \in s
      BY <2>4
    <3>2. t \in SUBSET D /\ Cardinality(t) \in Nat /\ Cardinality(s) = Cardinality(t) + 1
      <4>1. /\ IsFiniteSet(t)
            /\ Cardinality(t) = IF some(s) \in s THEN Cardinality(s) - 1 ELSE Cardinality(s)
        BY <2>1, FS_RemoveElement
      <4>2. Cardinality(t) \in Nat
        BY <4>1, FS_CardinalityType
      <4>3. QED
        BY <2>1, <3>1, <4>1, <4>2
    <3>3. f[Cardinality(s)][t] = it[t]
      BY <3>2
    <3>4. QED
      BY <2>2, <2>4, <3>3 DEF Sums
  <2>5. QED
    BY <2>3, <2>4
<1>3. it = Sums(fun, it)
  BY <1>2 DEF Sums
<1>4. QED
  BY <1>3

\* A sum of greater terms is greater.
LEMMA SumsCompare ==
    ASSUME NEW f, NEW g, DOMAIN f = DOMAIN g, IsFiniteSet(DOMAIN f),
           f \in [DOMAIN f -> Nat], g \in [DOMAIN f -> Nat],
           \A x \in DOMAIN f : g[x] <= f[x]
    PROVE /\ SumFunction(f) \in Nat /\ SumFunction(g) \in Nat
          /\ (\E x \in DOMAIN f : g[x] < f[x]) => SumFunction(g) < SumFunction(f)
<1> DEFINE D == DOMAIN f
           F == CHOOSE it : it = Sums(f, it)
           G == CHOOSE it : it = Sums(g, it)
           some(s) == CHOOSE x \in s : TRUE
           agree(s) == /\ F[s] \in Nat /\ G[s] \in Nat /\ G[s] <= F[s]
                       /\ (\E x \in s : g[x] < f[x]) => G[s] < F[s]
           N == {n \in Nat : \A s \in SUBSET D : Cardinality(s) = n => agree(s)}
<1>1. F = Sums(f, F) /\ G = Sums(g, G)
  BY SumsExist
<1> HIDE DEF F, G
<1>2. ASSUME NEW s \in SUBSET D
      PROVE /\ F[s] = IF s = {} THEN 0 ELSE f[some(s)] + F[s \ {some(s)}]
            /\ G[s] = IF s = {} THEN 0 ELSE g[some(s)] + G[s \ {some(s)}]
  BY <1>1 DEF Sums
<1>3. ASSUME NEW s \in SUBSET D
      PROVE IsFiniteSet(s) /\ Cardinality(s) \in Nat /\ (Cardinality(s) = 0 <=> s = {})
  BY FS_Subset, FS_CardinalityType, FS_EmptySet
<1>4. 0 \in N
  BY <1>2, <1>3
<1>5. ASSUME NEW n \in N PROVE n + 1 \in N
  <2>1. ASSUME NEW s \in SUBSET D, Cardinality(s) = n + 1 PROVE agree(s)
    <3> DEFINE t == s \ {some(s)}
    <3>1. s # {} /\ some(s) \in s
      BY <1>3, <2>1
    <3>2. t \in SUBSET D /\ Cardinality(t) = n
      <4>1. Cardinality(t) = IF some(s) \in s THEN Cardinality(s) - 1 ELSE Cardinality(s)
        BY <1>3, FS_RemoveElement
      <4>2. QED
        BY <2>1, <3>1, <4>1
    <3>3. agree(t)
      BY <3>2
    <3>4. F[s] = f[some(s)] + F[t] /\ G[s] = g[some(s)] + G[t]
      BY <1>2, <3>1
    <3> DEFINE y == some(s)
    <3>5. y \in D /\ f[y] \in Nat /\ g[y] \in Nat /\ g[y] <= f[y]
      BY <3>1
    <3>6. F[s] \in Nat /\ G[s] \in Nat /\ G[s] <= F[s]
      BY <3>3, <3>4, <3>5
    <3>7. ASSUME NEW x \in s, g[x] < f[x] PROVE G[s] < F[s]
      <4>1. x = y \/ x \in t
        OBVIOUS
      <4>2. g[y] < f[y] \/ G[t] < F[t]
        BY <3>3, <3>7, <4>1
      <4> HIDE DEF y, t
      <4>3. QED
        BY <3>3, <3>4, <3>5, <4>2 DEF y
    <3>8. QED
      BY <3>6, <3>7
  <2>2. QED
    BY <2>1
<1>6. N = Nat
  BY <1>4, <1>5, Naturals
<1>7. agree(D)
  BY <1>3, <1>6
<1>8. SumFunction(f) = F[D] /\ SumFunction(g) = G[D]
  BY SumIs DEF F, G
<1>9. QED
  BY <1>7, <1>8

-----------------------------------------------------------------------------
(* fused_lexical_variant_results *)

\* A search has a primary channel, and finitely many
LEMMA ChannelsAre ==
    ASSUME SearchTypes
    PROVE IsFiniteSet(channels) /\ Primary \in channels
<1>1. PICK V \in SUBSET Variants : channels = {Primary} \cup V
  BY DEF SearchTypes, Query
<1>2. IsFiniteSet(V)
  BY Pages, FS_Subset
<1>3. IsFiniteSet(V \cup {Primary})
  BY <1>2, FS_AddElement
<1>4. channels = V \cup {Primary}
  BY <1>1
<1>5. QED
  BY <1>3, <1>4

\* A cut list of pages is one of pages of the corpus; it has all it is cut from or n of them.
LEMMA CutIs ==
    ASSUME NEW r, NEW n \in Nat, NEW C \in SUBSET Corpus, Cut(r, n, C)
    PROVE /\ Ranking(r) /\ DOMAIN r \in SUBSET C /\ DOMAIN r \in SUBSET Corpus
          /\ DOMAIN r = C \/ Cardinality(DOMAIN r) = n
          /\ \A p \in DOMAIN r : r[p] \in Nat
<1>1. Cardinality(C) \in Nat
  BY FinitePages
<1>2. Ranking(r) /\ DOMAIN r \in SUBSET C
  BY DEF Cut
<1>3. \A p \in DOMAIN r : r[p] \in Nat
  BY <1>2, RanksAreTaken DEF Ranking
<1>4. DOMAIN r = C \/ Cardinality(DOMAIN r) = n
  BY <1>1 DEF Cut
<1>5. QED
  BY <1>2, <1>3, <1>4

\* r has at most n pages, all of S, and when it has fewer then all of A
Filled(r, n, S, A) ==
    /\ DOMAIN r \subseteq S /\ Cardinality(DOMAIN r) <= n
    /\ Cardinality(DOMAIN r) < n => A \subseteq DOMAIN r

\* A cut of enough pages, or of all that cannot be missed, is filled
LEMMA CutFills ==
    ASSUME NEW r, NEW n \in Nat, NEW C \in SUBSET Corpus, NEW S, NEW A, C \subseteq S, Cut(r, n, C),
           A \subseteq C \/ n <= Cardinality(C)
    PROVE Filled(r, n, S, A)
<1>1. Cardinality(C) \in Nat
  BY FinitePages
<1>2. DOMAIN r \subseteq S /\ Cardinality(DOMAIN r) <= n
  BY <1>1 DEF Cut
<1>3. Cardinality(DOMAIN r) < n => A \subseteq DOMAIN r
  BY <1>1 DEF Cut
<1>4. QED
  BY <1>2, <1>3 DEF Filled

\* What the variants find together
FoundByAny == {p \in UNION {Found(c, visible) : c \in channels} : guard # Nil => p \in guard}

\* Of S, what cannot be missed
Sure(S) == IF guard = Nil THEN S ELSE S \cap Found(Primary, visible)

\* What the query itself matches has the identifier
LEMMA MatchesAreGuarded ==
    ASSUME SearchTypes, guard # Nil
    PROVE Found(Primary, visible) \subseteq guard
<1>1. /\ text[Primary] = "words" /\ visible \in SUBSET Corpus
      /\ \A p \in Corpus : score[Primary][p] > 0 => p \in guard
  BY DEF SearchTypes, Guarded
<1>2. QED
  BY <1>1 DEF Found

\* p is materially better than q in every channel that finds q.
MateriallyBetter(p, q) ==
    \A c \in channels :
        text[c] = "words" /\ (score[c][q] > 0 => score[c][p] > score[c][q] + TieBand)

\* The fusion of the channels is a cut of what any of them found, in an order that keeps what
\* all agree on
LEMMA FusedIs ==
    ASSUME SearchTypes, NEW boost \in [Corpus -> Nat]
    PROVE /\ Filled(Fused(boost), limit, FoundByAny, Sure(FoundByAny))
          /\ \A q \in DOMAIN Fused(boost), p \in FoundByAny :
                MateriallyBetter(p, q) => First(Fused(boost), p, q)
<1> DEFINE results == [c \in channels |-> Search(c, visible, boost, limit)]
           found == {p \in UNION {DOMAIN results[c] : c \in channels} :
                         guard # Nil => p \in guard}
           terms(p) == [c \in channels |-> Term(results[c], p, 1)]
           rrf(p) == SumFunction(terms(p))
           best(p) == Min({RankOr(results[c], p, 1000000) : c \in channels})
           key == [p \in found |-> <<-rrf(p), RankOr(results[Primary], p, 1000000), best(p),
                                     RoleRank(p), Path[p]>>]
<1>1. Fused(boost) = Top(Ranked(found, key), limit)
  BY DEF Fused
<1>2. /\ IsFiniteSet(channels) /\ Primary \in channels /\ limit \in Nat /\ visible \in SUBSET Corpus
      /\ TieBand \in Nat
  BY ChannelsAre, Pages DEF SearchTypes
<1>3. ASSUME NEW c \in channels
      PROVE /\ Cut(results[c], limit, Found(c, visible)) /\ Found(c, visible) \in SUBSET Corpus
            /\ Ranking(results[c]) /\ DOMAIN results[c] \in SUBSET Found(c, visible)
            /\ DOMAIN results[c] \in SUBSET Corpus
            /\ DOMAIN results[c] = Found(c, visible) \/ Cardinality(DOMAIN results[c]) = limit
            /\ \A p \in DOMAIN results[c] : results[c][p] \in Nat
            /\ \A q \in DOMAIN results[c], p \in Found(c, visible) :
                  Ahead(c, boost, p, q) => First(results[c], p, q)
  <2>1. results[c] = Search(c, visible, boost, limit)
    OBVIOUS
  <2>2. Found(c, visible) \in SUBSET Corpus
    BY <1>2 DEF Found
  <2>3. /\ Cut(results[c], limit, Found(c, visible))
        /\ \A q \in DOMAIN results[c], p \in Found(c, visible) :
              Ahead(c, boost, p, q) => First(results[c], p, q)
    BY <1>2, <2>1, SearchIs
  <2>4. QED
    BY <1>2, <2>2, <2>3, CutIs
<1> HIDE DEF results
<1>4. found \in SUBSET FoundByAny /\ FoundByAny \in SUBSET Corpus
  BY <1>3 DEF FoundByAny
<1>5. ASSUME NEW c \in channels, DOMAIN results[c] \subseteq found,
             DOMAIN results[c] # Found(c, visible)
      PROVE limit <= Cardinality(found)
  <2>1. Cardinality(DOMAIN results[c]) = limit
    BY <1>3, <1>5
  <2>2. IsFiniteSet(found)
    BY <1>4, FinitePages
  <2>3. QED
    BY <1>5, <2>1, <2>2, FS_Subset
<1>6. Sure(FoundByAny) \subseteq found \/ limit <= Cardinality(found)
  <2>1. CASE guard = Nil
    <3>1. \A c \in channels : DOMAIN results[c] \subseteq found
      BY <2>1
    <3>2. SUFFICES ASSUME \A c \in channels : DOMAIN results[c] = Found(c, visible)
                   PROVE Sure(FoundByAny) \subseteq found
      BY <1>5, <3>1
    <3>3. QED
      BY <2>1, <3>2 DEF FoundByAny, Sure
  <2>2. CASE guard # Nil
    <3>1. Found(Primary, visible) \subseteq guard
      BY <2>2, MatchesAreGuarded
    <3>2. DOMAIN results[Primary] \subseteq found
      BY <1>2, <1>3, <3>1
    <3>3. SUFFICES ASSUME DOMAIN results[Primary] = Found(Primary, visible)
                   PROVE Sure(FoundByAny) \subseteq found
      BY <1>2, <1>5, <3>2
    <3>4. QED
      BY <2>2, <3>2, <3>3 DEF Sure
  <2>3. QED
    BY <2>1, <2>2
<1>7. ASSUME NEW p, NEW c \in channels
      PROVE terms(p)[c] = Term(results[c], p, 1) /\ terms(p)[c] \in Nat
  <2>1. 1 \in Nat \ {0}
    OBVIOUS
  <2>2. QED
    BY <1>3, <2>1, TermIs
<1>8. ASSUME NEW p PROVE terms(p) \in [channels -> Nat] /\ rrf(p) \in Nat
  <2>1. DOMAIN terms(p) = channels /\ terms(p) \in [channels -> Nat]
    BY <1>7
  <2> HIDE DEF terms
  <2>2. QED
    BY <1>2, <2>1, SumsCompare
<1>9. ASSUME NEW p PROVE RankOr(results[Primary], p, 1000000) \in Int /\ best(p) \in Int
  <2>1. \A c \in channels : RankOr(results[c], p, 1000000) \in Nat
    BY <1>3 DEF RankOr
  <2>2. {RankOr(results[c], p, 1000000) : c \in channels} \in SUBSET Nat
    BY <2>1
  <2>3. {RankOr(results[c], p, 1000000) : c \in channels} # {}
    BY <1>2
  <2>4. best(p) \in Nat
    BY <2>2, <2>3, MinIs
  <2>5. QED
    BY <1>2, <2>1, <2>4
<1> HIDE DEF terms, rrf, best, found
<1>10. ASSUME NEW p \in found
       PROVE key[p] \in [1..5 -> Int] /\ key[p][1] = -rrf(p) /\ key[p][5] = Path[p]
  <2>1. /\ -rrf(p) \in Int /\ RankOr(results[Primary], p, 1000000) \in Int /\ best(p) \in Int
        /\ RoleRank(p) \in Int /\ Path[p] \in Int
    BY <1>4, <1>8, <1>9, Pages
  <2>2. key[p] = <<-rrf(p), RankOr(results[Primary], p, 1000000), best(p), RoleRank(p), Path[p]>>
    OBVIOUS
  <2>3. QED
    BY <2>1, <2>2, Tuples
<1> HIDE DEF key
<1>11. KeysOf(found, key)
  <2>1. \A p \in found : key[p] \in [1..5 -> Int] /\ key[p][5] = Path[p] /\ p \in Corpus
    BY <1>4, <1>10
  <2>2. \A p, q \in found : key[p] = key[q] => p = q
    BY <2>1, Pages
  <2>3. QED
    BY <2>1, <2>2 DEF KeysOf
<1>12. /\ Cut(Fused(boost), limit, found)
       /\ \A q \in DOMAIN Fused(boost), p \in found :
             Less(key[p], key[q]) => First(Fused(boost), p, q)
  BY <1>1, <1>2, <1>4, <1>11, TopRanked
<1>13. Filled(Fused(boost), limit, FoundByAny, Sure(FoundByAny))
  BY <1>2, <1>4, <1>6, <1>12, CutFills
<1>14. ASSUME NEW q \in DOMAIN Fused(boost), NEW p \in FoundByAny, MateriallyBetter(p, q)
       PROVE First(Fused(boost), p, q)
  <2>1. q \in found
    BY <1>12 DEF Cut
  <2>2. ASSUME NEW c \in channels, q \in DOMAIN results[c]
        PROVE p \in DOMAIN results[c] /\ terms(q)[c] < terms(p)[c]
    <3>1. text[c] = "words" /\ q \in Found(c, visible)
      BY <1>3, <1>14, <2>2 DEF MateriallyBetter
    <3>2. score[c][q] > 0 /\ score[c][p] > score[c][q] + TieBand
      BY <1>14, <3>1 DEF MateriallyBetter, Found
    <3>3. p \in visible \ seen /\ p \in Corpus /\ q \in Corpus
      BY <1>2, <3>1 DEF FoundByAny, Found
    <3>4. score[c][p] \in Nat /\ score[c][q] \in Nat
      BY <3>3, Pages DEF SearchTypes
    <3>5. score[c][p] > 0
      BY <1>2, <3>2, <3>4
    <3>6. p \in Found(c, visible) /\ Ahead(c, boost, p, q)
      BY <3>1, <3>2, <3>3, <3>5 DEF Found, Ahead
    <3>7. First(results[c], p, q)
      BY <1>3, <2>2, <3>6
    <3>8. 1 \in Nat \ {0}
      OBVIOUS
    <3>9. Term(results[c], p, 1) > Term(results[c], q, 1)
      BY <1>3, <2>2, <3>7, <3>8, TermIs
    <3>10. QED
      BY <1>7, <3>7, <3>9 DEF First
  <2>3. ASSUME NEW c \in channels PROVE terms(q)[c] <= terms(p)[c]
    <3>1. CASE q \in DOMAIN results[c]
      BY <1>7, <2>2, <3>1
    <3>2. CASE q \notin DOMAIN results[c]
      <4>1. 1 \in Nat \ {0}
        OBVIOUS
      <4>2. Term(results[c], q, 1) = 0
        BY <1>3, <3>2, <4>1, TermIs
      <4>3. QED
        BY <1>7, <4>2
    <3>3. QED
      BY <3>1, <3>2
  <2>4. PICK c \in channels : q \in DOMAIN results[c]
    BY <2>1 DEF found
  <2>5. p \in found
    BY <2>2, <2>4 DEF found, FoundByAny
  <2>6. rrf(q) < rrf(p)
    <3>1. /\ DOMAIN terms(p) = channels /\ DOMAIN terms(q) = channels
          /\ terms(p) \in [channels -> Nat] /\ terms(q) \in [channels -> Nat]
      BY <1>8
    <3>2. \E x \in channels : terms(q)[x] < terms(p)[x]
      BY <2>2, <2>4
    <3>3. SumFunction(terms(q)) < SumFunction(terms(p))
      BY <1>2, <2>3, <3>1, <3>2, SumsCompare
    <3>4. QED
      BY <3>3 DEF rrf
  <2>7. key[p][1] < key[q][1] /\ key[p] \in [1..5 -> Int] /\ key[q] \in [1..5 -> Int]
    <3>1. rrf(p) \in Nat /\ rrf(q) \in Nat
      BY <1>8
    <3>2. key[p][1] = -rrf(p) /\ key[q][1] = -rrf(q)
      BY <1>10, <2>1, <2>5
    <3>3. QED
      BY <1>10, <2>1, <2>5, <2>6, <3>1, <3>2
  <2>8. Less(key[p], key[q])
    BY <2>7, KeysDecide
  <2>9. QED
    BY <1>12, <1>14, <2>5, <2>8
<1>15. QED
  BY <1>13, <1>14

-----------------------------------------------------------------------------
(* vector.py *)

\* The greater of two numbers
LEMMA MaxOfTwo ==
    ASSUME NEW a \in Nat, NEW b \in Nat
    PROVE Max({a, b}) = IF a <= b THEN b ELSE a
<1>1. \E x \in {a, b} : \A y \in {a, b} : x >= y
  OBVIOUS
<1>2. Max({a, b}) \in {a, b} /\ \A y \in {a, b} : Max({a, b}) >= y
  BY <1>1 DEF Max
<1>3. QED
  BY <1>2

\* The candidates are all pages, or at least HYBRID_CANDIDATE_DEPTH_MIN.
LEMMA DepthIs ==
    ASSUME SearchTypes
    PROVE /\ CandidateDepth \in Nat
          /\ Cardinality(visible) <= CandidateDepth \/ DepthMin <= CandidateDepth
<1>1. {DepthMin, DepthMultiplier, DepthCap} \subseteq Nat /\ DepthMin <= DepthCap
  BY RetrievalAssumption
<1>2. Cardinality(visible) \in Nat /\ limit \in Nat
  BY FinitePages DEF SearchTypes
<1> DEFINE a == DepthMultiplier * limit
           b == Max({DepthMin, a})
           c == Min({DepthCap, b})
           d == Max({limit, c})
<1>3. a \in Nat
  BY <1>1, <1>2
<1> HIDE DEF a
<1>4. b \in Nat /\ DepthMin <= b
  BY <1>1, <1>3, MaxOfTwo
<1> HIDE DEF b
<1>5. c \in Nat /\ DepthMin <= c
  BY <1>1, <1>4, MinOfTwo
<1> HIDE DEF c
<1>6. d \in Nat /\ DepthMin <= d
  BY <1>1, <1>2, <1>5, MaxOfTwo
<1> HIDE DEF d
<1>7. CandidateDepth = Min({Cardinality(visible), d})
  BY DEF CandidateDepth, a, b, c, d
<1>8. QED
  BY <1>1, <1>2, <1>6, <1>7, MinOfTwo

\* The seeds are orientation pages that match the query or are near to it.
LEMMA SeedsAre ==
    ASSUME SearchTypes
    PROVE /\ Ranking(Seeds)
          /\ DOMAIN Seeds \in SUBSET
                (Found(Primary, visible \cap Hubs) \cup Sensed(visible \cap Hubs))
<1> DEFINE hubs == visible \cap Hubs
           lexical == Search(Primary, hubs, NoBoost, OrientationLimit)
           vector == VectorSearch(hubs, OrientationLimit)
           last == OrientationLimit + 1
           near == DOMAIN lexical \cup DOMAIN vector
           key == [p \in near |->
                      <<Min({RankOr(lexical, p, last), RankOr(vector, p, last)}),
                        RankOr(lexical, p, last), RankOr(vector, p, last), RoleRank(p), Path[p]>>]
<1>1. Seeds = Top(Ranked(near, key), SeedLimit)
  BY DEF Seeds
<1>2. /\ hubs \in SUBSET Corpus /\ OrientationLimit \in Nat /\ SeedLimit \in Nat
      /\ Primary \in channels /\ NoBoost \in [Corpus -> Nat]
  BY ChannelsAre, Pages DEF SearchTypes, NoBoost
<1>3. /\ Cut(lexical, OrientationLimit, Found(Primary, hubs))
      /\ Cut(vector, OrientationLimit, Sensed(hubs))
      /\ Found(Primary, hubs) \in SUBSET Corpus /\ Sensed(hubs) \in SUBSET Corpus
  BY <1>2, SearchIs, VectorSearchIs DEF Found, Sensed
<1> HIDE DEF lexical, vector, hubs
<1>4. /\ DOMAIN lexical \in SUBSET Found(Primary, hubs) /\ DOMAIN vector \in SUBSET Sensed(hubs)
      /\ \A p \in DOMAIN lexical : lexical[p] \in Nat
      /\ \A p \in DOMAIN vector : vector[p] \in Nat
  BY <1>2, <1>3, CutIs
<1>5. near \in SUBSET Corpus
  BY <1>3, <1>4
<1>6. ASSUME NEW p \in near PROVE key[p] \in [1..5 -> Int] /\ key[p][5] = Path[p]
  <2>1. last \in Nat
    BY <1>2
  <2>2. RankOr(lexical, p, last) \in Nat /\ RankOr(vector, p, last) \in Nat
    BY <1>4, <2>1 DEF RankOr
  <2>3. Min({RankOr(lexical, p, last), RankOr(vector, p, last)}) \in Nat
    BY <2>2, MinOfTwo
  <2>4. RoleRank(p) \in Int /\ Path[p] \in Int
    BY <1>5, Pages
  <2>5. key[p] = <<Min({RankOr(lexical, p, last), RankOr(vector, p, last)}),
                   RankOr(lexical, p, last), RankOr(vector, p, last), RoleRank(p), Path[p]>>
    OBVIOUS
  <2>6. QED
    BY <2>2, <2>3, <2>4, <2>5, Tuples
<1> HIDE DEF key, near
<1>7. KeysOf(near, key)
  <2>1. \A p, q \in near : key[p] = key[q] => p = q
    BY <1>5, <1>6, Pages
  <2>2. QED
    BY <1>6, <2>1 DEF KeysOf
<1>8. Cut(Seeds, SeedLimit, near)
  BY <1>1, <1>2, <1>5, <1>7, TopRanked
<1>9. Ranking(Seeds) /\ DOMAIN Seeds \in SUBSET near
  BY <1>2, <1>5, <1>8, CutIs
<1>10. QED
  BY <1>4, <1>9 DEF near, hubs

\* The related pages are near the query; one that every orientation page relates to that
\* relates to another, and that is nearer, is among them.
LEMMA RelatedIs ==
    ASSUME SearchTypes
    PROVE /\ DOMAIN Related \in SUBSET {p \in visible \ seen : sim[p] > 0}
          /\ text[Primary] = "none" => DOMAIN Related = {}
          /\ \A q \in DOMAIN Related, p \in (visible \ seen) \ Hubs :
                /\ sim[p] > sim[q] /\ \A h \in Hubs : q \in links[h] => p \in links[h]
                => p \in DOMAIN Related
<1>1. CASE text[Primary] = "none"
  BY <1>1 DEF Related, NoPage
<1>2. CASE text[Primary] # "none"
  <2> DEFINE pool(seed) == {p \in (links[seed] \cap visible) \ (Excluded \cup {seed}) : sim[p] > 0}
             list(seed) == Top(Ranked(pool(seed), VectorKey), PerSeedLimit)
             capped(seed) == DOMAIN list(seed)
             all == UNION {capped(seed) : seed \in DOMAIN Seeds}
  <2>1. Related = Top(Ranked(all, VectorKey), RelatedLimit)
    BY <1>2 DEF Related
  <2>2. visible \in SUBSET Corpus /\ PerSeedLimit \in Nat /\ RelatedLimit \in Nat
    BY Pages DEF SearchTypes
  <2>3. ASSUME NEW seed
        PROVE /\ pool(seed) \in SUBSET {p \in visible \ seen : sim[p] > 0}
              /\ pool(seed) \in SUBSET Corpus
              /\ capped(seed) \in SUBSET pool(seed)
              /\ \A q \in capped(seed), p \in pool(seed) : sim[p] > sim[q] => p \in capped(seed)
    <3>1. pool(seed) \in SUBSET {p \in visible \ seen : sim[p] > 0}
      BY DEF Excluded
    <3>2. pool(seed) \in SUBSET Corpus
      BY <2>2, <3>1
    <3> HIDE DEF pool
    <3>3. /\ Cut(list(seed), PerSeedLimit, pool(seed))
          /\ \A q \in DOMAIN list(seed), p \in pool(seed) :
                sim[p] > sim[q] => First(list(seed), p, q)
      BY <2>2, <3>2, VectorsAre
    <3> HIDE DEF list
    <3>4. QED
      BY <3>1, <3>2, <3>3 DEF Cut, First
  <2>4. all \in SUBSET {p \in visible \ seen : sim[p] > 0} /\ all \in SUBSET Corpus
    BY <2>2, <2>3
  <2>5. /\ Cut(Related, RelatedLimit, all)
        /\ \A q \in DOMAIN Related, p \in all : sim[p] > sim[q] => First(Related, p, q)
    BY <2>1, <2>2, <2>4, VectorsAre
  <2>6. DOMAIN Related \in SUBSET all
    BY <2>5 DEF Cut
  <2>7. ASSUME NEW q \in DOMAIN Related, NEW p \in (visible \ seen) \ Hubs, sim[p] > sim[q],
               \A h \in Hubs : q \in links[h] => p \in links[h]
        PROVE p \in DOMAIN Related
    <3>1. PICK seed \in DOMAIN Seeds : q \in capped(seed)
      BY <2>6
    <3>2. seed \in Hubs
      <4>1. seed \in Found(Primary, visible \cap Hubs) \cup Sensed(visible \cap Hubs)
        BY SeedsAre
      <4>2. QED
        BY <4>1 DEF Found, Sensed
    <3>3. q \in pool(seed)
      BY <2>3, <3>1
    <3>4. p \in links[seed] /\ p # seed
      BY <2>7, <3>2, <3>3
    <3>5. sim[p] > 0
      <4>1. p \in Corpus /\ q \in Corpus /\ sim[q] > 0
        BY <2>2, <3>3
      <4>2. sim[p] \in Nat /\ sim[q] \in Nat
        BY <4>1, Pages DEF SearchTypes
      <4>3. QED
        BY <2>7, <4>1, <4>2
    <3>6. p \in pool(seed)
      BY <3>4, <3>5 DEF Excluded
    <3>7. p \in all
      BY <2>3, <2>7, <3>1, <3>6
    <3>8. QED
      BY <2>5, <2>7, <3>7 DEF First
  <2>8. QED
    BY <1>2, <2>4, <2>6, <2>7
<1>3. QED
  BY <1>1, <1>2

\* Related pages are ranked by similarity
LEMMA RelatedRanksAre ==
    ASSUME SearchTypes, NEW lexical, Ranking(lexical)
    PROVE /\ Ranking(RelatedRanks(lexical))
          /\ DOMAIN RelatedRanks(lexical) = DOMAIN Related \cap AllowedPages
          /\ \A p, q \in DOMAIN Related \cap AllowedPages :
                sim[p] > sim[q] => First(RelatedRanks(lexical), p, q)
<1> DEFINE floor == Cardinality(DOMAIN lexical) + RRF_K + 1
           near == DOMAIN Related \cap AllowedPages
           key == [p \in near |-> <<-sim[p], RankOr(lexical, p, floor), RoleRank(p), Path[p]>>]
<1>1. RelatedRanks(lexical) = Ranked(near, key)
  BY DEF RelatedRanks
<1>2. near \in SUBSET Corpus
  BY RelatedIs DEF SearchTypes
<1>3. floor \in Nat /\ \A p \in DOMAIN lexical : lexical[p] \in Nat
  BY RanksAreTaken DEF Ranking, RRF_K
<1>4. \A p : RankOr(lexical, p, floor) \in Int
  BY <1>3 DEF RankOr
<1> HIDE DEF floor, near
<1>5. ASSUME NEW p \in near
      PROVE /\ key[p] \in [1..4 -> Int] /\ key[p][1] = -sim[p] /\ key[p][4] = Path[p]
            /\ sim[p] \in Nat
  <2>1. sim[p] \in Nat
    BY <1>2, Pages DEF SearchTypes
  <2>2. -sim[p] \in Int /\ RoleRank(p) \in Int /\ Path[p] \in Int
    BY <1>2, <2>1, Pages
  <2>3. key[p] = <<-sim[p], RankOr(lexical, p, floor), RoleRank(p), Path[p]>>
    OBVIOUS
  <2>4. QED
    BY <1>4, <2>1, <2>2, <2>3, Tuples
<1> HIDE DEF key
<1>6. KeysOf(near, key)
  <2>1. \A p, q \in near : key[p] = key[q] => p = q
    BY <1>2, <1>5, Pages
  <2>2. QED
    BY <1>5, <2>1 DEF KeysOf
<1>7. /\ DOMAIN Ranked(near, key) = near /\ Ranking(Ranked(near, key))
      /\ \A p, q \in near : Ranked(near, key)[p] < Ranked(near, key)[q] <=> Less(key[p], key[q])
  BY <1>2, <1>6, FinitePages, RankedIs
<1>8. ASSUME NEW p \in near, NEW q \in near, sim[p] > sim[q] PROVE Less(key[p], key[q])
  <2>1. key[p][1] < key[q][1] /\ key[p] \in [1..4 -> Int] /\ key[q] \in [1..4 -> Int]
    BY <1>5, <1>8
  <2>2. QED
    BY <2>1, KeysDecide
<1>9. QED
  BY <1>1, <1>7, <1>8 DEF First, near

\* The term of a page is not less than that of a page it is always before.
LEMMA TermsCompare ==
    ASSUME NEW r, Ranking(r), DOMAIN r \subseteq Corpus, NEW weight \in Nat \ {0}, NEW p, NEW q,
           q \in DOMAIN r => First(r, p, q)
    PROVE /\ Term(r, p, weight) \in Nat /\ Term(r, q, weight) \in Nat
          /\ Term(r, q, weight) <= Term(r, p, weight)
          /\ q \in DOMAIN r => Term(r, q, weight) < Term(r, p, weight)
<1>1. Term(r, p, weight) \in Nat /\ Term(r, q, weight) \in Nat
  BY TermIs
<1>2. CASE q \in DOMAIN r
  <2>1. Term(r, p, weight) > Term(r, q, weight)
    BY <1>2, TermIs
  <2>2. QED
    BY <1>1, <2>1
<1>3. CASE q \notin DOMAIN r
  <2>1. Term(r, q, weight) = 0
    BY <1>3, TermIs
  <2>2. QED
    BY <1>1, <1>3, <2>1
<1>4. QED
  BY <1>2, <1>3

\* A list of candidates that leaves pages out has an answer left when its orientation pages
\* are suppressed.
LEMMA RoomIs ==
    ASSUME SearchTypes, Room, NEW r, NEW C \in SUBSET visible, Cut(r, CandidateDepth, C),
           DOMAIN r # C
    PROVE limit <= Cardinality((DOMAIN r) \ Suppressed)
<1>1. visible \in SUBSET Corpus /\ limit \in Nat /\ Suppressed \in SUBSET Corpus
  BY DEF SearchTypes, Suppressed
<1>2. CandidateDepth \in Nat /\ (Cardinality(visible) <= CandidateDepth \/ DepthMin <= CandidateDepth)
  BY DepthIs
<1>3. C \in SUBSET Corpus /\ IsFiniteSet(C) /\ Cardinality(C) \in Nat
  BY <1>1, FinitePages
<1>4. Cardinality(C) <= Cardinality(visible) /\ Cardinality(visible) \in Nat
  BY <1>1, FinitePages, FS_Subset
<1>5. ~(Cardinality(C) <= CandidateDepth) /\ Cardinality(DOMAIN r) = CandidateDepth
  BY <1>2, <1>3 DEF Cut
<1>6. DepthMin <= CandidateDepth
  BY <1>2, <1>3, <1>4, <1>5
<1>7. IsFiniteSet(DOMAIN r) /\ IsFiniteSet(Suppressed) /\ Cardinality(Suppressed) \in Nat
  BY <1>1, <1>2, <1>3, CutIs, FinitePages
<1>8. /\ IsFiniteSet((DOMAIN r) \ Suppressed)
      /\ Cardinality((DOMAIN r) \ Suppressed) =
            Cardinality(DOMAIN r) - Cardinality(DOMAIN r \cap Suppressed)
  BY <1>7, FS_Difference
<1>9. /\ Cardinality(DOMAIN r \cap Suppressed) <= Cardinality(Suppressed)
      /\ Cardinality(DOMAIN r \cap Suppressed) \in Nat
  BY <1>7, FS_Intersection, FS_CardinalityType
<1>10. DepthMin \in Nat /\ Cardinality(Suppressed) + limit <= DepthMin
  BY RetrievalAssumption DEF Room
<1> DEFINE d == CandidateDepth
           s == Cardinality(Suppressed)
           t == Cardinality(DOMAIN r \cap Suppressed)
           m == DepthMin
<1>11. d \in Nat /\ s \in Nat /\ t \in Nat /\ t <= s /\ m <= d /\ s + limit <= m /\ m \in Nat
  BY <1>2, <1>6, <1>7, <1>9, <1>10
<1> HIDE DEF d, s, t, m
<1>12. limit <= d - t
  BY <1>1, <1>11
<1>13. Cardinality((DOMAIN r) \ Suppressed) = d - t
  BY <1>5, <1>8 DEF d, t
<1>14. QED
  BY <1>12, <1>13

\* What the lexical and the vector channel find together, of what may be answered
FoundByBoth == (Found(Primary, visible) \cup Sensed(visible)) \cap AllowedPages

\* p is better than q in every list that q is in.
BetterInAll(p, q) ==
    /\ text[Primary] = "words" /\ p \notin Hubs /\ q \notin Hubs
    /\ score[Primary][q] > 0 => score[Primary][p] > score[Primary][q]
    /\ sim[q] > 0 => sim[p] > sim[q]
    /\ \A h \in Hubs : q \in links[h] => p \in links[h]

\* A page that is better in all comes before the other in every list.
LEMMA BetterInLists ==
    ASSUME SearchTypes, NEW p \in FoundByBoth, NEW q, BetterInAll(p, q)
    PROVE /\ LET lexical == Among(Search(Primary, visible, NoBoost, CandidateDepth), AllowedPages)
             IN  q \in DOMAIN lexical => First(lexical, p, q)
          /\ LET global == Among(VectorSearch(visible, CandidateDepth), AllowedPages)
             IN  q \in DOMAIN global => First(global, p, q)
          /\ \A lexical : Ranking(lexical) /\ q \in DOMAIN RelatedRanks(lexical) =>
                First(RelatedRanks(lexical), p, q)
          /\ q \notin DOMAIN Among(Seeds, AllowedPages)
<1> DEFINE search == Search(Primary, visible, NoBoost, CandidateDepth)
           lexical == Among(search, AllowedPages)
           vectors == VectorSearch(visible, CandidateDepth)
           global == Among(vectors, AllowedPages)
<1>1. /\ visible \in SUBSET Corpus /\ CandidateDepth \in Nat /\ Primary \in channels
      /\ NoBoost \in [Corpus -> Nat] /\ MaxScore \in Nat
  BY ChannelsAre, DepthIs, Pages DEF SearchTypes, NoBoost
<1>2. /\ Cut(search, CandidateDepth, Found(Primary, visible))
      /\ \A y \in DOMAIN search, x \in Found(Primary, visible) :
            Ahead(Primary, NoBoost, x, y) => First(search, x, y)
  BY <1>1, SearchIs
<1>3. /\ Cut(vectors, CandidateDepth, Sensed(visible))
      /\ text[Primary] # "none" =>
            \A y \in DOMAIN vectors, x \in Sensed(visible) :
                sim[x] > sim[y] => First(vectors, x, y)
  BY <1>1, VectorSearchIs
<1> HIDE DEF search, vectors
<1>4. p \in visible \ seen /\ p \in AllowedPages /\ p \in Corpus
  BY <1>1 DEF FoundByBoth, Found, Sensed
<1>5. \A x \in Corpus : score[Primary][x] \in Nat /\ sim[x] \in Nat
  BY <1>1 DEF SearchTypes
<1>6. ASSUME q \in DOMAIN lexical PROVE First(lexical, p, q)
  <2>1. Ranking(search) /\ DOMAIN lexical = DOMAIN search \cap AllowedPages
    BY <1>2, AmongIs DEF Cut
  <2>2. q \in Found(Primary, visible) /\ q \in DOMAIN search /\ q \in AllowedPages
    BY <1>2, <1>6, <2>1 DEF Cut
  <2>3. score[Primary][q] > 0 /\ score[Primary][p] > score[Primary][q] /\ q \in Corpus
    BY <1>1, <2>2 DEF Found, BetterInAll
  <2>4. score[Primary][p] > 0
    BY <1>4, <1>5, <2>3
  <2>5. p \in Found(Primary, visible) /\ Ahead(Primary, NoBoost, p, q)
    BY <1>4, <2>3, <2>4 DEF Found, Ahead, BetterInAll
  <2>6. p \in DOMAIN search /\ search[p] < search[q]
    BY <1>2, <2>2, <2>5 DEF First
  <2>7. QED
    BY <1>4, <2>1, <2>2, <2>6, AmongIs DEF First
<1>7. ASSUME q \in DOMAIN global PROVE First(global, p, q)
  <2>1. Ranking(vectors) /\ DOMAIN global = DOMAIN vectors \cap AllowedPages
    BY <1>3, AmongIs DEF Cut
  <2>2. q \in Sensed(visible) /\ q \in DOMAIN vectors /\ q \in AllowedPages
    BY <1>3, <1>7, <2>1 DEF Cut
  <2>3. text[Primary] # "none" /\ sim[q] > 0 /\ sim[p] > sim[q] /\ q \in Corpus
    BY <1>1, <2>2 DEF Sensed, BetterInAll
  <2>4. sim[p] > 0
    BY <1>4, <1>5, <2>3
  <2>5. p \in Sensed(visible)
    BY <1>4, <2>4 DEF Sensed
  <2>6. p \in DOMAIN vectors /\ vectors[p] < vectors[q]
    BY <1>3, <2>2, <2>3, <2>5 DEF First
  <2>7. QED
    BY <1>4, <2>1, <2>2, <2>6, AmongIs DEF First
<1>8. ASSUME NEW l, Ranking(l), q \in DOMAIN RelatedRanks(l) PROVE First(RelatedRanks(l), p, q)
  <2>1. q \in DOMAIN Related /\ q \in AllowedPages
    BY <1>8, RelatedRanksAre
  <2>2. sim[q] > 0
    BY <2>1, RelatedIs
  <2>3. sim[p] > sim[q] /\ p \in (visible \ seen) \ Hubs
    BY <1>4, <2>2 DEF BetterInAll
  <2>4. p \in DOMAIN Related
    BY <2>1, <2>3, RelatedIs DEF BetterInAll
  <2>5. QED
    BY <1>4, <1>8, <2>1, <2>3, <2>4, RelatedRanksAre
<1>9. q \notin DOMAIN Among(Seeds, AllowedPages)
  <2>1. Ranking(Seeds) /\ \A x \in DOMAIN Seeds : x \in Hubs
    BY SeedsAre DEF Found, Sensed
  <2>2. DOMAIN Among(Seeds, AllowedPages) = DOMAIN Seeds \cap AllowedPages
    BY <2>1, AmongIs
  <2>3. QED
    BY <2>1, <2>2 DEF BetterInAll
<1>10. QED
  BY <1>6, <1>7, <1>8, <1>9 DEF search, vectors

\* The hybrid search is a cut of what words and sense found, if its depth has room, and keeps
\* what both agree on
LEMMA HybridIs ==
    ASSUME SearchTypes
    PROVE /\ DOMAIN Hybrid \in SUBSET FoundByBoth
          /\ Room => Filled(Hybrid, limit, FoundByBoth, Sure(FoundByBoth))
          /\ \A q \in DOMAIN Hybrid, p \in FoundByBoth :
                BetterInAll(p, q) => First(Hybrid, p, q)
<1> DEFINE search == Search(Primary, visible, NoBoost, CandidateDepth)
           lexical == Among(search, AllowedPages)
           vectors == VectorSearch(visible, CandidateDepth)
           global == Among(vectors, AllowedPages)
           related == RelatedRanks(lexical)
           seeds == Among(Seeds, AllowedPages)
           rrf == IF DOMAIN Related = {} THEN PlainScore(lexical, global)
                  ELSE SeededScore(lexical, global, related, seeds)
           exact(p) == IF guard # Nil /\ p \in DOMAIN lexical THEN 0 ELSE 1
           key == [p \in DOMAIN rrf |-> <<-rrf[p], exact(p), RoleRank(p), Path[p]>>]
<1>1. Hybrid = Top(Ranked(DOMAIN rrf, key), limit)
  BY DEF Hybrid
<1>2. /\ visible \in SUBSET Corpus /\ CandidateDepth \in Nat /\ Primary \in channels
      /\ NoBoost \in [Corpus -> Nat] /\ limit \in Nat
      /\ Found(Primary, visible) \in SUBSET visible /\ Sensed(visible) \in SUBSET visible
  BY ChannelsAre, DepthIs DEF SearchTypes, NoBoost, Found, Sensed
<1>3. /\ Cut(search, CandidateDepth, Found(Primary, visible))
      /\ Cut(vectors, CandidateDepth, Sensed(visible))
  BY <1>2, SearchIs, VectorSearchIs
<1>4. /\ Ranking(lexical) /\ DOMAIN lexical = DOMAIN search \cap AllowedPages
      /\ Ranking(global) /\ DOMAIN global = DOMAIN vectors \cap AllowedPages
      /\ Ranking(related) /\ DOMAIN related = DOMAIN Related \cap AllowedPages
      /\ Ranking(seeds) /\ DOMAIN seeds = DOMAIN Seeds \cap AllowedPages
  <2>1. Ranking(search) /\ Ranking(vectors) /\ Ranking(Seeds)
    BY <1>3, SeedsAre DEF Cut
  <2> HIDE DEF search, vectors
  <2>2. /\ Ranking(lexical) /\ DOMAIN lexical = DOMAIN search \cap AllowedPages
        /\ Ranking(global) /\ DOMAIN global = DOMAIN vectors \cap AllowedPages
        /\ Ranking(seeds) /\ DOMAIN seeds = DOMAIN Seeds \cap AllowedPages
    BY <2>1, AmongIs
  <2> HIDE DEF lexical
  <2>3. QED
    BY <2>2, RelatedRanksAre
<1>5. ASSUME NEW p \in FoundByBoth, NEW q, BetterInAll(p, q)
      PROVE /\ q \in DOMAIN lexical => First(lexical, p, q)
            /\ q \in DOMAIN global => First(global, p, q)
            /\ q \in DOMAIN related => First(related, p, q)
            /\ q \notin DOMAIN seeds
  BY <1>4, <1>5, BetterInLists
<1> HIDE DEF search, lexical, vectors, global, related, seeds
<1>6. /\ DOMAIN lexical \in SUBSET FoundByBoth /\ DOMAIN global \in SUBSET FoundByBoth
      /\ DOMAIN related \in SUBSET FoundByBoth /\ DOMAIN seeds \in SUBSET FoundByBoth
  <2>1. DOMAIN search \in SUBSET Found(Primary, visible) /\ DOMAIN vectors \in SUBSET Sensed(visible)
    BY <1>3 DEF Cut
  <2>2. DOMAIN Related \in SUBSET Sensed(visible)
    BY RelatedIs DEF Sensed
  <2>3. DOMAIN Seeds \in SUBSET (Found(Primary, visible) \cup Sensed(visible))
    BY SeedsAre DEF Found, Sensed
  <2>4. QED
    BY <1>4, <2>1, <2>2, <2>3 DEF FoundByBoth
<1>7. FoundByBoth \in SUBSET Corpus
  BY <1>2 DEF FoundByBoth
<1>8. \A weight \in {20, 15, 7, 5} : weight \in Nat \ {0}
  OBVIOUS
<1>9. ASSUME NEW p, NEW weight \in {20, 15, 7, 5}
      PROVE /\ Term(lexical, p, weight) \in Nat /\ Term(global, p, weight) \in Nat
            /\ Term(related, p, weight) \in Nat /\ Term(seeds, p, weight) \in Nat
  BY <1>4, <1>6, <1>7, <1>8, TermIs
<1>10. /\ DOMAIN rrf = IF DOMAIN Related = {} THEN DOMAIN lexical \cup DOMAIN global
                       ELSE UNION {DOMAIN lexical, DOMAIN global, DOMAIN related, DOMAIN seeds}
       /\ \A p \in DOMAIN rrf : rrf[p] =
            IF DOMAIN Related = {} THEN Term(lexical, p, 20) + Term(global, p, 20)
            ELSE Term(lexical, p, 20) + Term(related, p, 20) + Term(global, p, 15)
                 + Term(seeds, p, 7) + Term(related, p, 5)
  BY DEF PlainScore, SeededScore
<1> HIDE DEF rrf
<1>11. DOMAIN rrf \in SUBSET FoundByBoth /\ DOMAIN lexical \cup DOMAIN global \subseteq DOMAIN rrf
  BY <1>6, <1>10
<1>12. ASSUME NEW p \in DOMAIN rrf PROVE rrf[p] \in Nat
  <2>1. /\ Term(lexical, p, 20) \in Nat /\ Term(global, p, 20) \in Nat
        /\ Term(related, p, 20) \in Nat /\ Term(global, p, 15) \in Nat
        /\ Term(seeds, p, 7) \in Nat /\ Term(related, p, 5) \in Nat
    BY <1>9
  <2> DEFINE a == Term(lexical, p, 20)
             b == Term(global, p, 20)
             c == Term(related, p, 20)
             d == Term(global, p, 15)
             e == Term(seeds, p, 7)
             f == Term(related, p, 5)
  <2>2. rrf[p] = IF DOMAIN Related = {} THEN a + b ELSE a + c + d + e + f
    BY <1>10
  <2>3. a \in Nat /\ b \in Nat /\ c \in Nat /\ d \in Nat /\ e \in Nat /\ f \in Nat
    BY <2>1
  <2> HIDE DEF a, b, c, d, e, f
  <2>4. QED
    BY <2>2, <2>3
<1> HIDE DEF exact
<1>13. ASSUME NEW p \in DOMAIN rrf
       PROVE key[p] \in [1..4 -> Int] /\ key[p][1] = -rrf[p] /\ key[p][4] = Path[p]
  <2>1. exact(p) \in Int
    BY DEF exact
  <2>2. -rrf[p] \in Int /\ RoleRank(p) \in Int /\ Path[p] \in Int
    BY <1>7, <1>11, <1>12, Pages
  <2>3. key[p] = <<-rrf[p], exact(p), RoleRank(p), Path[p]>>
    OBVIOUS
  <2>4. QED
    BY <2>1, <2>2, <2>3, Tuples
<1> HIDE DEF key
<1>14. KeysOf(DOMAIN rrf, key)
  <2>1. \A p, q \in DOMAIN rrf : key[p] = key[q] => p = q
    BY <1>7, <1>11, <1>13, Pages
  <2>2. QED
    BY <1>13, <2>1 DEF KeysOf
<1>15. /\ Cut(Hybrid, limit, DOMAIN rrf)
       /\ \A q \in DOMAIN Hybrid, p \in DOMAIN rrf :
             Less(key[p], key[q]) => First(Hybrid, p, q)
  BY <1>1, <1>2, <1>7, <1>11, <1>14, TopRanked
<1>16. ASSUME Room PROVE Sure(FoundByBoth) \subseteq DOMAIN rrf \/ limit <= Cardinality(DOMAIN rrf)
  <2>1. ASSUME NEW S, S \subseteq DOMAIN rrf, limit <= Cardinality(S)
        PROVE limit <= Cardinality(DOMAIN rrf)
    <3>1. /\ IsFiniteSet(DOMAIN rrf) /\ S \in SUBSET (DOMAIN rrf)
          /\ Cardinality(DOMAIN rrf) \in Nat
      BY <1>7, <1>11, <2>1, FinitePages
    <3>2. Cardinality(S) <= Cardinality(DOMAIN rrf) /\ Cardinality(S) \in Nat
      BY <3>1, FS_Subset, FS_CardinalityType
    <3>3. QED
      BY <1>2, <2>1, <3>1, <3>2
  <2>2. ASSUME DOMAIN search # Found(Primary, visible) PROVE limit <= Cardinality(DOMAIN rrf)
    <3>1. limit <= Cardinality((DOMAIN search) \ Suppressed)
      BY <1>2, <1>3, <1>16, <2>2, RoomIs
    <3>2. DOMAIN search \in SUBSET Found(Primary, visible)
      BY <1>3 DEF Cut
    <3>3. guard # Nil => Found(Primary, visible) \in SUBSET guard
      BY MatchesAreGuarded
    <3>4. (DOMAIN search) \ Suppressed \subseteq DOMAIN lexical
      BY <1>2, <1>4, <3>2, <3>3 DEF AllowedPages
    <3>5. QED
      BY <1>11, <2>1, <3>1, <3>4
  <2>3. CASE guard = Nil
    <3>1. ASSUME DOMAIN vectors # Sensed(visible) PROVE limit <= Cardinality(DOMAIN rrf)
      <4>1. limit <= Cardinality((DOMAIN vectors) \ Suppressed)
        BY <1>2, <1>3, <1>16, <3>1, RoomIs
      <4>2. DOMAIN vectors \in SUBSET Sensed(visible)
        BY <1>3 DEF Cut
      <4>3. (DOMAIN vectors) \ Suppressed \subseteq DOMAIN global
        BY <1>2, <1>4, <2>3, <4>2 DEF AllowedPages
      <4>4. QED
        BY <1>11, <2>1, <4>1, <4>3
    <3>2. ASSUME DOMAIN search = Found(Primary, visible), DOMAIN vectors = Sensed(visible)
          PROVE Sure(FoundByBoth) \subseteq DOMAIN rrf
      BY <1>4, <1>11, <2>3, <3>2 DEF FoundByBoth, Sure
    <3>3. QED
      BY <2>2, <3>1, <3>2
  <2>4. CASE guard # Nil
    <3>1. ASSUME DOMAIN search = Found(Primary, visible) PROVE Sure(FoundByBoth) \subseteq DOMAIN rrf
      BY <1>4, <1>11, <2>4, <3>1 DEF FoundByBoth, Sure
    <3>2. QED
      BY <2>2, <3>1
  <2>5. QED
    BY <2>3, <2>4
<1>17. Room => Filled(Hybrid, limit, FoundByBoth, Sure(FoundByBoth))
  BY <1>2, <1>7, <1>11, <1>15, <1>16, CutFills
<1>18. ASSUME NEW q \in DOMAIN Hybrid, NEW p \in FoundByBoth, BetterInAll(p, q)
       PROVE First(Hybrid, p, q)
  <2>1. q \in DOMAIN rrf
    BY <1>15 DEF Cut
  <2>2. /\ q \in DOMAIN lexical => First(lexical, p, q)
        /\ q \in DOMAIN global => First(global, p, q)
        /\ q \in DOMAIN related => First(related, p, q)
        /\ q \notin DOMAIN seeds
    BY <1>5, <1>18
  <2>3. p \in DOMAIN rrf
    BY <1>10, <2>1, <2>2 DEF First
  <2>4. ASSUME NEW weight \in {20, 15, 7, 5}
        PROVE /\ Term(lexical, q, weight) <= Term(lexical, p, weight)
              /\ q \in DOMAIN lexical => Term(lexical, q, weight) < Term(lexical, p, weight)
              /\ Term(global, q, weight) <= Term(global, p, weight)
              /\ q \in DOMAIN global => Term(global, q, weight) < Term(global, p, weight)
              /\ Term(related, q, weight) <= Term(related, p, weight)
              /\ q \in DOMAIN related => Term(related, q, weight) < Term(related, p, weight)
              /\ Term(seeds, q, weight) <= Term(seeds, p, weight)
    BY <1>4, <1>6, <1>7, <1>8, <2>2, TermsCompare
  <2>5. rrf[q] < rrf[p]
    <3>1. CASE DOMAIN Related = {}
      <4>1. q \in DOMAIN lexical \/ q \in DOMAIN global
        BY <1>10, <2>1, <3>1
      <4>2. /\ Term(lexical, q, 20) <= Term(lexical, p, 20)
            /\ Term(global, q, 20) <= Term(global, p, 20)
            /\ \/ Term(lexical, q, 20) < Term(lexical, p, 20)
               \/ Term(global, q, 20) < Term(global, p, 20)
        BY <2>4, <4>1
      <4>3. /\ rrf[p] = Term(lexical, p, 20) + Term(global, p, 20)
            /\ rrf[q] = Term(lexical, q, 20) + Term(global, q, 20)
        BY <1>10, <2>1, <2>3, <3>1
      <4>4. QED
        BY <1>9, <4>2, <4>3
    <3>2. CASE DOMAIN Related # {}
      <4>1. q \in DOMAIN lexical \/ q \in DOMAIN global \/ q \in DOMAIN related
        BY <1>10, <2>1, <2>2, <3>2
      <4>2. /\ Term(lexical, q, 20) <= Term(lexical, p, 20)
            /\ Term(related, q, 20) <= Term(related, p, 20)
            /\ Term(global, q, 15) <= Term(global, p, 15)
            /\ Term(seeds, q, 7) <= Term(seeds, p, 7)
            /\ Term(related, q, 5) <= Term(related, p, 5)
            /\ \/ Term(lexical, q, 20) < Term(lexical, p, 20)
               \/ Term(global, q, 15) < Term(global, p, 15)
               \/ Term(related, q, 5) < Term(related, p, 5)
        BY <2>4, <4>1
      <4>3. \A x \in {p, q} : rrf[x] = Term(lexical, x, 20) + Term(related, x, 20)
                + Term(global, x, 15) + Term(seeds, x, 7) + Term(related, x, 5)
        BY <1>10, <2>1, <2>3, <3>2
      <4>4. QED
        BY <1>9, <4>2, <4>3
    <3>3. QED
      BY <3>1, <3>2
  <2>6. key[p][1] < key[q][1] /\ key[p] \in [1..4 -> Int] /\ key[q] \in [1..4 -> Int]
    BY <1>12, <1>13, <2>1, <2>3, <2>5
  <2>7. QED
    BY <1>15, <1>18, <2>3, <2>6, KeysDecide
<1>19. DOMAIN Hybrid \in SUBSET FoundByBoth
  BY <1>11, <1>15 DEF Cut
<1>20. QED
  BY <1>17, <1>18, <1>19

\* What a search is to find: what it is for, among the pages that are not excluded
Due ==
    CASE mode = "vector" -> Sensed(visible)
      [] mode = "hybrid" -> FoundByBoth
      [] mode = "lexical" -> FoundByAny

\* And what of it cannot be missed
SureDue == IF mode = "vector" THEN Due ELSE Sure(Due)

\* What can be returned are pages
LEMMA DueIsOfPages ==
    ASSUME SearchTypes
    PROVE Due \in SUBSET Corpus
<1>1. mode \in {"lexical", "vector", "hybrid"} /\ visible \in SUBSET Corpus
  BY DEF SearchTypes, Query
<1>2. /\ Sensed(visible) \in SUBSET Corpus /\ FoundByAny \in SUBSET Corpus
      /\ FoundByBoth \in SUBSET Corpus
  BY <1>1 DEF Sensed, Found, FoundByAny, FoundByBoth
<1>3. QED
  BY <1>1, <1>2 DEF Due

\* The answer of every kind of search, whichever lists it is made of
LEMMA AnswerIs ==
    ASSUME SearchTypes, NEW boost \in [Corpus -> Nat]
    PROVE /\ DOMAIN Answer(boost) \subseteq Due
          /\ (mode = "hybrid" => Room) => Filled(Answer(boost), limit, Due, SureDue)
          /\ \A q \in DOMAIN Answer(boost), p \in Due :
                Better(p, q) => First(Answer(boost), p, q)
<1>1. /\ mode \in {"lexical", "vector", "hybrid"} /\ visible \in SUBSET Corpus
      /\ limit \in Nat /\ Primary \in channels
  BY ChannelsAre DEF SearchTypes, Query
<1>2. CASE mode = "vector"
  <2> DEFINE r == VectorSearch(visible, limit)
  <2>1. Answer(boost) = r /\ Due = Sensed(visible)
    BY <1>2 DEF Answer, Due
  <2>2. /\ Cut(r, limit, Sensed(visible))
        /\ text[Primary] # "none" =>
              \A q \in DOMAIN r, p \in Sensed(visible) : sim[p] > sim[q] => First(r, p, q)
    BY <1>1, VectorSearchIs
  <2> HIDE DEF r
  <2>3. DOMAIN r \subseteq Sensed(visible)
    BY <2>2 DEF Cut
  <2>4. ASSUME NEW q \in DOMAIN r, NEW p \in Sensed(visible), Better(p, q)
        PROVE First(r, p, q)
    <3>1. text[Primary] # "none" /\ (sim[q] > 0 => sim[p] > sim[q])
      BY <1>2, <2>4 DEF Better
    <3>2. sim[q] > 0
      BY <2>3, <2>4, <3>1 DEF Sensed
    <3>3. QED
      BY <2>2, <2>4, <3>1, <3>2
  <2>5. Filled(r, limit, Due, SureDue)
    <3>1. Due \in SUBSET Corpus /\ SureDue = Due /\ Cut(r, limit, Due)
      BY <1>2, <2>1, <2>2, DueIsOfPages DEF SureDue
    <3>2. QED
      BY <1>1, <3>1, CutFills
  <2>6. QED
    BY <2>1, <2>3, <2>4, <2>5
<1>3. CASE mode = "hybrid"
  <2>1. Answer(boost) = Hybrid /\ Due = FoundByBoth /\ SureDue = Sure(FoundByBoth)
    BY <1>3 DEF Answer, Due, SureDue
  <2>2. /\ DOMAIN Hybrid \in SUBSET FoundByBoth
        /\ Room => Filled(Hybrid, limit, FoundByBoth, Sure(FoundByBoth))
        /\ \A q \in DOMAIN Hybrid, p \in FoundByBoth :
              BetterInAll(p, q) => First(Hybrid, p, q)
    BY HybridIs
  <2>3. ASSUME NEW p, NEW q, Better(p, q), p \in Corpus, q \in Corpus PROVE BetterInAll(p, q)
    <3>1. score[Primary][p] \in Int /\ score[Primary][q] \in Int
      BY <1>1, <2>3, Pages DEF SearchTypes
    <3>2. /\ text[Primary] = "words"
          /\ score[Primary][q] > 0 => score[Primary][p] > score[Primary][q] + 0
          /\ sim[q] > 0 => sim[p] > sim[q]
          /\ q \notin Hubs /\ p \notin Hubs
          /\ \A h \in Hubs : q \in links[h] => p \in links[h]
      BY <1>1, <1>3, <2>3 DEF Better
    <3>3. QED
      BY <3>1, <3>2 DEF BetterInAll
  <2>4. FoundByBoth \in SUBSET Corpus
    BY <2>1, DueIsOfPages
  <2>5. QED
    BY <1>3, <2>1, <2>2, <2>3, <2>4
<1>4. CASE mode = "lexical" /\ channels = {Primary}
  <2> DEFINE r == Search(Primary, visible, boost, limit)
  <2>1. Answer(boost) = r /\ Due = FoundByAny
    BY <1>4 DEF Answer, Due
  <2>2. /\ Cut(r, limit, Found(Primary, visible))
        /\ \A q \in DOMAIN r, p \in Found(Primary, visible) :
              Ahead(Primary, boost, p, q) => First(r, p, q)
    BY <1>1, SearchIs
  <2> HIDE DEF r
  <2>3. FoundByAny = Found(Primary, visible)
    <3>1. guard # Nil => \A p \in Found(Primary, visible) : p \in guard
      BY MatchesAreGuarded
    <3>2. UNION {Found(c, visible) : c \in channels} = Found(Primary, visible)
      BY <1>4
    <3>3. QED
      BY <3>1, <3>2 DEF FoundByAny
  <2>4. DOMAIN r \subseteq Found(Primary, visible)
    BY <2>2 DEF Cut
  <2>5. ASSUME NEW q \in DOMAIN r, NEW p \in Found(Primary, visible), Better(p, q)
        PROVE First(r, p, q)
    <3>1. /\ text[Primary] = "words"
          /\ score[Primary][q] > 0 => score[Primary][p] > score[Primary][q] + TieBand
      BY <1>1, <1>4, <2>5 DEF Better
    <3>2. score[Primary][q] > 0
      BY <2>4, <2>5, <3>1 DEF Found
    <3>3. Ahead(Primary, boost, p, q)
      BY <3>1, <3>2 DEF Ahead
    <3>4. QED
      BY <2>2, <2>5, <3>3
  <2>6. Filled(r, limit, Due, SureDue)
    <3>1. Due \in SUBSET Corpus /\ SureDue \subseteq Due /\ Cut(r, limit, Due)
      BY <2>1, <2>2, <2>3, DueIsOfPages DEF SureDue, Sure
    <3>2. QED
      BY <1>1, <3>1, CutFills
  <2>7. QED
    BY <2>1, <2>3, <2>4, <2>5, <2>6
<1>5. CASE mode = "lexical" /\ channels # {Primary}
  <2>1. Answer(boost) = Fused(boost) /\ Due = FoundByAny /\ SureDue = Sure(FoundByAny)
    BY <1>5 DEF Answer, Due, SureDue
  <2>2. /\ Filled(Fused(boost), limit, FoundByAny, Sure(FoundByAny))
        /\ \A q \in DOMAIN Fused(boost), p \in FoundByAny :
              MateriallyBetter(p, q) => First(Fused(boost), p, q)
    BY FusedIs
  <2>3. DOMAIN Fused(boost) \subseteq FoundByAny
    BY <2>2 DEF Filled
  <2>4. ASSUME NEW p, NEW q, Better(p, q) PROVE MateriallyBetter(p, q)
    BY <1>5, <2>4 DEF Better, MateriallyBetter
  <2>5. QED
    BY <2>1, <2>2, <2>3, <2>4
<1>6. QED
  BY <1>1, <1>2, <1>3, <1>4, <1>5

\* What a search is for does not change while it runs: it is what its answer is judged by
LEMMA WantedIsDue ==
    ASSUME SearchTypes, query' = query, visible' = visible, limit' = limit, before' = seen
    PROVE /\ Wanted' = Due /\ Assured' = SureDue
          /\ Room' <=> Room
          /\ \A p, q : Better(p, q)' <=> Better(p, q)
<1>1. /\ mode' = mode /\ channels' = channels /\ text' = text /\ score' = score /\ sim' = sim
      /\ guard' = guard /\ links' = links /\ explicit' = explicit
  BY DEF query
<1>2. mode \in {"lexical", "vector", "hybrid"}
  BY DEF SearchTypes, Query
<1>3. AllowedPages' = AllowedPages /\ Suppressed' = Suppressed
  BY <1>1 DEF AllowedPages, Suppressed
<1>4. Near' \ seen = Sensed(visible)
  BY <1>1 DEF Near, Sensed
<1>5. \A c : Matches(c)' \ seen = Found(c, visible)
  BY <1>1 DEF Matches, Found
<1>6. Wanted' = Due
  <2>1. CASE mode = "vector"
    BY <1>1, <1>4, <2>1 DEF Wanted, Due
  <2>2. CASE mode = "hybrid"
    <3>1. Wanted' = ((Matches(Primary)' \cup Near') \cap AllowedPages) \ seen
      BY <1>1, <1>3, <2>2 DEF Wanted
    <3>2. Due = (Found(Primary, visible) \cup Sensed(visible)) \cap AllowedPages
      BY <2>2 DEF Due, FoundByBoth
    <3>3. QED
      BY <1>4, <1>5, <3>1, <3>2
  <2>3. CASE mode = "lexical"
    <3>1. Wanted' = {p \in UNION {Matches(c)' : c \in channels} : guard # Nil => p \in guard} \ seen
      BY <1>1, <2>3 DEF Wanted
    <3>2. Due = {p \in UNION {Found(c, visible) : c \in channels} : guard # Nil => p \in guard}
      BY <2>3 DEF Due, FoundByAny
    <3>3. QED
      BY <1>5, <3>1, <3>2
  <2>4. QED
    BY <1>2, <2>1, <2>2, <2>3
<1>7. Room' <=> Room
  BY <1>3 DEF Room
<1>8. \A p, q : Better(p, q)' <=> Better(p, q)
  BY <1>1 DEF Better
<1>9. Assured' = SureDue
  <2>1. Wanted' \cap seen = {}
    BY <1>2, <1>1 DEF Wanted
  <2>2. Assured' = IF guard = Nil \/ mode = "vector" THEN Wanted' ELSE Wanted' \cap Matches(Primary)'
    BY <1>1 DEF Assured
  <2>3. QED
    BY <1>5, <1>6, <2>1, <2>2 DEF SureDue, Sure
<1>10. QED
  BY <1>6, <1>7, <1>8, <1>9

\* The shape of the query and of its scores stays, whatever is published
LEMMA SearchTypesHold == SearchSpec => []SearchTypes
<1>1. SearchInit => SearchTypes
  <2>1. MaxAnswers \in Nat
    BY RetrievalAssumption
  <2>2. QED
    BY <2>1 DEF SearchInit, SearchTypes
<1>2. SearchTypes /\ [SearchNext]_searchVars => SearchTypes'
  <2> SUFFICES ASSUME SearchTypes, [SearchNext]_searchVars PROVE SearchTypes'
    OBVIOUS
  <2>1. query' = query /\ limit' = limit /\ visible' \in SUBSET Corpus
    <3>1. CASE Retrieve
      BY <3>1 DEF Retrieve, SearchTypes
    <3>2. CASE PublishPages
      BY <3>2 DEF PublishPages, SearchTypes
    <3>3. CASE UNCHANGED searchVars
      BY <3>3 DEF searchVars, SearchTypes
    <3>4. QED
      BY <3>1, <3>2, <3>3 DEF SearchNext
  <2>2. /\ mode' = mode /\ channels' = channels /\ text' = text /\ score' = score /\ sim' = sim
        /\ guard' = guard /\ links' = links /\ explicit' = explicit
    BY <2>1 DEF query
  <2>3. QED
    BY <2>1, <2>2 DEF SearchTypes, Query, Guarded
<1>3. QED
  BY <1>1, <1>2, PTL DEF SearchSpec

\* A retrieval answers with what is due, and with the better pages first
LEMMA RetrieveIs ==
    ASSUME SearchTypes, Retrieve
    PROVE EverythingOnce' /\ BetterFirst'
<1>1. PICK boost \in [Corpus -> Nat] : answer' = Answer(boost)
  <2>1. NoBoost \in [Corpus -> Nat] /\ Boosts \subseteq [Corpus -> Nat]
    BY RetrievalAssumption DEF NoBoost
  <2>2. QED
    BY <2>1 DEF Retrieve
<1>2. query' = query /\ visible' = visible /\ limit' = limit /\ before' = seen
  BY DEF Retrieve
<1>3. /\ Wanted' = Due /\ Assured' = SureDue
      /\ Room' <=> Room
      /\ \A p, q : Better(p, q)' <=> Better(p, q)
  BY <1>2, WantedIsDue
<1>4. /\ DOMAIN answer' \subseteq Due
      /\ (mode = "hybrid" => Room) => Filled(answer', limit, Due, SureDue)
      /\ \A q \in DOMAIN answer', p \in Due : Better(p, q) => First(answer', p, q)
  BY <1>1, AnswerIs
<1>5. mode' = mode
  BY <1>2 DEF query
<1>6. EverythingOnce'
  BY <1>2, <1>3, <1>4, <1>5 DEF EverythingOnce, Filled
<1>7. BetterFirst'
  <2>1. \A q \in DOMAIN answer', p \in Due :
            Better(p, q) => p \in DOMAIN answer' /\ answer'[p] < answer'[q]
    BY <1>4 DEF First
  <2>2. QED
    BY <1>3, <2>1 DEF BetterFirst
<1>8. QED
  BY <1>6, <1>7

\* A client that excludes what it has had gets in every answer only pages that match, as many as
\* the limit or else all that are left and cannot be missed: in all retrieval modes, for any
\* corpus, scores, links, query variants, tie band, limits and publications (hybrid: while the
\* least candidate depth has room for the suppressed pages and an answer; a query that is an
\* identifier: of the pages it matches itself).
THEOREM PagesComeOnce == SearchSpec => []EverythingOnce
<1>1. SearchInit => EverythingOnce
  BY DEF SearchInit, EverythingOnce
<1>2. SearchTypes /\ EverythingOnce /\ [SearchNext]_searchVars => EverythingOnce'
  <2>1. CASE SearchTypes /\ Retrieve
    BY <2>1, RetrieveIs
  <2>2. CASE PublishPages
    BY <2>2 DEF PublishPages, EverythingOnce
  <2>3. CASE EverythingOnce /\ UNCHANGED searchVars
    <3>1. Wanted' = Wanted /\ Assured' = Assured
      BY <2>3 DEF searchVars, query, Wanted, Assured, Matches, Near, Suppressed, AllowedPages
    <3>2. Room' <=> Room
      BY <2>3 DEF searchVars, query, Room, Suppressed
    <3>3. before' = before /\ answer' = answer /\ mode' = mode /\ limit' = limit
      BY <2>3 DEF searchVars, query
    <3>4. QED
      BY <2>3, <3>1, <3>2, <3>3 DEF EverythingOnce
  <2>4. QED
    BY <2>1, <2>2, <2>3 DEF SearchNext
<1>3. QED
  BY <1>1, <1>2, SearchTypesHold, PTL DEF SearchSpec

\* A page that is better than another by more than a tie, in all that the search found the other
\* by, is in the answer and before it: whatever the managed boosts, the cuts of the candidates,
\* the suppressed orientation pages, the related pages and the weights of the fusion.
THEOREM BetterComeFirst == SearchSpec => []BetterFirst
<1>1. SearchInit => BetterFirst
  BY DEF SearchInit, BetterFirst
<1>2. SearchTypes /\ BetterFirst /\ [SearchNext]_searchVars => BetterFirst'
  <2>1. CASE SearchTypes /\ Retrieve
    BY <2>1, RetrieveIs
  <2>2. CASE PublishPages
    BY <2>2 DEF PublishPages, BetterFirst
  <2>3. CASE BetterFirst /\ UNCHANGED searchVars
    <3>1. Wanted' = Wanted
      BY <2>3 DEF searchVars, query, Wanted, Matches, Near, Suppressed, AllowedPages
    <3>2. \A p, q : Better(p, q)' <=> Better(p, q)
      BY <2>3 DEF searchVars, query, Better
    <3>3. before' = before /\ answer' = answer
      BY <2>3 DEF searchVars
    <3>4. QED
      BY <2>3, <3>1, <3>2, <3>3 DEF BetterFirst
  <2>4. QED
    BY <2>1, <2>2, <2>3 DEF SearchNext
<1>3. QED
  BY <1>1, <1>2, SearchTypesHold, PTL DEF SearchSpec
=============================================================================
