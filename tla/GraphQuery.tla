----------------------------- MODULE GraphQuery -----------------------------
(***************************************************************************)
(* Graph requests over the view of an index: the engine's neighbours,      *)
(* backlinks, paths and marker lookups (graph_engine.py), and the          *)
(* neighbourhood of seeds (service.py: _GraphView.neighborhood).  One step *)
(* takes an entry of the queue, or follows one edge.                       *)
(*                                                                         *)
(* An entry of the queue is the way it was reached: the engine's walks for *)
(* neighbours, and the frontiers of the neighbourhood, keep its last node  *)
(* and its number of edges, those for paths all of it.                     *)
(***************************************************************************)
EXTENDS Projection

CONSTANTS
    MarkerRelation, \* tagged or cites, as the marker is a tag or a source
    MaxDepth,       \* the depth and the limit a request may ask for
    MaxLimit

ASSUME QueryAssumption ==
    MarkerRelation \in Relations /\ MaxDepth \in Nat /\ MaxLimit \in Nat

Operations == {"neighbors", "backlinks", "neighborhood", "paths", "markers"}
Directions == {"in", "out", "both"}
\* start: the node to start at, the seeds, or the markers that match, without duplicates
Views == [nodes : SUBSET Nodes, edges : Seq(Edge),
          paths : UNION {[S -> Pages \cup {None}] : S \in SUBSET Nodes}]
Request == [operation : Operations, start : Seq(Nodes), target : Nodes,
            direction : Directions, allowed : SUBSET Relations,
            depth : 0..MaxDepth, limit : 1..MaxLimit, drafts : BOOLEAN]

VARIABLES
    index,      \* the projection
    view,       \* the view of it the request may see
    request,
    queue,      \* the ways still to go on from
    way,        \* the one being gone on from
    todo,       \* the ends of edges still to follow from it
    selected,   \* selected_node_ids, or visited
    used,       \* selected_edge_indexes, or traversed_edges
    paths,
    phase

vars == <<index, view, request, queue, way, todo, selected, used, paths, phase>>
input == <<index, view, request>>

NoWay == [nodes |-> <<>>, edges |-> <<>>]

Ways == request.operation = "paths"
Marked == request.operation = "markers"
Listing == request.operation \in {"neighborhood", "markers"}

-----------------------------------------------------------------------------
(* Edges and where they lead *)

E == Len(view.edges)
Way == [nodes : Seq(Nodes), edges : Seq(1..E)]
\* Every edge has two ends to follow.  The engine takes the edges one after the other, either
\* way; the neighbourhood all outgoing edges of a node, then all incoming ones.
EdgeOf(k) == IF request.operation = "neighborhood"
             THEN IF k <= E THEN k ELSE k - E
             ELSE (k + 1) \div 2
Forward(k) == IF request.operation = "neighborhood" THEN k <= E ELSE k % 2 = 1
From(k) == IF Forward(k) THEN view.edges[EdgeOf(k)].source ELSE view.edges[EdgeOf(k)].target
To(k) == IF Forward(k) THEN view.edges[EdgeOf(k)].target ELSE view.edges[EdgeOf(k)].source

Direction == IF request.operation \in {"backlinks", "markers"} THEN "in" ELSE request.direction
Allowed(edge) == IF Marked THEN edge.relation = MarkerRelation
                 ELSE request.allowed = {} \/ edge.relation \in request.allowed

Adjacent(n) == {k \in 1..(2 * E) : /\ From(k) = n
                                   /\ Allowed(view.edges[EdgeOf(k)])
                                   /\ Direction \in {"both", IF Forward(k) THEN "out" ELSE "in"}}

\* The neighbourhood knows an edge by its ends and relation, the engine by its number
IsUsed(e) == IF request.operation = "neighborhood"
             THEN \E i \in DOMAIN used : view.edges[used[i]] = view.edges[e]
             ELSE e \in ToSet(used)

-----------------------------------------------------------------------------
Init ==
    /\ index \in {ix \in Index : \E wiki \in Wiki :
                    /\ IsInjective(wiki.order) /\ ToSet(wiki.order) = Pages
                    /\ ix = ProjectWiki(wiki)}
    /\ request \in {q \in Request : IsInjective(q.start)}
    /\ view \in {v \in Views : v = View(index, request.drafts)}
    \* seeds and markers were found in the view, if any
    /\ IF Listing THEN ToSet(request.start) \subseteq view.nodes ELSE request.start # <<>>
    /\ queue = <<>> /\ way = NoWay /\ todo = {}
    /\ selected = <<>> /\ used = <<>> /\ paths = <<>>
    /\ phase = "ask"

StartNode == request.start[1]
Starts == IF Listing THEN request.start ELSE <<StartNode>>
\* A way of one node
At(n) == [nodes |-> <<n>>, edges |-> <<>>]

\* require_node raises for a node the view does not have
Unknown ==
    /\ ~Listing
    /\ \/ StartNode \notin view.nodes
       \/ Ways /\ request.target \notin view.nodes

Refuse ==
    /\ phase = "ask" /\ Unknown
    /\ phase' = "refused"
    /\ UNCHANGED <<input, queue, way, todo, selected, used, paths>>

\* The nodes a walk starts at are selected at once, markers as they are taken
StartWalk ==
    /\ phase = "ask" /\ ~Unknown /\ ~Ways
    /\ selected' = IF Marked THEN <<>> ELSE Starts
    /\ queue' = [i \in DOMAIN Starts |-> At(Starts[i])]
    /\ phase' = "walk"
    /\ UNCHANGED <<input, way, todo, used, paths>>

StartPaths ==
    /\ phase = "ask" /\ ~Unknown /\ Ways
    /\ IF StartNode = request.target
       THEN /\ paths' = <<At(StartNode)>>
            /\ phase' = "answered"
            /\ UNCHANGED queue
       ELSE /\ queue' = <<At(StartNode)>>
            /\ phase' = "walk"
            /\ UNCHANGED paths
    /\ UNCHANGED <<input, way, todo, selected, used>>

\* Whether the answer has as much as the request asks for
Full == request.limit <= IF Ways THEN Len(paths) ELSE Len(selected)

\* Mutant: the depth is compared too late
DeepBeyond(w) == Len(w.edges) > request.depth
Deep(w) == Len(w.edges) >= request.depth

\* Takes an entry off the queue.  One at the depth asked for is not gone on from.
Take ==
    /\ phase = "walk" /\ todo = {} /\ queue # <<>> /\ ~Full
    /\ way' = Head(queue)
    /\ queue' = Tail(queue)
    /\ LET node == Last(way'.nodes)
       IN  IF Marked
           THEN /\ todo' = Adjacent(node)
                /\ selected' = IF node \in ToSet(selected) THEN selected
                               ELSE Append(selected, node)
           ELSE /\ todo' = IF Deep(way') THEN {} ELSE Adjacent(node)
                /\ UNCHANGED selected
    /\ UNCHANGED <<input, used, paths, phase>>

Onward(k) == [nodes |-> Append(way.nodes, To(k)), edges |-> Append(way.edges, EdgeOf(k))]

\* One edge of a walk.  The limit ends the loop over the edges, and so the walk.
Follow ==
    /\ phase = "walk" /\ todo # {} /\ ~Ways
    /\ LET k == Min(todo)
           new == To(k) \notin ToSet(selected)
           full == Len(selected') >= request.limit
       IN  /\ used' = IF IsUsed(EdgeOf(k)) THEN used ELSE Append(used, EdgeOf(k))
           /\ selected' = IF new THEN Append(selected, To(k)) ELSE selected
           /\ queue' = IF new /\ ~full /\ ~Marked
                       THEN Append(queue, Onward(k)) ELSE queue
           /\ todo' = IF full THEN {} ELSE todo \ {k}
    /\ UNCHANGED <<input, way, paths, phase>>

\* Mutant: one set of visited nodes for all paths
AgainInAny(k) == \E w \in ToSet(queue) \cup {way} : To(k) \in ToSet(w.nodes)
Again(k) == To(k) \in ToSet(way.nodes)

\* One edge of a path, which visits no node twice and ends at the target
FollowPath ==
    /\ phase = "walk" /\ todo # {} /\ Ways
    /\ LET k == Min(todo)
           there == ~Again(k) /\ To(k) = request.target
       IN  /\ paths' = IF there THEN Append(paths, Onward(k)) ELSE paths
           /\ queue' = IF Again(k) \/ there THEN queue ELSE Append(queue, Onward(k))
           /\ todo' = IF there /\ Len(paths') >= request.limit THEN {} ELSE todo \ {k}
    /\ UNCHANGED <<input, way, selected, used, phase>>

Respond ==
    /\ phase = "walk" /\ todo = {} /\ (queue = <<>> \/ Full)
    /\ phase' = "answered"
    /\ UNCHANGED <<input, queue, way, todo, selected, used, paths>>

Next == Refuse \/ StartWalk \/ StartPaths \/ Take \/ Follow \/ FollowPath \/ Respond

Spec == Init /\ [][Next]_vars

\* The response: the nodes, and the edges between them, up to the limit.  Of paths, the nodes
\* and the edges are listed as each comes first.
Merge(s, t) == s \o Picked(t, ToSet(t) \ ToSet(s))
Merged(seqs) ==
    LET merged[n \in 0..Len(seqs)] ==
            IF n = 0 THEN <<>> ELSE Merge(merged[n - 1], seqs[n])
    IN  merged[Len(seqs)]
AnswerNodes ==
    CASE Ways -> Merged([i \in DOMAIN paths |-> paths[i].nodes])
      [] request.operation = "neighborhood" ->
            SubSeq(selected, 1, Min({request.limit, Len(selected)}))
      [] OTHER -> selected
Traversed == IF Ways THEN Merged([i \in DOMAIN paths |-> paths[i].edges]) ELSE used
ClosedEdges ==
    Picked(Traversed, {e \in 1..E : EndsOf(view.edges[e]) \subseteq ToSet(AnswerNodes)})
AnswerEdges == SubSeq(ClosedEdges, 1, Min({request.limit, Len(ClosedEdges)}))

-----------------------------------------------------------------------------
(* Properties *)

TypeOK ==
    /\ index \in Index
    /\ view.nodes \subseteq Nodes /\ view.edges \in Seq(Edge)
    /\ request \in Request
    /\ queue \in Seq(Way) /\ way \in Way /\ paths \in Seq(Way)
    /\ todo \subseteq 1..(2 * E)
    /\ selected \in Seq(Nodes) /\ used \in Seq(1..E)
    /\ phase \in {"ask", "refused", "walk", "answered"}

Walked == phase = "answered" /\ request.operation \in {"neighbors", "backlinks", "neighborhood"}

\* The nodes a view should hold: without drafts every approved page, and what an edge joins
\* to one
Approved == IdsOf(index, index.approved)
Shown == IF request.drafts
         THEN IdsOf(index, Pages) \cup {n \in Others : \E e \in ToSet(index.edges) : n \in EndsOf(e)}
         ELSE Approved \cup {n \in Others : \E e \in ToSet(index.edges) :
                                n \in EndsOf(e) /\ EndsOf(e) \cap Approved # {}}

\* A draft with the id of an approved page, as a copy of its file has
Shares(draft) == draft \notin index.approved /\ index.id[draft] \in Approved

\* Without drafts the view says nothing of a page that is not approved: no node of it, no edge
\* from or to it, and what it shares with approved pages carries the path of one of those.
\* Only a draft that has the id of an approved page can be shown, in the place of that page's
\* node (and its edges are that node's); it is shown if it comes first.
\* (service.py approved_graph_view: a node has the path of whoever named it first.)
ApprovedOnly ==
    /\ view.nodes = Shown
    /\ ToSet(view.edges) = {e \in ToSet(index.edges) : EndsOf(e) \subseteq Shown}
    /\ ~request.drafts =>
        \A n \in view.nodes :
            LET page == view.paths[n]
            IN  \/ page \in index.approved
                \/ n \in Approved /\ page \in Pages /\ Shares(page) /\ index.id[page] = n

\* The edges that a request may go along from n to m
Between(n, m) ==
    {e \in DOMAIN view.edges :
        LET edge == view.edges[e]
        IN  /\ Allowed(edge)
            /\ \/ Direction # "in" /\ edge.source = n /\ edge.target = m
               \/ Direction # "out" /\ edge.source = m /\ edge.target = n}

\* The nodes within a number of edges of those the walk starts at
Within ==
    LET nodes[d \in 0..request.depth] ==
            IF d = 0 THEN ToSet(Starts)
            ELSE LET nearer == nodes[d - 1]
                 IN  nearer \cup {m \in Shown : \E n \in nearer : Between(n, m) # {}}
    IN  nodes

\* A walk answers with the nodes within the depth asked for and no others, nearest first.
\* It leaves some out only at its limit, and then none nearer than one it returns.
\* (graph_engine.py _neighbors, service.py neighborhood: the order of the queue and the
\* frontiers, the depth of an entry, the breaks at the limit, the visibility of the view.)
NearestFirst ==
    Walked =>
        LET within == Within
            all == within[request.depth]
            distance == [n \in all |-> Min({d \in DOMAIN within : n \in within[d]})]
        IN  /\ ToSet(AnswerNodes) \subseteq all /\ IsInjective(AnswerNodes)
            /\ Len(AnswerNodes) = Min({request.limit, Cardinality(all)})
            /\ \A i, j \in DOMAIN AnswerNodes :
                   i < j => distance[AnswerNodes[i]] <= distance[AnswerNodes[j]]
            /\ \A n \in all \ ToSet(AnswerNodes) :
                   distance[n] >= distance[Last(AnswerNodes)]

\* Every node of an answer but the ones it started at is joined, by an edge of the answer
\* that the request may go along, to a node before it, unless the limit cut edges off.
\* (graph_engine.py response and service.py neighborhood: edges are selected as they are
\* followed, closed over the nodes, and cut last.)
JoinedUnlessCut ==
    phase = "answered" /\ ~Marked /\ Len(ClosedEdges) <= request.limit =>
        \A i \in DOMAIN AnswerNodes :
            i > Len(Starts) =>
                \E j \in 1..(i - 1) :
                    Between(AnswerNodes[j], AnswerNodes[i]) \cap ToSet(AnswerEdges) # {}

\* A marker lookup answers with the markers and the pages that carry them, all of them below
\* its limit.  The limit is checked behind each edge: a marker that is the last node to fit
\* still brings one page, and none goes further.
\* (graph_engine.py _by_marker_node: the two breaks.)
MarkersAnswered ==
    phase = "answered" /\ Marked =>
        LET carriers(m) == {n \in Shown : Between(m, n) # {}}
            all == ToSet(Starts) \cup UNION {carriers(m) : m \in ToSet(Starts)}
        IN  /\ ToSet(selected) \subseteq all /\ IsInjective(selected)
            /\ Len(selected) < request.limit => ToSet(selected) = all
            /\ Len(selected) >= Min({request.limit, Cardinality(all)})
            /\ Len(selected) > request.limit =>
                  /\ Len(selected) = request.limit + 1
                  /\ selected[request.limit] \in ToSet(Starts)
                  /\ Last(selected) \in carriers(selected[request.limit])

\* What a walk answers with: the nearest nodes, each joined to one before it; and what a lookup
\* of markers answers with.
\* (graph_engine.py _neighbors and _by_marker_node, service.py neighborhood.)
WalksAnswered == NearestFirst /\ JoinedUnlessCut /\ MarkersAnswered

\* The ways of a number of edges that take no node twice and end where they reach the target
SimpleWaysOf ==
    LET ways[d \in 0..request.depth] ==
            IF d = 0 THEN {At(StartNode)}
            ELSE LET shorter == {w \in ways[d - 1] : Last(w.nodes) # request.target}
                     further(w) == UNION {{[nodes |-> Append(w.nodes, m),
                                            edges |-> Append(w.edges, e)] :
                                               e \in Between(Last(w.nodes), m)} :
                                            m \in Shown \ ToSet(w.nodes)}
                 IN  UNION {further(w) : w \in shorter}
    IN  ways

\* Those to the target, of at most the depth asked for
SimpleWays == LET ways == SimpleWaysOf
              IN  {w \in UNION {ways[d] : d \in 0..request.depth} :
                      Last(w.nodes) = request.target}

\* Every path returned leads from the start to the target along edges the request may go along,
\* takes no node twice and is within the depth asked for.
\* (graph_engine.py _paths: the copies of a path on the queue.)
PathsAreReal ==
    \A w \in ToSet(paths) :
        /\ w.nodes # <<>> /\ w.nodes[1] = StartNode /\ Last(w.nodes) = request.target
        /\ IsInjective(w.nodes)
        /\ Len(w.nodes) = Len(w.edges) + 1 /\ Len(w.edges) <= request.depth
        /\ \A i \in DOMAIN w.edges : w.edges[i] \in Between(w.nodes[i], w.nodes[i + 1])

\* The answer has every such path, each once and shortest first; it leaves some out only at its
\* limit, and then the longest.
\* (graph_engine.py _paths: the order of the queue, the two breaks.)
PathsAreAll ==
    phase = "answered" /\ Ways =>
        LET all == SimpleWays
        IN  /\ IsInjective(paths)
            /\ Len(paths) = Min({request.limit, Cardinality(all)})
            /\ \A i, j \in DOMAIN paths : i < j => Len(paths[i].edges) <= Len(paths[j].edges)
            /\ \A w \in all \ ToSet(paths) : Len(w.edges) >= Len(Last(paths).edges)

RealPaths == PathsAreReal /\ PathsAreAll
=============================================================================
