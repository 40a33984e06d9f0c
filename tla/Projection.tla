------------------------------ MODULE Projection ------------------------------
(***************************************************************************)
(* The graph of an index (projection.py: project_wiki), and what a service *)
(* shows of it: all of it, or without drafts what approved pages say       *)
(* (service.py: approved_graph_view).                                      *)
(*                                                                         *)
(* A wiki is its pages in the order they were loaded, the id each has in   *)
(* its front matter or from its path, what each names, the parent its file *)
(* name gives it, and the edges of a graph.json beside them.  Nothing says *)
(* that ids are unique: pages with one id are one node, which has the path *)
(* of the first of them.  Whatever is not a page (a heading, a type, a     *)
(* source, a tag, an unresolved link) becomes a node with the path of the  *)
(* page it is named with first.                                            *)
(***************************************************************************)
EXTENDS Naturals, FiniteSets, SequencesExt

CONSTANTS
    Pages,      \* each standing for its path
    Ids,        \* of pages, each standing for its node
    Others,     \* what pages name that is no page
    Relations,
    ParentOf,   \* the relation of a hierarchy in file names
    None        \* the empty path, or no parent

Nodes == Ids \cup Others
Edge == [source : Nodes, target : Nodes, relation : Relations]
\* Pages name pages, whatever their ids
Named == Pages \cup Others
Name == [node : Named, relation : Relations]
Link == [source : Named, target : Named, relation : Relations]
Wiki == [order : Seq(Pages), id : [Pages -> Ids], names : [Pages -> Seq(Name)],
         parent : [Pages -> Named \cup {None}], sidecar : Seq(Link), approved : SUBSET Pages]
\* paths: of the nodes, as they were named first
Index == [order : Seq(Pages), id : [Pages -> Ids], edges : Seq(Edge),
          paths : [Nodes -> Pages \cup {None}], approved : SUBSET Pages]

ASSUME ProjectionAssumption ==
    /\ Pages \cap Others = {} /\ Ids \cap Others = {}
    /\ None \notin Nodes \cup Pages /\ ParentOf \in Relations

\* The elements of a sequence that are in a set, in their order
Picked(s, set) ==
    LET picked[n \in 0..Len(s)] ==
            IF n = 0 THEN <<>>
            ELSE IF s[n] \in set THEN Append(picked[n - 1], s[n]) ELSE picked[n - 1]
    IN  picked[Len(s)]

-----------------------------------------------------------------------------
(* The projection of a wiki *)

EndsOf(edge) == {edge.source, edge.target}

PageLinks(wiki, p) ==
    [i \in DOMAIN wiki.names[p] |-> [source |-> p, target |-> wiki.names[p][i].node,
                                     relation |-> wiki.names[p][i].relation]]
ParentLinks(wiki, p) ==
    IF wiki.parent[p] = None THEN <<>>
    ELSE <<[source |-> wiki.parent[p], target |-> p, relation |-> ParentOf]>>

Links(wiki) ==
    LET of(LinksOf(_)) == FlattenSeq([i \in DOMAIN wiki.order |-> LinksOf(wiki.order[i])])
    IN  of(LAMBDA p : PageLinks(wiki, p)) \o of(LAMBDA p : ParentLinks(wiki, p)) \o wiki.sidecar

\* The first of those alike stays
Deduped(edges) ==
    LET first == Picked([k \in DOMAIN edges |-> k],
                        {k \in DOMAIN edges : \A j \in 1..(k - 1) : edges[j] # edges[k]})
    IN  [i \in DOMAIN first |-> edges[first[i]]]

NodeOf(wiki, n) == IF n \in Pages THEN wiki.id[n] ELSE n
EdgeOfLink(wiki, link) == [source |-> NodeOf(wiki, link.source),
                           target |-> NodeOf(wiki, link.target), relation |-> link.relation]

\* The path of the page at the other end of a link, or no path
PathAt(link) ==
    LET pages == EndsOf(link) \cap Pages
    IN  IF pages = {} THEN None ELSE CHOOSE p \in pages : TRUE
\* The path of a node is that of the first page with its id, or of the first link that names it
NodePath(wiki, links, n) ==
    LET having == {i \in DOMAIN wiki.order : wiki.id[wiki.order[i]] = n}
        naming == {k \in DOMAIN links : n \in EndsOf(links[k])}
    IN  IF n \in Ids THEN IF having = {} THEN None ELSE wiki.order[Min(having)]
        ELSE IF naming = {} THEN None ELSE PathAt(links[Min(naming)])

ProjectWiki(wiki) ==
    LET links == Links(wiki)
    IN  [order |-> wiki.order, id |-> wiki.id, approved |-> wiki.approved,
         edges |-> Deduped([k \in DOMAIN links |-> EdgeOfLink(wiki, links[k])]),
         paths |-> [n \in Nodes |-> NodePath(wiki, links, n)]]

-----------------------------------------------------------------------------
(* What a service shows of it *)

IdsOf(index, pages) == {index.id[p] : p \in pages}

\* The edges that join a node to an approved page
Approving(index, n) ==
    {k \in DOMAIN index.edges :
        /\ n \in EndsOf(index.edges[k])
        /\ EndsOf(index.edges[k]) \cap IdsOf(index, index.approved) # {}}
AdjacentNonPageNodes(index) == {n \in Others : Approving(index, n) # {}}

\* The nodes of an index: its pages, and what an edge names
NodesOf(index) ==
    IdsOf(index, Pages) \cup {n \in Others : \E k \in DOMAIN index.edges : n \in EndsOf(index.edges[k])}

VisibleNodes(index) ==
    {n \in NodesOf(index) : \/ n \in IdsOf(index, index.approved)
                           \/ index.paths[n] \in index.approved
                           \/ n \in AdjacentNonPageNodes(index)}

\* The approved page with an id, the last of them
ApprovedPage(index, id) ==
    LET having == {i \in DOMAIN index.order :
                      index.order[i] \in index.approved /\ index.id[index.order[i]] = id}
    IN  index.order[Max(having)]

\* Mutant: a node keeps the path of the page that named it first
ApprovedPathFirst(index, n) == index.paths[n]

\* The path a node is shown with: that of the first approved page beside it.  A page's node is
\* shown as it is.
ApprovedPath(index, n) ==
    IF n \in AdjacentNonPageNodes(index)
    THEN LET edge == index.edges[Min(Approving(index, n))]
         IN  ApprovedPage(index, CHOOSE id \in EndsOf(edge) : id \in IdsOf(index, index.approved))
    ELSE index.paths[n]

EdgesBetween(edges, shown) == Picked(edges, {e \in Edge : EndsOf(e) \subseteq shown})

View(index, drafts) ==
    LET shown == IF drafts THEN NodesOf(index) ELSE VisibleNodes(index)
    IN  [nodes |-> shown,
         edges |-> EdgesBetween(index.edges, shown),
         paths |-> [n \in shown |-> IF drafts THEN index.paths[n] ELSE ApprovedPath(index, n)]]
==============================================================================
