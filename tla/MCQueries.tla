---------------------------- MODULE MCQueries -----------------------------
(***************************************************************************)
(* A request of the graph, the searches of a client, or the reads of one:  *)
(* each is checked from its own initial states, while the others stand     *)
(* still.                                                                  *)
(***************************************************************************)
EXTENDS GraphQuery, Retrieval, FocusedRead, TLC

CONSTANTS p, q, d,  \* pages, d a draft
          t, u,     \* tags
          none
MCPages == {p, q, d}
MCIds == MCPages
MCOthers == {t, u}

Arrow(a, b, r) == [source |-> a, target |-> b, relation |-> r]
\* Cycles, a page that is only reached through the draft, tags of one and of two pages, two
\* relations between the same pages, an edge from a page to itself
ArrowList == <<Arrow(p, q, "links_to"), Arrow(p, q, "part_of"), Arrow(q, p, "links_to"),
               Arrow(p, d, "links_to"), Arrow(d, q, "links_to"), Arrow(p, p, "links_to"),
               Arrow(p, t, "tagged"), Arrow(d, t, "tagged"), Arrow(q, u, "tagged")>>
Arrows == ToSet(ArrowList)
CONSTANTS MaxEdges, MaxReversed, MaxShared
Own == [page \in Pages |-> page]
NamedBy(page, arrows) ==
    LET its == SelectSeq(arrows, LAMBDA a : a.source = page)
    IN  [i \in DOMAIN its |-> [node |-> its[i].target, relation |-> its[i].relation]]
\* Pages that name what S has, in an order and in the other with the draft first; a parent from
\* the file name, a graph.json that names a tag before any page does
WikiOf(S, order, arrows, id) ==
    [order |-> order, id |-> id, names |-> [page \in Pages |-> NamedBy(page, SelectSeq(arrows, LAMBDA a : a \in S))],
     parent |-> [page \in Pages |-> IF page = q /\ Cardinality(S) < 3 THEN u ELSE None],
     sidecar |-> IF Cardinality(S) < 3 THEN <<Arrow(t, u, "links_to"), Arrow(u, p, "tagged")>>
                 ELSE <<>>,
     approved |-> {p, q}]
ArrowsUpto(n) == {S \in SUBSET Arrows : Cardinality(S) <= n}
\* Pages have ids of their own, or the draft has that of an approved page
Wikis == {WikiOf(S, <<p, q, d>>, ArrowList, Own) : S \in ArrowsUpto(MaxEdges)}
         \cup {WikiOf(S, <<d, q, p>>, Reverse(ArrowList), Own) : S \in ArrowsUpto(MaxReversed)}
         \cup {WikiOf(S, order, ArrowList, [Own EXCEPT ![d] = p]) :
                   S \in ArrowsUpto(MaxShared), order \in {<<p, q, d>>, <<d, q, p>>}}

Ask(operation, starts, targets, directions, relations) ==
    [operation : {operation}, start : starts, target : targets, direction : directions,
     allowed : relations, depth : 0..MaxDepth, limit : 1..MaxLimit, drafts : BOOLEAN]
Requests ==
    UNION {Ask("neighbors", {<<p>>}, {p}, {"out", "both"}, {{}, {"links_to", "tagged"}}),
           Ask("backlinks", {<<q>>, <<t>>}, {p}, {"out"}, {{}}),
           Ask("neighborhood", {<<>>, <<p>>, <<d, q>>, <<t, u>>}, {p}, Directions, {{}}),
           Ask("paths", {<<p>>}, {p, q, t}, {"out", "both"}, {{}}),
           Ask("markers", {<<t>>, <<t, u>>}, {p}, {"both"}, {{}})}

MCQueryInit ==
    /\ \E wiki \in Wikis : index = ProjectWiki(wiki)
    /\ request \in Requests
    /\ view = View(index, request.drafts)
    /\ Listing => ToSet(request.start) \subseteq view.nodes
    /\ queue = <<>> /\ way = NoWay /\ todo = {}
    /\ selected = <<>> /\ used = <<>> /\ paths = <<>>
    /\ phase = "ask"

-----------------------------------------------------------------------------
CONSTANTS g, h, p1, p2, other
MCCorpus == {g, h, p1, p2}
MCRole == (g :> "overview") @@ (h :> "index") @@ (p1 :> "topic") @@ (p2 :> "topic")
MCPath == (g :> 2) @@ (h :> 4) @@ (p1 :> 3) @@ (p2 :> 1)
MCVariants == {other}

\* One page at a time is boosted, above the band
MCBoosts == {[x \in Corpus |-> IF x = boosted THEN TieBand + 2 ELSE 0] : boosted \in {g, p1, p2}}

Zeros == [x \in Corpus |-> 0]
Orientation(S, T) == [hub \in Hubs |-> IF hub = h THEN S ELSE T]
Scores(low, high) == {f \in [Corpus -> 0..MaxScore] : f[g] <= low /\ f[h] <= low /\ f[p1] <= high /\ f[p2] <= high}

Lexical ==
    /\ mode = "lexical" /\ channels = {Primary}
    /\ score \in [{Primary} -> Scores(1, MaxScore)]
    /\ limit \in 1..MaxAnswers
Fusion ==
    /\ mode = "lexical" /\ channels # {Primary}
    /\ score \in [channels -> {f \in Scores(3, 3) : f[g] = 0 /\ f[h] < 2 /\ \A x \in Corpus : f[x] # 2}]
    /\ limit \in 1..MaxAnswers
Vector ==
    /\ mode = "vector" /\ score = [c \in channels |-> Zeros]
    /\ sim \in Scores(1, 2) /\ limit \in 1..MaxAnswers
\* Two hubs, of which one is a candidate for the answer when two pages are asked for
HybridSearch ==
    /\ mode = "hybrid"
    /\ score \in [{Primary} -> Scores(1, 1)] /\ sim \in Scores(1, 2) /\ sim[g] = 0
    /\ links \in {Orientation({}, {}), Orientation({p1, p2}, {p2}), Orientation({g, p2}, {})}
    /\ limit \in 1..MaxAnswers /\ explicit = (IF limit = 1 \/ text[Primary] = "none" THEN {} ELSE {h})

MCSearchInit ==
    /\ Query
    /\ \/ (Lexical \/ Fusion) /\ sim = Zeros /\ links = Orientation({}, {}) /\ explicit = {}
       \/ Vector /\ links = Orientation({}, {}) /\ explicit = {}
       \/ HybridSearch
    /\ \A c \in channels : text[c] # "words" => score[c] = Zeros
    /\ text[Primary] = "none" => sim = Zeros
    /\ Guarded
    /\ mode = "hybrid" /\ guard # Nil => links = Orientation({p1}, {})
    /\ visible = Corpus /\ publications = 0
    /\ seen = {} /\ before = Nil /\ answer = NoPage

-----------------------------------------------------------------------------
\* Longer than the budget or more than half of it, and a short part before the first heading
MCReadInit == ReadInit /\ chars[0] < 3 /\ \A i \in Headings : chars[i] > 1

NoRead ==
    /\ levels = <<>> /\ chars = [i \in {0} |-> 0] /\ blank = FALSE /\ budget = 0
    /\ wanted = {} /\ had = chars /\ asked = <<>> /\ returned = 0 /\ truncated = FALSE /\ reads = 0

-----------------------------------------------------------------------------
NoSearch ==
    /\ mode = "lexical" /\ channels = {Primary} /\ text = [c \in channels |-> "none"]
    /\ score = [c \in channels |-> Zeros] /\ sim = Zeros /\ guard = Nil
    /\ links = Orientation({}, {}) /\ explicit = {} /\ visible = {} /\ publications = 0
    /\ limit = 0 /\ seen = {} /\ before = Nil /\ answer = NoPage

NoQuery ==
    /\ index = ProjectWiki(WikiOf({}, <<p, q, d>>, ArrowList, Own))
    /\ request = CHOOSE req \in Requests : TRUE
    /\ view = View(index, FALSE)
    /\ queue = <<>> /\ way = NoWay /\ todo = {} /\ selected = <<>> /\ used = <<>> /\ paths = <<>>
    /\ phase = "ask"

MCInit ==
    \/ MCQueryInit /\ NoSearch /\ NoRead
    \/ NoQuery /\ MCSearchInit /\ NoRead
    \/ NoQuery /\ NoSearch /\ MCReadInit

MCNext ==
    \/ limit = 0 /\ budget = 0 /\ Next /\ UNCHANGED <<searchVars, readVars>>
    \/ limit > 0 /\ SearchNext /\ UNCHANGED <<vars, readVars>>
    \/ budget > 0 /\ ReadNext /\ UNCHANGED <<vars, searchVars>>

MCSpec == MCInit /\ [][MCNext]_<<vars, searchVars, readVars>>
=============================================================================
